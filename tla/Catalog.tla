------------------------------- MODULE Catalog -------------------------------
(***************************************************************************)
(* What the catalog promises its callers: every operation of SchemaApi     *)
(* takes effect at one instant, on names that are bound at that instant,   *)
(* and an id, once given to a database or a table, is never given again.   *)
(***************************************************************************)
EXTENDS Integers

CONSTANTS Names, TNames, Ids, OptKeys, OptVals, NoOpt

VARIABLES dbs,      \* database name -> id, 0 when there is no such database
          tables,   \* database id -> table name -> table id or 0
          options,  \* table id -> its options
          retired   \* the ids of what has been dropped

vars == <<dbs, tables, options, retired>>

LiveTables == {tables[d][t] : d \in Ids, t \in TNames} \ {0}
LiveDbs == {dbs[n] : n \in Names} \ {0}
Fresh(i) == i \notin LiveTables \cup LiveDbs \cup retired

Init ==
  /\ dbs = [n \in Names |-> 0]
  /\ tables = [d \in Ids |-> [t \in TNames |-> 0]]
  /\ options = [i \in Ids |-> [k \in OptKeys |-> NoOpt]]
  /\ retired = {}

CreateDatabase(n, i) ==
  /\ dbs[n] = 0
  /\ dbs' = [dbs EXCEPT ![n] = i]
  /\ Fresh(i)
  /\ UNCHANGED <<tables, options, retired>>

DropDatabase(n) ==
  /\ dbs[n] # 0
  /\ dbs' = [dbs EXCEPT ![n] = 0]
  /\ retired' = retired \cup {dbs[n]}
  /\ UNCHANGED <<tables, options>>

RenameDatabase(n, m) ==
  /\ dbs[n] # 0 /\ dbs[m] = 0
  /\ dbs' = [dbs EXCEPT ![n] = 0, ![m] = dbs[n]]
  /\ UNCHANGED <<tables, options, retired>>

CreateTable(d, t, i) ==
  /\ tables[d][t] = 0
  /\ tables' = [tables EXCEPT ![d][t] = i]
  /\ Fresh(i)
  /\ UNCHANGED <<dbs, options, retired>>

DropTable(d, t) ==
  /\ tables[d][t] # 0
  /\ tables' = [tables EXCEPT ![d][t] = 0]
  /\ options' = [options EXCEPT ![tables[d][t]] = [k \in OptKeys |-> NoOpt]]
  /\ retired' = retired \cup {tables[d][t]}
  /\ UNCHANGED dbs

RenameTable(d, t, e, u) ==
  /\ tables[d][t] # 0 /\ tables[e][u] = 0
  /\ tables' = [tables EXCEPT ![d][t] = 0, ![e][u] = tables[d][t]]
  /\ UNCHANGED <<dbs, options, retired>>

SetOption(i, k, v) ==
  /\ options' = [options EXCEPT ![i][k] = v]
  /\ UNCHANGED <<dbs, tables, retired>>

Next ==
  \/ \E n \in Names, i \in Ids : CreateDatabase(n, i)
  \/ \E n \in Names : DropDatabase(n)
  \/ \E n, m \in Names : RenameDatabase(n, m)
  \/ \E d \in LiveDbs, t \in TNames, i \in Ids : CreateTable(d, t, i)
  \/ \E d \in LiveDbs, t \in TNames : DropTable(d, t)
  \/ \E d, e \in LiveDbs, t, u \in TNames : RenameTable(d, t, e, u)
  \/ \E i \in LiveTables, k \in OptKeys, v \in OptVals \cup {NoOpt} : SetOption(i, k, v)

Spec == Init /\ [][Next]_vars
=============================================================================
