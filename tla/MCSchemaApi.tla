----------------------------- MODULE MCSchemaApi -----------------------------
(***************************************************************************)
(* Small instances of SchemaApi.                                           *)
(***************************************************************************)
EXTENDS SchemaApi

CONSTANTS d1, d2, d3, t1, t2, k1, k2, v1

AnyMatch == [how |-> "Any", seq |-> 0]

Req(kind) == [kind |-> kind, db |-> d1, tb |-> t1, newDb |-> d1, newTb |-> t1,
              id |-> 1, match |-> AnyMatch, key |-> k1, val |-> v1]

DbReqs(kinds) == {[Req(k) EXCEPT !.db = n] : k \in kinds, n \in Names}
RenameDbReqs == {[Req("rename_database") EXCEPT !.db = n, !.newDb = m] : n, m \in Names}
RenameTbReqs == {[Req("rename_table") EXCEPT !.db = n, !.newDb = m] : n, m \in Names}

MCRequests ==
  DbReqs({"create_database", "drop_database", "create_table", "drop_table"})
    \cup RenameDbReqs \cup RenameTbReqs

\* Everything but create_database: see CreatesOnce.
AllButCreateDatabase ==
  {"drop_database", "rename_database", "create_table", "drop_table", "rename_table",
   "upsert_table_option"}

(***************************************************************************)
(* The store after create_database(d1), create_database(d2) and            *)
(* create_table(d1, t1): ids 1, 4 and 7.                                   *)
(***************************************************************************)
PopulatedInit ==
  /\ seq = 10
  /\ dbName = [n \in Names |-> CASE n = d1 -> [seq |-> 2, id |-> 1]
                                [] n = d2 -> [seq |-> 5, id |-> 4]
                                [] OTHER  -> NoId]
  /\ dbMeta = [i \in Ids |-> CASE i = 1 -> 8 [] i = 4 -> 6 [] OTHER -> 0]
  /\ tbName = [i \in Ids |-> [t \in TNames |->
                IF i = 1 /\ t = t1 THEN [seq |-> 9, id |-> 7] ELSE NoId]]
  /\ tbMeta = [i \in Ids |-> IF i = 7 THEN [seq |-> 10, opts |-> NoOptions] ELSE NoMeta]
  /\ pc = [c \in Clients |-> "idle"]
  /\ op = [c \in Clients |-> NoRequest]
  /\ rd = [c \in Clients |-> NothingRead]
  /\ ops = MaxOps
  /\ dropped = {}

PopulatedSpec == PopulatedInit /\ [][Next]_vars
FairPopulatedSpec == PopulatedSpec /\ \A c \in Clients : WF_vars(Step(c))

OptionReqs ==
  {[Req("upsert_table_option") EXCEPT !.id = 7, !.key = k] : k \in OptKeys}
    \cup {[Req("upsert_table_option") EXCEPT !.id = 7, !.match = m] :
             m \in {[how |-> "Exact", seq |-> 10], [how |-> "GE", seq |-> 11]}}

\* Moves of t1 from d1 to d2 and back, and to another name of d1.
MoveReqs ==
  {[Req("rename_table") EXCEPT !.newDb = d2],
   [Req("rename_table") EXCEPT !.db = d2],
   [Req("rename_table") EXCEPT !.newTb = t2]}

On(n, kinds) == {[Req(k) EXCEPT !.db = n] : k \in kinds}

TableRequests ==
  OptionReqs \cup MoveReqs
    \cup On(d1, {"create_table", "drop_table", "drop_database", "get_table"})
    \cup On(d2, {"create_table", "drop_table", "drop_database", "get_database"})
    \cup {[Req("rename_database") EXCEPT !.db = d2, !.newDb = d3],
          [Req("get_table_by_id") EXCEPT !.id = 7]}
=============================================================================
