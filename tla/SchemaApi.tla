------------------------------ MODULE SchemaApi ------------------------------
(***************************************************************************)
(* The catalog operations of common/meta/api/src/schema_api_impl.rs.       *)
(*                                                                         *)
(* Every operation is an optimistic loop: it reads a few records of the    *)
(* meta service one `get_kv` at a time, may generate an id, and then sends *)
(* one transaction that is conditioned on the seq numbers it read.  When   *)
(* the transaction is refused the loop starts over.  Clients (query nodes) *)
(* interleave between any two calls.  A call may fail, and the caller then *)
(* gets the error.  When the status of a transaction is Internal or        *)
(* Unauthenticated, grpc_client.rs sends it once more, although it may     *)
(* have been executed: Resent says for which operations that happens.      *)
(*                                                                         *)
(* The store is the key space of the meta service, split by key prefix:    *)
(*   dbName[n]     __fd_database/<tenant>/<n>    -> (seq, db_id)           *)
(*   dbMeta[i]     __fd_database_by_id/<i>       -> (seq, DatabaseMeta)    *)
(*   tbName[i][t]  __fd_table/<i>/<t>            -> (seq, table_id)        *)
(*   tbMeta[i]     __fd_table_by_id/<i>          -> (seq, TableMeta)       *)
(* A seq of 0 says that the record is absent.  DatabaseMeta is never       *)
(* changed by an operation, so only its seq is kept; TableMeta is kept as  *)
(* its table options.                                                      *)
(***************************************************************************)
EXTENDS Integers

CONSTANTS Clients,    \* the callers: query nodes and their sessions
          Names,      \* database names of one tenant
          TNames,     \* table names
          OptKeys,    \* keys of the table options
          OptVals,    \* values of the table options
          NoOpt,      \* the value of an option that is not set
          MaxSeq,     \* bound: the largest seq number handed out
          MaxOps,     \* bound: operations that are started plus answers that are lost
          Requests,   \* the requests that callers make
          Resent      \* the operations whose transaction may be sent twice

ASSUME BoundAssumption == MaxSeq \in Nat /\ MaxOps \in Nat

VARIABLES seq,        \* the sequence "generic-kv" of the state machine
          dbName, dbMeta, tbName, tbMeta,
          pc,         \* the call a client makes next
          op,         \* the request a client executes
          rd,         \* the records a client has read in this round
          ops,        \* the operations that may still be started, a lost answer
                      \* counting as one
          dropped     \* history: the ids whose meta record was deleted

store == <<seq, dbName, dbMeta, tbName, tbMeta, dropped>>
local == <<pc, op, rd>>
vars == <<store, local, ops>>

Ids == 1..MaxSeq
Seqs == 0..MaxSeq
Options == [OptKeys -> OptVals \cup {NoOpt}]
NoOptions == [k \in OptKeys |-> NoOpt]

IdRecord == [seq : Seqs, id : Seqs]
MetaRecord == [seq : Seqs, opts : Options]
NoId == [seq |-> 0, id |-> 0]
NoMeta == [seq |-> 0, opts |-> NoOptions]

\* MatchSeq: Any, Exact(s), and GE(s).
MatchSeq == [how : {"Any", "Exact", "GE"}, seq : Seqs]

match_seq(want, got) ==
  \/ want.how = "Any"
  \/ want.how = "Exact" /\ got = want.seq
  \/ want.how = "GE" /\ got >= want.seq

\* The requests of all operations in one record; each reads its own fields.
Request == [kind : {"create_database", "drop_database", "rename_database",
                    "create_table", "drop_table", "rename_table",
                    "upsert_table_option", "get_database", "get_table",
                    "get_table_by_id"},
            db : Names, tb : TNames, newDb : Names, newTb : TNames,
            id : Ids, match : MatchSeq,
            key : OptKeys, val : OptVals \cup {NoOpt}]

\* create_database has no record to be conditioned on but the free name: its
\* transaction can be executed again when the database has been dropped or
\* renamed in between, and gives a second life, or a second name, to the same
\* id.  Everything else is safe to send twice.
CreatesOnce == "create_database" \notin Resent

ASSUME RequestsAssumption == Requests \subseteq Request /\ Requests # {}

\* What op[c] holds while client c executes nothing.
NoRequest == CHOOSE r \in Requests : TRUE

Reads == [name : IdRecord, meta : Seqs, tb : IdRecord, tbMeta : MetaRecord,
          newName : IdRecord, newMeta : Seqs, newTb : IdRecord, newId : Seqs]

NothingRead == [name |-> NoId, meta |-> 0, tb |-> NoId, tbMeta |-> NoMeta,
                newName |-> NoId, newMeta |-> 0, newTb |-> NoId, newId |-> 0]

PCs == {"idle", "name", "meta", "tb", "tbMeta",
        "newName", "newMeta", "newTb", "fetch_id", "txn", "resend"}

-----------------------------------------------------------------------------
(***************************************************************************)
(* The order of the calls of one round of each operation.                  *)
(***************************************************************************)

ById == {"upsert_table_option", "get_table_by_id"}

FirstCall(kind) == IF kind \in ById THEN "tbMeta" ELSE "name"

\* The call after a get of the database id; get_table does not read the meta.
AfterName(kind) ==
  CASE kind = "create_database" -> "fetch_id"
    [] kind = "rename_database" -> "newName"
    [] kind = "get_table"       -> "tb"
    [] OTHER                    -> "meta"

AfterMeta(kind) ==
  CASE kind = "drop_database" -> "txn"
    [] kind = "get_database"  -> "idle"
    [] OTHER                  -> "tb"

AfterTb(kind) ==
  CASE kind = "create_table" -> "fetch_id"
    [] kind = "rename_table" -> "newName"
    [] OTHER                 -> "tbMeta"

AfterTbMeta(kind) ==
  IF kind \in {"get_table", "get_table_by_id"} THEN "idle" ELSE "txn"

AfterNewName(kind) == IF kind = "rename_database" THEN "txn" ELSE "newMeta"

-----------------------------------------------------------------------------
(***************************************************************************)
(* The calls that read.  A record that must exist (db_has_to_exist,        *)
(* table_has_to_exist) and does not, or must be absent and is not, ends    *)
(* the operation with an error, or with the harmless reply of if_exists    *)
(* and if_not_exists.                                                      *)
(***************************************************************************)

Finish(c) ==
  /\ pc' = [pc EXCEPT ![c] = "idle"]
  /\ op' = [op EXCEPT ![c] = NoRequest]
  /\ rd' = [rd EXCEPT ![c] = NothingRead]

\* A get of client c returned: remember what was read and make the next call,
\* or return to the caller.
Returned(c, read, ok, next) ==
  /\ IF ok /\ next # "idle"
     THEN /\ rd' = [rd EXCEPT ![c] = read]
          /\ pc' = [pc EXCEPT ![c] = next]
          /\ op' = op
     ELSE Finish(c)
  /\ UNCHANGED <<store, ops>>

GetDbId(c) ==
  LET kind == op[c].kind
      got  == dbName[op[c].db]
  IN  /\ pc[c] = "name"
      /\ Returned(c, [rd[c] EXCEPT !.name = got],
                  (got.seq = 0) <=> (kind = "create_database"),
                  AfterName(kind))

GetDbMeta(c) ==
  LET got == dbMeta[rd[c].name.id]
  IN  /\ pc[c] = "meta"
      /\ Returned(c, [rd[c] EXCEPT !.meta = got], got > 0,
                  AfterMeta(op[c].kind))

GetTableId(c) ==
  LET kind == op[c].kind
      got  == tbName[rd[c].name.id][op[c].tb]
  IN  /\ pc[c] = "tb"
      /\ Returned(c, [rd[c] EXCEPT !.tb = got],
                  (got.seq = 0) <=> (kind = "create_table"),
                  AfterTb(kind))

\* drop_table goes on with whatever it reads; upsert_table_option compares
\* the seq with the one of the request.
GetTableMeta(c) ==
  LET kind == op[c].kind
      got  == tbMeta[IF kind \in ById THEN op[c].id ELSE rd[c].tb.id]
      ok   == \/ kind = "drop_table"
              \/ /\ got.seq > 0
                 /\ kind = "upsert_table_option" => match_seq(op[c].match, got.seq)
  IN  /\ pc[c] = "tbMeta"
      /\ Returned(c, [rd[c] EXCEPT !.tbMeta = got], ok, AfterTbMeta(kind))

GetNewDbId(c) ==
  LET kind == op[c].kind
      got  == dbName[op[c].newDb]
  IN  /\ pc[c] = "newName"
      /\ Returned(c, [rd[c] EXCEPT !.newName = got],
                  (got.seq = 0) <=> (kind = "rename_database"),
                  AfterNewName(kind))

GetNewDbMeta(c) ==
  LET got == dbMeta[rd[c].newName.id]
  IN  /\ pc[c] = "newMeta"
      /\ Returned(c, [rd[c] EXCEPT !.newMeta = got], got > 0, "newTb")

GetNewTableId(c) ==
  LET got == tbName[rd[c].newName.id][op[c].newTb]
  IN  /\ pc[c] = "newTb"
      /\ Returned(c, [rd[c] EXCEPT !.newTb = got], got.seq = 0, "txn")

\* Mutant: the id is the current seq, and nothing is incremented.
FetchIdStale(c) ==
  /\ pc[c] = "fetch_id"
  /\ seq < MaxSeq
  /\ seq' = IF seq = 0 THEN 1 ELSE seq
  /\ rd' = [rd EXCEPT ![c].newId = seq']
  /\ pc' = [pc EXCEPT ![c] = "txn"]
  /\ UNCHANGED <<dbName, dbMeta, tbName, tbMeta, dropped, op, ops>>

\* fetch_id: an upsert of the id generator's record, whose new seq is the id.
FetchId(c) ==
  /\ pc[c] = "fetch_id"
  /\ seq < MaxSeq
  /\ seq' = seq + 1
  /\ rd' = [rd EXCEPT ![c].newId = seq + 1]
  /\ pc' = [pc EXCEPT ![c] = "txn"]
  /\ UNCHANGED <<dbName, dbMeta, tbName, tbMeta, dropped, op, ops>>

-----------------------------------------------------------------------------
(***************************************************************************)
(* The transactions.  Each put takes the next seq, in the order of the     *)
(* request's operations; a delete takes none.                              *)
(***************************************************************************)

AtTxn(c, kind) == pc[c] \in {"txn", "resend"} /\ op[c].kind = kind

\* The answer to a transaction that was executed is a status on which the
\* client sends the same transaction again, once.
Unanswered(c) ==
  /\ pc[c] = "txn"
  /\ op[c].kind \in Resent
  /\ ops > 0
  /\ ops' = ops - 1
  /\ pc' = [pc EXCEPT ![c] = "resend"]
  /\ UNCHANGED <<op, rd>>

Answered(c) == Finish(c) /\ UNCHANGED ops

Commit(c, puts) ==
  /\ seq + puts <= MaxSeq
  /\ seq' = seq + puts
  /\ Answered(c) \/ Unanswered(c)

\* Mutant: a refused transaction is sent again with the seqs read before.
RefusedResend(c) ==
  UNCHANGED <<store, local, ops>>

\* send_txn returned success = false: start the next round of the loop.
Refused(c) ==
  /\ pc' = [pc EXCEPT ![c] = FirstCall(op[c].kind)]
  /\ rd' = [rd EXCEPT ![c] = NothingRead]
  /\ UNCHANGED <<store, op, ops>>

\* Mutant: create_database does not check that the name is still free.
CreateDatabaseUnchecked(c) == TRUE

CreateDatabaseCond(c) == dbName[op[c].db].seq = 0

CreateDatabase(c) ==
  /\ AtTxn(c, "create_database")
  /\ CreateDatabaseCond(c)
  /\ Commit(c, 2)
  /\ dbName' = [dbName EXCEPT ![op[c].db] = [seq |-> seq + 1, id |-> rd[c].newId]]
  /\ dbMeta' = [dbMeta EXCEPT ![rd[c].newId] = seq + 2]
  /\ UNCHANGED <<tbName, tbMeta, dropped>>

DropDatabaseCond(c) ==
  /\ dbName[op[c].db].seq = rd[c].name.seq
  /\ dbMeta[rd[c].name.id] = rd[c].meta

\* The tables of the database are left behind.
DropDatabase(c) ==
  /\ AtTxn(c, "drop_database")
  /\ DropDatabaseCond(c)
  /\ Commit(c, 0)
  /\ dbName' = [dbName EXCEPT ![op[c].db] = NoId]
  /\ dbMeta' = [dbMeta EXCEPT ![rd[c].name.id] = 0]
  /\ dropped' = dropped \cup {rd[c].name.id}
  /\ UNCHANGED <<tbName, tbMeta>>

\* Mutant: rename_database does not check that the new name is still free.
RenameDatabaseOverwrites(c) == dbName[op[c].db].seq = rd[c].name.seq

RenameDatabaseCond(c) ==
  /\ dbName[op[c].db].seq = rd[c].name.seq
  /\ dbName[op[c].newDb].seq = 0

RenameDatabase(c) ==
  /\ AtTxn(c, "rename_database")
  /\ RenameDatabaseCond(c)
  /\ Commit(c, 1)
  /\ dbName' = [dbName EXCEPT ![op[c].db] = NoId,
                              ![op[c].newDb] = [seq |-> seq + 1, id |-> rd[c].name.id]]
  /\ UNCHANGED <<dbMeta, tbName, tbMeta, dropped>>

\* Mutant: create_table does not check that the database is unchanged.
CreateTableDbUnchecked(c) == tbName[rd[c].name.id][op[c].tb].seq = 0

CreateTableCond(c) ==
  /\ dbMeta[rd[c].name.id] = rd[c].meta
  /\ tbName[rd[c].name.id][op[c].tb].seq = 0

CreateTable(c) ==
  LET db == rd[c].name.id
  IN  /\ AtTxn(c, "create_table")
      /\ CreateTableCond(c)
      /\ Commit(c, 3)
      /\ dbMeta' = [dbMeta EXCEPT ![db] = seq + 1]
      /\ tbName' = [tbName EXCEPT ![db][op[c].tb] = [seq |-> seq + 2, id |-> rd[c].newId]]
      /\ tbMeta' = [tbMeta EXCEPT ![rd[c].newId] = [seq |-> seq + 3, opts |-> NoOptions]]
      /\ UNCHANGED <<dbName, dropped>>

\* Mutant: drop_table checks the table meta only.
DropTableNameUnchecked(c) == tbMeta[rd[c].tb.id].seq = rd[c].tbMeta.seq

DropTableCond(c) ==
  /\ dbMeta[rd[c].name.id] = rd[c].meta
  /\ tbName[rd[c].name.id][op[c].tb].seq = rd[c].tb.seq
  /\ tbMeta[rd[c].tb.id].seq = rd[c].tbMeta.seq

\* Mutant: drop_table does not put the meta of the database.
DropTableDbUntouched(c) ==
  /\ AtTxn(c, "drop_table")
  /\ DropTableCond(c)
  /\ Commit(c, 0)
  /\ tbName' = [tbName EXCEPT ![rd[c].name.id][op[c].tb] = NoId]
  /\ tbMeta' = [tbMeta EXCEPT ![rd[c].tb.id] = NoMeta]
  /\ dropped' = dropped \cup {rd[c].tb.id}
  /\ UNCHANGED <<dbName, dbMeta>>

DropTable(c) ==
  LET db == rd[c].name.id
  IN  /\ AtTxn(c, "drop_table")
      /\ DropTableCond(c)
      /\ Commit(c, 1)
      /\ dbMeta' = [dbMeta EXCEPT ![db] = seq + 1]
      /\ tbName' = [tbName EXCEPT ![db][op[c].tb] = NoId]
      /\ tbMeta' = [tbMeta EXCEPT ![rd[c].tb.id] = NoMeta]
      /\ dropped' = dropped \cup {rd[c].tb.id}
      /\ UNCHANGED dbName

RenameTableCond(c) ==
  /\ dbMeta[rd[c].name.id] = rd[c].meta
  /\ dbMeta[rd[c].newName.id] = rd[c].newMeta
  /\ tbName[rd[c].name.id][op[c].tb].seq = rd[c].tb.seq
  /\ tbName[rd[c].newName.id][op[c].newTb].seq = 0

\* The two names may have led to the same database; its meta is then put once.
RenameTable(c) ==
  LET db    == rd[c].name.id
      newDb == rd[c].newName.id
  IN  /\ AtTxn(c, "rename_table")
      /\ RenameTableCond(c)
      /\ Commit(c, IF db = newDb THEN 2 ELSE 3)
      /\ tbName' = [tbName EXCEPT ![db][op[c].tb] = NoId,
                                  ![newDb][op[c].newTb] = [seq |-> seq + 1, id |-> rd[c].tb.id]]
      /\ dbMeta' = [dbMeta EXCEPT ![newDb] = seq + 3, ![db] = seq + 2]
      /\ UNCHANGED <<dbName, tbMeta, dropped>>

\* Mutant: upsert_table_option writes without a condition.
UpsertTableOptionUnchecked(c) == TRUE

UpsertTableOptionCond(c) == tbMeta[op[c].id].seq = rd[c].tbMeta.seq

UpsertTableOption(c) ==
  /\ AtTxn(c, "upsert_table_option")
  /\ UpsertTableOptionCond(c)
  /\ Commit(c, 1)
  /\ tbMeta' = [tbMeta EXCEPT ![op[c].id] =
                  [seq |-> seq + 1,
                   opts |-> [rd[c].tbMeta.opts EXCEPT ![op[c].key] = op[c].val]]]
  /\ UNCHANGED <<dbName, dbMeta, tbName, dropped>>

\* The conditions of the transaction that c has sent hold.
Executable(c) ==
  \/ AtTxn(c, "create_database") /\ CreateDatabaseCond(c)
  \/ AtTxn(c, "drop_database") /\ DropDatabaseCond(c)
  \/ AtTxn(c, "rename_database") /\ RenameDatabaseCond(c)
  \/ AtTxn(c, "create_table") /\ CreateTableCond(c)
  \/ AtTxn(c, "drop_table") /\ DropTableCond(c)
  \/ AtTxn(c, "rename_table") /\ RenameTableCond(c)
  \/ AtTxn(c, "upsert_table_option") /\ UpsertTableOptionCond(c)

Retry(c) ==
  /\ pc[c] \in {"txn", "resend"}
  /\ ~Executable(c)
  /\ Refused(c)

\* A call to the meta service returns an error, which the caller gets.  (One
\* that was executed all the same is its own step followed by the return.)
Fails(c) ==
  /\ pc[c] # "idle"
  /\ Finish(c)
  /\ UNCHANGED <<store, ops>>

-----------------------------------------------------------------------------

\* A caller invokes an operation.
Start(c, req) ==
  /\ pc[c] = "idle"
  /\ ops > 0
  /\ ops' = ops - 1
  /\ op' = [op EXCEPT ![c] = req]
  /\ UNCHANGED rd
  /\ pc' = [pc EXCEPT ![c] = FirstCall(req.kind)]
  /\ UNCHANGED store

Step(c) ==
  \/ GetDbId(c) \/ GetDbMeta(c) \/ GetTableId(c) \/ GetTableMeta(c)
  \/ GetNewDbId(c) \/ GetNewDbMeta(c) \/ GetNewTableId(c) \/ FetchId(c)
  \/ CreateDatabase(c) \/ DropDatabase(c) \/ RenameDatabase(c)
  \/ CreateTable(c) \/ DropTable(c) \/ RenameTable(c)
  \/ UpsertTableOption(c) \/ Retry(c)

Init ==
  /\ seq = 0
  /\ dbName = [n \in Names |-> NoId]
  /\ dbMeta = [i \in Ids |-> 0]
  /\ tbName = [i \in Ids |-> [t \in TNames |-> NoId]]
  /\ tbMeta = [i \in Ids |-> NoMeta]
  /\ pc = [c \in Clients |-> "idle"]
  /\ op = [c \in Clients |-> NoRequest]
  /\ rd = [c \in Clients |-> NothingRead]
  /\ ops = MaxOps
  /\ dropped = {}

Next ==
  \E c \in Clients : Step(c) \/ Fails(c) \/ \E req \in Requests : Start(c, req)

Spec == Init /\ [][Next]_vars

\* A caller drives the future of its call until it returns; nothing says that
\* a call ever fails.
FairSpec == Spec /\ \A c \in Clients : WF_vars(Step(c))

-----------------------------------------------------------------------------

\* Types of the store and of what the clients hold.
TypeOK ==
  /\ seq \in Seqs
  /\ dbName \in [Names -> IdRecord]
  /\ dbMeta \in [Ids -> Seqs]
  /\ tbName \in [Ids -> [TNames -> IdRecord]]
  /\ tbMeta \in [Ids -> MetaRecord]
  /\ pc \in [Clients -> PCs]
  /\ op \in [Clients -> Requests]
  /\ rd \in [Clients -> Reads]
  /\ ops \in 0..MaxOps
  /\ dropped \subseteq Ids

HasName(i) == \E n \in Names : dbName[n].seq > 0 /\ dbName[n].id = i

\* The name records and the meta records of databases correspond one to one:
\* a name leads to a meta, no two names lead to the same database, and no
\* meta is left without a name, although rename_database changes names
\* without looking at the meta and drop_database deletes both records.
DatabaseNamesMatchMetas ==
  /\ \A n \in Names : dbName[n].seq > 0 => dbMeta[dbName[n].id] > 0
  /\ \A n, m \in Names :
       dbName[n].seq > 0 /\ dbName[m].seq > 0 /\ dbName[n].id = dbName[m].id => n = m
  /\ \A i \in Ids : dbMeta[i] > 0 => HasName(i)

\* The same of tables: every (db_id, table_name) record leads to a table meta
\* of its own and every table meta is reachable from exactly one name, also
\* when a rename moves the table between databases while others drop it.
TableNamesMatchMetas ==
  /\ \A d \in Ids, t \in TNames :
       tbName[d][t].seq > 0 => tbMeta[tbName[d][t].id].seq > 0
  /\ \A d \in Ids, t \in TNames : tbName[d][t].seq > 0 =>
       \A e \in Ids, u \in TNames :
         tbName[e][u].seq > 0 /\ tbName[d][t].id = tbName[e][u].id => d = e /\ t = u
  /\ \A i \in Ids : tbMeta[i].seq > 0 =>
       \E d \in Ids, t \in TNames : tbName[d][t].seq > 0 /\ tbName[d][t].id = i

\* No late transaction brings a dropped database or table back to life:
\* upsert_table_option, create_table and the renames put meta records that
\* they read earlier, and a drop may come in between.
NoResurrection ==
  \A i \in dropped : dbMeta[i] = 0 /\ tbMeta[i].seq = 0

\* The tables of a database change only while its meta record exists, and
\* every such change gives the meta a new seq ("Changing a table in a db has
\* to update the seq of db_meta"), so that a drop_database that read the meta
\* before is refused.
TouchesDb ==
  \A d \in Ids : tbName'[d] # tbName[d] => dbMeta[d] > 0 /\ dbMeta'[d] > dbMeta[d]

TableChangesTouchDb == [][TouchesDb]_vars

\* A transaction that was executed, and is sent again because its answer was
\* lost (grpc_client.rs, MetaGrpcClient::transaction), is refused however late
\* the second copy arrives and whatever the others did in between: the first
\* copy changed a seq that the second is conditioned on, for ever.  (The loop
\* then starts over: it reads again before it changes anything again.)
ExecutedOnce == \A c \in Clients : pc[c] = "resend" => ~Executable(c)

C == INSTANCE Catalog WITH
       dbs <- [n \in Names |-> dbName[n].id],
       tables <- [d \in Ids |-> [t \in TNames |-> tbName[d][t].id]],
       options <- [i \in Ids |-> tbMeta[i].opts],
       retired <- dropped

\* Each operation behaves as one atomic step of the abstract catalog, and a
\* round that is refused or that only reads changes nothing: the optimistic
\* loops of SchemaApi implement Catalog.
ImplementsCatalog == C!Spec

\* The same of every step, whatever the catalog contains at the start.
CatalogSteps == [][UNCHANGED C!vars \/ C!Next]_vars

-----------------------------------------------------------------------------
(***************************************************************************)
(* The inductive invariant behind the properties above.                    *)
(***************************************************************************)

\* A step gives a record that it changes a seq above all seqs handed out
\* before, or deletes it.
FreshSeqs ==
  /\ seq' >= seq
  /\ \A n \in Names :
       dbName'[n] = dbName[n] \/ dbName'[n].seq = 0 \/ dbName'[n].seq > seq
  /\ \A i \in Ids : dbMeta'[i] = dbMeta[i] \/ dbMeta'[i] = 0 \/ dbMeta'[i] > seq
  /\ \A i \in Ids, t \in TNames :
       tbName'[i][t] = tbName[i][t] \/ tbName'[i][t].seq = 0 \/ tbName'[i][t].seq > seq
  /\ \A i \in Ids :
       tbMeta'[i] = tbMeta[i] \/ tbMeta'[i].seq = 0 \/ tbMeta'[i].seq > seq

\* No seq and no id is ahead of the counter; an absent record is empty; an id
\* is never both a database and a table.
StoreOK ==
  /\ \A n \in Names :
       /\ dbName[n].seq <= seq /\ dbName[n].id <= seq
       /\ dbName[n].seq = 0 <=> dbName[n].id = 0
  /\ \A i \in Ids :
       /\ dbMeta[i] <= seq /\ tbMeta[i].seq <= seq
       /\ dbMeta[i] = 0 \/ tbMeta[i].seq = 0
       /\ dbMeta[i] > 0 \/ tbMeta[i].seq > 0 \/ i \in dropped => i <= seq
       /\ tbMeta[i].seq = 0 => tbMeta[i] = NoMeta
  /\ \A i \in Ids, t \in TNames :
       /\ tbName[i][t].seq <= seq /\ tbName[i][t].id <= seq
       /\ tbName[i][t].seq = 0 <=> tbName[i][t].id = 0

\* An id that fetch_id returned to c is c's alone, and used nowhere until c's
\* transaction is executed.
NewIdOK(c) ==
  rd[c].newId > 0 =>
    /\ rd[c].newId <= seq
    /\ \A e \in Clients : rd[e].newId = rd[c].newId => e = c
    /\ pc[c] # "resend" => /\ rd[c].newId \notin dropped
                          /\ dbMeta[rd[c].newId] = 0
                          /\ tbMeta[rd[c].newId].seq = 0

\* The record that the transaction of c is conditioned on is not the one that
\* c read.
Stale(c) ==
  LET kind == op[c].kind
  IN  \/ /\ kind \in {"drop_database", "rename_database"}
         /\ dbName[op[c].db].seq # rd[c].name.seq
      \/ /\ kind \in {"create_table", "drop_table", "rename_table"}
         /\ dbMeta[rd[c].name.id] # rd[c].meta
      \/ /\ kind = "upsert_table_option"
         /\ tbMeta[op[c].id].seq # rd[c].tbMeta.seq

\* A transaction that waits to be sent again has been executed.
ResendOK(c) == pc[c] = "resend" => Stale(c)

\* A record whose seq is still the one c read is still what c read.
NameReadOK(c) ==
  dbName[op[c].db].seq = rd[c].name.seq /\ rd[c].name.seq > 0
    => dbName[op[c].db] = rd[c].name

TbReadOK(c) ==
  /\ rd[c].name.id > 0 /\ rd[c].tb.seq > 0
  /\ tbName[rd[c].name.id][op[c].tb].seq = rd[c].tb.seq
  => tbName[rd[c].name.id][op[c].tb] = rd[c].tb

TbMetaReadOK(c) ==
  /\ op[c].kind \in ById /\ rd[c].tbMeta.seq > 0
  /\ tbMeta[op[c].id].seq = rd[c].tbMeta.seq
  => tbMeta[op[c].id] = rd[c].tbMeta

\* No seq that c read is ahead of the counter.
SeqReadOK(c) ==
  /\ rd[c].name.seq <= seq /\ rd[c].meta <= seq
  /\ rd[c].tb.seq <= seq /\ rd[c].tbMeta.seq <= seq

ReadsOK(c) == NameReadOK(c) /\ TbReadOK(c) /\ TbMetaReadOK(c) /\ SeqReadOK(c)

\* What c has read when it has come to a call.
ReachedOK(c) ==
  LET kind == op[c].kind
      at   == pc[c]
  IN  /\ at \notin {"idle", "name"} /\ kind \notin ById \cup {"create_database"}
           => rd[c].name.seq > 0 /\ rd[c].name.id > 0
      /\ at \in {"idle", "name"} => rd[c] = NothingRead
      /\ at = "name" => kind \notin ById
      /\ at = "meta" => kind \in {"drop_database", "create_table", "drop_table",
                                 "rename_table", "get_database"}
      /\ at = "tb" => kind \in {"create_table", "drop_table", "rename_table", "get_table"}
      /\ at = "tbMeta" => kind \in ById \cup {"drop_table", "get_table"}
      /\ at = "newName" => kind \in {"rename_database", "rename_table"}
      /\ at \in {"newMeta", "newTb"} => kind = "rename_table"
      /\ at = "fetch_id" => kind \in {"create_database", "create_table"}
      /\ at \in {"tb", "fetch_id", "tbMeta", "newName", "newMeta", "newTb", "txn", "resend"}
         /\ kind \in {"create_table", "drop_table", "rename_table"} => rd[c].meta > 0
      /\ at \in {"txn", "resend"} /\ kind = "drop_database" => rd[c].meta > 0
      /\ at \in {"tbMeta", "newName", "newMeta", "newTb", "txn", "resend"}
         /\ kind \in {"drop_table", "rename_table", "get_table"}
           => rd[c].tb.seq > 0 /\ rd[c].tb.id > 0
      /\ at \in {"newMeta", "newTb", "txn", "resend"} /\ kind = "rename_table"
           => rd[c].newName.id > 0
      /\ at \in {"newTb", "txn", "resend"} /\ kind = "rename_table" => rd[c].newMeta > 0
      /\ at = "txn" /\ kind \in {"create_database", "create_table"} => rd[c].newId > 0
      /\ at \in {"txn", "resend"} /\ kind \in ById => rd[c].tbMeta.seq > 0

Inv ==
  /\ TypeOK
  /\ StoreOK
  /\ DatabaseNamesMatchMetas
  /\ TableNamesMatchMetas
  /\ NoResurrection
  /\ \A c \in Clients : NewIdOK(c) /\ ReadsOK(c) /\ ReachedOK(c) /\ ResendOK(c)

\* Every call returns, when finitely many are made and finitely many answers
\* are lost (MaxOps): a client repeats its loop only because another operation
\* committed, or its own did and the answer was lost.  With calls without end
\* one of them could be refused for ever; the code has no bound on its loops.
EveryCallReturns == \A c \in Clients : pc[c] # "idle" ~> pc[c] = "idle"
=============================================================================
