-------------------------- MODULE SchemaApiProofs ---------------------------
(***************************************************************************)
(* The transactions on databases and tables, each of which keeps the       *)
(* inductive invariant of SchemaApi and is a step of Catalog; and the      *)
(* theorems about SchemaApi: its invariants, its action properties and     *)
(* that it implements Catalog.                                             *)
(***************************************************************************)
EXTENDS SchemaApiLemmas

USE SMTT(60), ZenonT(30)

\* A committed transaction takes its seqs after the current one, within the bound.
LEMMA CommitSeqs ==
  ASSUME TypeOK, NEW c \in Clients, NEW puts \in Nat, Commit(c, puts)
  PROVE  /\ seq \in Nat /\ seq' = seq + puts /\ (Answered(c) \/ Unanswered(c))
         /\ \A k \in 0 .. puts : seq + k \in Seqs
         /\ seq' \in Seqs
<1>1. seq \in Nat
  BY StoreTypes, Zenon
<1>2. seq + puts <= MaxSeq /\ seq' = seq + puts /\ (Answered(c) \/ Unanswered(c))
  BY Zenon DEF Commit
<1>3. MaxSeq \in Nat
  BY BoundAssumption, Zenon
<1>4. \A k \in 0 .. puts : seq + k \in Seqs
  BY <1>1, <1>2, <1>3 DEF Seqs
<1>5. seq + puts \in Seqs
  BY <1>1, <1>2, <1>3 DEF Seqs
<1> QED
  BY <1>1, <1>2, <1>4, <1>5, Zenon

\* create_database's transaction, which is not sent twice.
LEMMA CreateDatabaseInv ==
  ASSUME CreatesOnce, Inv, NEW c \in Clients, CreateDatabase(c)
  PROVE  Inv' /\ FreshSeqs /\ TouchesDb /\ [C!Next]_(C!vars)
<1> DEFINE db == op[c].db
           id == rd[c].newId
<1>1. /\ TypeOK /\ StoreOK /\ DatabaseNamesMatchMetas /\ TableNamesMatchMetas
      /\ NoResurrection /\ NewIdOK(c) /\ ReachedOK(c) /\ ResendOK(c)
  BY Zenon DEF Inv
<1>2. /\ seq + 2 \in Seqs /\ seq + 1 \in Seqs /\ seq' = seq + 2
      /\ (Answered(c) \/ Unanswered(c)) /\ UNCHANGED <<tbName, tbMeta, dropped>>
      /\ dbName[db].seq = 0 /\ AtTxn(c, "create_database") /\ CreateDatabaseCond(c)
  <2>1. 2 \in Nat /\ 1 \in 0 .. 2 /\ 2 \in 0 .. 2
    OBVIOUS
  <2>2. Commit(c, 2)
    BY Zenon DEF CreateDatabase
  <2> QED
    BY <1>1, <2>1, <2>2, CommitSeqs, Zenon DEF CreateDatabase, CreateDatabaseCond
<1>3. /\ db \in Names /\ id \in Ids /\ id \in Nat /\ id > 0 /\ id <= seq /\ id \notin dropped
      /\ dbMeta[id] = 0 /\ tbMeta[id].seq = 0
  <2>1. pc[c] = "txn" /\ id > 0
    <3>1. Executable(c)
      BY <1>2, Zenon DEF Executable
    <3>2. pc[c] = "txn"
      BY <1>1, <3>1, FirstCopy, Zenon
    <3> QED
      BY <1>1, <1>2, <3>2, Zenon DEF AtTxn, ReachedOK
  <2> QED
    BY <1>1, <2>1, ClientTypes, RecordTypes, Zenon DEF NewIdOK
<1>4. /\ dbName'[db].seq = seq + 1 /\ dbName'[db].id = id
      /\ \A n \in Names : n # db => dbName'[n] = dbName[n]
      /\ dbMeta'[id] = seq + 2 /\ \A i \in Ids : i # id => dbMeta'[i] = dbMeta[i]
  BY <1>1, <1>3, Zenon DEF CreateDatabase, TypeOK
<1>5. TypeOK'
  <2>1. dbName' \in [Names -> IdRecord]
    BY <1>1, <1>2, <1>3, RecordTypes, Zenon DEF CreateDatabase, TypeOK, IdRecord
  <2>2. dbMeta' \in [Ids -> Seqs]
    BY <1>1, <1>2, <1>3, Zenon DEF CreateDatabase, TypeOK
  <2> QED
    BY <1>1, <1>2, <2>1, <2>2, CommitType, Zenon DEF TypeOK
<1> HIDE DEF db, id
<1>6. FreshSeqs
  BY <1>1, <1>2, <1>4, StoreTypes DEF FreshSeqs
<1>7. StoreOK'
  <2>1. \A n \in Names : /\ dbName'[n].seq <= seq' /\ dbName'[n].id <= seq'
                         /\ dbName'[n].seq = 0 <=> dbName'[n].id = 0
    BY <1>1, <1>2, <1>3, <1>4, StoreTypes DEF StoreOK
  <2>2. \A i \in Ids : /\ dbMeta'[i] <= seq' /\ tbMeta'[i].seq <= seq'
                       /\ dbMeta'[i] = 0 \/ tbMeta'[i].seq = 0
                       /\ dbMeta'[i] > 0 \/ tbMeta'[i].seq > 0 \/ i \in dropped' => i <= seq'
                       /\ tbMeta'[i].seq = 0 => tbMeta'[i] = NoMeta
    BY <1>1, <1>2, <1>3, <1>4, StoreTypes DEF StoreOK
  <2>3. \A i \in Ids, t \in TNames : /\ tbName'[i][t].seq <= seq' /\ tbName'[i][t].id <= seq'
                                     /\ tbName'[i][t].seq = 0 <=> tbName'[i][t].id = 0
    BY <1>1, <1>2, StoreTypes DEF StoreOK
  <2> QED
    BY <2>1, <2>2, <2>3, Zenon DEF StoreOK
<1>8. DatabaseNamesMatchMetas'
  <2>1. \A n \in Names : dbName[n].seq > 0 => dbName[n].id # id /\ dbName[n].id \in Ids
    BY <1>1, <1>3, NamesLeadToIds, StoreTypes DEF DatabaseNamesMatchMetas
  <2> QED
    BY <1>1, <1>2, <1>3, <1>4, <2>1, StoreTypes DEF DatabaseNamesMatchMetas, HasName
<1>9. TableNamesMatchMetas' /\ NoResurrection'
  <2>1. TableNamesMatchMetas'
    BY <1>1, <1>2 DEF TableNamesMatchMetas
  <2>2. \A i \in dropped : i \in Ids /\ i # id
    BY <1>1, <1>3, Zenon DEF TypeOK
  <2>3. NoResurrection'
    BY <1>1, <1>2, <1>4, <2>2, Zenon DEF NoResurrection
  <2> QED
    BY <2>1, <2>3, Zenon
<1>10. TouchesDb
  BY <1>2, Zenon DEF TouchesDb
<1>11. [C!Next]_(C!vars)
  <2>1. C!Fresh(id)
    <3>1. id \notin C!LiveDbs
      BY <1>1, <1>3, StoreTypes, NamesLeadToIds, SMTT(60) DEF C!LiveDbs, DatabaseNamesMatchMetas, StoreOK
    <3>2. id \notin C!LiveTables
      BY <1>1, <1>3, StoreTypes, NamesLeadToIds DEF C!LiveTables, TableNamesMatchMetas, StoreOK
    <3> QED
      BY <1>3, <3>1, <3>2, Zenon DEF C!Fresh
  <2>2. ASSUME NEW n \in Names, NEW i \in Ids, n = db, i = id
        PROVE  C!CreateDatabase(n, i)
    <3> DEFINE dbs == [m \in Names |-> dbName[m].id]
    <3>1. dbs[n] = 0
      BY <1>1, <1>2, <2>2, Zenon DEF StoreOK
    <3>2. dbs' = [dbs EXCEPT ![n] = i]
      BY <1>4, <2>2, Zenon
    <3>3. UNCHANGED <<[e \in Ids |-> [u \in TNames |-> tbName[e][u].id]],
                      [j \in Ids |-> tbMeta[j].opts], dropped>>
      BY <1>2, Zenon
    <3> QED
      BY <2>1, <2>2, <3>1, <3>2, <3>3, Zenon DEF C!CreateDatabase
  <2>3. \E n \in Names, i \in Ids : C!CreateDatabase(n, i)
    BY <1>3, <2>2, Zenon
  <2> QED
    BY <2>3, Zenon DEF C!Next
<1>12. \A i \in Ids : dbMeta[i] = 0 /\ tbMeta[i].seq = 0 /\ i # rd[c].newId
         => dbMeta'[i] = 0 /\ tbMeta'[i].seq = 0 /\ (i \in dropped' => i \in dropped)
  BY <1>2, <1>4, Zenon DEF id
<1>13. ~Unanswered(c)
  BY <1>2, Zenon DEF CreatesOnce, AtTxn, Unanswered
<1> QED
  BY <1>2, <1>5, <1>6, <1>7, <1>8, <1>9, <1>10, <1>11, <1>12, <1>13, CommitStep, Zenon

\* drop_database's transaction.
LEMMA DropDatabaseInv ==
  ASSUME Inv, NEW c \in Clients, DropDatabase(c)
  PROVE  Inv' /\ FreshSeqs /\ TouchesDb /\ [C!Next]_(C!vars)
<1> DEFINE db == op[c].db
           id == rd[c].name.id
<1>1. /\ TypeOK /\ StoreOK /\ DatabaseNamesMatchMetas /\ TableNamesMatchMetas
      /\ NoResurrection /\ ReadsOK(c) /\ ReachedOK(c)
  BY Zenon DEF Inv
<1>2. /\ seq \in Nat /\ seq' = seq /\ (Answered(c) \/ Unanswered(c)) /\ UNCHANGED <<tbName, tbMeta>>
      /\ DropDatabaseCond(c) /\ AtTxn(c, "drop_database")
  BY <1>1, StoreTypes, SMTT(60) DEF DropDatabase, Commit
<1>3. /\ db \in Names /\ id \in Ids /\ id \in Nat /\ id > 0
      /\ dbName[db].seq > 0 /\ dbName[db].id = id /\ dbMeta[id] > 0 /\ tbMeta[id].seq = 0
  <2>1. rd[c].name.seq > 0 /\ id > 0 /\ rd[c].meta > 0
    BY <1>1, <1>2, Zenon DEF AtTxn, ReachedOK, ById
  <2>2. dbName[db] = rd[c].name /\ dbMeta[id] > 0
    BY <1>1, <1>2, <2>1, Zenon DEF ReadsOK, NameReadOK, DropDatabaseCond
  <2>3. db \in Names /\ id \in Ids
    BY <1>1, <2>1, ClientTypes, RecordTypes, Zenon
  <2> QED
    BY <1>1, <2>1, <2>2, <2>3, StoreTypes DEF StoreOK
<1>4. /\ dbName'[db] = NoId /\ \A n \in Names : n # db => dbName'[n] = dbName[n]
      /\ dbMeta'[id] = 0 /\ \A i \in Ids : i # id => dbMeta'[i] = dbMeta[i]
      /\ dropped' = dropped \cup {id}
  BY <1>1, <1>3, Zenon DEF DropDatabase, TypeOK
<1>5. TypeOK'
  <2>1. dbName' \in [Names -> IdRecord] /\ dbMeta' \in [Ids -> Seqs]
    BY <1>1, <1>3, BoundAssumption, SMTT(60) DEF DropDatabase, TypeOK, IdRecord, NoId, Seqs
  <2> QED
    BY <1>1, <1>2, <1>3, <1>4, <2>1, CommitType, Zenon DEF TypeOK
<1> HIDE DEF db, id
<1>6. FreshSeqs
  BY <1>1, <1>2, <1>4, StoreTypes DEF FreshSeqs, NoId
<1>7. StoreOK'
  BY <1>1, <1>2, <1>3, <1>4, StoreTypes, SMTT(60) DEF StoreOK, NoId
<1>8. DatabaseNamesMatchMetas'
  BY <1>1, <1>2, <1>3, <1>4, StoreTypes, NamesLeadToIds, SMTT(60)
     DEF DatabaseNamesMatchMetas, HasName, NoId
<1>9. TableNamesMatchMetas' /\ NoResurrection'
  BY <1>1, <1>2, <1>3, <1>4 DEF TableNamesMatchMetas, NoResurrection, TypeOK
<1>10. TouchesDb
  BY <1>2, Zenon DEF TouchesDb
<1>11. [C!Next]_(C!vars)
  <2>1. ASSUME NEW n \in Names, n = db
        PROVE  C!DropDatabase(n)
    <3> DEFINE dbs == [k \in Names |-> dbName[k].id]
    <3>1. dbs[n] = id /\ id # 0
      BY <1>3, <2>1
    <3>2. dbs' = [dbs EXCEPT ![n] = 0]
      <4>1. dbName'[n].id = 0 /\ \A k \in Names : k # n => dbName'[k].id = dbName[k].id
        BY <1>4, <2>1 DEF NoId
      <4> QED
        BY <4>1, Zenon
    <3>3. UNCHANGED <<[e \in Ids |-> [u \in TNames |-> tbName[e][u].id]],
                      [j \in Ids |-> tbMeta[j].opts]>>
      BY <1>2, Zenon
    <3> QED
      BY <1>4, <3>1, <3>2, <3>3, Zenon DEF C!DropDatabase
  <2>2. \E n \in Names : C!DropDatabase(n)
    BY <1>3, <2>1, Zenon
  <2> QED
    BY <2>2, Zenon DEF C!Next
<1>12. Unanswered(c) => Stale(c)'
  <2>1. dbName'[db].seq # rd[c].name.seq
    BY <1>2, <1>3, <1>4 DEF DropDatabaseCond, NoId, db
  <2> QED
    BY <1>2, <2>1, Zenon DEF Stale, Unanswered, AtTxn, db
<1> QED
  BY <1>2, <1>3, <1>4, <1>5, <1>6, <1>7, <1>8, <1>9, <1>10, <1>11, <1>12, CommitStep

\* rename_database's transaction.
LEMMA RenameDatabaseInv ==
  ASSUME Inv, NEW c \in Clients, RenameDatabase(c)
  PROVE  Inv' /\ FreshSeqs /\ TouchesDb /\ [C!Next]_(C!vars)
<1> DEFINE db    == op[c].db
           newDb == op[c].newDb
           id    == rd[c].name.id
<1>1. /\ TypeOK /\ StoreOK /\ DatabaseNamesMatchMetas /\ TableNamesMatchMetas
      /\ NoResurrection /\ ReadsOK(c) /\ ReachedOK(c)
  BY Zenon DEF Inv
<1>2. /\ seq \in Nat /\ seq + 1 \in Seqs /\ seq' = seq + 1 /\ (Answered(c) \/ Unanswered(c))
      /\ UNCHANGED <<dbMeta, tbName, tbMeta, dropped>>
      /\ RenameDatabaseCond(c) /\ AtTxn(c, "rename_database")
  <2>1. 1 \in Nat /\ 1 \in 0 .. 1
    OBVIOUS
  <2>2. Commit(c, 1)
    BY Zenon DEF RenameDatabase
  <2> QED
    BY <1>1, <2>1, <2>2, CommitSeqs, Zenon DEF RenameDatabase
<1>3. /\ db \in Names /\ newDb \in Names /\ db # newDb /\ id \in Ids /\ id \in Nat /\ id > 0
      /\ dbName[db].seq > 0 /\ dbName[db].id = id /\ dbName[newDb].seq = 0 /\ id <= seq
  <2>1. rd[c].name.seq > 0 /\ id > 0
    BY <1>1, <1>2, Zenon DEF AtTxn, ReachedOK, ById
  <2>2. dbName[db] = rd[c].name /\ dbName[newDb].seq = 0
    BY <1>1, <1>2, <2>1, Zenon DEF ReadsOK, NameReadOK, RenameDatabaseCond
  <2>3. db \in Names /\ newDb \in Names /\ id \in Ids
    BY <1>1, <2>1, ClientTypes, RecordTypes, ZenonT(60)
  <2> QED
    BY <1>1, <2>1, <2>2, <2>3, StoreTypes, SMTT(60) DEF StoreOK
<1>4. /\ dbName'[newDb].seq = seq + 1 /\ dbName'[newDb].id = id /\ dbName'[db] = NoId
      /\ \A n \in Names : n # newDb /\ n # db => dbName'[n] = dbName[n]
  BY <1>1, <1>3, Zenon DEF RenameDatabase, TypeOK
<1>5. TypeOK'
  <2>1. NoId \in IdRecord /\ [seq |-> seq + 1, id |-> id] \in IdRecord
    BY <1>2, <1>3, RecordTypes, BoundAssumption, SMTT(60) DEF IdRecord, NoId, Seqs
  <2>2. dbName' \in [Names -> IdRecord]
    BY <1>1, <1>3, <2>1, Zenon DEF RenameDatabase, TypeOK
  <2> QED
    BY <1>1, <1>2, <2>2, CommitType, Zenon DEF TypeOK
<1> HIDE DEF db, newDb, id
<1>6. FreshSeqs
  BY <1>1, <1>2, <1>4, StoreTypes, SMTT(60) DEF FreshSeqs, NoId
<1>7. StoreOK'
  BY <1>1, <1>2, <1>3, <1>4, StoreTypes, SMTT(60) DEF StoreOK, NoId
<1>8. DatabaseNamesMatchMetas'
  BY <1>1, <1>2, <1>3, <1>4, StoreTypes, SMTT(60) DEF DatabaseNamesMatchMetas, HasName, NoId
<1>9. TableNamesMatchMetas' /\ NoResurrection'
  BY <1>1, <1>2, SMTT(60) DEF TableNamesMatchMetas, NoResurrection
<1>10. TouchesDb
  BY <1>2, Zenon DEF TouchesDb
<1>11. [C!Next]_(C!vars)
  <2>1. dbName[newDb].id = 0
    BY <1>1, <1>3, Zenon DEF StoreOK
  <2>2. ASSUME NEW n \in Names, NEW m \in Names, n = db, m = newDb
        PROVE  C!RenameDatabase(n, m)
    <3> DEFINE dbs == [k \in Names |-> dbName[k].id]
    <3>1. dbs[n] = id /\ dbs[n] # 0 /\ dbs[m] = 0
      BY <1>3, <2>1, <2>2
    <3>2. dbs' = [dbs EXCEPT ![n] = 0, ![m] = dbs[n]]
      <4>1. /\ dbName'[m].id = dbName[n].id /\ dbName'[n].id = 0 /\ m # n
            /\ \A k \in Names : k # n /\ k # m => dbName'[k].id = dbName[k].id
        BY <1>3, <1>4, <2>2 DEF NoId
      <4> QED
        BY <4>1, Zenon
    <3>3. UNCHANGED <<[e \in Ids |-> [u \in TNames |-> tbName[e][u].id]],
                      [j \in Ids |-> tbMeta[j].opts], dropped>>
      BY <1>2, Zenon
    <3> QED
      BY <3>1, <3>2, <3>3, Zenon DEF C!RenameDatabase
  <2>3. \E n, m \in Names : C!RenameDatabase(n, m)
    BY <1>3, <2>2, Zenon
  <2> QED
    BY <2>3, Zenon DEF C!Next
<1>12. Unanswered(c) => Stale(c)'
  <2>1. dbName'[db].seq # rd[c].name.seq
    BY <1>2, <1>3, <1>4 DEF RenameDatabaseCond, NoId, db
  <2> QED
    BY <1>2, <2>1, Zenon DEF Stale, Unanswered, AtTxn, db
<1> QED
  BY <1>2, <1>5, <1>6, <1>7, <1>8, <1>9, <1>10, <1>11, <1>12, CommitStep, Zenon

\* upsert_table_option's conditional write.
LEMMA UpsertTableOptionInv ==
  ASSUME Inv, NEW c \in Clients, UpsertTableOption(c)
  PROVE  Inv' /\ FreshSeqs /\ TouchesDb /\ [C!Next]_(C!vars)
<1> DEFINE id   == op[c].id
           opts == [rd[c].tbMeta.opts EXCEPT ![op[c].key] = op[c].val]
<1>1. /\ TypeOK /\ StoreOK /\ DatabaseNamesMatchMetas /\ TableNamesMatchMetas
      /\ NoResurrection /\ ReadsOK(c) /\ ReachedOK(c)
  BY Zenon DEF Inv
<1>2. /\ seq \in Nat /\ seq + 1 \in Seqs /\ seq' = seq + 1 /\ (Answered(c) \/ Unanswered(c))
      /\ UNCHANGED <<dbName, dbMeta, tbName, dropped>>
      /\ UpsertTableOptionCond(c) /\ AtTxn(c, "upsert_table_option")
  <2>1. 1 \in Nat /\ 1 \in 0 .. 1
    OBVIOUS
  <2>2. Commit(c, 1)
    BY Zenon DEF UpsertTableOption
  <2> QED
    BY <1>1, <2>1, <2>2, CommitSeqs, Zenon DEF UpsertTableOption
<1>3. id \in Ids /\ id \in Nat /\ tbMeta[id].seq > 0 /\ opts \in Options
  <2>1. rd[c].tbMeta.seq > 0
    BY <1>1, <1>2, Zenon DEF AtTxn, ReachedOK, ById
  <2>2. id \in Ids /\ rd[c].tbMeta.opts \in Options
    BY <1>1, ClientTypes, RecordTypes, Zenon
  <2>3. opts \in Options
    BY <1>1, <2>2, ClientTypes, Zenon DEF Options
  <2> QED
    BY <1>1, <1>2, <2>1, <2>2, <2>3, StoreTypes, Zenon DEF UpsertTableOptionCond
<1>4. /\ tbMeta'[id].seq = seq + 1 /\ tbMeta'[id].opts = opts
      /\ \A i \in Ids : i # id => tbMeta'[i] = tbMeta[i]
  <2> HIDE DEF id, opts
  <2>1. tbMeta' = [tbMeta EXCEPT ![id] = [seq |-> seq + 1, opts |-> opts]]
    BY Zenon DEF UpsertTableOption, id, opts
  <2> QED
    BY <1>1, <1>3, <2>1, Zenon DEF TypeOK
<1> HIDE DEF id, opts
<1>5. TypeOK'
  <2>1. [seq |-> seq + 1, opts |-> opts] \in MetaRecord
    BY <1>2, <1>3, Zenon DEF MetaRecord
  <2>2. tbMeta' \in [Ids -> MetaRecord]
    BY <1>1, <1>3, <2>1, Zenon DEF UpsertTableOption, TypeOK, id, opts
  <2> QED
    BY <1>1, <1>2, <2>2, CommitType, Zenon DEF TypeOK
<1>6. FreshSeqs
  <2>1. seq' >= seq /\ seq + 1 > seq
    BY <1>2
  <2>2. UNCHANGED <<dbName, dbMeta, tbName>>
    BY <1>2, Zenon
  <2>3. \A i \in Ids : tbMeta'[i] = tbMeta[i] \/ tbMeta'[i].seq > seq
    BY <1>4, <2>1, Zenon
  <2> QED
    BY <2>1, <2>2, <2>3, Zenon DEF FreshSeqs
<1>7. StoreOK'
  BY <1>1, <1>2, <1>3, <1>4, StoreTypes, SMTT(60) DEF StoreOK
<1>8. DatabaseNamesMatchMetas'
  BY <1>1, <1>2, Zenon DEF DatabaseNamesMatchMetas, HasName
<1>9. TableNamesMatchMetas' /\ NoResurrection'
  <2>1. \A i \in Ids : tbMeta'[i].seq > 0 <=> tbMeta[i].seq > 0
    <3>1. seq + 1 > 0
      <4>1. seq \in Nat
        BY <1>2, Zenon
      <4> QED
        BY <4>1
    <3> QED
      BY <1>3, <1>4, <3>1, Zenon
  <2>2. TableNamesMatchMetas'
    <3>1. tbName' = tbName
      BY <1>2, Zenon
    <3>2. \A d \in Ids, t \in TNames : tbName'[d][t].seq > 0 => tbMeta'[tbName'[d][t].id].seq > 0
      <4>1. \A d \in Ids, t \in TNames : tbName[d][t].seq > 0 => tbMeta'[tbName[d][t].id].seq > 0
        BY <1>1, <2>1, NamesLeadToIds, Zenon DEF TableNamesMatchMetas
      <4> QED
        BY <3>1, <4>1, Zenon
    <3>3. \A d \in Ids, t \in TNames : tbName'[d][t].seq > 0 =>
            \A e \in Ids, u \in TNames :
              tbName'[e][u].seq > 0 /\ tbName'[d][t].id = tbName'[e][u].id => d = e /\ t = u
      BY <1>1, <3>1, SMT DEF TableNamesMatchMetas
    <3>4. \A i \in Ids : tbMeta'[i].seq > 0 =>
            \E d \in Ids, t \in TNames : tbName'[d][t].seq > 0 /\ tbName'[d][t].id = i
      <4>1. \A i \in Ids : tbMeta'[i].seq > 0 =>
              \E d \in Ids, t \in TNames : tbName[d][t].seq > 0 /\ tbName[d][t].id = i
        BY <1>1, <2>1, Zenon DEF TableNamesMatchMetas
      <4>2. SUFFICES ASSUME NEW i \in Ids, tbMeta'[i].seq > 0
                     PROVE  \E d \in Ids, t \in TNames : tbName'[d][t].seq > 0 /\ tbName'[d][t].id = i
        BY Zenon
      <4>3. PICK d \in Ids, t \in TNames : tbName[d][t].seq > 0 /\ tbName[d][t].id = i
        BY <4>1, <4>2, Zenon
      <4>4. tbName'[d][t].seq > 0 /\ tbName'[d][t].id = i
        BY <3>1, <4>3, Zenon
      <4> QED
        BY <4>4, Zenon
    <3> QED
      BY <3>2, <3>3, <3>4, Zenon DEF TableNamesMatchMetas
  <2>3. NoResurrection'
    <3>1. \A i \in dropped : i \in Ids /\ i # id
      BY <1>1, <1>3, SMTT(60) DEF NoResurrection, TypeOK
    <3> QED
      BY <1>1, <1>2, <1>4, <3>1, Zenon DEF NoResurrection
  <2> QED
    BY <2>2, <2>3, Zenon
<1>10. TouchesDb
  BY <1>2, Zenon DEF TouchesDb
<1>11. [C!Next]_(C!vars)
  <2>1. tbMeta[id] = rd[c].tbMeta
    BY <1>1, <1>2, <1>3, Zenon DEF ReadsOK, TbMetaReadOK, UpsertTableOptionCond, AtTxn, ById, id
  <2>2. id \in C!LiveTables
    <3>1. PICK d \in Ids, t \in TNames : tbName[d][t].seq > 0 /\ tbName[d][t].id = id
      BY <1>1, <1>3, Zenon DEF TableNamesMatchMetas
    <3>2. id # 0
      BY <1>3 DEF Ids
    <3> QED
      BY <3>1, <3>2 DEF C!LiveTables
  <2>3. op[c].key \in OptKeys /\ op[c].val \in OptVals \cup {NoOpt}
    BY <1>1, ClientTypes, Zenon
  <2>4. ASSUME NEW i \in Ids, NEW k \in OptKeys, NEW v \in OptVals \cup {NoOpt},
               i = id, k = op[c].key, v = op[c].val
        PROVE  C!SetOption(i, k, v)
    <3> DEFINE options == [j \in Ids |-> tbMeta[j].opts]
    <3>1. tbMeta[i].opts \in Options /\ tbMeta'[i].opts = [tbMeta[i].opts EXCEPT ![k] = v]
      BY <1>1, <1>4, <2>1, <2>4, StoreTypes, Zenon DEF opts
    <3>2. \A j \in Ids : j # i => tbMeta'[j].opts = tbMeta[j].opts
      BY <1>4, <2>4, Zenon
    <3>3. options' = [options EXCEPT ![i][k] = v]
      BY <3>1, <3>2, Zenon
    <3> QED
      BY <1>2, <3>3, Zenon DEF C!SetOption
  <2>5. \E i \in C!LiveTables, k \in OptKeys, v \in OptVals \cup {NoOpt} : C!SetOption(i, k, v)
    BY <1>3, <2>2, <2>3, <2>4, Zenon
  <2> QED
    BY <2>5, Zenon DEF C!Next
<1>12. Unanswered(c) => Stale(c)'
  <2>1. rd[c].tbMeta.seq = tbMeta[id].seq /\ tbMeta[id].seq \in Nat /\ tbMeta[id].seq <= seq
    BY <1>1, <1>2, <1>3, StoreTypes, Zenon DEF UpsertTableOptionCond, StoreOK, id
  <2>2. tbMeta'[id].seq # rd[c].tbMeta.seq
    BY <1>2, <1>4, <2>1
  <2> QED
    BY <1>2, <2>2, Zenon DEF Stale, Unanswered, AtTxn, id
<1> QED
  BY <1>2, <1>3, <1>4, <1>5, <1>6, <1>7, <1>8, <1>9, <1>10, <1>11, <1>12, CommitStep

\* create_table's transaction.
LEMMA CreateTableInv ==
  ASSUME Inv, NEW c \in Clients, CreateTable(c)
  PROVE  Inv' /\ FreshSeqs /\ TouchesDb /\ [C!Next]_(C!vars)
<1> DEFINE db == rd[c].name.id
           tb == op[c].tb
           id == rd[c].newId
<1>1. /\ TypeOK /\ StoreOK /\ DatabaseNamesMatchMetas /\ TableNamesMatchMetas
      /\ NoResurrection /\ NewIdOK(c) /\ ReachedOK(c) /\ ResendOK(c)
  BY Zenon DEF Inv
<1>2. /\ seq \in Nat /\ seq + 1 \in Seqs /\ seq + 2 \in Seqs /\ seq + 3 \in Seqs
      /\ seq' = seq + 3 /\ (Answered(c) \/ Unanswered(c)) /\ UNCHANGED <<dbName, dropped>>
      /\ CreateTableCond(c) /\ AtTxn(c, "create_table")
  <2>1. 3 \in Nat /\ 1 \in 0 .. 3 /\ 2 \in 0 .. 3 /\ 3 \in 0 .. 3
    OBVIOUS
  <2>2. Commit(c, 3)
    BY Zenon DEF CreateTable
  <2> QED
    BY <1>1, <2>1, <2>2, CommitSeqs, Zenon DEF CreateTable
<1>3. /\ db \in Ids /\ db \in Nat /\ tb \in TNames /\ id \in Ids /\ id \in Nat /\ id > 0
      /\ dbMeta[db] > 0 /\ dbMeta[db] # 0 /\ tbName[db][tb].seq = 0 /\ db # id
      /\ id <= seq /\ id \notin dropped /\ dbMeta[id] = 0 /\ tbMeta[id].seq = 0
  <2>1. pc[c] = "txn" /\ db > 0 /\ rd[c].meta > 0 /\ id > 0
    <3>1. Executable(c)
      BY <1>2, Zenon DEF Executable
    <3>2. pc[c] = "txn"
      BY <1>1, <3>1, FirstCopy, Zenon
    <3> QED
      BY <1>1, <1>2, <3>2, Zenon DEF AtTxn, ReachedOK, ById
  <2>2. dbMeta[db] > 0 /\ tbName[db][tb].seq = 0
    BY <1>2, <2>1, Zenon DEF CreateTableCond
  <2>3. db \in Ids /\ tb \in TNames /\ id \in Ids
    BY <1>1, <2>1, ClientTypes, RecordTypes, Zenon
  <2>4. id <= seq /\ id \notin dropped /\ dbMeta[id] = 0 /\ tbMeta[id].seq = 0
    BY <1>1, <2>1, Zenon DEF NewIdOK
  <2>5. dbMeta[db] \in Nat /\ db \in Nat /\ id \in Nat
    BY <1>1, <2>3, StoreTypes, Zenon
  <2> HIDE DEF db, tb, id
  <2> QED
    BY <2>1, <2>2, <2>3, <2>4, <2>5
<1>4. /\ \A i \in Ids : dbMeta'[i] = IF i = db THEN seq + 1 ELSE dbMeta[i]
      /\ \A d \in Ids, t \in TNames :
           tbName'[d][t] = IF d = db /\ t = tb THEN [seq |-> seq + 2, id |-> id] ELSE tbName[d][t]
      /\ \A i \in Ids : tbMeta'[i] = IF i = id THEN [seq |-> seq + 3, opts |-> NoOptions] ELSE tbMeta[i]
      /\ \A d \in Ids : d # db => tbName'[d] = tbName[d]
  BY <1>1, <1>3, Zenon DEF CreateTable, TypeOK
<1>5. TypeOK'
  <2>1. [seq |-> seq + 3, opts |-> NoOptions] \in MetaRecord
    BY <1>2, Zenon DEF MetaRecord, Options, NoOptions
  <2>2. [seq |-> seq + 2, id |-> id] \in IdRecord
    BY <1>2, <1>3, RecordTypes, Zenon DEF IdRecord
  <2>3. dbMeta' \in [Ids -> Seqs] /\ tbMeta' \in [Ids -> MetaRecord]
    BY <1>1, <1>2, <1>3, <2>1, Zenon DEF CreateTable, TypeOK
  <2>4. tbName' \in [Ids -> [TNames -> IdRecord]]
    BY <1>1, <1>3, <2>2, Zenon DEF CreateTable, TypeOK
  <2> QED
    BY <1>1, <1>2, <2>3, <2>4, CommitType, Zenon DEF TypeOK
<1> HIDE DEF db, tb, id
<1>6. FreshSeqs
  BY <1>1, <1>2, <1>4, StoreTypes DEF FreshSeqs
<1>7. StoreOK'
  BY <1>1, <1>2, <1>3, <1>4, StoreTypes DEF StoreOK
<1>8. DatabaseNamesMatchMetas'
  BY <1>1, <1>2, <1>3, <1>4, StoreTypes, NamesLeadToIds DEF DatabaseNamesMatchMetas, HasName
<1>9. TableNamesMatchMetas'
  <2>1. \A d \in Ids, t \in TNames : tbName[d][t].seq > 0 => tbName[d][t].id # id
    BY <1>1, <1>3, NamesLeadToIds, StoreTypes DEF TableNamesMatchMetas
  <2>5. tbName'[db][tb].id = id /\ tbMeta'[id].seq = seq + 3
    BY <1>3, <1>4
  <2>6. ASSUME NEW d \in Ids, NEW t \in TNames, ~(d = db /\ t = tb), tbName'[d][t].seq > 0
        PROVE  /\ tbName'[d][t].id = tbName[d][t].id /\ tbName[d][t].seq > 0
               /\ tbName'[d][t].id \in Ids \ {id}
    BY <1>1, <1>4, <2>6, <2>1, NamesLeadToIds
  <2>2. ASSUME NEW d \in Ids, NEW t \in TNames, tbName'[d][t].seq > 0
        PROVE  tbMeta'[tbName'[d][t].id].seq > 0
    <3>1. CASE d = db /\ t = tb
      BY <1>2, <2>5, <3>1
    <3>2. CASE ~(d = db /\ t = tb)
      <4>1. tbMeta[tbName[d][t].id].seq > 0
        BY <1>1, <2>2, <2>6, <3>2, Zenon DEF TableNamesMatchMetas
      <4> QED
        BY <1>4, <2>2, <2>6, <3>2, <4>1
    <3> QED
      BY <3>1, <3>2, Zenon
  <2>3. \A d \in Ids, t \in TNames : tbName'[d][t].seq > 0 =>
          \A e \in Ids, u \in TNames :
            tbName'[e][u].seq > 0 /\ tbName'[d][t].id = tbName'[e][u].id => d = e /\ t = u
    BY <1>1, <2>5, <2>6 DEF TableNamesMatchMetas
  <2>4. ASSUME NEW i \in Ids, tbMeta'[i].seq > 0
        PROVE  \E d \in Ids, t \in TNames : tbName'[d][t].seq > 0 /\ tbName'[d][t].id = i
    <3>1. CASE i = id
      BY <1>2, <1>3, <1>4, <3>1
    <3>2. CASE i # id
      <4>1. PICK d \in Ids, t \in TNames : tbName[d][t].seq > 0 /\ tbName[d][t].id = i
        BY <1>1, <1>4, <2>4, <3>2, Zenon DEF TableNamesMatchMetas
      <4>2. tbName'[d][t] = tbName[d][t]
        <5>1. ~(0 > 0)
          OBVIOUS
        <5>2. ~(d = db /\ t = tb)
          BY <1>3, <4>1, <5>1, Zenon
        <5> QED
          BY <1>4, <5>2, Zenon
      <4> QED
        BY <4>1, <4>2, Zenon
    <3> QED
      BY <3>1, <3>2, Zenon
  <2> QED
    BY <2>2, <2>3, <2>4, Zenon DEF TableNamesMatchMetas
<1>10. NoResurrection'
  <2>1. \A i \in dropped : i \in Ids /\ i # db /\ i # id
    BY <1>1, <1>3, Zenon DEF NoResurrection, TypeOK
  <2> QED
    BY <1>1, <1>2, <1>4, <2>1, Zenon DEF NoResurrection
<1>11. TouchesDb
  BY <1>1, <1>2, <1>3, <1>4, StoreTypes DEF TouchesDb, StoreOK
<1>12. \A i \in Ids : dbMeta[i] = 0 /\ tbMeta[i].seq = 0 /\ i # rd[c].newId
         => dbMeta'[i] = 0 /\ tbMeta'[i].seq = 0 /\ (i \in dropped' => i \in dropped)
  BY <1>2, <1>3, <1>4, Zenon DEF id
<1>13. [C!Next]_(C!vars)
  <2>1. C!Fresh(id)
    BY <1>1, <1>3, StoreTypes, NamesLeadToIds, SMTT(60)
       DEF C!Fresh, C!LiveDbs, C!LiveTables, DatabaseNamesMatchMetas, TableNamesMatchMetas, StoreOK
  <2>2. db \in C!LiveDbs
    <3>1. PICK n \in Names : dbName[n].seq > 0 /\ dbName[n].id = db
      BY <1>1, <1>3, Zenon DEF DatabaseNamesMatchMetas, HasName
    <3>2. db # 0
      BY <1>3 DEF Ids
    <3> QED
      BY <3>1, <3>2, Zenon DEF C!LiveDbs
  <2>3. tbName[db][tb].id = 0 /\ tbMeta[id].opts = NoOptions
    BY <1>1, <1>3, SMTT(60) DEF StoreOK, NoMeta
  <2>4. ASSUME NEW d \in Ids, NEW t \in TNames, NEW i \in Ids, d = db, t = tb, i = id
        PROVE  C!CreateTable(d, t, i)
    <3> DEFINE tables == [e \in Ids |-> [u \in TNames |-> tbName[e][u].id]]
    <3>1. \A e \in Ids, u \in TNames :
            tbName'[e][u].id = IF e = d /\ u = t THEN i ELSE tbName[e][u].id
      BY <1>4, <2>4
    <3>2. tables' = [tables EXCEPT ![d][t] = i]
      <4>1. \A e \in Ids, u \in TNames :
              tables'[e][u] = IF e = d /\ u = t THEN i ELSE tables[e][u]
        BY <3>1, Zenon
      <4>2. /\ tables' = [e \in Ids |-> [u \in TNames |-> tables'[e][u]]]
            /\ tables = [e \in Ids |-> [u \in TNames |-> tables[e][u]]]
        OBVIOUS
      <4> HIDE DEF tables
      <4> QED
        BY <4>1, <4>2, UpdateCell
    <3>3. tables[d][t] = 0
      BY <2>3, <2>4, Zenon
    <3>4. UNCHANGED [n \in Names |-> dbName[n].id]
      BY <1>2, Zenon
    <3>5. UNCHANGED [j \in Ids |-> tbMeta[j].opts]
      BY <1>3, <1>4, <2>3
    <3>6. C!Fresh(i)
      BY <2>1, <2>4 DEF C!Fresh, C!LiveDbs, C!LiveTables
    <3> QED
      BY <1>2, <3>2, <3>3, <3>4, <3>5, <3>6, Zenon DEF C!CreateTable
  <2>5. \E d \in C!LiveDbs, t \in TNames, i \in Ids : C!CreateTable(d, t, i)
    BY <1>3, <2>2, <2>4, Zenon
  <2> QED
    BY <2>5, Zenon DEF C!Next
<1>14. Unanswered(c) => Stale(c)'
  <2>1. rd[c].meta = dbMeta[db] /\ dbMeta[db] \in Nat /\ dbMeta[db] <= seq /\ dbMeta'[db] = seq + 1
    BY <1>1, <1>2, <1>3, <1>4, StoreTypes, Zenon DEF CreateTableCond, StoreOK, db
  <2>2. dbMeta'[db] # rd[c].meta
    BY <1>2, <2>1
  <2> QED
    BY <1>2, <2>2, Zenon DEF Stale, Unanswered, AtTxn, db
<1> QED
  BY <1>2, <1>5, <1>6, <1>7, <1>8, <1>9, <1>10, <1>11, <1>12, <1>13, <1>14, CommitStep, Zenon

\* drop_table's transaction.
LEMMA DropTableInv ==
  ASSUME Inv, NEW c \in Clients, DropTable(c)
  PROVE  Inv' /\ FreshSeqs /\ TouchesDb /\ [C!Next]_(C!vars)
<1> DEFINE db == rd[c].name.id
           tb == op[c].tb
           id == rd[c].tb.id
<1>1. /\ TypeOK /\ StoreOK /\ DatabaseNamesMatchMetas /\ TableNamesMatchMetas
      /\ NoResurrection /\ ReadsOK(c) /\ ReachedOK(c)
  BY Zenon DEF Inv
<1>2. /\ seq \in Nat /\ seq + 1 \in Seqs /\ seq' = seq + 1 /\ (Answered(c) \/ Unanswered(c))
      /\ UNCHANGED <<dbName>>
      /\ DropTableCond(c) /\ AtTxn(c, "drop_table")
  <2>1. 1 \in Nat /\ 1 \in 0 .. 1
    OBVIOUS
  <2>2. Commit(c, 1)
    BY Zenon DEF DropTable
  <2> QED
    BY <1>1, <2>1, <2>2, CommitSeqs, Zenon DEF DropTable
<1>3. /\ db \in Ids /\ db \in Nat /\ tb \in TNames /\ id \in Ids /\ id \in Nat /\ id <= seq
      /\ dbMeta[db] > 0 /\ dbMeta[db] # 0 /\ db # id
      /\ tbName[db][tb].seq > 0 /\ tbName[db][tb].id = id
      /\ tbMeta[id].seq > 0 /\ tbMeta[id].seq # 0 /\ dbMeta[id] = 0
  <2>1. db > 0 /\ rd[c].meta > 0 /\ id > 0 /\ rd[c].tb.seq > 0
    BY <1>1, <1>2, Zenon DEF AtTxn, ReachedOK, ById
  <2>2. dbMeta[db] > 0 /\ tbName[db][tb] = rd[c].tb
    BY <1>1, <1>2, <2>1, Zenon DEF ReadsOK, TbReadOK, DropTableCond
  <2>3. db \in Ids /\ tb \in TNames /\ id \in Ids
    BY <1>1, <2>1, ClientTypes, RecordTypes, Zenon
  <2>4. tbName[db][tb].seq > 0 /\ tbName[db][tb].id = id
    BY <2>1, <2>2, Zenon
  <2>5. dbMeta[db] \in Nat /\ db \in Nat /\ id \in Nat /\ tbMeta[id].seq \in Nat
    BY <1>1, <2>3, StoreTypes, Zenon
  <2> HIDE DEF db, tb, id
  <2>6. tbMeta[id].seq > 0 /\ id <= seq
    BY <1>1, <2>3, <2>4, Zenon DEF TableNamesMatchMetas, StoreOK
  <2>7. dbMeta[id] = 0
    BY <1>1, <2>3, <2>5, <2>6 DEF StoreOK
  <2> QED
    BY <2>1, <2>2, <2>3, <2>4, <2>5, <2>6, <2>7, SMTT(60)
<1>4. /\ dbMeta'[db] = seq + 1 /\ \A i \in Ids : i # db => dbMeta'[i] = dbMeta[i]
      /\ tbName'[db][tb] = NoId
      /\ \A d \in Ids, t \in TNames : ~(d = db /\ t = tb) => tbName'[d][t] = tbName[d][t]
      /\ tbMeta'[id] = NoMeta /\ \A i \in Ids : i # id => tbMeta'[i] = tbMeta[i]
      /\ \A d \in Ids : d # db => tbName'[d] = tbName[d]
      /\ dropped' = dropped \cup {id}
  BY <1>1, <1>3, Zenon DEF DropTable, TypeOK
<1>5. TypeOK'
  <2>1. NoMeta \in MetaRecord /\ NoId \in IdRecord
    BY BoundAssumption DEF MetaRecord, IdRecord, NoMeta, NoId, Options, NoOptions, Seqs
  <2>2. dbMeta' \in [Ids -> Seqs] /\ tbMeta' \in [Ids -> MetaRecord]
    BY <1>1, <1>2, <1>3, <2>1, Zenon DEF DropTable, TypeOK
  <2>3. tbName' \in [Ids -> [TNames -> IdRecord]]
    BY <1>1, <1>3, <2>1, Zenon DEF DropTable, TypeOK
  <2> HIDE DEF db, tb, id
  <2> QED
    BY <1>1, <1>2, <1>3, <1>4, <2>2, <2>3, CommitType, Zenon DEF TypeOK
<1> HIDE DEF db, tb, id
<1>6. FreshSeqs
  BY <1>1, <1>2, <1>4, StoreTypes, SMTT(60) DEF FreshSeqs, NoId, NoMeta
<1>7. StoreOK'
  BY <1>1, <1>2, <1>3, <1>4, StoreTypes, SMTT(60) DEF StoreOK, NoId, NoMeta
<1>8. DatabaseNamesMatchMetas'
  BY <1>1, <1>2, <1>3, <1>4, StoreTypes, NamesLeadToIds, SMTT(60) DEF DatabaseNamesMatchMetas, HasName
<1>9. TableNamesMatchMetas'
  <2>1. ~(NoId.seq > 0) /\ ~(NoMeta.seq > 0)
    BY DEF NoId, NoMeta
  <2>2. ASSUME NEW d \in Ids, NEW t \in TNames, tbName'[d][t].seq > 0
        PROVE  /\ ~(d = db /\ t = tb) /\ tbName'[d][t] = tbName[d][t]
               /\ tbName[d][t].seq > 0 /\ tbName[d][t].id \in Ids \ {id}
    <3>1. ~(d = db /\ t = tb) /\ tbName'[d][t] = tbName[d][t] /\ tbName[d][t].seq > 0
      BY <1>4, <2>1, <2>2, Zenon
    <3>2. tbName[d][t].id # id
      BY <1>1, <1>3, <3>1, SMTT(60) DEF TableNamesMatchMetas
    <3> QED
      BY <1>1, <3>1, <3>2, NamesLeadToIds, Zenon
  <2>3. \A d \in Ids, t \in TNames : tbName'[d][t].seq > 0 => tbMeta'[tbName'[d][t].id].seq > 0
    BY <1>1, <1>4, <2>2, SMTT(60) DEF TableNamesMatchMetas
  <2>4. \A d \in Ids, t \in TNames : tbName'[d][t].seq > 0 =>
          \A e \in Ids, u \in TNames :
            tbName'[e][u].seq > 0 /\ tbName'[d][t].id = tbName'[e][u].id => d = e /\ t = u
    BY <1>1, <2>2, SMTT(60) DEF TableNamesMatchMetas
  <2>5. ASSUME NEW i \in Ids, tbMeta'[i].seq > 0
        PROVE  \E d \in Ids, t \in TNames : tbName'[d][t].seq > 0 /\ tbName'[d][t].id = i
    <3>1. i # id /\ tbMeta[i].seq > 0
      BY <1>4, <2>1, <2>5, Zenon
    <3>2. PICK d \in Ids, t \in TNames : tbName[d][t].seq > 0 /\ tbName[d][t].id = i
      BY <1>1, <3>1, Zenon DEF TableNamesMatchMetas
    <3> QED
      BY <1>3, <1>4, <3>1, <3>2
  <2> QED
    BY <2>3, <2>4, <2>5, Zenon DEF TableNamesMatchMetas
<1>10. NoResurrection'
  <2>1. \A i \in dropped : i \in Ids /\ i # db /\ i # id
    BY <1>1, <1>3, Zenon DEF NoResurrection, TypeOK
  <2>2. \A i \in dropped : dbMeta'[i] = 0 /\ tbMeta'[i].seq = 0
    BY <1>1, <1>4, <2>1, Zenon DEF NoResurrection
  <2>3. dbMeta'[id] = 0 /\ tbMeta'[id].seq = 0
    BY <1>3, <1>4, SMTT(60) DEF NoMeta
  <2> QED
    BY <1>4, <2>2, <2>3, Zenon DEF NoResurrection
<1>11. TouchesDb
  BY <1>1, <1>2, <1>3, <1>4, StoreTypes DEF TouchesDb, StoreOK
<1>12. \A i \in Ids : dbMeta[i] = 0 /\ tbMeta[i].seq = 0 /\ i # rd[c].newId
         => dbMeta'[i] = 0 /\ tbMeta'[i].seq = 0 /\ (i \in dropped' => i \in dropped)
  BY <1>2, <1>3, <1>4, Zenon
<1>13. [C!Next]_(C!vars)
  <2>1. db \in C!LiveDbs
    <3>1. PICK n \in Names : dbName[n].seq > 0 /\ dbName[n].id = db
      BY <1>1, <1>3, Zenon DEF DatabaseNamesMatchMetas, HasName
    <3>2. db # 0
      BY <1>3, SMTT(60) DEF Ids
    <3> QED
      BY <3>1, <3>2, Zenon DEF C!LiveDbs
  <2>2. id # 0
    BY <1>3 DEF Ids
  <2>3. ASSUME NEW d \in Ids, NEW t \in TNames, d = db, t = tb
        PROVE  C!DropTable(d, t)
    <3> DEFINE tables == [e \in Ids |-> [u \in TNames |-> tbName[e][u].id]]
               options == [j \in Ids |-> tbMeta[j].opts]
    <3>1. \A e \in Ids, u \in TNames :
            tbName'[e][u].id = IF e = d /\ u = t THEN 0 ELSE tbName[e][u].id
      BY <1>4, <2>3 DEF NoId
    <3>2. tables' = [tables EXCEPT ![d][t] = 0]
      <4>1. \A e \in Ids, u \in TNames :
              tables'[e][u] = IF e = d /\ u = t THEN 0 ELSE tables[e][u]
        BY <3>1, Zenon
      <4>2. /\ tables' = [e \in Ids |-> [u \in TNames |-> tables'[e][u]]]
            /\ tables = [e \in Ids |-> [u \in TNames |-> tables[e][u]]]
        OBVIOUS
      <4> HIDE DEF tables
      <4> QED
        BY <4>1, <4>2, UpdateCell
    <3>3. tables[d][t] = id /\ id # 0
      BY <1>3, <2>2, <2>3, Zenon
    <3>4. options' = [options EXCEPT ![id] = NoOptions]
      <4>1. \A j \in Ids : tbMeta'[j].opts = IF j = id THEN NoOptions ELSE tbMeta[j].opts
        BY <1>4 DEF NoMeta
      <4> QED
        BY <1>3, <4>1, Zenon
    <3>5. UNCHANGED [n \in Names |-> dbName[n].id]
      BY <1>2, Zenon
    <3> QED
      BY <1>4, <3>2, <3>3, <3>4, <3>5, Zenon DEF C!DropTable, NoOptions
  <2>4. \E d \in C!LiveDbs, t \in TNames : C!DropTable(d, t)
    BY <1>3, <2>1, <2>3, Zenon
  <2> QED
    BY <2>4, Zenon DEF C!Next
<1>14. Unanswered(c) => Stale(c)'
  <2>1. rd[c].meta = dbMeta[db] /\ dbMeta[db] \in Nat /\ dbMeta[db] <= seq /\ dbMeta'[db] = seq + 1
    BY <1>1, <1>2, <1>3, <1>4, StoreTypes, Zenon DEF DropTableCond, StoreOK, db
  <2>2. dbMeta'[db] # rd[c].meta
    BY <1>2, <2>1
  <2> QED
    BY <1>2, <2>2, Zenon DEF Stale, Unanswered, AtTxn, db
<1> QED
  BY <1>2, <1>5, <1>6, <1>7, <1>8, <1>9, <1>10, <1>11, <1>12, <1>13, <1>14, CommitStep, Zenon
\* rename_table's transaction.
LEMMA RenameTableInv ==
  ASSUME Inv, NEW c \in Clients, RenameTable(c)
  PROVE  Inv' /\ FreshSeqs /\ TouchesDb /\ [C!Next]_(C!vars)
<1> DEFINE db    == rd[c].name.id
           newDb == rd[c].newName.id
           tb    == op[c].tb
           newTb == op[c].newTb
           id    == rd[c].tb.id
           new   == [seq |-> seq + 1, id |-> id]
<1>1. /\ TypeOK /\ StoreOK /\ DatabaseNamesMatchMetas /\ TableNamesMatchMetas
      /\ NoResurrection /\ ReadsOK(c) /\ ReachedOK(c)
  BY SMTT(60), Zenon DEF Inv
<1>2. /\ seq \in Nat /\ seq + 1 \in Seqs /\ seq + 2 \in Seqs
      /\ newDb # db => seq + 3 \in Seqs
      /\ (newDb = db => seq' = seq + 2) /\ (newDb # db => seq' = seq + 3)
      /\ seq' \in Seqs
      /\ (Answered(c) \/ Unanswered(c)) /\ UNCHANGED <<dbName, tbMeta, dropped>>
      /\ RenameTableCond(c) /\ AtTxn(c, "rename_table")
  <2>1. /\ 2 \in Nat /\ 1 \in 0 .. 2 /\ 2 \in 0 .. 2
        /\ 3 \in Nat /\ 1 \in 0 .. 3 /\ 2 \in 0 .. 3 /\ 3 \in 0 .. 3
    OBVIOUS
  <2>2. /\ newDb = db => Commit(c, 2)
        /\ newDb # db => Commit(c, 3)
        /\ UNCHANGED <<dbName, tbMeta, dropped>>
        /\ RenameTableCond(c) /\ AtTxn(c, "rename_table")
    BY Zenon DEF RenameTable
  <2> HIDE DEF db, newDb
  <2>3. CASE newDb = db
    BY <1>1, <2>1, <2>2, <2>3, CommitSeqs, Zenon
  <2>4. CASE newDb # db
    BY <1>1, <2>1, <2>2, <2>4, CommitSeqs, Zenon
  <2> QED
    BY <2>3, <2>4, Zenon
<1>3. /\ db \in Ids /\ newDb \in Ids /\ tb \in TNames /\ newTb \in TNames
      /\ id \in Ids /\ id \in Nat /\ id <= seq /\ id # 0
      /\ dbMeta[db] > 0 /\ dbMeta[db] # 0 /\ dbMeta[newDb] > 0 /\ dbMeta[newDb] # 0
      /\ tbName[db][tb].seq > 0 /\ tbName[db][tb].id = id
      /\ tbName[newDb][newTb].seq = 0
      /\ tbMeta[id].seq > 0
  <2>1. /\ db > 0 /\ newDb > 0 /\ rd[c].meta > 0 /\ rd[c].newMeta > 0
        /\ id > 0 /\ rd[c].tb.seq > 0
    BY <1>1, <1>2, Zenon DEF AtTxn, ReachedOK, ById
  <2>2. /\ dbMeta[db] > 0 /\ dbMeta[newDb] > 0 /\ tbName[db][tb] = rd[c].tb
        /\ tbName[newDb][newTb].seq = 0
    BY <1>1, <1>2, <2>1, Zenon DEF ReadsOK, TbReadOK, RenameTableCond
  <2>3. db \in Ids /\ newDb \in Ids /\ tb \in TNames /\ newTb \in TNames /\ id \in Ids
    BY <1>1, <2>1, ClientTypes, RecordTypes, Zenon
  <2>4. tbName[db][tb].seq > 0 /\ tbName[db][tb].id = id
    BY <2>1, <2>2, Zenon
  <2>5. dbMeta[db] \in Nat /\ dbMeta[newDb] \in Nat /\ id \in Nat
    BY <1>1, <2>3, StoreTypes, Zenon
  <2> HIDE DEF db, tb, newDb, newTb, id
  <2>6. tbMeta[id].seq > 0 /\ id <= seq
    BY <1>1, <2>3, <2>4, Zenon DEF TableNamesMatchMetas, StoreOK
  <2> QED
    BY <2>1, <2>2, <2>3, <2>4, <2>5, <2>6
<1>4. /\ dbMeta'[db] = seq + 2
      /\ newDb # db => dbMeta'[newDb] = seq + 3
      /\ \A i \in Ids \ {db, newDb} : dbMeta'[i] = dbMeta[i] /\ tbName'[i] = tbName[i]
      /\ tbName'[newDb][newTb] = new
      /\ ~(newDb = db /\ newTb = tb) => tbName'[db][tb] = NoId
      /\ \A d \in Ids, t \in TNames :
           ~(d = newDb /\ t = newTb) /\ ~(d = db /\ t = tb) => tbName'[d][t] = tbName[d][t]
      /\ DOMAIN dbMeta' = Ids /\ dbMeta' = [i \in Ids |-> dbMeta'[i]]
  BY <1>1, <1>3, Zenon DEF RenameTable, TypeOK
<1>5. new \in IdRecord /\ NoId \in IdRecord /\ new.seq = seq + 1 /\ new.id = id
  <2>1. id \in Seqs /\ 0 \in Seqs
    <3>1. id \in Ids
      BY <1>3, Zenon
    <3> HIDE DEF db, tb, newDb, newTb, id
    <3> QED
      BY <3>1, BoundAssumption DEF Ids, Seqs
  <2> HIDE DEF db, tb, newDb, newTb, id
  <2> QED
    BY <1>2, <2>1, Zenon DEF IdRecord, NoId
<1>6. TypeOK' /\ FreshSeqs
  <2>1. tbName' \in [Ids -> [TNames -> IdRecord]]
    BY <1>1, <1>3, <1>5, Zenon DEF RenameTable, TypeOK
  <2> HIDE DEF db, tb, newDb, newTb, id, new
  <2>2. \A i \in Ids : dbMeta[i] \in Seqs
    BY <1>1, Zenon DEF TypeOK
  <2>3. dbMeta' \in [Ids -> Seqs]
    <3>1. \A i \in Ids : dbMeta'[i] \in Seqs
      BY <1>2, <1>4, <2>2
    <3> QED
      BY <1>4, <3>1, Zenon
  <2>4. TypeOK'
    BY <1>1, <1>2, <2>1, <2>3, CommitType, Zenon DEF TypeOK
  <2> QED
    BY <1>1, <1>2, <1>4, <1>5, <2>4, StoreTypes DEF FreshSeqs, NoId
<1> HIDE DEF db, tb, newDb, newTb, id, new
<1>7. StoreOK'
  BY <1>1, <1>2, <1>3, <1>4, <1>5, StoreTypes, SMTT(60) DEF StoreOK, NoId
<1>8. DatabaseNamesMatchMetas'
  BY <1>1, <1>2, <1>3, <1>4, StoreTypes, NamesLeadToIds DEF DatabaseNamesMatchMetas, HasName
<1>9. TableNamesMatchMetas'
  <2>1. ~(NoId.seq > 0) /\ new.seq > 0 /\ new.id = id
    BY <1>2, <1>5 DEF NoId
  <2>2. tbName'[newDb][newTb] = new /\ ~(newDb = db /\ newTb = tb)
    BY <1>3, <1>4
  <2>3. ASSUME NEW d \in Ids, NEW t \in TNames, tbName'[d][t].seq > 0,
               ~(d = newDb /\ t = newTb)
        PROVE  /\ ~(d = db /\ t = tb) /\ tbName'[d][t] = tbName[d][t]
               /\ tbName[d][t].seq > 0 /\ tbName[d][t].id \in Ids \ {id}
    <3>1. ~(d = db /\ t = tb) /\ tbName'[d][t] = tbName[d][t] /\ tbName[d][t].seq > 0
      BY <1>4, <2>1, <2>3, Zenon
    <3>2. tbName[d][t].id # id
      BY <1>1, <1>3, <3>1 DEF TableNamesMatchMetas
    <3> QED
      BY <1>1, <3>1, <3>2, NamesLeadToIds, Zenon
  <2>4. \A d \in Ids, t \in TNames : tbName'[d][t].seq > 0 => tbMeta'[tbName'[d][t].id].seq > 0
    BY <1>1, <1>2, <1>3, <2>1, <2>2, <2>3 DEF TableNamesMatchMetas
  <2>5. \A d \in Ids, t \in TNames : tbName'[d][t].seq > 0 =>
          \A e \in Ids, u \in TNames :
            tbName'[e][u].seq > 0 /\ tbName'[d][t].id = tbName'[e][u].id => d = e /\ t = u
    BY <1>1, <2>1, <2>2, <2>3, SMTT(60) DEF TableNamesMatchMetas
  <2>6. ASSUME NEW i \in Ids, tbMeta'[i].seq > 0
        PROVE  \E d \in Ids, t \in TNames : tbName'[d][t].seq > 0 /\ tbName'[d][t].id = i
    <3>1. PICK d \in Ids, t \in TNames : tbName[d][t].seq > 0 /\ tbName[d][t].id = i
      BY <1>1, <1>2, <2>6, Zenon DEF TableNamesMatchMetas
    <3>2. CASE i = id
      BY <1>3, <2>1, <2>2, <3>2, Zenon
    <3>3. CASE i # id
      BY <1>3, <1>4, <3>1, <3>3
    <3> QED
      BY <3>2, <3>3, Zenon
  <2> QED
    BY <2>4, <2>5, <2>6, Zenon DEF TableNamesMatchMetas
<1>10. NoResurrection'
  <2>1. \A i \in dropped : i \in Ids /\ i # db /\ i # newDb
    BY <1>1, <1>3, Zenon DEF NoResurrection, TypeOK
  <2> QED
    BY <1>1, <1>2, <1>4, <2>1, Zenon DEF NoResurrection
<1>11. TouchesDb
  BY <1>1, <1>2, <1>3, <1>4, StoreTypes DEF TouchesDb, StoreOK
<1>12. \A i \in Ids : dbMeta[i] = 0 /\ tbMeta[i].seq = 0 /\ i # rd[c].newId
         => dbMeta'[i] = 0 /\ tbMeta'[i].seq = 0 /\ (i \in dropped' => i \in dropped)
  BY <1>2, <1>3, <1>4, Zenon
<1>13. [C!Next]_(C!vars)
  <2>1. db \in C!LiveDbs
    <3>1. PICK n \in Names : dbName[n].seq > 0 /\ dbName[n].id = db
      BY <1>1, <1>3, Zenon DEF DatabaseNamesMatchMetas, HasName
    <3>2. db # 0
      BY <1>3 DEF Ids
    <3> QED
      BY <3>1, <3>2, Zenon DEF C!LiveDbs
  <2>2. newDb \in C!LiveDbs
    <3>1. PICK n \in Names : dbName[n].seq > 0 /\ dbName[n].id = newDb
      BY <1>1, <1>3, Zenon DEF DatabaseNamesMatchMetas, HasName
    <3>2. newDb # 0
      BY <1>3 DEF Ids
    <3> QED
      BY <3>1, <3>2, Zenon DEF C!LiveDbs
  <2>3. tbName[newDb][newTb].id = 0
    BY <1>1, <1>3, Zenon DEF StoreOK
  <2>4. ASSUME NEW d \in Ids, NEW e \in Ids, NEW t \in TNames, NEW u \in TNames,
               d = db, e = newDb, t = tb, u = newTb
        PROVE  C!RenameTable(d, t, e, u)
    <3> DEFINE tables == [f \in Ids |-> [w \in TNames |-> tbName[f][w].id]]
    <3>1. \A f \in Ids, w \in TNames :
            tbName'[f][w].id = IF f = e /\ w = u THEN id
                               ELSE IF f = d /\ w = t THEN 0 ELSE tbName[f][w].id
      BY <1>4, <1>5, <2>4 DEF NoId
    <3>2. tables' = [tables EXCEPT ![d][t] = 0, ![e][u] = id]
      <4> DEFINE between == [tables EXCEPT ![d][t] = 0]
      <4>1. \A f \in Ids, w \in TNames :
              /\ tables'[f][w] = IF f = e /\ w = u THEN id ELSE between[f][w]
              /\ between[f][w] = IF f = d /\ w = t THEN 0 ELSE tables[f][w]
        BY <3>1, Zenon
      <4>2. /\ tables' = [f \in Ids |-> [w \in TNames |-> tables'[f][w]]]
            /\ between = [f \in Ids |-> [w \in TNames |-> between[f][w]]]
        BY Zenon
      <4>3. tables' = [between EXCEPT ![e][u] = id]
        <5> HIDE DEF tables, between
        <5> QED
          BY <4>1, <4>2, UpdateCell
      <4> QED
        BY <4>3, Zenon
    <3>3. tables[d][t] = id /\ id # 0 /\ tables[e][u] = 0
      BY <1>3, <2>3, <2>4, Zenon
    <3>4. UNCHANGED <<[n \in Names |-> dbName[n].id], [j \in Ids |-> tbMeta[j].opts]>>
      BY <1>2, Zenon
    <3> QED
      BY <1>2, <3>2, <3>3, <3>4, Zenon DEF C!RenameTable
  <2>5. \E d, e \in C!LiveDbs, t, u \in TNames : C!RenameTable(d, t, e, u)
    BY <1>3, <2>1, <2>2, <2>4, Zenon
  <2> QED
    BY <2>5, Zenon DEF C!Next
<1>14. Unanswered(c) => Stale(c)'
  <2>1. rd[c].meta = dbMeta[db] /\ dbMeta[db] \in Nat /\ dbMeta[db] <= seq /\ dbMeta'[db] = seq + 2
    BY <1>1, <1>2, <1>3, <1>4, StoreTypes, Zenon DEF RenameTableCond, StoreOK, db
  <2>2. dbMeta'[db] # rd[c].meta
    BY <1>2, <2>1
  <2> QED
    BY <1>2, <2>2, Zenon DEF Stale, Unanswered, AtTxn, db
<1> QED
  BY <1>2, <1>5, <1>6, <1>7, <1>8, <1>9, <1>10, <1>11, <1>12, <1>13, <1>14, CommitStep, Zenon

\* A step that leaves the store alone, and fetch_id, which only takes a seq.
LEMMA QuietStep ==
  ASSUME seq \in Nat, seq' \in {seq, seq + 1},
         UNCHANGED <<dbName, dbMeta, tbName, tbMeta, dropped>>
  PROVE  FreshSeqs /\ TouchesDb /\ [C!Next]_(C!vars)
<1>1. FreshSeqs /\ TouchesDb
  BY DEF FreshSeqs, TouchesDb
<1>2. UNCHANGED C!vars
  BY Zenon DEF C!vars
<1> QED
  BY <1>1, <1>2, Zenon

\* Every step of the system keeps the invariant, uses fresh seqs, and is a step of Catalog.
LEMMA StepInv ==
  ASSUME CreatesOnce, Inv, [Next]_vars
  PROVE  Inv' /\ FreshSeqs /\ TouchesDb /\ [C!Next]_(C!vars)
<1>1. seq \in Nat
  BY StoreTypes, Zenon DEF Inv
<1>2. ASSUME NEW c \in Clients, Step(c)
      PROVE  Inv' /\ FreshSeqs /\ TouchesDb /\ [C!Next]_(C!vars)
  <2>1. CASE GetDbId(c) \/ GetDbMeta(c) \/ GetTableId(c) \/ GetTableMeta(c)
             \/ GetNewDbId(c) \/ GetNewDbMeta(c) \/ GetNewTableId(c)
    <3>1. Inv'
      BY <2>1, GetDbIdInv, GetDbMetaInv, GetTableIdInv, GetTableMetaInv,
         GetNewDbIdInv, GetNewDbMetaInv, GetNewTableIdInv, Zenon
    <3>2. UNCHANGED store
      BY <2>1, Zenon DEF GetDbId, GetDbMeta, GetTableId, GetTableMeta, GetNewDbId,
                  GetNewDbMeta, GetNewTableId, Returned
    <3> QED
      BY <1>1, <3>1, <3>2, QuietStep, Zenon DEF store
  <2>2. CASE FetchId(c)
    BY <1>1, <2>2, FetchIdInv, QuietStep, Zenon DEF FetchId
  <2>3. CASE CreateDatabase(c)
    BY <2>3, CreateDatabaseInv, Zenon
  <2>4. CASE DropDatabase(c)
    BY <2>4, DropDatabaseInv, Zenon
  <2>5. CASE RenameDatabase(c)
    BY <2>5, RenameDatabaseInv, Zenon
  <2>6. CASE CreateTable(c)
    BY <2>6, CreateTableInv, Zenon
  <2>7. CASE DropTable(c)
    BY <2>7, DropTableInv, Zenon
  <2>8. CASE RenameTable(c)
    BY <2>8, RenameTableInv, Zenon
  <2>9. CASE UpsertTableOption(c)
    BY <2>9, UpsertTableOptionInv, Zenon
  <2>10. CASE Retry(c)
    <3>1. UNCHANGED store
      BY <2>10, Zenon DEF Retry, Refused
    <3> QED
      BY <1>1, <2>10, <3>1, RetryInv, QuietStep, Zenon DEF store
  <2> QED
    BY <1>2, <2>1, <2>2, <2>3, <2>4, <2>5, <2>6, <2>7, <2>8, <2>9, <2>10, Zenon DEF Step
<1>3. ASSUME NEW c \in Clients, NEW req \in Requests, Start(c, req)
      PROVE  Inv' /\ FreshSeqs /\ TouchesDb /\ [C!Next]_(C!vars)
  <2>1. UNCHANGED store
    BY <1>3, Zenon DEF Start
  <2> QED
    BY <1>1, <1>3, <2>1, StartInv, QuietStep, Zenon DEF store
<1>4. CASE UNCHANGED vars
  <2>1. UNCHANGED <<store, pc, op, rd, ops>>
    BY <1>4, Zenon DEF vars, local
  <2>2. Inv'
    <3>1. TypeOK' /\ StoreOK' /\ DatabaseNamesMatchMetas' /\ TableNamesMatchMetas'
          /\ NoResurrection'
      BY <2>1 DEF store, Inv, TypeOK, StoreOK, DatabaseNamesMatchMetas, TableNamesMatchMetas,
                  NoResurrection, HasName
    <3>2. ASSUME NEW c \in Clients
          PROVE  (NewIdOK(c) /\ ReadsOK(c) /\ ReachedOK(c) /\ ResendOK(c))'
      <4>1. NewIdOK(c) /\ ReadsOK(c) /\ ReachedOK(c) /\ ResendOK(c)
        BY SMTT(60), Zenon DEF Inv
      <4>2. NewIdOK(c)'
        BY <2>1, <4>1, Zenon DEF store, NewIdOK
      <4>3. ReadsOK(c)'
        BY <2>1, <4>1, SameReads, Zenon DEF ReadsOK
      <4>4. ReachedOK(c)'
        BY <2>1, <4>1 DEF ReachedOK
      <4>5. ResendOK(c)'
        BY <2>1, <4>1, SameStale, Zenon DEF ResendOK
      <4> QED
        BY <4>2, <4>3, <4>4, <4>5, Zenon
    <3> QED
      BY <3>1, <3>2, Zenon DEF Inv
  <2> QED
    BY <1>1, <2>1, <2>2, QuietStep, Zenon DEF store
<1>5. ASSUME NEW c \in Clients, Fails(c)
      PROVE  Inv' /\ FreshSeqs /\ TouchesDb /\ [C!Next]_(C!vars)
  <2>1. Finish(c) /\ UNCHANGED <<store, ops>>
    BY <1>5, Zenon DEF Fails
  <2> QED
    BY <1>1, <2>1, ReturnStep, QuietStep, Zenon DEF store
<1> QED
  BY <1>2, <1>3, <1>4, <1>5, Zenon DEF Next

\* The inductive invariant holds in every reachable state, when every other
\* transaction than create_database's may be sent twice.
THEOREM Invariance == ASSUME CreatesOnce PROVE Spec => []Inv
<1>1. Init => Inv
  BY InitInv, Zenon
<1>2. Inv /\ [Next]_vars => Inv'
  BY StepInv, Zenon
<1> QED
  BY <1>1, <1>2, PTL DEF Spec

\* The variables of the store and of the clients keep their types.
THEOREM TypeCorrect == ASSUME CreatesOnce PROVE Spec => []TypeOK
<1>1. Inv => TypeOK
  BY Zenon DEF Inv
<1> QED
  BY <1>1, Invariance, PTL

\* Names and metas of databases correspond one to one, for any number of
\* clients, names and operations.
THEOREM DatabasesConsistent == ASSUME CreatesOnce PROVE Spec => []DatabaseNamesMatchMetas
<1>1. Inv => DatabaseNamesMatchMetas
  BY Zenon DEF Inv
<1> QED
  BY <1>1, Invariance, PTL

\* Names and metas of tables correspond one to one.
THEOREM TablesConsistent == ASSUME CreatesOnce PROVE Spec => []TableNamesMatchMetas
<1>1. Inv => TableNamesMatchMetas
  BY Zenon DEF Inv
<1> QED
  BY <1>1, Invariance, PTL

\* What was dropped stays dropped.
THEOREM DroppedForEver == ASSUME CreatesOnce PROVE Spec => []NoResurrection
<1>1. Inv => NoResurrection
  BY Zenon DEF Inv
<1> QED
  BY <1>1, Invariance, PTL

\* Every change of a database's tables finds the meta of the database alive
\* and moves its seq forward.
THEOREM TablesTouchTheirDatabase == ASSUME CreatesOnce PROVE Spec => TableChangesTouchDb
<1>1. Inv /\ [Next]_vars => [TouchesDb]_vars
  BY StepInv, Zenon
<1> QED
  BY <1>1, Invariance, PTL DEF Spec, TableChangesTouchDb

\* A transaction that was executed and is sent again is refused, whatever the
\* clients do in between: the store never gets back the seq it is conditioned on.
THEOREM SafeToResend == ASSUME CreatesOnce PROVE Spec => []ExecutedOnce
<1>1. Inv => ExecutedOnce
  <2> SUFFICES ASSUME Inv, NEW c \in Clients, pc[c] = "resend" PROVE ~Executable(c)
    BY Zenon DEF ExecutedOnce
  <2>1. TypeOK /\ ResendOK(c)
    BY Zenon DEF Inv
  <2>2. "resend" # "txn"
    OBVIOUS
  <2> QED
    BY <2>1, <2>2, FirstCopy, Zenon
<1> QED
  BY <1>1, Invariance, PTL

\* The optimistic loops implement the atomic catalog: every transaction that
\* commits is one step of Catalog, and nothing else a client does is visible.
THEOREM Refinement == ASSUME CreatesOnce PROVE Spec => ImplementsCatalog
<1>1. Init => C!Init
  BY DEF Init, C!Init, NoId, NoMeta, NoOptions
<1>2. Inv /\ [Next]_vars => [C!Next]_(C!vars)
  BY StepInv, Zenon
<1> QED
  BY <1>1, <1>2, Invariance, PTL DEF Spec, ImplementsCatalog, C!Spec
=============================================================================
