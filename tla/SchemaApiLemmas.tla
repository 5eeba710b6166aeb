-------------------------- MODULE SchemaApiLemmas ---------------------------
(***************************************************************************)
(* Lemmas about SchemaApi: types, what a client may rely on, and that the  *)
(* steps that do not commit a transaction keep the inductive invariant.    *)
(***************************************************************************)
EXTENDS SchemaApi, TLAPS

USE SMTT(60), ZenonT(30)

\* The request of an idle client is a request.
LEMMA NoRequestType == NoRequest \in Requests
BY RequestsAssumption, Zenon DEF NoRequest

\* The empty set of reads is a value of rd.
LEMMA NothingReadType == NothingRead \in Reads
BY BoundAssumption DEF NothingRead, Reads, NoId, NoMeta, IdRecord, MetaRecord,
   Seqs, Options, NoOptions

\* The initial state, an empty store and idle clients, satisfies the invariant.
LEMMA InitInv == Init => Inv
<1> SUFFICES ASSUME Init PROVE Inv
  OBVIOUS
<1>1. TypeOK
  BY NoRequestType, NothingReadType, BoundAssumption
  DEF Init, TypeOK, NoId, NoMeta, IdRecord, MetaRecord, Seqs, Ids, Options, NoOptions, PCs
<1>2. StoreOK
  BY BoundAssumption DEF Init, StoreOK, NoId, NoMeta, Ids
<1>3. DatabaseNamesMatchMetas /\ TableNamesMatchMetas /\ NoResurrection
  BY DEF Init, DatabaseNamesMatchMetas, TableNamesMatchMetas, NoResurrection, NoId, NoMeta
<1>4. ASSUME NEW c \in Clients
      PROVE  NewIdOK(c) /\ ReadsOK(c) /\ ReachedOK(c) /\ ResendOK(c)
  <2>1. NewIdOK(c) /\ ReadsOK(c) /\ ReachedOK(c)
    BY <1>4 DEF Init, NewIdOK, ReadsOK, NameReadOK, TbReadOK, TbMetaReadOK, SeqReadOK,
                ReachedOK, NothingRead, NoId, NoMeta
  <2>2. ResendOK(c)
    BY <1>4 DEF Init, ResendOK
  <2> QED
    BY <2>1, <2>2, Zenon
<1> QED
  BY <1>1, <1>2, <1>3, <1>4, Zenon DEF Inv

\* Two-level functions that agree everywhere but in one cell.
LEMMA UpdateCell ==
  ASSUME NEW D, NEW T, NEW A, NEW B, NEW d \in D, NEW t \in T, NEW v,
         A = [e \in D |-> [u \in T |-> A[e][u]]],
         B = [e \in D |-> [u \in T |-> B[e][u]]],
         \A e \in D, u \in T : A[e][u] = IF e = d /\ u = t THEN v ELSE B[e][u]
  PROVE  A = [B EXCEPT ![d][t] = v]
<1>1. A[d] = [B[d] EXCEPT ![t] = v]
  <2>1. A[d] = [u \in T |-> A[d][u]] /\ B[d] = [u \in T |-> B[d][u]]
    OBVIOUS
  <2> QED
    BY <2>1, Zenon
<1>2. ASSUME NEW e \in D, e # d PROVE A[e] = B[e]
  <2>1. A[e] = [u \in T |-> A[e][u]] /\ B[e] = [u \in T |-> B[e][u]]
    OBVIOUS
  <2> QED
    BY <1>2, <2>1, Zenon
<1>3. DOMAIN A = D /\ DOMAIN B = D /\ A = [e \in D |-> A[e]] /\ B = [e \in D |-> B[e]]
  OBVIOUS
<1> QED
  BY <1>1, <1>2, <1>3, Zenon

\* The types of what a client holds, field by field.
LEMMA ClientTypes ==
  ASSUME TypeOK, NEW c \in Clients
  PROVE  /\ rd[c] \in Reads /\ op[c] \in Request /\ pc[c] \in PCs
         /\ rd[c].name \in IdRecord /\ rd[c].tb \in IdRecord
         /\ rd[c].newName \in IdRecord /\ rd[c].newTb \in IdRecord
         /\ rd[c].tbMeta \in MetaRecord
         /\ rd[c].meta \in Seqs /\ rd[c].newMeta \in Seqs /\ rd[c].newId \in Seqs
         /\ op[c].db \in Names /\ op[c].newDb \in Names
         /\ op[c].tb \in TNames /\ op[c].newTb \in TNames
         /\ op[c].id \in Ids
         /\ op[c].key \in OptKeys /\ op[c].val \in OptVals \cup {NoOpt}
<1>1. rd[c] \in Reads /\ op[c] \in Request /\ pc[c] \in PCs
  BY RequestsAssumption, Zenon DEF TypeOK
<1> QED
  BY <1>1, Zenon DEF Reads, Request

\* The fields of the records of the store.
LEMMA RecordTypes ==
  /\ \A r \in IdRecord : r.seq \in Seqs /\ r.id \in Seqs
  /\ \A r \in MetaRecord : r.seq \in Seqs /\ r.opts \in Options
  /\ Ids \subseteq Seqs /\ Seqs \subseteq Nat
  /\ \A i \in Seqs : (i > 0 \/ i # 0) => i \in Ids
BY BoundAssumption DEF IdRecord, MetaRecord, Ids, Seqs

\* The types of what the store holds, field by field.
LEMMA StoreTypes ==
  ASSUME TypeOK
  PROVE  /\ seq \in Nat
         /\ \A n \in Names : dbName[n].seq \in Nat /\ dbName[n].id \in Nat
         /\ \A i \in Ids : dbMeta[i] \in Nat /\ tbMeta[i].seq \in Nat /\ i \in Nat
         /\ \A i \in Ids : tbMeta[i].opts \in Options
         /\ \A i \in Ids, t \in TNames :
              tbName[i][t].seq \in Nat /\ tbName[i][t].id \in Nat
<1>1. ASSUME NEW i \in Ids, NEW t \in TNames
      PROVE  tbName[i][t].seq \in Nat /\ tbName[i][t].id \in Nat
  <2>1. tbName[i][t] \in IdRecord
    BY Zenon DEF TypeOK
  <2> QED
    BY <2>1, RecordTypes, Zenon
<1> QED
  BY <1>1, RecordTypes, Zenon DEF TypeOK

\* A name record that is there leads to an id in the range of the ids.
LEMMA NamesLeadToIds ==
  ASSUME TypeOK, StoreOK
  PROVE  /\ \A n \in Names : dbName[n].seq > 0 => dbName[n].id \in Ids
         /\ \A d \in Ids, t \in TNames : tbName[d][t].seq > 0 => tbName[d][t].id \in Ids
<1>1. ASSUME NEW n \in Names, dbName[n].seq > 0 PROVE dbName[n].id \in Ids
  <2>1. dbName[n] \in IdRecord /\ dbName[n].id # 0
    BY <1>1, StoreTypes DEF TypeOK, StoreOK
  <2> QED
    BY <2>1, RecordTypes, Zenon
<1>2. ASSUME NEW d \in Ids, NEW t \in TNames, tbName[d][t].seq > 0
      PROVE  tbName[d][t].id \in Ids
  <2>1. tbName[d][t] \in IdRecord
    BY Zenon DEF TypeOK
  <2>2. tbName[d][t].id # 0
    BY <1>2, StoreTypes DEF StoreOK
  <2> QED
    BY <2>1, <2>2, RecordTypes, Zenon
<1> QED
  BY <1>1, <1>2, Zenon

\* What a client read before stays coherent while the store does not change.
LEMMA SameReads ==
  ASSUME UNCHANGED store, NEW c \in Clients, op'[c] = op[c]
  PROVE  /\ rd'[c].name = rd[c].name /\ NameReadOK(c) => NameReadOK(c)'
         /\ rd'[c].name = rd[c].name /\ rd'[c].tb = rd[c].tb /\ TbReadOK(c) => TbReadOK(c)'
         /\ rd'[c].tbMeta = rd[c].tbMeta /\ TbMetaReadOK(c) => TbMetaReadOK(c)'
         /\ /\ rd'[c].name = rd[c].name /\ rd'[c].meta = rd[c].meta
            /\ rd'[c].tb = rd[c].tb /\ rd'[c].tbMeta = rd[c].tbMeta
            /\ SeqReadOK(c)
            => SeqReadOK(c)'
<1>1. UNCHANGED <<seq, dbName, tbName, tbMeta>>
  BY Zenon DEF store
<1>2. rd'[c].name = rd[c].name /\ NameReadOK(c) => NameReadOK(c)'
  BY <1>1, Zenon DEF NameReadOK
<1>3. rd'[c].name = rd[c].name /\ rd'[c].tb = rd[c].tb /\ TbReadOK(c) => TbReadOK(c)'
  BY <1>1, Zenon DEF TbReadOK
<1>4. rd'[c].tbMeta = rd[c].tbMeta /\ TbMetaReadOK(c) => TbMetaReadOK(c)'
  BY <1>1, Zenon DEF TbMetaReadOK
<1>5. /\ rd'[c].name = rd[c].name /\ rd'[c].meta = rd[c].meta
      /\ rd'[c].tb = rd[c].tb /\ rd'[c].tbMeta = rd[c].tbMeta
      /\ SeqReadOK(c)
      => SeqReadOK(c)'
  BY <1>1, Zenon DEF SeqReadOK
<1> QED
  BY <1>2, <1>3, <1>4, <1>5, Zenon

\* A transaction stays out of date while the store does not change.
LEMMA SameStale ==
  ASSUME UNCHANGED store, NEW c \in Clients, op'[c] = op[c], rd'[c] = rd[c], Stale(c)
  PROVE  Stale(c)'
<1>1. UNCHANGED <<dbName, dbMeta, tbMeta>>
  BY Zenon DEF store
<1> QED
  BY <1>1, Zenon DEF Stale

\* A step of one client that leaves the store alone and does not take a new id
\* keeps the invariant if the client's own reads stay coherent.
LEMMA LocalStep ==
  ASSUME Inv, NEW c \in Clients, UNCHANGED store, ops' \in 0..MaxOps,
         NEW p \in PCs \ {"resend"}, NEW o \in Requests, NEW r \in Reads,
         pc' = [pc EXCEPT ![c] = p],
         op' = [op EXCEPT ![c] = o],
         rd' = [rd EXCEPT ![c] = r],
         r.newId = 0 \/ (r.newId = rd[c].newId /\ pc[c] # "resend"),
         ReadsOK(c)', ReachedOK(c)'
  PROVE  Inv'
<1>1. TypeOK'
  BY SMTT(60), Zenon DEF Inv, TypeOK, store
<1>2. StoreOK' /\ DatabaseNamesMatchMetas' /\ TableNamesMatchMetas' /\ NoResurrection'
  BY DEF Inv, store, StoreOK, DatabaseNamesMatchMetas, TableNamesMatchMetas,
         NoResurrection, HasName
<1>3. ASSUME NEW e \in Clients PROVE NewIdOK(e)'
  BY DEF Inv, TypeOK, store, NewIdOK, Reads, Seqs
<1>4. ASSUME NEW e \in Clients PROVE ReadsOK(e)' /\ ReachedOK(e)' /\ ResendOK(e)'
  <2>1. CASE e = c
    <3>1. pc'[c] = p
      BY Zenon DEF Inv, TypeOK
    <3> QED
      BY <2>1, <3>1, Zenon DEF ResendOK
  <2>2. CASE e # c
    <3>1. pc'[e] = pc[e] /\ op'[e] = op[e] /\ rd'[e] = rd[e]
      BY <2>2, Zenon DEF Inv, TypeOK
    <3>2. ReadsOK(e) /\ ReachedOK(e) /\ ResendOK(e)
      BY Zenon DEF Inv
    <3>3. ReadsOK(e)'
      BY <3>1, <3>2, SameReads, Zenon DEF ReadsOK
    <3>4. ReachedOK(e)'
      BY <3>1, <3>2 DEF ReachedOK
    <3>5. ResendOK(e)'
      BY <3>1, <3>2, SameStale, Zenon DEF ResendOK
    <3> QED
      BY <3>3, <3>4, <3>5, Zenon
  <2> QED
    BY <2>1, <2>2, Zenon
<1> QED
  BY <1>1, <1>2, <1>3, <1>4, Zenon DEF Inv

\* A client that has read nothing has nothing to be coherent with.
LEMMA NothingReadsOK ==
  ASSUME NEW c \in Clients, seq' \in Nat, rd'[c] = NothingRead
  PROVE  ReadsOK(c)'
<1>1. rd'[c].name = NoId /\ rd'[c].tb = NoId /\ rd'[c].tbMeta = NoMeta /\ rd'[c].meta = 0
  BY DEF NothingRead
<1>2. NameReadOK(c)' /\ SeqReadOK(c)'
  BY <1>1 DEF NameReadOK, SeqReadOK, NoId, NoMeta
<1>3. TbReadOK(c)' /\ TbMetaReadOK(c)'
  BY <1>1 DEF TbReadOK, TbMetaReadOK, NoId, NoMeta
<1> QED
  BY <1>2, <1>3, Zenon DEF ReadsOK

\* An idle client has read nothing, so it has nothing to be coherent with.
LEMMA IdleClient ==
  ASSUME NEW c \in Clients, TypeOK', pc'[c] = "idle", rd'[c] = NothingRead
  PROVE  NewIdOK(c)' /\ ReadsOK(c)' /\ ReachedOK(c)' /\ ResendOK(c)'
<1>1. NewIdOK(c)'
  BY DEF NewIdOK, NothingRead
<1>2. seq' \in Nat
  BY RecordTypes, Zenon DEF TypeOK
<1>3. ReadsOK(c)'
  BY <1>2, NothingReadsOK, Zenon
<1>4. ReachedOK(c)' /\ ResendOK(c)'
  BY Zenon DEF ReachedOK, ResendOK
<1> QED
  BY <1>1, <1>3, <1>4, Zenon

\* What a client has read stays coherent when records change: a record that
\* changed has a seq the client cannot have read.
LEMMA ReadsStay ==
  ASSUME Inv, TypeOK', FreshSeqs, NEW e \in Clients, op'[e] = op[e],
         rd'[e].name = rd[e].name, rd'[e].meta = rd[e].meta,
         rd'[e].tb = rd[e].tb, rd'[e].tbMeta = rd[e].tbMeta
  PROVE  ReadsOK(e)'
<1> USE BoundAssumption
<1>1. seq \in Int /\ seq' \in Int /\ ReadsOK(e)
  BY DEF Inv, TypeOK, Seqs
<1>2. /\ rd[e].name \in IdRecord /\ rd[e].tb \in IdRecord /\ rd[e].tbMeta \in MetaRecord
      /\ rd[e].meta \in Seqs
      /\ op[e].db \in Names /\ op[e].tb \in TNames /\ op[e].id \in Ids
  BY ClientTypes, Zenon DEF Inv
<1>3. /\ rd[e].name.seq \in Seqs /\ rd[e].name.id \in Seqs
      /\ rd[e].tb.seq \in Seqs /\ rd[e].tbMeta.seq \in Seqs
  BY <1>2, Zenon DEF IdRecord, MetaRecord
<1>4. NameReadOK(e)'
  BY <1>1, <1>2, <1>3, SMTT(60) DEF ReadsOK, NameReadOK, SeqReadOK, FreshSeqs, Seqs
<1>5. TbReadOK(e)'
  <2> DEFINE d == rd[e].name.id
             t == op[e].tb
             s == rd[e].tb
  <2>1. d' = d /\ t' = t /\ s' = s /\ d \in Seqs /\ t \in TNames
    BY <1>2, <1>3, Zenon
  <2>2. s.seq \in Int /\ s.seq <= seq
    BY <1>1, <1>3 DEF ReadsOK, SeqReadOK, Seqs
  <2>3. d > 0 /\ s.seq > 0 /\ tbName[d][t].seq = s.seq => tbName[d][t] = s
    BY <1>1, Zenon DEF ReadsOK, TbReadOK
  <2> HIDE DEF d, t, s
  <2>4. d > 0 => tbName'[d][t] = tbName[d][t] \/ tbName'[d][t].seq = 0 \/ tbName'[d][t].seq > seq
    BY <1>2, <2>1 DEF FreshSeqs, Ids, Seqs
  <2>5. d > 0 /\ s.seq > 0 /\ tbName'[d][t].seq = s.seq => tbName'[d][t] = s
    BY <1>1, <2>2, <2>3, <2>4, SMTT(60)
  <2> QED
    BY <2>1, <2>5, Zenon DEF TbReadOK, d, t, s
<1>6. TbMetaReadOK(e)'
  BY <1>1, <1>2, <1>3, SMTT(60) DEF ReadsOK, TbMetaReadOK, SeqReadOK, FreshSeqs, Seqs
<1>7. SeqReadOK(e)'
  BY <1>1, <1>2, <1>3 DEF ReadsOK, SeqReadOK, FreshSeqs, Seqs
<1> QED
  BY <1>4, <1>5, <1>6, <1>7, Zenon DEF ReadsOK

\* A transaction that is out of date stays so when records change: none of
\* them gets the seq back that the client read.
LEMMA StaleStays ==
  ASSUME Inv, TypeOK', FreshSeqs, NEW e \in Clients, op'[e] = op[e], rd'[e] = rd[e],
         pc[e] = "resend", Stale(e)
  PROVE  Stale(e)'
<1>1. TypeOK /\ SeqReadOK(e) /\ ReachedOK(e)
  BY Zenon DEF Inv, ReadsOK
<1>2. /\ rd[e].name.seq \in Nat /\ rd[e].meta \in Nat /\ rd[e].tbMeta.seq \in Nat
      /\ op[e].db \in Names /\ op[e].id \in Ids /\ seq \in Nat
  BY <1>1, ClientTypes, RecordTypes, StoreTypes, Zenon
<1>3. CASE /\ op[e].kind \in {"drop_database", "rename_database"}
           /\ dbName[op[e].db].seq # rd[e].name.seq
  <2>1. rd[e].name.seq > 0 /\ rd[e].name.seq <= seq
    BY <1>1, <1>3, Zenon DEF ReachedOK, ById, SeqReadOK
  <2>2. dbName'[op[e].db] = dbName[op[e].db] \/ dbName'[op[e].db].seq = 0
        \/ dbName'[op[e].db].seq > seq
    BY <1>2, Zenon DEF FreshSeqs
  <2>3. dbName'[op[e].db].seq # rd[e].name.seq
    BY <1>2, <1>3, <2>1, <2>2
  <2> QED
    BY <1>3, <2>3, Zenon DEF Stale
<1>4. CASE /\ op[e].kind \in {"create_table", "drop_table", "rename_table"}
           /\ dbMeta[rd[e].name.id] # rd[e].meta
  <2>1. rd[e].meta > 0 /\ rd[e].meta <= seq /\ rd[e].name.id > 0
    BY <1>1, <1>4, Zenon DEF ReachedOK, ById, SeqReadOK
  <2>2. rd[e].name.id \in Ids
    BY <1>1, <2>1, ClientTypes, RecordTypes, Zenon
  <2>3. dbMeta'[rd[e].name.id] = dbMeta[rd[e].name.id] \/ dbMeta'[rd[e].name.id] = 0
        \/ dbMeta'[rd[e].name.id] > seq
    BY <2>2, Zenon DEF FreshSeqs
  <2>4. dbMeta'[rd[e].name.id] # rd[e].meta
    BY <1>2, <1>4, <2>1, <2>3
  <2> QED
    BY <1>4, <2>4, Zenon DEF Stale
<1>5. CASE op[e].kind = "upsert_table_option" /\ tbMeta[op[e].id].seq # rd[e].tbMeta.seq
  <2>1. rd[e].tbMeta.seq > 0 /\ rd[e].tbMeta.seq <= seq
    BY <1>1, <1>5, Zenon DEF ReachedOK, ById, SeqReadOK
  <2>2. tbMeta'[op[e].id] = tbMeta[op[e].id] \/ tbMeta'[op[e].id].seq = 0
        \/ tbMeta'[op[e].id].seq > seq
    BY <1>2, Zenon DEF FreshSeqs
  <2>3. tbMeta'[op[e].id].seq # rd[e].tbMeta.seq
    BY <1>2, <1>5, <2>1, <2>2
  <2> QED
    BY <1>5, <2>3, Zenon DEF Stale
<1> QED
  BY <1>3, <1>4, <1>5, Zenon DEF Stale

\* The reads of a client stay coherent when another client takes a step.
LEMMA OtherClient ==
  ASSUME Inv, TypeOK', FreshSeqs, NEW e \in Clients,
         pc'[e] = pc[e], op'[e] = op[e], rd'[e] = rd[e]
  PROVE  ReadsOK(e)' /\ ReachedOK(e)' /\ ResendOK(e)'
<1>1. ReachedOK(e)'
  BY Zenon DEF Inv, ReachedOK
<1>2. ResendOK(e)
  BY Zenon DEF Inv
<1>3. ResendOK(e)'
  BY <1>2, StaleStays, Zenon DEF ResendOK
<1> QED
  BY <1>1, <1>3, ReadsStay, Zenon

\* A call that returns to the caller, with a result or an error, keeps the
\* invariant when it leaves the store alone.
LEMMA ReturnStep ==
  ASSUME Inv, NEW c \in Clients, Finish(c), UNCHANGED <<store, ops>>
  PROVE  Inv'
<1>1. ops' \in 0..MaxOps /\ UNCHANGED store /\ "idle" \in PCs \ {"resend"}
  BY Zenon DEF Inv, TypeOK, PCs
<1>2. NoRequest \in Requests /\ NothingRead \in Reads /\ NothingRead.newId = 0
  BY NoRequestType, NothingReadType, Zenon DEF NothingRead
<1>3. TypeOK'
  BY <1>1, <1>2, Zenon DEF Inv, TypeOK, Finish, store
<1>4. pc'[c] = "idle" /\ rd'[c] = NothingRead
  BY Zenon DEF Finish, Inv, TypeOK
<1>5. ReadsOK(c)' /\ ReachedOK(c)'
  BY <1>3, <1>4, IdleClient, Zenon
<1> QED
  BY <1>1, <1>2, <1>5, LocalStep, Zenon DEF Finish

\* A get keeps the invariant if what it read fits the call that comes next.
LEMMA GetStep ==
  ASSUME Inv, NEW c \in Clients, NEW read \in Reads, NEW ok \in BOOLEAN,
         NEW next \in PCs \ {"resend"}, pc[c] # "resend",
         Returned(c, read, ok, next), read.newId = rd[c].newId,
         ok /\ next # "idle" => ReadsOK(c)' /\ ReachedOK(c)'
  PROVE  Inv'
<1>1. ops' \in 0..MaxOps /\ UNCHANGED <<store, ops>> /\ UNCHANGED store /\ op[c] \in Requests
  BY Zenon DEF Inv, TypeOK, Returned
<1>2. CASE ok /\ next # "idle"
  <2>1. op' = [op EXCEPT ![c] = op[c]]
    BY <1>2, Zenon DEF Returned, Inv, TypeOK
  <2> QED
    BY <1>1, <1>2, <2>1, LocalStep, Zenon DEF Returned
<1>3. CASE ~(ok /\ next # "idle")
  <2>1. Finish(c)
    BY <1>3, Zenon DEF Returned
  <2> QED
    BY <1>1, <2>1, ReturnStep, Zenon
<1> QED
  BY <1>2, <1>3, Zenon

\* get_db_or_err's first read: the id under a database name.
LEMMA GetDbIdInv ==
  ASSUME Inv, NEW c \in Clients, GetDbId(c)
  PROVE  Inv'
<1> DEFINE kind == op[c].kind
           got  == dbName[op[c].db]
           read == [rd[c] EXCEPT !.name = got]
           ok   == (got.seq = 0) <=> (kind = "create_database")
           next == AfterName(kind)
<1>1. TypeOK
  BY Zenon DEF Inv
<1>2. got \in IdRecord
  BY <1>1, ClientTypes, Zenon DEF TypeOK
<1>3. read \in Reads /\ read.newId = rd[c].newId /\ read.name = got
      /\ read.tb = rd[c].tb /\ read.tbMeta = rd[c].tbMeta /\ read.meta = rd[c].meta
  BY <1>1, <1>2, ClientTypes, Zenon DEF Reads
<1>4. next \in PCs \ {"resend"}
  BY Zenon DEF AfterName, PCs
<1>5. Returned(c, read, ok, next) /\ pc[c] = "name"
  BY Zenon DEF GetDbId
<1>6. ASSUME ok, next # "idle"
      PROVE  ReadsOK(c)' /\ ReachedOK(c)'
  <2>1. rd'[c] = read /\ pc'[c] = next /\ op'[c] = op[c] /\ UNCHANGED store
    BY <1>1, <1>5, <1>6, Zenon DEF Returned, TypeOK
  <2>2. ReadsOK(c) /\ ReachedOK(c) /\ StoreOK
    BY Zenon DEF Inv
  <2>3. ReadsOK(c)'
    <3>1. rd[c] = NothingRead
      BY <1>5, <2>2, Zenon DEF ReachedOK
    <3> QED
      <4>1. dbName'[op'[c].db] = rd'[c].name
        BY <1>3, <2>1, Zenon DEF store
      <4>2. rd'[c].name.seq <= seq' /\ seq' \in Nat
        BY <1>1, <1>3, <2>1, <2>2, ClientTypes, StoreTypes, Zenon DEF StoreOK, store
      <4>3. rd'[c].tb = NoId /\ rd'[c].tbMeta = NoMeta /\ rd'[c].meta = 0
        BY <1>3, <2>1, <3>1 DEF NothingRead
      <4> HIDE DEF got, read, ok, next
      <4>4. NameReadOK(c)' /\ SeqReadOK(c)'
        BY <4>1, <4>2, <4>3 DEF NameReadOK, SeqReadOK, NoId, NoMeta
      <4>5. TbReadOK(c)' /\ TbMetaReadOK(c)'
        BY <4>3 DEF TbReadOK, TbMetaReadOK, NoId, NoMeta
      <4> QED
        BY <4>4, <4>5, Zenon DEF ReadsOK
  <2>4. ReachedOK(c)'
    <3>1. kind \notin ById /\ kind \in {"create_database", "drop_database", "rename_database",
                    "create_table", "drop_table", "rename_table", "get_database", "get_table"}
      BY <1>1, <1>5, <2>2, ClientTypes, Zenon DEF ReachedOK, Request, ById
    <3>2. kind # "create_database" => got.seq > 0 /\ got.id > 0
      <4>1. got.seq \in Nat /\ got.id \in Nat
        BY <1>2, RecordTypes, Zenon
      <4>2. got.seq = 0 <=> got.id = 0
        BY <1>1, <2>2, ClientTypes, Zenon DEF StoreOK
      <4> QED
        BY <1>6, <4>1, <4>2
    <3> QED
      BY <1>3, <1>5, <2>1, <2>2, <3>1, <3>2, Zenon DEF ReachedOK, AfterName, ById
  <2> QED
    BY <2>3, <2>4, Zenon
<1> QED
  BY <1>3, <1>4, <1>5, <1>6, GetStep, Zenon

\* get_db_or_err's second read: the meta under the id it found.
LEMMA GetDbMetaInv ==
  ASSUME Inv, NEW c \in Clients, GetDbMeta(c)
  PROVE  Inv'
<1> DEFINE kind == op[c].kind
           got  == dbMeta[rd[c].name.id]
           read == [rd[c] EXCEPT !.meta = got]
           ok   == got > 0
           next == AfterMeta(kind)
<1>1. TypeOK /\ ReadsOK(c) /\ ReachedOK(c) /\ StoreOK
  BY Zenon DEF Inv
<1>2. pc[c] = "meta" /\ Returned(c, read, ok, next)
  BY Zenon DEF GetDbMeta
<1>3. rd[c].name.id \in Ids /\ got \in Seqs /\ got <= seq
  <2>1. rd[c].name.id > 0
    BY <1>1, <1>2, Zenon DEF ReachedOK, ById
  <2>2. rd[c].name.id \in Ids
    BY <1>1, <2>1, ClientTypes, RecordTypes, Zenon
  <2> QED
    BY <1>1, <2>2, Zenon DEF TypeOK, StoreOK
<1>4. /\ read \in Reads /\ read.meta = got
      /\ read.name = rd[c].name /\ read.tb = rd[c].tb /\ read.tbMeta = rd[c].tbMeta /\ read.newName = rd[c].newName
      /\ read.newMeta = rd[c].newMeta /\ read.newTb = rd[c].newTb /\ read.newId = rd[c].newId
  BY <1>1, <1>3, ClientTypes, Zenon DEF Reads
<1>5. next \in PCs \ {"resend"} /\ ok \in BOOLEAN
  BY DEF AfterMeta, PCs
<1>6. ASSUME ok, next # "idle"
      PROVE  ReadsOK(c)' /\ ReachedOK(c)'
  <2>1. rd'[c] = read /\ pc'[c] = next /\ op'[c] = op[c] /\ UNCHANGED store
    BY <1>1, <1>2, <1>6, Zenon DEF Returned, TypeOK
  <2>2. ReadsOK(c)'
    <3> HIDE DEF got, read, ok, next
    <3>1. NameReadOK(c)' /\ TbReadOK(c)' /\ TbMetaReadOK(c)'
      BY <1>1, <1>4, <2>1, SameReads, Zenon DEF ReadsOK
    <3>2. SeqReadOK(c)'
      BY <1>1, <1>3, <1>4, <2>1, Zenon DEF ReadsOK, SeqReadOK, store
    <3> QED
      BY <3>1, <3>2, Zenon DEF ReadsOK
  <2>3. ReachedOK(c)'
    BY <1>1, <1>2, <1>4, <1>6, <2>1, Zenon DEF ReachedOK, AfterMeta, ById
  <2> QED
    BY <2>2, <2>3, Zenon
<1> QED
  BY <1>2, <1>4, <1>5, <1>6, GetStep, Zenon

\* Reading the id under a table name of the database.
LEMMA GetTableIdInv ==
  ASSUME Inv, NEW c \in Clients, GetTableId(c)
  PROVE  Inv'
<1> DEFINE kind == op[c].kind
           got  == tbName[rd[c].name.id][op[c].tb]
           read == [rd[c] EXCEPT !.tb = got]
           ok   == (got.seq = 0) <=> (kind = "create_table")
           next == AfterTb(kind)
<1>1. TypeOK /\ ReadsOK(c) /\ ReachedOK(c) /\ StoreOK
  BY Zenon DEF Inv
<1>2. pc[c] = "tb" /\ Returned(c, read, ok, next)
  BY Zenon DEF GetTableId
<1>3. got \in IdRecord /\ got.seq <= seq /\ (got.seq # 0 => got.seq > 0 /\ got.id > 0)
  <2>1. rd[c].name.id > 0
    BY <1>1, <1>2, Zenon DEF ReachedOK, ById
  <2>2. rd[c].name.id \in Ids /\ op[c].tb \in TNames
    BY <1>1, <2>1, ClientTypes, RecordTypes, Zenon
  <2>3. got \in IdRecord
    BY <1>1, <2>2, Zenon DEF TypeOK
  <2>4. got.seq \in Nat /\ got.id \in Nat
    BY <2>3, RecordTypes, Zenon
  <2>5. got.seq <= seq /\ (got.seq = 0 <=> got.id = 0)
    BY <1>1, <2>2, Zenon DEF StoreOK
  <2> HIDE DEF got
  <2> QED
    BY <2>3, <2>4, <2>5
<1>4. /\ read \in Reads /\ read.tb = got
      /\ read.name = rd[c].name /\ read.meta = rd[c].meta /\ read.tbMeta = rd[c].tbMeta /\ read.newName = rd[c].newName
      /\ read.newMeta = rd[c].newMeta /\ read.newTb = rd[c].newTb /\ read.newId = rd[c].newId
  BY <1>1, <1>3, ClientTypes, Zenon DEF Reads
<1>5. next \in PCs \ {"resend"} /\ ok \in BOOLEAN
  BY SMTT(60), Zenon DEF AfterTb, PCs
<1>6. ASSUME ok, next # "idle"
      PROVE  ReadsOK(c)' /\ ReachedOK(c)'
  <2>1. rd'[c] = read /\ pc'[c] = next /\ op'[c] = op[c] /\ UNCHANGED store
    BY <1>1, <1>2, <1>6, Zenon DEF Returned, TypeOK
  <2>2. ReadsOK(c)'
    <3>1. tbName'[rd'[c].name.id][op'[c].tb] = rd'[c].tb
      BY <1>4, <2>1, Zenon DEF store
    <3> HIDE DEF got, read, ok, next
    <3>2. NameReadOK(c)' /\ TbMetaReadOK(c)'
      BY <1>1, <1>4, <2>1, SameReads, Zenon DEF ReadsOK
    <3>3. TbReadOK(c)'
      BY <3>1, Zenon DEF TbReadOK
    <3>4. SeqReadOK(c)'
      BY <1>1, <1>3, <1>4, <2>1, Zenon DEF ReadsOK, SeqReadOK, store
    <3> QED
      BY <3>2, <3>3, <3>4, Zenon DEF ReadsOK
  <2>3. ReachedOK(c)'
    <3>1. kind \in {"create_table", "drop_table", "rename_table", "get_table"}
      BY <1>1, <1>2, Zenon DEF ReachedOK
    <3>2. kind # "create_table" => got.seq > 0 /\ got.id > 0
      BY <1>3, <1>6, Zenon
    <3> HIDE DEF got, read
    <3> QED
      BY <1>1, <1>2, <1>4, <2>1, <3>1, <3>2, Zenon DEF ReachedOK, AfterTb, ById
  <2> QED
    BY <2>2, <2>3, Zenon
<1> QED
  BY <1>2, <1>4, <1>5, <1>6, GetStep, Zenon

\* Reading a table's meta by its id.
LEMMA GetTableMetaInv ==
  ASSUME Inv, NEW c \in Clients, GetTableMeta(c)
  PROVE  Inv'
<1> DEFINE kind == op[c].kind
           at   == IF kind \in ById THEN op[c].id ELSE rd[c].tb.id
           got  == tbMeta[at]
           read == [rd[c] EXCEPT !.tbMeta = got]
           ok   == \/ kind = "drop_table"
                   \/ /\ got.seq > 0
                      /\ kind = "upsert_table_option" => match_seq(op[c].match, got.seq)
           next == AfterTbMeta(kind)
<1>1. TypeOK /\ ReadsOK(c) /\ ReachedOK(c) /\ StoreOK
  BY Zenon DEF Inv
<1>2. pc[c] = "tbMeta" /\ Returned(c, read, ok, next)
  BY Zenon DEF GetTableMeta
<1>3. got \in MetaRecord /\ got.seq <= seq
  <2>1. kind \notin ById => rd[c].tb.id > 0
    BY <1>1, <1>2, Zenon DEF ReachedOK, ById
  <2>2. at \in Ids
    BY <1>1, <2>1, ClientTypes, RecordTypes, Zenon
  <2> QED
    BY <1>1, <2>2, Zenon DEF TypeOK, StoreOK
<1>4. /\ read \in Reads /\ read.tbMeta = got
      /\ read.name = rd[c].name /\ read.meta = rd[c].meta /\ read.tb = rd[c].tb /\ read.newName = rd[c].newName
      /\ read.newMeta = rd[c].newMeta /\ read.newTb = rd[c].newTb /\ read.newId = rd[c].newId
  BY <1>1, <1>3, ClientTypes, Zenon DEF Reads
<1>5. next \in PCs \ {"resend"} /\ ok \in BOOLEAN
  BY Zenon DEF AfterTbMeta, PCs, match_seq
<1>6. ASSUME ok, next # "idle"
      PROVE  ReadsOK(c)' /\ ReachedOK(c)'
  <2>1. rd'[c] = read /\ pc'[c] = next /\ op'[c] = op[c] /\ UNCHANGED store
    BY <1>1, <1>2, <1>6, Zenon DEF Returned, TypeOK
  <2>2. ReadsOK(c)'
    <3>1. kind \in ById => tbMeta'[op'[c].id] = rd'[c].tbMeta
      BY <1>4, <2>1, Zenon DEF store
    <3> HIDE DEF at, got, read, ok, next
    <3>2. NameReadOK(c)' /\ TbReadOK(c)'
      BY <1>1, <1>4, <2>1, SameReads, Zenon DEF ReadsOK
    <3>3. TbMetaReadOK(c)'
      BY <2>1, <3>1, Zenon DEF TbMetaReadOK
    <3>4. SeqReadOK(c)'
      BY <1>1, <1>3, <1>4, <2>1, Zenon DEF ReadsOK, SeqReadOK, store
    <3> QED
      BY <3>2, <3>3, <3>4, Zenon DEF ReadsOK
  <2>3. ReachedOK(c)'
    BY <1>1, <1>2, <1>3, <1>4, <1>6, <2>1, Zenon DEF ReachedOK, AfterTbMeta, ById
  <2> QED
    BY <2>2, <2>3, Zenon
<1> QED
  BY <1>2, <1>4, <1>5, <1>6, GetStep, Zenon

\* Reading the id under the new database name of a rename.
LEMMA GetNewDbIdInv ==
  ASSUME Inv, NEW c \in Clients, GetNewDbId(c)
  PROVE  Inv'
<1> DEFINE kind == op[c].kind
           got  == dbName[op[c].newDb]
           read == [rd[c] EXCEPT !.newName = got]
           ok   == (got.seq = 0) <=> (kind = "rename_database")
           next == AfterNewName(kind)
<1>1. TypeOK /\ ReadsOK(c) /\ ReachedOK(c) /\ StoreOK
  BY Zenon DEF Inv
<1>2. pc[c] = "newName" /\ Returned(c, read, ok, next)
  BY Zenon DEF GetNewDbId
<1>3. got \in IdRecord /\ (got.seq # 0 => got.id > 0)
  <2>1. op[c].newDb \in Names
    BY <1>1, ClientTypes, Zenon
  <2>2. got \in IdRecord
    BY <1>1, <2>1, Zenon DEF TypeOK
  <2>3. got.seq \in Nat /\ got.id \in Nat
    BY <2>2, RecordTypes, Zenon
  <2>4. got.seq = 0 <=> got.id = 0
    BY <1>1, <2>1, Zenon DEF StoreOK
  <2> QED
    BY <2>2, <2>3, <2>4
<1>4. /\ read \in Reads /\ read.newName = got
      /\ read.name = rd[c].name /\ read.meta = rd[c].meta /\ read.tb = rd[c].tb /\ read.tbMeta = rd[c].tbMeta
      /\ read.newMeta = rd[c].newMeta /\ read.newTb = rd[c].newTb /\ read.newId = rd[c].newId
  BY <1>1, <1>3, ClientTypes, Zenon DEF Reads
<1>5. next \in PCs \ {"resend"} /\ ok \in BOOLEAN
  BY Zenon DEF AfterNewName, PCs
<1>6. ASSUME ok, next # "idle"
      PROVE  ReadsOK(c)' /\ ReachedOK(c)'
  <2>1. rd'[c] = read /\ pc'[c] = next /\ op'[c] = op[c] /\ UNCHANGED store
    BY <1>1, <1>2, <1>6, Zenon DEF Returned, TypeOK
  <2>2. ReadsOK(c)'
    <3> HIDE DEF got, read, ok, next
    <3> QED
      BY <1>1, <1>4, <2>1, SameReads, Zenon DEF ReadsOK
  <2>3. ReachedOK(c)'
    BY <1>1, <1>2, <1>3, <1>4, <1>6, <2>1, Zenon DEF ReachedOK, AfterNewName, ById
  <2> QED
    BY <2>2, <2>3, Zenon
<1> QED
  BY <1>2, <1>4, <1>5, <1>6, GetStep, Zenon

\* Reading the meta of the database a table moves to.
LEMMA GetNewDbMetaInv ==
  ASSUME Inv, NEW c \in Clients, GetNewDbMeta(c)
  PROVE  Inv'
<1> DEFINE kind == op[c].kind
           got  == dbMeta[rd[c].newName.id]
           read == [rd[c] EXCEPT !.newMeta = got]
           ok   == got > 0
           next == "newTb"
<1>1. TypeOK /\ ReadsOK(c) /\ ReachedOK(c) /\ StoreOK
  BY Zenon DEF Inv
<1>2. pc[c] = "newMeta" /\ Returned(c, read, ok, next)
  BY Zenon DEF GetNewDbMeta
<1>3. got \in Seqs
  <2>1. rd[c].newName.id > 0
    BY <1>1, <1>2, Zenon DEF ReachedOK
  <2>2. rd[c].newName.id \in Ids
    BY <1>1, <2>1, ClientTypes, RecordTypes, Zenon
  <2> QED
    BY <1>1, <2>2, Zenon DEF TypeOK
<1>4. /\ read \in Reads /\ read.newMeta = got
      /\ read.name = rd[c].name /\ read.meta = rd[c].meta /\ read.tb = rd[c].tb /\ read.tbMeta = rd[c].tbMeta
      /\ read.newName = rd[c].newName /\ read.newTb = rd[c].newTb /\ read.newId = rd[c].newId
  BY <1>1, <1>3, ClientTypes, Zenon DEF Reads
<1>5. next \in PCs \ {"resend"} /\ ok \in BOOLEAN
  BY DEF PCs
<1>6. ASSUME ok, next # "idle"
      PROVE  ReadsOK(c)' /\ ReachedOK(c)'
  <2>1. rd'[c] = read /\ pc'[c] = next /\ op'[c] = op[c] /\ UNCHANGED store
    BY <1>1, <1>2, <1>6, Zenon DEF Returned, TypeOK
  <2>2. ReadsOK(c)'
    <3> HIDE DEF got, read, ok, next
    <3> QED
      BY <1>1, <1>4, <2>1, SameReads, Zenon DEF ReadsOK
  <2>3. ReachedOK(c)'
    BY <1>1, <1>2, <1>4, <1>6, <2>1, Zenon DEF ReachedOK, ById
  <2> QED
    BY <2>2, <2>3, Zenon
<1> QED
  BY <1>2, <1>4, <1>5, <1>6, GetStep, Zenon

\* Reading the new table name of rename_table.
LEMMA GetNewTableIdInv ==
  ASSUME Inv, NEW c \in Clients, GetNewTableId(c)
  PROVE  Inv'
<1> DEFINE kind == op[c].kind
           got  == tbName[rd[c].newName.id][op[c].newTb]
           read == [rd[c] EXCEPT !.newTb = got]
           ok   == got.seq = 0
           next == "txn"
<1>1. TypeOK /\ ReadsOK(c) /\ ReachedOK(c) /\ StoreOK
  BY Zenon DEF Inv
<1>2. pc[c] = "newTb" /\ Returned(c, read, ok, next)
  BY Zenon DEF GetNewTableId
<1>3. got \in IdRecord
  <2>1. rd[c].newName.id > 0
    BY <1>1, <1>2, Zenon DEF ReachedOK
  <2>2. rd[c].newName.id \in Ids /\ op[c].newTb \in TNames
    BY <1>1, <2>1, ClientTypes, RecordTypes, Zenon
  <2> QED
    BY <1>1, <2>2, Zenon DEF TypeOK
<1>4. /\ read \in Reads /\ read.newTb = got
      /\ read.name = rd[c].name /\ read.meta = rd[c].meta /\ read.tb = rd[c].tb /\ read.tbMeta = rd[c].tbMeta
      /\ read.newName = rd[c].newName /\ read.newMeta = rd[c].newMeta /\ read.newId = rd[c].newId
  BY <1>1, <1>3, ClientTypes, Zenon DEF Reads
<1>5. next \in PCs \ {"resend"} /\ ok \in BOOLEAN
  BY SMTT(60), Zenon DEF PCs
<1>6. ASSUME ok, next # "idle"
      PROVE  ReadsOK(c)' /\ ReachedOK(c)'
  <2>1. rd'[c] = read /\ pc'[c] = next /\ op'[c] = op[c] /\ UNCHANGED store
    BY <1>1, <1>2, <1>6, Zenon DEF Returned, TypeOK
  <2>2. ReadsOK(c)'
    <3> HIDE DEF got, read, ok, next
    <3> QED
      BY <1>1, <1>4, <2>1, SameReads, Zenon DEF ReadsOK
  <2>3. ReachedOK(c)'
    <3> HIDE DEF got, read, ok
    <3> QED
      BY <1>1, <1>2, <1>4, <2>1, Zenon DEF ReachedOK, ById
  <2> QED
    BY <2>2, <2>3, Zenon
<1> QED
  BY <1>2, <1>4, <1>5, <1>6, GetStep, Zenon

\* fetch_id: the id it returns is new and nobody else's.
LEMMA FetchIdInv ==
  ASSUME Inv, NEW c \in Clients, FetchId(c)
  PROVE  Inv'
<1>1. TypeOK /\ ReadsOK(c) /\ ReachedOK(c) /\ StoreOK
  BY Zenon DEF Inv
<1>2. /\ seq \in Nat /\ seq' = seq + 1 /\ seq' \in Ids
      /\ UNCHANGED <<dbName, dbMeta, tbName, tbMeta, dropped, op, ops>>
      /\ pc' = [pc EXCEPT ![c] = "txn"]
      /\ rd' = [rd EXCEPT ![c] = [rd[c] EXCEPT !.newId = seq + 1]]
  BY <1>1, BoundAssumption DEF TypeOK, FetchId, Seqs, Ids
<1>3. /\ rd'[c] \in Reads /\ rd'[c].newId = seq + 1 /\ pc'[c] = "txn"
      /\ rd'[c].name = rd[c].name /\ rd'[c].meta = rd[c].meta
      /\ rd'[c].tb = rd[c].tb /\ rd'[c].tbMeta = rd[c].tbMeta
      /\ rd'[c].newName = rd[c].newName /\ rd'[c].newMeta = rd[c].newMeta
  <2>1. rd'[c] = [rd[c] EXCEPT !.newId = seq + 1] /\ pc'[c] = "txn" /\ seq + 1 \in Seqs
    BY <1>1, <1>2, RecordTypes, Zenon DEF TypeOK
  <2>2. rd[c] \in Reads
    BY <1>1, ClientTypes, Zenon
  <2> QED
    BY <2>1, <2>2, Zenon DEF Reads
<1>4. TypeOK'
  BY <1>1, <1>2, <1>3 DEF TypeOK, PCs, Ids, Seqs
<1>5. FreshSeqs
  BY <1>2 DEF FreshSeqs
<1>6. StoreOK'
  BY <1>1, <1>2, StoreTypes DEF StoreOK
<1>7. DatabaseNamesMatchMetas' /\ TableNamesMatchMetas' /\ NoResurrection'
  BY <1>2 DEF Inv, DatabaseNamesMatchMetas, TableNamesMatchMetas, NoResurrection, HasName
<1>8. ASSUME NEW e \in Clients PROVE NewIdOK(e)'
  <2>1. \A d \in Clients : rd[d].newId \in Nat /\ rd[d].newId <= seq
    BY <1>1, <1>2, ClientTypes, RecordTypes DEF Inv, NewIdOK
  <2>2. \A d \in Clients \ {c} : rd'[d] = rd[d]
    BY <1>2
  <2>3. CASE e = c
    <3>1. dbMeta[seq + 1] = 0 /\ tbMeta[seq + 1].seq = 0 /\ seq + 1 \notin dropped
      <4>1. dbMeta[seq + 1] \in Nat /\ tbMeta[seq + 1].seq \in Nat
        BY <1>1, <1>2, RecordTypes, Zenon DEF TypeOK
      <4> QED
        BY <1>1, <1>2, <4>1 DEF StoreOK
    <3> QED
      BY <1>2, <1>3, <2>1, <2>2, <2>3, <3>1 DEF NewIdOK
  <2>4. CASE e # c
    BY <1>2, <1>3, <2>1, <2>2, <2>4 DEF NewIdOK, Inv
  <2> QED
    BY <2>3, <2>4, Zenon
<1>9. ReadsOK(c)' /\ ReachedOK(c)'
  <2>2. ReadsOK(c)'
    BY <1>2, <1>3, <1>4, <1>5, ReadsStay, Zenon
  <2>3. pc[c] = "fetch_id" /\ op[c].kind \in {"create_database", "create_table"}
    BY <1>1, Zenon DEF FetchId, ReachedOK
  <2>4. ReachedOK(c)'
    BY <1>1, <1>2, <1>3, <2>3 DEF ReachedOK, ById
  <2> QED
    BY <2>2, <2>4, Zenon
<1>10. ASSUME NEW e \in Clients, e # c PROVE ReadsOK(e)' /\ ReachedOK(e)' /\ ResendOK(e)'
  <2>1. pc'[e] = pc[e] /\ op'[e] = op[e] /\ rd'[e] = rd[e]
    BY <1>2, <1>10
  <2> QED
    BY <1>4, <1>5, <2>1, OtherClient, Zenon
<1>11. ResendOK(c)'
  BY <1>3, Zenon DEF ResendOK
<1> QED
  BY <1>4, <1>6, <1>7, <1>8, <1>9, <1>10, <1>11, Zenon DEF Inv

\* A refused transaction starts the loop again with nothing read.
LEMMA RetryInv ==
  ASSUME Inv, NEW c \in Clients, Retry(c)
  PROVE  Inv'
<1>1. TypeOK
  BY Zenon DEF Inv
<1>2. Refused(c)
  BY Zenon DEF Retry
<1>3. /\ FirstCall(op[c].kind) \in PCs \ {"resend"} /\ NothingRead \in Reads /\ NothingRead.newId = 0
      /\ op[c] \in Requests /\ op' = [op EXCEPT ![c] = op[c]]
  BY <1>1, <1>2, NothingReadType, Zenon DEF FirstCall, PCs, TypeOK, Refused, NothingRead
<1>4. /\ pc'[c] = FirstCall(op[c].kind) /\ op'[c] = op[c] /\ rd'[c] = NothingRead
      /\ seq' \in Nat /\ UNCHANGED store /\ ops' \in 0..MaxOps
  BY <1>1, <1>2, RecordTypes, Zenon DEF TypeOK, Refused, store
<1>5. ReadsOK(c)'
  BY <1>4, NothingReadsOK, Zenon
<1>6. ReachedOK(c)'
  BY <1>4, Zenon DEF ReachedOK, FirstCall, ById
<1> QED
  BY <1>2, <1>3, <1>4, <1>5, <1>6, LocalStep, Zenon DEF Refused

\* A call begins with nothing read.
LEMMA StartInv ==
  ASSUME Inv, NEW c \in Clients, NEW req \in Requests, Start(c, req)
  PROVE  Inv'
<1>1. TypeOK /\ ReachedOK(c)
  BY Zenon DEF Inv
<1>2. rd[c] = NothingRead
  BY <1>1, Zenon DEF ReachedOK, Start
<1>3. /\ FirstCall(req.kind) \in PCs \ {"resend"} /\ NothingRead \in Reads /\ NothingRead.newId = 0
      /\ rd' = [rd EXCEPT ![c] = NothingRead]
  BY <1>1, <1>2, NothingReadType, Zenon DEF FirstCall, PCs, TypeOK, Start, NothingRead
<1>4. /\ pc'[c] = FirstCall(req.kind) /\ op'[c] = req /\ rd'[c] = NothingRead
      /\ seq' \in Nat /\ UNCHANGED store
  BY <1>1, <1>2, RecordTypes, Zenon DEF TypeOK, Start, store
<1>5. ops' \in 0..MaxOps
  BY <1>1, BoundAssumption DEF Start, TypeOK
<1>6. ReadsOK(c)'
  BY <1>4, NothingReadsOK, Zenon
<1>7. ReachedOK(c)'
  BY <1>4, Zenon DEF ReachedOK, FirstCall, ById
<1> QED
  BY <1>2, <1>3, <1>4, <1>5, <1>6, <1>7, LocalStep, Zenon DEF Start

\* A client that has read nothing, as at the start of every call, has
\* generated no id.
LEMMA NothingReadNewId == NothingRead.newId = 0
BY SMTT(60), Zenon DEF NothingRead

\* A transaction keeps the invariant of the clients if it touches only live
\* ids and the id that its own client generated, and if it makes a second copy
\* of itself stale.
LEMMA CommitStep ==
  ASSUME Inv, NEW c \in Clients, Answered(c) \/ Unanswered(c), FreshSeqs, TypeOK', StoreOK',
         DatabaseNamesMatchMetas', TableNamesMatchMetas', NoResurrection',
         Unanswered(c) => Stale(c)',
         \A i \in Ids : dbMeta[i] = 0 /\ tbMeta[i].seq = 0 /\ i # rd[c].newId
           => dbMeta'[i] = 0 /\ tbMeta'[i].seq = 0 /\ (i \in dropped' => i \in dropped)
  PROVE  Inv'
<1>1. TypeOK
  BY SMTT(60), Zenon DEF Inv
<1>2. \A d \in Clients \ {c} : pc'[d] = pc[d] /\ op'[d] = op[d] /\ rd'[d] = rd[d]
  BY <1>1, Zenon DEF Answered, Unanswered, Finish, TypeOK
<1>3. \A d \in Clients : rd[d].newId \in Nat
  BY <1>1, ClientTypes, RecordTypes, Zenon
<1>4. seq \in Nat /\ seq' \in Nat /\ seq' >= seq
  BY <1>1, StoreTypes, RecordTypes, Zenon DEF FreshSeqs, TypeOK
<1>5. rd'[c].newId = 0 \/ rd'[c].newId = rd[c].newId
  <2>1. CASE Answered(c)
    BY <1>1, <2>1, NothingReadNewId, Zenon DEF Answered, Finish, TypeOK
  <2>2. CASE Unanswered(c)
    BY <2>2, Zenon DEF Unanswered
  <2> QED
    BY <2>1, <2>2, Zenon
<1>6. NewIdOK(c)' /\ ReadsOK(c)' /\ ReachedOK(c)' /\ ResendOK(c)'
  <2>1. CASE Answered(c)
    <3>1. pc'[c] = "idle" /\ rd'[c] = NothingRead
      BY <1>1, <2>1, Zenon DEF Answered, Finish, TypeOK
    <3> QED
      BY <3>1, IdleClient, Zenon
  <2>2. CASE Unanswered(c)
    <3>1. /\ pc[c] = "txn" /\ pc'[c] = "resend" /\ op'[c] = op[c] /\ rd'[c] = rd[c]
          /\ rd' = rd
      BY <1>1, <2>2, Zenon DEF Unanswered, TypeOK
    <3>2. NewIdOK(c) /\ ReachedOK(c)
      BY Zenon DEF Inv
    <3>3. NewIdOK(c)'
      BY <1>3, <1>4, <3>1, <3>2 DEF NewIdOK
    <3>4. ReadsOK(c)'
      BY <3>1, ReadsStay, Zenon
    <3>5. ReachedOK(c)'
      BY <3>1, <3>2 DEF ReachedOK
    <3> QED
      BY <2>2, <3>3, <3>4, <3>5, Zenon DEF ResendOK
  <2> QED
    BY <2>1, <2>2, Zenon
<1>7. ASSUME NEW e \in Clients, e # c
      PROVE  NewIdOK(e)' /\ ReadsOK(e)' /\ ReachedOK(e)' /\ ResendOK(e)'
  <2>1. pc'[e] = pc[e] /\ op'[e] = op[e] /\ rd'[e] = rd[e]
    BY <1>2, <1>7, Zenon
  <2>2. NewIdOK(e)'
    <3>1. rd[e].newId > 0 => rd[e].newId \in Ids /\ rd[e].newId # rd[c].newId
      BY <1>1, <1>7, ClientTypes, RecordTypes, Zenon DEF Inv, NewIdOK
    <3>2. NewIdOK(e)
      BY Zenon DEF Inv
    <3> QED
      BY <1>2, <1>3, <1>4, <1>5, <1>7, <2>1, <3>1, <3>2 DEF NewIdOK
  <2> QED
    BY <1>7, <2>1, <2>2, OtherClient, ZenonT(60)
<1> QED
  BY <1>6, <1>7, Zenon DEF Inv

\* A transaction that was executed, heard of or not, leaves the clients well typed.
LEMMA CommitType ==
  ASSUME TypeOK, NEW c \in Clients, Answered(c) \/ Unanswered(c)
  PROVE  /\ pc' \in [Clients -> PCs] /\ op' \in [Clients -> Requests]
         /\ rd' \in [Clients -> Reads] /\ ops' \in 0..MaxOps
<1>1. CASE Answered(c)
  BY <1>1, NoRequestType, NothingReadType, Zenon DEF Answered, Finish, TypeOK, PCs
<1>2. CASE Unanswered(c)
  <2>1. ops' \in 0..MaxOps
    BY <1>2, BoundAssumption DEF Unanswered, TypeOK
  <2> QED
    BY <1>2, <2>1, Zenon DEF Unanswered, TypeOK, PCs
<1> QED
  BY <1>1, <1>2, Zenon

\* A copy that is sent again is out of date, so a transaction that is executed
\* is the first copy.
LEMMA FirstCopy ==
  ASSUME TypeOK, NEW c \in Clients, ResendOK(c), Executable(c)
  PROVE  pc[c] = "txn"
<1>1. pc[c] \in {"txn", "resend"}
  BY Zenon DEF Executable, AtTxn
<1>2. ASSUME Stale(c) PROVE FALSE
  BY <1>2, Zenon DEF Stale, Executable, AtTxn, DropDatabaseCond, RenameDatabaseCond,
     CreateTableCond, DropTableCond, RenameTableCond, UpsertTableOptionCond
<1> QED
  BY <1>1, <1>2, Zenon DEF ResendOK

=============================================================================
