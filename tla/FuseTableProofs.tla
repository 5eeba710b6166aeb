--------------------------- MODULE FuseTableProofs ---------------------------
(***************************************************************************)
(* Proof that the commits of a Fuse table are linear, for any number of    *)
(* statements, retries and faults: LinearInv, the first part of FuseInv,   *)
(* is inductive.  FuseTableReadLemmas and FuseTableReadProofs have the     *)
(* other parts.                                                            *)
(***************************************************************************)
EXTENDS FuseTable, TLAPS

Pcs == {"idle", "data", "read", "write", "commit", "discard", "backoff",
        "abort", "drop", "refresh", "history", "gc", "remove", "done"}

-----------------------------------------------------------------------------
(* The state a step leaves *)

\* The types of a session's variables.
LEMMA SessionTypes ==
  ASSUME TypeOK, NEW s \in Session
  PROVE  /\ pc[s] \in Pcs /\ op[s] \in Ops /\ rows[s] \in SUBSET Session
         /\ hist[s] \in Seq(SnapId) /\ local[s] \in Locals
         /\ local[s].seq \in Nat /\ local[s].loc \in SnapId \cup {None}
         /\ local[s].tries \in 0 .. MaxRetries /\ local[s].tries \in Nat
         /\ local[s].doomed.blocks \in SUBSET Session /\ local[s].doomed.segs \in SUBSET Session
         /\ local[s].doomed.snaps \in Seq(SnapId)
         /\ new_snapshot(s) \in SnapId
<1>1. op \in [Session -> Ops]
  BY FuseAssumption, Zenon DEF TypeOK
<1>2. local[s] \in Locals
  BY Zenon DEF TypeOK
<1>3. local[s].tries \in 0 .. MaxRetries /\ local[s].tries \in Nat
  BY <1>2, FuseAssumption DEF Locals
<1> QED
  BY <1>1, <1>2, <1>3, Zenon DEF TypeOK, Pcs, Locals, new_snapshot, SnapId

\* The types of what is committed.
LEMMA CommitTypes ==
  ASSUME TypeOK
  PROVE  \A i \in DOMAIN commits :
           commits[i] \in SnapId /\ commits[i][1] \in Session /\ commits[i][2] \in Nat
<1>1. commits \in Seq(SnapId)
  BY Zenon DEF TypeOK
<1>2. \A i \in DOMAIN commits : commits[i] \in SnapId
  BY <1>1
<1>3. \A l \in SnapId : l[1] \in Session /\ l[2] \in Nat
  BY FuseAssumption DEF SnapId
<1> QED
  BY <1>2, <1>3, Zenon

\* A statement that goes on: only its own step and locals change.
LEMMA Continued ==
  ASSUME TypeOK, NEW s \in Session, NEW l \in Pcs, NEW v \in Locals, Continue(s, l, v)
  PROVE  /\ pc'[s] = l /\ local'[s] = v /\ result' = result
         /\ \A t \in Session : t # s => pc'[t] = pc[t] /\ local'[t] = local[t]
         /\ pc' \in [Session -> Pcs] /\ local' \in [Session -> Locals]
BY Zenon DEF TypeOK, Continue, Pcs

\* NoLocals are locals.
LEMMA NoLocalsType == NoLocals \in Locals /\ NoLocals.doomed = Nothing
BY FuseAssumption DEF NoLocals, Locals, Nothing

\* A statement that ends.
LEMMA Finished ==
  ASSUME TypeOK, NEW s \in Session,
         NEW r \in {"none", "ok", "aborted", "error", "stopped"}, Finish(s, r)
  PROVE  /\ pc'[s] = "done" /\ local'[s] = NoLocals /\ result'[s] = r
         /\ \A t \in Session : t # s =>
              pc'[t] = pc[t] /\ local'[t] = local[t] /\ result'[t] = result[t]
         /\ pc' \in [Session -> Pcs] /\ local' \in [Session -> Locals]
         /\ result' \in [Session -> {"none", "ok", "aborted", "error", "stopped"}]
BY NoLocalsType, Zenon DEF TypeOK, Finish, Pcs

\* What LinearInv says of a session depends on its own variables, the record
\* and the snapshots.
LEMMA OtherLinear ==
  ASSUME NEW t \in Session, StepsOK(t), HandleOK(t), TryOK(t),
         pc'[t] = pc[t], local'[t] = local[t], rows'[t] = rows[t],
         UNCHANGED <<op, record, snap>>
  PROVE  StepsOK(t)' /\ HandleOK(t)' /\ TryOK(t)'
<1>1. StepsOK(t)'
  BY Zenon DEF StepsOK, record, Inserts, Truncates
<1>2. HandleOK(t)'
  BY Zenon DEF HandleOK, Committed, record
<1>3. new_snapshot(t)' = new_snapshot(t) /\ new_segments(t)' = new_segments(t)
  BY Zenon DEF new_snapshot, new_segments, own, SegmentsOf, Truncates
<1>4. TryOK(t)'
  BY <1>3, Zenon DEF TryOK, Preparing, Pending, Failing, record
<1> QED
  BY <1>1, <1>2, <1>4, Zenon

\* A step that changes neither the record nor a snapshot has to be looked at
\* only for the session that takes it.
LEMMA QuietLinear ==
  ASSUME LinearInv, NEW s \in Session, UNCHANGED <<op, record, snap>>, TypeOK',
         \A t \in Session : t # s =>
           pc'[t] = pc[t] /\ local'[t] = local[t] /\ rows'[t] = rows[t],
         StepsOK(s)', HandleOK(s)', TryOK(s)'
  PROVE  LinearInv'
<1>1. HistoryIsLinear'
  BY Zenon DEF LinearInv, HistoryIsLinear, record
<1>2. ASSUME NEW t \in Session PROVE StepsOK(t)' /\ HandleOK(t)' /\ TryOK(t)'
  <2>1. CASE t = s
    BY <2>1, Zenon
  <2>2. CASE t # s
    BY <2>2, OtherLinear, Zenon DEF LinearInv
  <2> QED
    BY <2>1, <2>2, Zenon
<1> QED
  BY <1>1, <1>2, Zenon DEF LinearInv

\* A statement that ends keeps LinearInv.
LEMMA FinishLinear ==
  ASSUME LinearInv, NEW s \in Session,
         NEW r \in {"none", "ok", "aborted", "error", "stopped"}, Finish(s, r),
         UNCHANGED <<op, record, snap, rows>>, TypeOK'
  PROVE  LinearInv'
<1>1. TypeOK
  BY Zenon DEF LinearInv
<1>2. pc'[s] = "done" /\ local'[s] = NoLocals
  BY <1>1, Finished, Zenon
<1>3. StepsOK(s)' /\ TryOK(s)'
  BY <1>2 DEF StepsOK, TryOK, NoLocals, Preparing, Pending, Failing
<1>4. HandleOK(s)'
  BY <1>1, <1>2 DEF HandleOK, NoLocals, TypeOK, record
<1>5. \A t \in Session : t # s =>
        pc'[t] = pc[t] /\ local'[t] = local[t] /\ rows'[t] = rows[t]
  BY <1>1, Finished, Zenon
<1> QED
  BY <1>3, <1>4, <1>5, QuietLinear, Zenon

\* The types after a step of a session, from the types of what it changed.
LEMMA TypesAfter ==
  ASSUME TypeOK, UNCHANGED op,
         pc' \in [Session -> Pcs], local' \in [Session -> Locals],
         result' \in [Session -> {"none", "ok", "aborted", "error", "stopped"}],
         UNCHANGED record \/ (/\ seq' \in Nat
                              /\ commits' \in Seq(SnapId) /\ loc' \in SnapId \cup {None}),
         snap' \in [SnapId -> [prev : SnapId \cup {None}, segs : SUBSET Session]],
         files' \subseteq SnapId, cached' \subseteq SnapId,
         segments' \subseteq Session, blocks' \subseteq Session,
         rows' \in [Session -> SUBSET Session], hist' \in [Session -> Seq(SnapId)]
  PROVE  TypeOK'
<1>1. seq' \in Nat
  BY Zenon DEF TypeOK, record
<1>2. commits' \in Seq(SnapId) /\ loc' \in SnapId \cup {None}
  BY Zenon DEF TypeOK, record
<1> QED
  BY <1>1, <1>2, Zenon DEF TypeOK, Pcs

-----------------------------------------------------------------------------
(* LinearInv, action by action *)

\* A handle read now is a good handle.
LEMMA LatestOK ==
  ASSUME TypeOK, HistoryIsLinear, NEW s \in Session
  PROVE  /\ latest(s) \in Locals
         /\ latest(s).seq = seq /\ latest(s).loc = loc /\ latest(s).tries = local[s].tries
         /\ latest(s).doomed = local[s].doomed
         /\ loc \in Committed \cup {None}
<1>1. local[s] \in Locals
  BY SessionTypes, Zenon
<1>2. loc \in Committed \cup {None}
  <2>1. CASE commits = << >>
    BY <2>1, Zenon DEF HistoryIsLinear
  <2>2. CASE commits # << >>
    <3>1. Len(commits) \in DOMAIN commits
      BY <2>2 DEF TypeOK
    <3> QED
      BY <2>2, <3>1, Zenon DEF HistoryIsLinear, Committed
  <2> QED
    BY <2>1, <2>2, Zenon
<1>3. latest(s) \in Locals
  BY <1>1, ZenonT(60) DEF latest, Locals, TypeOK
<1> QED
  BY <1>1, <1>2, <1>3, Zenon DEF latest, Locals

\* append_data writes data only.
LEMMA append_dataLinear ==
  ASSUME LinearInv, NEW s \in Session, append_data(s)
  PROVE  LinearInv'
<1>1. TypeOK /\ StepsOK(s) /\ HandleOK(s) /\ TryOK(s) /\ local[s] \in Locals
  BY SessionTypes, Zenon DEF LinearInv
<1>2. /\ pc'[s] = "read" /\ local'[s] = local[s] /\ result' = result
      /\ \A t \in Session : t # s => pc'[t] = pc[t] /\ local'[t] = local[t]
      /\ pc' \in [Session -> Pcs] /\ local' \in [Session -> Locals]
  BY <1>1, Continued, Zenon DEF append_data, Pcs
<1>3. pc[s] = "data" /\ UNCHANGED <<record, snap, files, cached, op, hist>>
  BY Zenon DEF append_data
<1>4. PICK r \in source_rows(s) :
        /\ rows' = [rows EXCEPT ![s] = r]
        /\ blocks' = blocks \cup (IF r = {} THEN {} ELSE {s})
        /\ segments' = segments \cup (IF r = {} THEN {} ELSE {s})
  BY ZenonT(60) DEF append_data
<1>5. r \in SUBSET Session
  BY <1>1, <1>4 DEF source_rows, ContentOf, SegmentsOf, TypeOK, Locals
<1>6. TypeOK'
  BY <1>1, <1>2, <1>3, <1>4, <1>5, TypesAfter, Zenon DEF TypeOK
<1>7. StepsOK(s)' /\ TryOK(s)'
  BY <1>1, <1>2, <1>3, Zenon DEF StepsOK, TryOK, Preparing, Pending, Failing, record, Inserts, Truncates
<1>8. HandleOK(s)'
  BY <1>1, <1>2, <1>3, Zenon DEF HandleOK, record, Committed
<1>9. \A t \in Session : t # s => rows'[t] = rows[t]
  BY <1>1, <1>4, Zenon DEF TypeOK
<1> QED
  BY <1>2, <1>3, <1>6, <1>7, <1>8, <1>9, QuietLinear, Zenon

\* A compaction that cannot read its rows ends.
LEMMA select_failsLinear ==
  ASSUME LinearInv, NEW s \in Session, select_fails(s)
  PROVE  LinearInv'
<1>1. TypeOK /\ Finish(s, "error") /\ UNCHANGED <<record, store, cached, op, rows, hist>>
  BY Zenon DEF select_fails, LinearInv
<1>2. TypeOK'
  BY <1>1, Finished, TypesAfter, Zenon DEF TypeOK, store
<1> QED
  BY <1>1, <1>2, FinishLinear, Zenon DEF store

\* A statement that ends forgets the history it has read, or not.
LEMMA HistKeptOrNot ==
  ASSUME TypeOK, NEW s \in Session,
         \/ UNCHANGED hist
         \/ hist' = [hist EXCEPT ![s] = << >>]
         \/ hist' = [hist EXCEPT ![s] = IF pc[s] \in {"history", "gc"} THEN << >> ELSE @]
  PROVE  /\ hist' \in [Session -> Seq(SnapId)]
         /\ \A t \in Session : t # s => hist'[t] = hist[t]
         /\ hist'[s] = hist[s] \/ hist'[s] = << >>
<1>1. hist \in [Session -> Seq(SnapId)] /\ << >> \in Seq(SnapId)
  BY DEF TypeOK
<1>2. CASE UNCHANGED hist
  BY <1>1, <1>2, Zenon
<1>3. CASE \E x \in {hist[s], << >>} : hist' = [hist EXCEPT ![s] = x]
  BY <1>1, <1>3, Zenon
<1> QED
  BY <1>2, <1>3, Zenon

\* A statement that stops half way.
LEMMA StopLinear ==
  ASSUME LinearInv, NEW s \in Session, Stop(s)
  PROVE  LinearInv'
<1>1. TypeOK /\ Finish(s, "stopped") /\ UNCHANGED <<record, store, cached, op, rows>>
  BY Zenon DEF Stop, LinearInv
<1>2. TypeOK'
  <2>1. hist' \in [Session -> Seq(SnapId)]
    BY <1>1, HistKeptOrNot, Zenon DEF Stop
  <2> QED
    BY <1>1, <2>1, Finished, TypesAfter, Zenon DEF TypeOK, store
<1> QED
  BY <1>1, <1>2, FinishLinear, Zenon DEF store

\* A quiet step that goes on with the handle it has, or with the latest.
LEMMA ContinueLinear ==
  ASSUME LinearInv, NEW s \in Session, NEW l \in Pcs, NEW v \in Locals, Continue(s, l, v),
         UNCHANGED <<op, record, snap, rows>>,
         \/ v.seq = local[s].seq /\ v.loc = local[s].loc
         \/ v.seq = seq /\ v.loc = loc,
         files' \subseteq SnapId, cached' \subseteq SnapId,
         segments' \subseteq Session, blocks' \subseteq Session, hist' \in [Session -> Seq(SnapId)],
         StepsOK(s)', TryOK(s)'
  PROVE  LinearInv'
<1>1. TypeOK /\ HistoryIsLinear /\ HandleOK(s)
  BY Zenon DEF LinearInv
<1>2. /\ pc'[s] = l /\ local'[s] = v /\ result' = result
      /\ \A t \in Session : t # s => pc'[t] = pc[t] /\ local'[t] = local[t]
      /\ pc' \in [Session -> Pcs] /\ local' \in [Session -> Locals]
  BY <1>1, Continued, Zenon
<1>3. TypeOK'
  BY <1>1, <1>2, TypesAfter, Zenon DEF TypeOK
<1>4. (seq # 0 => v.seq <= seq /\ (v.seq = seq => v.loc = loc)) /\ v.loc \in Committed \cup {None}
  BY <1>1, LatestOK DEF HandleOK, TypeOK
<1>5. HandleOK(s)'
  BY <1>2, <1>4, Zenon DEF HandleOK, record, Committed
<1> QED
  BY <1>2, <1>3, <1>5, QuietLinear, Zenon

\* A quiet step that ends the statement.
LEMMA EndLinear ==
  ASSUME LinearInv, NEW s \in Session,
         NEW r \in {"none", "ok", "aborted", "error", "stopped"}, Finish(s, r),
         UNCHANGED <<op, record, snap, rows>>,
         files' \subseteq SnapId, cached' \subseteq SnapId,
         segments' \subseteq Session, blocks' \subseteq Session, hist' \in [Session -> Seq(SnapId)]
  PROVE  LinearInv'
<1>1. TypeOK
  BY Zenon DEF LinearInv
<1>2. TypeOK'
  BY <1>1, Finished, TypesAfter, Zenon DEF TypeOK
<1> QED
  BY <1>2, FinishLinear, Zenon

\* get_table gives the statement a good handle.
LEMMA get_tableLinear ==
  ASSUME LinearInv, NEW s \in Session, get_table(s)
  PROVE  LinearInv'
<1>1. TypeOK /\ HistoryIsLinear /\ StepsOK(s) /\ TryOK(s) /\ op[s] \in Ops
  BY SessionTypes, Zenon DEF LinearInv
<1>2. pc[s] = "idle" /\ UNCHANGED <<record, store, cached, op, rows, hist>>
  BY Zenon DEF get_table
<1>3. CASE Continue(s, first_step(s), latest(s))
  <2>1. PICK l : l = first_step(s)
    OBVIOUS
  <2>2. /\ l \in Pcs
        /\ \/ Inserts(s) /\ l = "data"
           \/ Truncates(s) /\ l = "read"
           \/ op[s] = "purge" /\ l = "history"
           \/ op[s] = "drop" /\ l = "drop"
    BY <1>1, <2>1, Zenon DEF Ops, Inserts, Truncates, first_step, Pcs
  <2>3. pc'[s] = l /\ local'[s] = latest(s)
    BY <1>1, <1>3, <2>1, <2>2, LatestOK, Continued, Zenon
  <2>4. StepsOK(s)'
    BY <1>1, <1>2, <2>2, <2>3, LatestOK, Zenon DEF StepsOK, Inserts, Truncates
  <2>5. TryOK(s)'
    BY <1>1, <1>2, <2>2, <2>3, LatestOK, Zenon DEF TryOK, Preparing, Pending, Failing, record, Inserts, Truncates
  <2> QED
    BY <1>1, <1>2, <1>3, <2>1, <2>2, <2>4, <2>5, LatestOK, ContinueLinear, ZenonT(60) DEF store, TypeOK
<1>4. CASE \E x \in {"ok", "error"} : Finish(s, x)
  BY <1>1, <1>2, <1>4, EndLinear, ZenonT(60) DEF store, TypeOK
<1> QED
  BY <1>3, <1>4, Zenon DEF get_table

\* read_table_snapshot decides whether the statement goes on.
LEMMA read_table_snapshotLinear ==
  ASSUME LinearInv, NEW s \in Session, read_table_snapshot(s)
  PROVE  LinearInv'
<1>1. TypeOK /\ StepsOK(s) /\ TryOK(s) /\ local[s] \in Locals
  BY SessionTypes, Zenon DEF LinearInv
<1>2. /\ pc[s] = "read" /\ UNCHANGED <<record, store, op, rows, hist>>
      /\ cached' \subseteq SnapId
  BY <1>1, Zenon DEF read_table_snapshot, TypeOK, Locals
<1>3. /\ files' \subseteq SnapId /\ segments' \subseteq Session /\ blocks' \subseteq Session
      /\ hist' \in [Session -> Seq(SnapId)] /\ UNCHANGED <<op, record, snap, rows>>
  BY <1>1, <1>2, Zenon DEF TypeOK, store
<1>4. CASE Continue(s, "write", local[s])
  <2>0. "write" \in Pcs
    BY Zenon DEF Pcs
  <2>1. pc'[s] = "write" /\ local'[s] = local[s]
    BY <1>1, <1>4, Continued, ZenonT(60) DEF Pcs
  <2>2. StepsOK(s)' /\ TryOK(s)'
    BY <1>1, <1>2, <2>1, Zenon DEF StepsOK, TryOK, Preparing, Pending, Failing, record, Inserts, Truncates
  <2> QED
    BY <1>1, <1>2, <1>3, <1>4, <2>0, <2>2, ContinueLinear, Zenon
<1>5. CASE \E r \in {"ok", "error"} : Finish(s, r)
  BY <1>2, <1>3, <1>5, EndLinear, Zenon
<1> QED
  BY <1>4, <1>5, Zenon DEF read_table_snapshot

\* discard_snapshot removes an object and looks at the error.
LEMMA discard_snapshotLinear ==
  ASSUME LinearInv, NEW s \in Session, discard_snapshot(s)
  PROVE  LinearInv'
<1>1. TypeOK /\ StepsOK(s) /\ TryOK(s) /\ local[s] \in Locals
  BY SessionTypes, Zenon DEF LinearInv
<1>2. /\ pc[s] = "discard" /\ UNCHANGED <<record, snap, segments, blocks, cached, op, rows, hist>>
      /\ files' \subseteq SnapId
  BY <1>1, Zenon DEF discard_snapshot, Removed, TypeOK
<1>3. /\ cached' \subseteq SnapId /\ segments' \subseteq Session /\ blocks' \subseteq Session
      /\ hist' \in [Session -> Seq(SnapId)]
  BY <1>1, <1>2, Zenon DEF TypeOK
<1>4. CASE Continue(s, "backoff", local[s])
  <2>0. "backoff" \in Pcs
    BY Zenon DEF Pcs
  <2>1. pc'[s] = "backoff" /\ local'[s] = local[s]
    BY <1>1, <1>4, Continued, Zenon DEF Pcs
  <2>2. StepsOK(s)' /\ TryOK(s)'
    BY <1>1, <1>2, <2>1, Zenon DEF StepsOK, TryOK, Preparing, Pending, Failing, record, Inserts, Truncates
  <2> QED
    BY <1>1, <1>2, <1>3, <1>4, <2>0, <2>2, ContinueLinear, Zenon
<1>5. CASE Finish(s, "error")
  BY <1>2, <1>3, <1>5, EndLinear, Zenon
<1> QED
  BY <1>4, <1>5, Zenon DEF discard_snapshot

\* retry starts a new try with the latest handle.
LEMMA retryLinear ==
  ASSUME LinearInv, NEW s \in Session, retry(s)
  PROVE  LinearInv'
<1> DEFINE v == [latest(s) EXCEPT !.reply = "none", !.tries = @ + 1]
<1>1. TypeOK /\ HistoryIsLinear /\ StepsOK(s) /\ TryOK(s) /\ latest(s) \in Locals
  BY LatestOK, Zenon DEF LinearInv
<1>a. /\ pc[s] = "backoff" /\ local[s].tries < MaxRetries
      /\ UNCHANGED <<record, store, cached, op, rows, hist>>
      /\ Finish(s, "error") \/ Continue(s, "read", v)
  BY Zenon DEF retry
<1>b. CASE Finish(s, "error")
  BY <1>1, <1>a, <1>b, EndLinear, ZenonT(60) DEF TypeOK, store
<1> SUFFICES ASSUME Continue(s, "read", v) PROVE LinearInv'
  BY <1>a, <1>b, Zenon
<1>2. /\ pc[s] = "backoff" /\ local[s].tries < MaxRetries /\ Continue(s, "read", v)
      /\ UNCHANGED <<record, store, cached, op, rows, hist>>
  BY <1>a, Zenon
<1>3. /\ v \in Locals /\ v.seq = seq /\ v.loc = loc /\ v.tries = local[s].tries + 1
  <2>1. local[s].tries \in Nat /\ latest(s).tries = local[s].tries
    BY <1>1, SessionTypes, LatestOK, Zenon
  <2>2. local[s].tries + 1 \in 0 .. MaxRetries
    BY <1>2, <2>1, FuseAssumption
  <2> QED
    BY <1>1, <2>1, <2>2, LatestOK, ZenonT(60) DEF Locals
<1> HIDE DEF v
<1>4. pc'[s] = "read" /\ local'[s] = v
  BY <1>1, <1>2, <1>3, Continued, Zenon DEF Pcs
<1>5. StepsOK(s)'
  BY <1>1, <1>2, <1>3, <1>4, Zenon DEF StepsOK, Inserts, Truncates
<1>6. TryOK(s)'
  <2>1. \A i \in DOMAIN commits : commits[i][1] = s => commits[i][2] <= local[s].tries
    BY <1>1, <1>2, Zenon DEF TryOK, Failing
  <2>2. \A i \in DOMAIN commits : commits[i][2] \in Nat
    BY <1>1, FuseAssumption DEF TypeOK, SnapId
  <2>3. \A i \in DOMAIN commits : commits[i][1] = s => commits[i][2] < v.tries
    BY <1>1, <1>3, <2>1, <2>2, SessionTypes
  <2> QED
    BY <1>2, <1>4, <2>3, Zenon DEF TryOK, Preparing, Pending, Failing, record
<1> QED
  BY <1>1, <1>2, <1>3, <1>5, <1>6, ContinueLinear, ZenonT(60) DEF Pcs, TypeOK, store

\* give_up names the data to be removed.
LEMMA give_upLinear ==
  ASSUME LinearInv, NEW s \in Session, give_up(s)
  PROVE  LinearInv'
<1> DEFINE v == [local[s] EXCEPT !.doomed.blocks = own(s), !.doomed.segs = own(s)]
<1>1. TypeOK /\ StepsOK(s) /\ local[s] \in Locals
  BY SessionTypes, Zenon DEF LinearInv
<1>2. /\ pc[s] = "backoff" /\ Continue(s, "abort", v)
      /\ UNCHANGED <<record, store, cached, op, rows, hist>>
  BY Zenon DEF give_up
<1>3. v \in Locals /\ v.seq = local[s].seq /\ v.loc = local[s].loc /\ v.tries = local[s].tries
  BY <1>1, ZenonT(60) DEF Locals, own
<1> HIDE DEF v
<1>4. pc'[s] = "abort" /\ local'[s] = v
  BY <1>1, <1>2, <1>3, Continued, Zenon DEF Pcs
<1>5. StepsOK(s)' /\ TryOK(s)'
  BY <1>1, <1>2, <1>3, <1>4, Zenon DEF StepsOK, TryOK, Preparing, Pending, Failing, Inserts, Truncates
<1> QED
  BY <1>1, <1>2, <1>3, <1>5, ContinueLinear, ZenonT(60) DEF Pcs, TypeOK, store

\* refresh takes the latest handle.
LEMMA refreshLinear ==
  ASSUME LinearInv, NEW s \in Session, refresh(s)
  PROVE  LinearInv'
<1>1. TypeOK /\ HistoryIsLinear /\ StepsOK(s)
  BY Zenon DEF LinearInv
<1>a. /\ pc[s] = "refresh" /\ UNCHANGED <<record, store, cached, op, rows, hist>>
      /\ Finish(s, "error") \/ Continue(s, "history", latest(s))
  BY Zenon DEF refresh
<1>b. CASE Finish(s, "error")
  BY <1>1, <1>a, <1>b, EndLinear, ZenonT(60) DEF TypeOK, store
<1> SUFFICES ASSUME Continue(s, "history", latest(s)) PROVE LinearInv'
  BY <1>a, <1>b, Zenon
<1>2. /\ pc[s] = "refresh" /\ Continue(s, "history", latest(s))
      /\ UNCHANGED <<record, store, cached, op, rows, hist>>
  BY <1>a, Zenon
<1>3. pc'[s] = "history" /\ local'[s] = latest(s) /\ "history" \in Pcs
  BY <1>1, <1>2, LatestOK, Continued, ZenonT(60) DEF Pcs
<1>4. StepsOK(s)' /\ TryOK(s)'
  BY <1>1, <1>2, <1>3, LatestOK, ZenonT(60)
  DEF StepsOK, TryOK, Preparing, Pending, Failing, Inserts, Truncates
<1> QED
  BY <1>1, <1>2, <1>3, <1>4, LatestOK, ContinueLinear, ZenonT(60) DEF TypeOK, store

\* The steps of do_optimize leave the pending snapshot of a truncation alone.
LEMMA OptimizeLinear ==
  ASSUME LinearInv, NEW s \in Session, pc[s] \in {"history", "gc", "remove"},
         NEW l \in {"history", "gc", "remove"}, NEW v \in Locals, Continue(s, l, v),
         UNCHANGED <<op, record, snap, rows>>,
         v.seq = local[s].seq, v.loc = local[s].loc, v.tries = local[s].tries,
         files' \subseteq SnapId, cached' \subseteq SnapId,
         segments' \subseteq Session, blocks' \subseteq Session, hist' \in [Session -> Seq(SnapId)]
  PROVE  LinearInv'
<1>1. TypeOK /\ StepsOK(s) /\ TryOK(s) /\ l \in Pcs
  BY Zenon DEF LinearInv, Pcs
<1>2. pc'[s] = l /\ local'[s] = v
  BY <1>1, Continued, Zenon
<1>3. StepsOK(s)'
  BY <1>1, <1>2, Zenon DEF StepsOK, record, Inserts, Truncates
<1>4. /\ new_snapshot(s)' = new_snapshot(s) /\ new_segments(s)' = new_segments(s)
      /\ Pending(s)' = Pending(s) /\ ~Preparing(s)' /\ ~Failing(s)'
  BY <1>2, ZenonT(60) DEF new_snapshot, new_segments, own, SegmentsOf, Truncates, Pending, Preparing, Failing
<1>5. TryOK(s)'
  BY <1>1, <1>2, <1>4, Zenon DEF TryOK, record
<1> QED
  BY <1>1, <1>3, <1>5, ContinueLinear, ZenonT(60)

\* A truncation that has purged goes on to commit.
LEMMA optimizedLinear ==
  ASSUME LinearInv, NEW s \in Session, pc[s] \in {"gc", "remove"}, optimized(s),
         UNCHANGED <<op, record, snap, rows>>,
         files' \subseteq SnapId, cached' \subseteq SnapId,
         segments' \subseteq Session, blocks' \subseteq Session, hist' \in [Session -> Seq(SnapId)]
  PROVE  LinearInv'
<1>1. TypeOK /\ StepsOK(s) /\ TryOK(s) /\ local[s] \in Locals /\ "commit" \in Pcs
  BY SessionTypes, Zenon DEF LinearInv, Pcs
<1>2. CASE Finish(s, "ok")
  BY <1>2, EndLinear, Zenon
<1>3. CASE op[s] = "truncate_purge" /\ Continue(s, "commit", local[s])
  <2>1. pc'[s] = "commit" /\ local'[s] = local[s]
    BY <1>1, <1>3, Continued, Zenon
  <2>2. StepsOK(s)'
    BY <1>1, <1>3, <2>1, Zenon DEF StepsOK, Inserts, Truncates
  <2>3. /\ new_snapshot(s)' = new_snapshot(s) /\ new_segments(s)' = new_segments(s)
        /\ Pending(s) /\ ~Preparing(s)' /\ ~Failing(s)'
    BY <1>3, <2>1, ZenonT(60) DEF new_snapshot, new_segments, own, SegmentsOf, Truncates, Pending, Preparing, Failing
  <2>4. TryOK(s)'
    BY <1>1, <2>1, <2>3, ZenonT(60) DEF TryOK, record
  <2> QED
    BY <1>1, <1>3, <2>2, <2>4, ContinueLinear, ZenonT(60)
<1> QED
  BY <1>2, <1>3, Zenon DEF optimized

\* read_snapshot_history only reads.
LEMMA read_snapshot_historyLinear ==
  ASSUME LinearInv, NEW s \in Session, read_snapshot_history(s)
  PROVE  LinearInv'
<1>1. TypeOK /\ local[s] \in Locals
  BY SessionTypes, Zenon DEF LinearInv
<1>2. pc[s] = "history" /\ UNCHANGED <<record, store, op, rows>>
  BY SMTT(60), Zenon DEF read_snapshot_history
<1>3. next_in_history(s) \in SnapId \cup {None}
  BY <1>1 DEF next_in_history, TypeOK, Locals
<1>4. cached' \subseteq SnapId /\ hist' \in [Session -> Seq(SnapId)]
  <2>1. CASE UNCHANGED <<hist, cached>>
    BY <1>1, <2>1, Zenon DEF TypeOK
  <2>2. CASE /\ next_in_history(s) # None
             /\ hist' = [hist EXCEPT ![s] = Append(@, next_in_history(s))]
             /\ cached' = cached \cup {next_in_history(s)}
    <3>1. next_in_history(s) \in SnapId
      BY <1>3, <2>2, Zenon
    <3>2. Append(hist[s], next_in_history(s)) \in Seq(SnapId)
      BY <1>1, <3>1, SessionTypes
    <3> QED
      BY <1>1, <2>2, <3>1, <3>2, Zenon DEF TypeOK
  <2> QED
    BY <2>1, <2>2, Zenon DEF read_snapshot_history
<1>5. files' \subseteq SnapId /\ segments' \subseteq Session /\ blocks' \subseteq Session
  BY <1>1, <1>2, Zenon DEF TypeOK, store
<1>6. CASE Continue(s, "history", local[s])
  BY <1>1, <1>2, <1>4, <1>5, <1>6, OptimizeLinear, ZenonT(60) DEF store
<1>7. CASE Continue(s, "gc", local[s])
  BY <1>1, <1>2, <1>4, <1>5, <1>7, OptimizeLinear, Zenon DEF store
<1> QED
  BY <1>6, <1>7, Zenon DEF read_snapshot_history

\* The segments of known snapshots are sessions' segments.
LEMMA SegmentsType ==
  ASSUME TypeOK, NEW l \in SnapId \cup {None}
  PROVE  SegmentsOf(l) \in SUBSET Session
BY Zenon DEF SegmentsOf, TypeOK

\* What a purge intends to remove has its types.
LEMMA GarbageTypes ==
  ASSUME TypeOK, NEW s \in Session, Len(hist[s]) > min_history_len(s)
  PROVE  /\ prevs(s) \in Seq(SnapId) /\ seg_delta(s) \in SUBSET Session
         /\ hist[s] # << >> /\ hist[s] \in Seq(SnapId) /\ hist[s][1] \in SnapId
<1>1. hist[s] \in Seq(SnapId) /\ hist[s] # << >>
  BY SessionTypes DEF min_history_len
<1>2. prevs(s) \in Seq(SnapId) /\ hist[s][1] \in SnapId
  BY <1>1 DEF prevs
<1>3. \A i \in DOMAIN prevs(s) : SegmentsOf(prevs(s)[i]) \in SUBSET Session
  BY <1>2, SegmentsType
<1> QED
  BY <1>1, <1>2, <1>3, Zenon DEF seg_delta

\* find_garbage decides what to remove.
LEMMA find_garbageLinear ==
  ASSUME LinearInv, NEW s \in Session, find_garbage(s)
  PROVE  LinearInv'
<1> DEFINE v == [local[s] EXCEPT !.doomed = [blocks |-> seg_delta(s), segs |-> seg_delta(s),
                                             snaps |-> prevs(s)]]
<1>1. TypeOK /\ local[s] \in Locals
  BY SessionTypes, Zenon DEF LinearInv
<1>2. pc[s] = "gc" /\ UNCHANGED <<record, store, cached, op, rows>>
  BY Zenon DEF find_garbage
<1>a. hist' \in [Session -> Seq(SnapId)]
  BY <1>1, HistKeptOrNot, Zenon DEF find_garbage
<1>3. /\ files' \subseteq SnapId /\ segments' \subseteq Session /\ blocks' \subseteq Session
      /\ cached' \subseteq SnapId /\ hist' \in [Session -> Seq(SnapId)]
      /\ UNCHANGED <<op, record, snap, rows>>
  BY <1>1, <1>2, <1>a, Zenon DEF TypeOK, store
<1>4. CASE optimized(s)
  BY <1>2, <1>3, <1>4, optimizedLinear, Zenon
<1>5. CASE Len(hist[s]) > min_history_len(s) /\ Continue(s, "remove", v)
  <2>1. v \in Locals /\ v.seq = local[s].seq /\ v.loc = local[s].loc /\ v.tries = local[s].tries
    BY <1>1, <1>5, GarbageTypes, ZenonT(60) DEF Locals
  <2> HIDE DEF v
  <2> QED
    BY <1>2, <1>3, <1>5, <2>1, OptimizeLinear, Zenon
<1>6. CASE Finish(s, "error")
  BY <1>3, <1>6, EndLinear, Zenon
<1> QED
  BY <1>4, <1>5, <1>6, Zenon DEF find_garbage

\* The locals v are those of s with less to remove.
Shrinks(s, v) ==
  /\ v.seq = local[s].seq /\ v.loc = local[s].loc /\ v.tries = local[s].tries
  /\ v.doomed.blocks \subseteq local[s].doomed.blocks
  /\ v.doomed.segs \subseteq local[s].doomed.segs
  /\ DOMAIN v.doomed.snaps \subseteq DOMAIN local[s].doomed.snaps
  /\ \A i \in DOMAIN v.doomed.snaps : v.doomed.snaps[i] = local[s].doomed.snaps[i]

\* What one removal does to the locals.
LEMMA RemovalLocals ==
  ASSUME TypeOK, NEW s \in Session, NEW v,
         \/ \E b \in local[s].doomed.blocks : v = [local[s] EXCEPT !.doomed.blocks = @ \ {b}]
         \/ \E g \in local[s].doomed.segs : v = [local[s] EXCEPT !.doomed.segs = @ \ {g}]
         \/ /\ local[s].doomed.snaps # << >>
            /\ v = [local[s] EXCEPT !.doomed.snaps =
                      SubSeq(local[s].doomed.snaps, 1, Len(local[s].doomed.snaps) - 1)]
  PROVE  v \in Locals /\ Shrinks(s, v)
<1>1. local[s] \in Locals
  BY SessionTypes, Zenon
<1>2. ASSUME NEW b \in local[s].doomed.blocks, v = [local[s] EXCEPT !.doomed.blocks = @ \ {b}]
      PROVE  /\ v \in Locals /\ v.doomed = [local[s].doomed EXCEPT !.blocks = @ \ {b}]
             /\ v.seq = local[s].seq /\ v.loc = local[s].loc
             /\ v.tries = local[s].tries /\ v.reply = local[s].reply
  BY <1>1, <1>2, ZenonT(60) DEF Locals
<1>3. ASSUME NEW g \in local[s].doomed.segs, v = [local[s] EXCEPT !.doomed.segs = @ \ {g}]
      PROVE  /\ v \in Locals /\ v.doomed = [local[s].doomed EXCEPT !.segs = @ \ {g}]
             /\ v.seq = local[s].seq /\ v.loc = local[s].loc
             /\ v.tries = local[s].tries /\ v.reply = local[s].reply
  BY <1>1, <1>3, ZenonT(60) DEF Locals
<1>4. ASSUME NEW q \in Seq(SnapId), v = [local[s] EXCEPT !.doomed.snaps = q]
      PROVE  /\ v \in Locals /\ v.doomed = [local[s].doomed EXCEPT !.snaps = q]
             /\ v.seq = local[s].seq /\ v.loc = local[s].loc
             /\ v.tries = local[s].tries /\ v.reply = local[s].reply
  BY <1>1, <1>4, ZenonT(60) DEF Locals
<1>5. local[s].doomed \in [blocks : SUBSET Session, segs : SUBSET Session, snaps : Seq(SnapId)]
  BY <1>1, Zenon DEF Locals
<1>6. ASSUME NEW q \in Seq(SnapId), q # << >>
      PROVE  /\ SubSeq(q, 1, Len(q) - 1) \in Seq(SnapId)
             /\ DOMAIN SubSeq(q, 1, Len(q) - 1) \subseteq DOMAIN q
             /\ \A i \in DOMAIN SubSeq(q, 1, Len(q) - 1) : SubSeq(q, 1, Len(q) - 1)[i] = q[i]
  BY <1>6
<1>7. CASE \E b \in local[s].doomed.blocks : v = [local[s] EXCEPT !.doomed.blocks = @ \ {b}]
  BY <1>2, <1>5, <1>7, ZenonT(60) DEF Shrinks
<1>8. CASE \E g \in local[s].doomed.segs : v = [local[s] EXCEPT !.doomed.segs = @ \ {g}]
  BY <1>3, <1>5, <1>8, ZenonT(60) DEF Shrinks
<1>9. ASSUME NEW q \in Seq(SnapId), q # << >>, q = local[s].doomed.snaps,
             v = [local[s] EXCEPT !.doomed.snaps = SubSeq(q, 1, Len(q) - 1)]
      PROVE  /\ v \in Locals /\ v.seq = local[s].seq /\ v.loc = local[s].loc
             /\ v.tries = local[s].tries /\ v.reply = local[s].reply
             /\ v.doomed.blocks = local[s].doomed.blocks
             /\ v.doomed.segs = local[s].doomed.segs
             /\ DOMAIN v.doomed.snaps \subseteq DOMAIN q
             /\ \A i \in DOMAIN v.doomed.snaps : v.doomed.snaps[i] = q[i]
  <2> DEFINE p == SubSeq(q, 1, Len(q) - 1)
  <2>1. p \in Seq(SnapId) /\ DOMAIN p \subseteq DOMAIN q /\ \A i \in DOMAIN p : p[i] = q[i]
    BY <1>6, <1>9, Zenon
  <2>2. v = [local[s] EXCEPT !.doomed.snaps = p]
    BY <1>9, Zenon
  <2> HIDE DEF p
  <2>3. v.doomed = [local[s].doomed EXCEPT !.snaps = p]
    BY <1>4, <2>1, <2>2, Zenon
  <2> QED
    BY <1>4, <1>5, <2>1, <2>2, <2>3, SMTT(60)
<1>10. CASE /\ local[s].doomed.snaps # << >>
            /\ v = [local[s] EXCEPT !.doomed.snaps =
                      SubSeq(local[s].doomed.snaps, 1, Len(local[s].doomed.snaps) - 1)]
  BY <1>5, <1>9, <1>10, ZenonT(60) DEF Shrinks
<1> QED
  BY <1>7, <1>8, <1>10, Zenon

\* A step of remove_location removes one thing it intended to remove, or is
\* the last.
LEMMA RemovalCases ==
  ASSUME TypeOK, NEW s \in Session, remove_location(s)
  PROVE  \/ /\ \E v \in Locals : Continue(s, pc[s], v) /\ Shrinks(s, v)
            /\ blocks \ local[s].doomed.blocks \subseteq blocks' /\ blocks' \subseteq blocks
            /\ segments \ local[s].doomed.segs \subseteq segments' /\ segments' \subseteq segments
            /\ files' \subseteq files
            /\ \A l \in files : l \in files' \/ \E i \in DOMAIN local[s].doomed.snaps : l = local[s].doomed.snaps[i]
         \/ removal_done(s)
<1>0. /\ pc[s] \in {"abort", "remove"} /\ local[s] \in Locals
      /\ local[s].doomed.snaps \in Seq(SnapId)
  BY SessionTypes, Zenon DEF remove_location
<1>1. ASSUME NEW b \in local[s].doomed.blocks, remove_block(s, b)
      PROVE  \E v \in Locals : Continue(s, pc[s], v) /\ Shrinks(s, v)
  <2>1. PICK v : v = [local[s] EXCEPT !.doomed.blocks = @ \ {b}]
    BY ZenonT(60)
  <2>2. Continue(s, pc[s], v)
    BY <1>1, <2>1, Zenon DEF remove_block
  <2> QED
    BY <2>1, <2>2, RemovalLocals, Zenon
<1>2. ASSUME NEW g \in local[s].doomed.segs, remove_segment(s, g)
      PROVE  \E v \in Locals : Continue(s, pc[s], v) /\ Shrinks(s, v)
  <2>1. PICK v : v = [local[s] EXCEPT !.doomed.segs = @ \ {g}]
    BY ZenonT(60)
  <2>2. Continue(s, pc[s], v)
    BY <1>2, <2>1, Zenon DEF remove_segment
  <2> QED
    BY <2>1, <2>2, RemovalLocals, Zenon
<1>3. ASSUME remove_snapshot(s)
      PROVE  \E v \in Locals : Continue(s, pc[s], v) /\ Shrinks(s, v)
  <2>1. PICK v : v = [local[s] EXCEPT !.doomed.snaps =
                        SubSeq(local[s].doomed.snaps, 1, Len(local[s].doomed.snaps) - 1)]
    BY ZenonT(60)
  <2>2. Continue(s, pc[s], v) /\ local[s].doomed.snaps # << >>
    BY <1>3, <2>1, ZenonT(60) DEF remove_snapshot
  <2> QED
    BY <2>1, <2>2, RemovalLocals, Zenon
<1>4. CASE \E b \in local[s].doomed.blocks : remove_block(s, b)
  <2>1. PICK b \in local[s].doomed.blocks : remove_block(s, b)
    BY <1>4, Zenon
  <2>2. /\ blocks \ local[s].doomed.blocks \subseteq blocks' /\ blocks' \subseteq blocks
        /\ UNCHANGED <<segments, files>>
    BY <2>1, Zenon DEF remove_block, AfterRemoval, Removed
  <2> QED
    BY <1>1, <2>1, <2>2, Zenon
<1>5. CASE \E g \in local[s].doomed.segs : remove_segment(s, g)
  <2>1. PICK g \in local[s].doomed.segs : remove_segment(s, g)
    BY <1>5, Zenon
  <2>2. /\ segments \ local[s].doomed.segs \subseteq segments' /\ segments' \subseteq segments
        /\ UNCHANGED <<blocks, files>>
    BY <2>1, ZenonT(60) DEF remove_segment, AfterRemoval, Removed
  <2> QED
    BY <1>2, <2>1, <2>2, Zenon
<1>6. CASE remove_snapshot(s)
  <2>1. /\ local[s].doomed.snaps # << >> /\ UNCHANGED <<blocks, segments>>
        /\ files' = files \ {local[s].doomed.snaps[Len(local[s].doomed.snaps)]}
    BY <1>6, Zenon DEF remove_snapshot
  <2>2. Len(local[s].doomed.snaps) \in DOMAIN local[s].doomed.snaps
    BY <1>0, <2>1
  <2> QED
    BY <1>3, <1>6, <2>1, <2>2, Zenon
<1> QED
  BY <1>4, <1>5, <1>6, ZenonT(60) DEF remove_location

\* remove_location changes neither the record nor a snapshot's content.
LEMMA remove_locationLinear ==
  ASSUME LinearInv, NEW s \in Session, remove_location(s)
  PROVE  LinearInv'
<1>1. TypeOK /\ StepsOK(s) /\ pc[s] \in {"abort", "remove"}
  BY Zenon DEF LinearInv, remove_location
<1>2. UNCHANGED <<record, snap, cached, op, rows, hist>>
  BY Zenon DEF remove_location
<1>3. /\ files' \subseteq SnapId /\ segments' \subseteq Session /\ blocks' \subseteq Session
      /\ cached' \subseteq SnapId /\ hist' \in [Session -> Seq(SnapId)]
  <2>1. files' \subseteq files /\ segments' \subseteq segments /\ blocks' \subseteq blocks
    <3>1. removal_done(s) => UNCHANGED <<blocks, segments, files>>
      BY ZenonT(60) DEF removal_done
    <3> QED
      BY <1>1, <3>1, RemovalCases, ZenonT(60)
  <2> QED
    BY <1>1, <1>2, <2>1, ZenonT(60) DEF TypeOK
<1>4. ASSUME NEW v \in Locals, Continue(s, pc[s], v),
             v.seq = local[s].seq, v.loc = local[s].loc, v.tries = local[s].tries
      PROVE  LinearInv'
  <2>1. CASE pc[s] = "remove"
    <3>1. Continue(s, "remove", v)
      BY <1>4, <2>1, Zenon
    <3> QED
      BY <1>2, <1>3, <1>4, <2>1, <3>1, OptimizeLinear, ZenonT(60)
  <2>2. CASE pc[s] = "abort"
    <3>1. Continue(s, "abort", v) /\ "abort" \in Pcs
      BY <1>4, <2>2, Zenon DEF Pcs
    <3>2. pc'[s] = "abort" /\ local'[s] = v
      BY <1>1, <3>1, Continued, ZenonT(60)
    <3>3. StepsOK(s)' /\ TryOK(s)'
      BY <1>1, <1>2, <1>4, <2>2, <3>2, Zenon DEF StepsOK, TryOK, Preparing, Pending, Failing, Inserts, Truncates
    <3> QED
      BY <1>2, <1>3, <1>4, <3>1, <3>3, ContinueLinear, ZenonT(60)
  <2> QED
    BY <1>1, <2>1, <2>2, ZenonT(60)
<1>5. CASE Finish(s, "aborted")
  BY <1>2, <1>3, <1>5, EndLinear, Zenon
<1>6. CASE pc[s] = "remove" /\ optimized(s)
  BY <1>2, <1>3, <1>6, optimizedLinear, Zenon
<1>7. CASE removal_done(s)
  BY <1>1, <1>5, <1>6, <1>7, ZenonT(60) DEF removal_done
<1> QED
  BY <1>1, <1>4, <1>7, RemovalCases, ZenonT(60) DEF Shrinks

\* The snapshot a try writes is not one of the committed ones.
LEMMA NewIsNew ==
  ASSUME LinearInv, NEW s \in Session, Preparing(s) \/ Pending(s)
  PROVE  new_snapshot(s) \notin Committed
<1>1. \A i \in DOMAIN commits : commits[i][1] = s => commits[i][2] < local[s].tries
  BY ZenonT(60) DEF LinearInv, TryOK
<1>2. local[s].tries \in Nat
  BY SessionTypes, Zenon DEF LinearInv
<1>3. ASSUME NEW i \in DOMAIN commits, commits[i] = <<s, local[s].tries>>
      PROVE  FALSE
  BY <1>1, <1>2, <1>3
<1> QED
  BY <1>3, Zenon DEF new_snapshot, Committed

\* Snapshots of different sessions are different.
LEMMA NewDiffers ==
  ASSUME NEW s \in Session, NEW t \in Session, t # s
  PROVE  new_snapshot(s) # new_snapshot(t)
BY Zenon DEF new_snapshot

\* Writing a snapshot leaves the committed ones and those of others alone.
LEMMA SnapshotWritten ==
  ASSUME LinearInv, NEW s \in Session, write_snapshot(s)
  PROVE  /\ snap' \in [SnapId -> [prev : SnapId \cup {None}, segs : SUBSET Session]]
         /\ \A l \in SnapId : l # new_snapshot(s) => snap'[l] = snap[l]
         /\ snap'[new_snapshot(s)] = [prev |-> local[s].loc, segs |-> new_segments(s)]
         /\ \A l \in Committed : l \in SnapId /\ snap'[l] = snap[l]
         /\ new_segments(s) \in SUBSET Session
<1>1. /\ TypeOK /\ new_snapshot(s) \in SnapId /\ local[s].loc \in SnapId \cup {None}
      /\ op[s] \in Ops /\ rows[s] \in SUBSET Session
  BY SessionTypes, Zenon DEF LinearInv
<1>2. new_segments(s) \in SUBSET Session
  <2>1. SegmentsOf(local[s].loc) \in SUBSET Session /\ own(s) \in SUBSET Session
    BY <1>1, SegmentsType, Zenon DEF own
  <2> QED
    BY <2>1, Zenon DEF new_segments
<1>3. snap' = [snap EXCEPT ![new_snapshot(s)] = [prev |-> local[s].loc, segs |-> new_segments(s)]]
  BY SMTT(60), Zenon DEF write_snapshot
<1>4. \A l \in Committed : l \in SnapId /\ l # new_snapshot(s)
  BY <1>1, NewIsNew DEF Committed, TypeOK, write_snapshot, Preparing
<1> QED
  BY <1>1, <1>2, <1>3, <1>4, Zenon DEF TypeOK

\* write_snapshot prepares the commit of the try.
LEMMA write_snapshotLinear ==
  ASSUME LinearInv, NEW s \in Session, write_snapshot(s)
  PROVE  LinearInv'
<1> DEFINE l == IF op[s] = "truncate_purge" THEN "history" ELSE "commit"
<1>1. /\ TypeOK /\ HistoryIsLinear /\ local[s] \in Locals /\ op[s] \in Ops
      /\ \A t \in Session : StepsOK(t) /\ HandleOK(t) /\ TryOK(t)
  BY SessionTypes, Zenon DEF LinearInv
<1>2. /\ pc[s] = "write" /\ l \in Pcs /\ Continue(s, l, local[s])
      /\ files' = files \cup {new_snapshot(s)}
      /\ UNCHANGED <<record, segments, blocks, cached, op, rows, hist>>
  BY Zenon DEF write_snapshot, Pcs
<1>3. l = "commit" \/ (l = "history" /\ op[s] = "truncate_purge")
  OBVIOUS
<1> HIDE DEF l
<1>4. /\ pc'[s] = l /\ local' = local /\ result' = result
      /\ \A t \in Session : t # s => pc'[t] = pc[t]
      /\ pc' \in [Session -> Pcs] /\ local' \in [Session -> Locals]
  BY <1>1, <1>2, Continued, ZenonT(60) DEF Continue, TypeOK
<1>5. TypeOK'
  BY <1>1, <1>2, <1>4, SnapshotWritten, SessionTypes, TypesAfter, ZenonT(60) DEF TypeOK
<1>6. HistoryIsLinear'
  <2>1. \A i \in DOMAIN commits : snap'[commits[i]] = snap[commits[i]]
    BY SnapshotWritten, ZenonT(60) DEF Committed
  <2> QED
    BY <1>1, <1>2, <2>1, ZenonT(60) DEF HistoryIsLinear, record
<1>7. \A t \in Session : new_snapshot(t)' = new_snapshot(t) /\ new_segments(t)' = new_segments(t)
  <2> TAKE t \in Session
  <2>1. SegmentsOf(local[t].loc)' = SegmentsOf(local[t].loc)
    BY <1>1, <1>4, SnapshotWritten, ZenonT(60) DEF SegmentsOf, HandleOK
  <2> QED
    BY <1>2, <1>4, <2>1, Zenon DEF new_snapshot, new_segments, own, Truncates
<1>8. ASSUME NEW t \in Session PROVE StepsOK(t)' /\ HandleOK(t)'
  <2>1. HandleOK(t)'
    BY <1>1, <1>2, <1>4, Zenon DEF HandleOK, Committed, record
  <2>2. CASE t = s
    BY <1>1, <1>2, <1>3, <1>4, <2>1, <2>2, Zenon DEF StepsOK, Inserts, Truncates
  <2>3. CASE t # s
    BY <1>1, <1>2, <1>4, <2>1, <2>3, Zenon DEF StepsOK, record, Inserts, Truncates
  <2> QED
    BY <2>2, <2>3, Zenon
<1>9. TryOK(s)'
  BY <1>1, <1>2, <1>3, <1>4, <1>7, SnapshotWritten, ZenonT(60)
  DEF TryOK, Preparing, Pending, Failing, record
<1>10. ASSUME NEW t \in Session, t # s PROVE TryOK(t)'
  <2>1. Preparing(t)' = Preparing(t) /\ Pending(t)' = Pending(t) /\ Failing(t)' = Failing(t)
    BY <1>2, <1>4, <1>10, ZenonT(60) DEF Preparing, Pending, Failing
  <2>2. snap'[new_snapshot(t)] = snap[new_snapshot(t)]
    BY <1>1, <1>10, NewDiffers, SnapshotWritten, SessionTypes, ZenonT(60)
  <2> QED
    BY <1>1, <1>2, <1>4, <1>7, <2>1, <2>2, ZenonT(60) DEF TryOK, record
<1> QED
  BY <1>5, <1>6, <1>8, <1>9, <1>10, Zenon DEF LinearInv

\* The commits after one more.
LEMMA CommitAppended ==
  ASSUME TypeOK, NEW s \in Session, upsert_table_option(s)
  PROVE  /\ seq' = seq + 1 /\ loc' = new_snapshot(s) /\ new_snapshot(s) \in SnapId
         /\ commits' \in Seq(SnapId) /\ Len(commits) \in Nat /\ Len(commits') = Len(commits) + 1
         /\ DOMAIN commits = 1 .. Len(commits) /\ DOMAIN commits' = 1 .. Len(commits) + 1
         /\ \A i \in DOMAIN commits : commits'[i] = commits[i]
         /\ commits'[Len(commits) + 1] = new_snapshot(s)
         /\ Committed' = Committed \cup {new_snapshot(s)}
         /\ seq # 0 /\ seq' \in Nat /\ seq' # 0 /\ commits' # << >>
<1>1. /\ new_snapshot(s) \in SnapId /\ commits \in Seq(SnapId)
      /\ commits' = Append(commits, new_snapshot(s))
  BY SessionTypes, Zenon DEF upsert_table_option, TypeOK
<1>2. /\ commits' \in Seq(SnapId) /\ Len(commits) \in Nat /\ Len(commits') = Len(commits) + 1
      /\ DOMAIN commits = 1 .. Len(commits) /\ DOMAIN commits' = 1 .. Len(commits) + 1
      /\ \A i \in DOMAIN commits : commits'[i] = commits[i]
      /\ commits'[Len(commits) + 1] = new_snapshot(s)
  BY <1>1
<1>3. Committed' = Committed \cup {new_snapshot(s)}
  <2>1. \A i \in 1 .. Len(commits) + 1 : i \in 1 .. Len(commits) \/ i = Len(commits) + 1
    BY <1>2
  <2>2. \A i \in 1 .. Len(commits) : i \in 1 .. Len(commits) + 1
    BY <1>2
  <2>3. Len(commits) + 1 \in 1 .. Len(commits) + 1
    BY <1>2
  <2> QED
    BY <1>2, <2>1, <2>2, <2>3, Zenon DEF Committed
<1>4. seq' = seq + 1 /\ loc' = new_snapshot(s) /\ seq # 0 /\ seq' \in Nat /\ seq' # 0
  BY DEF upsert_table_option, accepted, TypeOK
<1>5. commits' # << >>
  BY <1>2, SMTT(60)
<1> QED
  BY <1>1, <1>2, <1>3, <1>4, <1>5, Zenon

\* Swinging the pointer extends the history, whatever the caller learns.
LEMMA UpsertLinear ==
  ASSUME LinearInv, NEW s \in Session, pc[s] = "commit", upsert_table_option(s),
         UNCHANGED <<store, op, rows, hist>>, TypeOK',
         pc'[s] \in {"done", "refresh", "discard"},
         StepsOK(s)', pc'[s] = "done" \/ local'[s].tries = local[s].tries,
         \/ local'[s].seq = 0 /\ local'[s].loc = None
         \/ local'[s].seq = local[s].seq /\ local'[s].loc = local[s].loc,
         \A t \in Session : t # s => pc'[t] = pc[t] /\ local'[t] = local[t]
  PROVE  LinearInv'
<1>1. /\ TypeOK /\ HistoryIsLinear /\ Pending(s)
      /\ \A t \in Session : StepsOK(t) /\ HandleOK(t) /\ TryOK(t)
  BY SMTT(60), Zenon DEF LinearInv, Pending
<1>0. /\ Len(commits) \in Nat /\ DOMAIN commits = 1 .. Len(commits)
      /\ DOMAIN commits' = 1 .. Len(commits) + 1
      /\ \A i \in DOMAIN commits : commits'[i] = commits[i]
      /\ commits'[Len(commits) + 1] = new_snapshot(s)
  BY <1>1, CommitAppended, Zenon
<1>2. /\ local[s].seq = seq /\ local[s].loc = loc
      /\ snap[new_snapshot(s)].prev = loc
  <2>1. local[s].seq = seq /\ local[s].loc = loc
    BY <1>1, Zenon DEF upsert_table_option, accepted, HandleOK
  <2>2. snap[new_snapshot(s)] = [prev |-> local[s].loc, segs |-> new_segments(s)]
    BY <1>1, Zenon DEF TryOK
  <2> QED
    BY <2>1, <2>2, SMTT(60)
<1>3. HistoryIsLinear'
  <2>1. loc' = IF seq' = 0 \/ commits' = << >> THEN None ELSE commits'[Len(commits')]
    BY <1>1, CommitAppended, Zenon
  <2>2. ASSUME NEW i \in DOMAIN commits'
        PROVE  snap'[commits'[i]].prev = IF i = 1 THEN None ELSE commits'[i - 1]
    <3>0. snap' = snap
      BY SMTT(60), Zenon DEF store
    <3>1. CASE i \in DOMAIN commits
      <4>1. snap[commits[i]].prev = IF i = 1 THEN None ELSE commits[i - 1]
        BY <1>1, <3>1, Zenon DEF HistoryIsLinear
      <4>2. i = 1 \/ i - 1 \in DOMAIN commits
        BY <1>0, <3>1
      <4> QED
        BY <1>1, <3>0, <3>1, <4>1, <4>2, CommitAppended, Zenon
    <3>2. CASE i = Len(commits) + 1
      <4>1. commits'[i] = new_snapshot(s)
        BY <1>1, <3>2, CommitAppended, Zenon
      <4>2. CASE commits = << >>
        <5>1. loc = None
          BY <1>1, <4>2, Zenon DEF HistoryIsLinear
        <5>2. i = 1
          BY <3>2, <4>2, SMTT(60)
        <5> QED
          BY <1>2, <3>0, <4>1, <5>1, <5>2, Zenon
      <4>3. CASE commits # << >>
        <5>1. Len(commits) \in DOMAIN commits /\ i # 1 /\ i - 1 = Len(commits)
          BY <1>1, <3>2, <4>3, CommitAppended, SMTT(60) DEF TypeOK
        <5>2. commits'[i - 1] = commits[Len(commits)]
          BY <1>1, <5>1, CommitAppended, ZenonT(60)
        <5> QED
          BY <1>1, <1>2, <3>0, <4>1, <4>3, <5>1, <5>2, CommitAppended, Zenon DEF HistoryIsLinear
      <4> QED
        BY <4>2, <4>3, Zenon
    <3>3. i \in DOMAIN commits \/ i = Len(commits) + 1
      BY <1>1, CommitAppended, SMTT(60)
    <3> QED
      BY <3>1, <3>2, <3>3, Zenon
  <2> QED
    BY <2>1, <2>2, Zenon DEF HistoryIsLinear
<1>4. \A t \in Session : HandleOK(t)'
  <2> TAKE t \in Session
  <2>1. /\ local[t].seq \in Nat /\ local[t].seq <= seq /\ local[t].loc \in Committed \cup {None}
        /\ seq \in Nat /\ seq' = seq + 1
    BY <1>1, SessionTypes, CommitAppended, ZenonT(60) DEF HandleOK, TypeOK
  <2>2. \/ local'[t].seq = 0 /\ local'[t].loc = None
        \/ local'[t].seq = local[t].seq /\ local'[t].loc = local[t].loc
    OBVIOUS
  <2>3. local'[t].seq < seq'
    BY <2>1, <2>2, SMTT(60)
  <2>4. local'[t].loc \in Committed' \cup {None}
    BY <1>1, <2>1, <2>2, CommitAppended, Zenon
  <2> QED
    BY <2>1, <2>2, <2>3, <2>4 DEF HandleOK
<1>5. \A t \in Session : StepsOK(t)'
  <2> TAKE t \in Session
  <2>1. CASE t # s
    BY <1>1, <2>1, CommitAppended, Zenon DEF StepsOK, Inserts, Truncates
  <2>2. CASE t = s
    BY <2>2, Zenon
  <2> QED
    BY <2>1, <2>2, Zenon
<1>6. ASSUME NEW t \in Session, t # s PROVE TryOK(t)'
  <2>1. /\ Preparing(t)' = Preparing(t) /\ Pending(t)' = Pending(t) /\ Failing(t)' = Failing(t)
        /\ new_snapshot(t)' = new_snapshot(t) /\ new_segments(t)' = new_segments(t)
    <3>1. pc'[t] = pc[t] /\ local'[t] = local[t] /\ op' = op /\ snap' = snap
      BY <1>6, Zenon DEF store
    <3>2. Preparing(t)' = Preparing(t) /\ Pending(t)' = Pending(t) /\ Failing(t)' = Failing(t)
      BY <3>1, Zenon DEF Preparing, Pending, Failing
    <3>3. new_snapshot(t)' = new_snapshot(t) /\ own(t)' = own(t)
      BY <3>1, Zenon DEF new_snapshot, own
    <3>4. new_segments(t)' = new_segments(t)
      BY <3>1, <3>3, Zenon DEF new_segments, own, SegmentsOf, Truncates
    <3> QED
      BY <3>2, <3>3, <3>4, Zenon
  <2>2. \A i \in DOMAIN commits' : commits'[i][1] = t => i \in DOMAIN commits /\ commits'[i] = commits[i]
    <3>1. new_snapshot(s)[1] = s
      BY ZenonT(60) DEF new_snapshot
    <3>2. \A i \in DOMAIN commits' : i \in DOMAIN commits \/ i = Len(commits) + 1
      BY <1>0, SMTT(60)
    <3> QED
      BY <1>0, <1>6, <3>1, <3>2, ZenonT(60)
  <2> QED
    BY <1>1, <1>6, <2>1, <2>2, ZenonT(60) DEF TryOK, store
<1>7. TryOK(s)'
  <2>1. ~Preparing(s)' /\ ~Pending(s)'
    BY ZenonT(60) DEF Preparing, Pending
  <2>2. \A i \in DOMAIN commits : commits[i][1] = s => commits[i][2] < local[s].tries
    BY <1>1, ZenonT(60) DEF TryOK
  <2>3. local[s].tries \in Nat /\ \A i \in DOMAIN commits : commits[i][2] \in Nat
    BY <1>1, SessionTypes, CommitTypes, ZenonT(60)
  <2>4. \A i \in DOMAIN commits' : commits'[i][1] = s => commits'[i][2] <= local[s].tries
    <3>1. new_snapshot(s)[2] = local[s].tries
      BY SMTT(60), Zenon DEF new_snapshot
    <3>2. \A i \in DOMAIN commits' : i \in DOMAIN commits \/ i = Len(commits) + 1
      BY <1>0, SMTT(60)
    <3>3. \A i \in DOMAIN commits : commits[i][1] = s => commits[i][2] <= local[s].tries
      BY <2>2, <2>3
    <3> TAKE i \in DOMAIN commits'
    <3>4. CASE i \in DOMAIN commits
      BY <1>0, <3>3, <3>4, Zenon
    <3>5. CASE i = Len(commits) + 1
      BY <1>0, <2>3, <3>1, <3>5
    <3> QED
      BY <3>2, <3>4, <3>5, Zenon
  <2> QED
    BY <2>1, <2>4, ZenonT(60) DEF TryOK, Failing
<1> QED
  BY <1>3, <1>4, <1>5, <1>6, <1>7, Zenon DEF LinearInv

\* What the statement does next, after a commit or an error.
LEMMA AfterCommit ==
  ASSUME LinearInv, NEW s \in Session, pc[s] = "commit",
         committed(s) \/ \E e \in {"mismatch", "other"} : failed(s, e),
         UNCHANGED <<op, rows>>
  PROVE  /\ pc'[s] \in {"done", "refresh", "discard"}
         /\ StepsOK(s)' /\ (pc'[s] = "done" \/ local'[s].tries = local[s].tries)
         /\ \/ local'[s].seq = 0 /\ local'[s].loc = None
            \/ local'[s].seq = local[s].seq /\ local'[s].loc = local[s].loc
         /\ \A t \in Session : t # s => pc'[t] = pc[t] /\ local'[t] = local[t]
         /\ pc' \in [Session -> Pcs] /\ local' \in [Session -> Locals]
         /\ result' \in [Session -> {"none", "ok", "aborted", "error", "stopped"}]
         /\ cached' \subseteq SnapId
<1>1. TypeOK /\ StepsOK(s) /\ local[s] \in Locals /\ new_snapshot(s) \in SnapId
  BY SessionTypes, Zenon DEF LinearInv
<1>2. cached' \subseteq SnapId
  BY <1>1, Zenon DEF committed, failed, TypeOK
<1>3. ASSUME NEW r \in {"ok", "error"}, Finish(s, r)
      PROVE  /\ pc'[s] = "done" /\ local'[s].seq = 0 /\ local'[s].loc = None
             /\ StepsOK(s)'
             /\ \A t \in Session : t # s => pc'[t] = pc[t] /\ local'[t] = local[t]
             /\ pc' \in [Session -> Pcs] /\ local' \in [Session -> Locals]
             /\ result' \in [Session -> {"none", "ok", "aborted", "error", "stopped"}]
  <2>1. /\ pc'[s] = "done" /\ local'[s] = NoLocals
        /\ \A t \in Session : t # s => pc'[t] = pc[t] /\ local'[t] = local[t]
        /\ pc' \in [Session -> Pcs] /\ local' \in [Session -> Locals]
        /\ result' \in [Session -> {"none", "ok", "aborted", "error", "stopped"}]
    BY <1>1, <1>3, Finished, Zenon
  <2>2. local'[s].seq = 0 /\ local'[s].loc = None /\ local'[s].tries = 0
    BY <2>1, SMTT(60) DEF NoLocals
  <2>3. StepsOK(s)'
    BY <2>1, <2>2, Zenon DEF StepsOK, Inserts, Truncates
  <2> QED
    BY <2>1, <2>2, <2>3, Zenon
<1>4. CASE op[s] = "all" /\ Continue(s, "refresh", local[s])
  <2>1. /\ pc'[s] = "refresh" /\ local'[s] = local[s] /\ result' = result
        /\ \A t \in Session : t # s => pc'[t] = pc[t] /\ local'[t] = local[t]
        /\ pc' \in [Session -> Pcs] /\ local' \in [Session -> Locals]
    BY <1>1, <1>4, Continued, ZenonT(60) DEF Pcs
  <2>2. StepsOK(s)'
    BY <1>1, <1>4, <2>1, ZenonT(60) DEF StepsOK, Inserts, Truncates
  <2> QED
    BY <1>1, <1>2, <2>1, <2>2, Zenon DEF TypeOK
<1>5. ASSUME NEW e \in {"mismatch", "other"}, Inserts(s),
             Continue(s, "discard", [local[s] EXCEPT !.reply = e])
      PROVE  /\ pc'[s] = "discard" /\ local'[s].seq = local[s].seq
             /\ local'[s].loc = local[s].loc /\ local'[s].tries = local[s].tries
             /\ StepsOK(s)'
             /\ \A t \in Session : t # s => pc'[t] = pc[t] /\ local'[t] = local[t]
             /\ pc' \in [Session -> Pcs] /\ local' \in [Session -> Locals]
             /\ result' \in [Session -> {"none", "ok", "aborted", "error", "stopped"}]
  <2>1. PICK v : v = [local[s] EXCEPT !.reply = e]
    BY ZenonT(60)
  <2>2. /\ v \in Locals /\ v.seq = local[s].seq /\ v.loc = local[s].loc /\ v.tries = local[s].tries
    BY <1>1, <2>1, Zenon DEF Locals
  <2>3. Continue(s, "discard", v) /\ "discard" \in Pcs
    BY <1>5, <2>1, Zenon DEF Pcs
  <2>4. /\ pc'[s] = "discard" /\ local'[s] = v /\ result' = result
        /\ \A t \in Session : t # s => pc'[t] = pc[t] /\ local'[t] = local[t]
        /\ pc' \in [Session -> Pcs] /\ local' \in [Session -> Locals]
    BY <1>1, <2>2, <2>3, Continued, ZenonT(60)
  <2>5. StepsOK(s)'
    BY <1>1, <1>5, <2>2, <2>4, Zenon DEF StepsOK, Inserts, Truncates
  <2> QED
    BY <1>1, <2>2, <2>4, <2>5, Zenon DEF TypeOK
<1> QED
  BY <1>2, <1>3, <1>4, <1>5, Zenon DEF committed, failed

\* commit_to_meta_server, with any of the faults.
LEMMA commit_to_meta_serverLinear ==
  ASSUME LinearInv, NEW s \in Session, commit_to_meta_server(s)
  PROVE  LinearInv'
<1>1. /\ TypeOK /\ pc[s] = "commit" /\ UNCHANGED <<store, op, rows, hist>>
      /\ committed(s) \/ \E e \in {"mismatch", "other"} : failed(s, e)
      /\ upsert_table_option(s) \/ UNCHANGED record
  BY SMTT(60), Zenon DEF commit_to_meta_server, rejection, LinearInv
<1>2. /\ pc'[s] \in {"done", "refresh", "discard"}
      /\ StepsOK(s)' /\ (pc'[s] = "done" \/ local'[s].tries = local[s].tries)
      /\ \/ local'[s].seq = 0 /\ local'[s].loc = None
         \/ local'[s].seq = local[s].seq /\ local'[s].loc = local[s].loc
      /\ \A t \in Session : t # s => pc'[t] = pc[t] /\ local'[t] = local[t]
      /\ pc' \in [Session -> Pcs] /\ local' \in [Session -> Locals]
      /\ result' \in [Session -> {"none", "ok", "aborted", "error", "stopped"}]
      /\ cached' \subseteq SnapId
  BY <1>1, AfterCommit, Zenon
<1>3. CASE upsert_table_option(s)
  <2>1. TypeOK'
    BY <1>1, <1>2, <1>3, CommitAppended, TypesAfter, Zenon DEF TypeOK, store
  <2> QED
    BY <1>1, <1>2, <1>3, <2>1, UpsertLinear, Zenon
<1>4. CASE UNCHANGED record
  <2>1. TypeOK'
    BY <1>1, <1>2, <1>4, TypesAfter, Zenon DEF TypeOK, store
  <2>2. HandleOK(s)'
    <3>1. /\ seq' = seq /\ loc' = loc /\ commits' = commits /\ Committed' = Committed
      BY <1>4, Zenon DEF record, Committed
    <3>2. HandleOK(s) /\ seq \in Nat
      BY <1>1, Zenon DEF LinearInv, TypeOK
    <3>3. CASE local'[s].seq = 0 /\ local'[s].loc = None
      BY <3>1, <3>2, <3>3 DEF HandleOK
    <3>4. CASE local'[s].seq = local[s].seq /\ local'[s].loc = local[s].loc
      BY <3>1, <3>2, <3>4, Zenon DEF HandleOK
    <3> QED
      BY <1>2, <3>3, <3>4, Zenon
  <2>3. TryOK(s)'
    <3>1. \A i \in DOMAIN commits : commits[i][1] = s => commits[i][2] < local[s].tries
      BY <1>1, ZenonT(60) DEF LinearInv, TryOK, Pending
    <3>2. local[s].tries \in Nat /\ \A i \in DOMAIN commits : commits[i][2] \in Nat
      BY <1>1, SessionTypes, CommitTypes, ZenonT(60)
    <3>3. commits' = commits
      BY <1>4, Zenon DEF record
    <3>4. ~Preparing(s)' /\ ~Pending(s)'
      BY <1>2, ZenonT(60) DEF Preparing, Pending
    <3>5. Failing(s)' => local'[s].tries = local[s].tries
      BY <1>2, Zenon DEF Failing
    <3>6. \A i \in DOMAIN commits : commits[i][1] = s => commits[i][2] <= local[s].tries
      BY <3>1, <3>2, SMTT(60)
    <3> QED
      BY <3>3, <3>4, <3>5, <3>6, Zenon DEF TryOK
  <2> QED
    BY <1>1, <1>2, <1>4, <2>1, <2>2, <2>3, QuietLinear, ZenonT(60) DEF store
<1> QED
  BY <1>1, <1>3, <1>4, Zenon

\* The table is gone: no handle is a handle of its record any more.
LEMMA RemovedLinear ==
  ASSUME LinearInv, remove_record, UNCHANGED <<store, op, rows>>, TypeOK', NEW s \in Session,
         \A t \in Session : t # s => pc'[t] = pc[t] /\ local'[t] = local[t],
         pc'[s] \in {"history", "done"}, op[s] = "drop", local'[s] \in {local[s], NoLocals}
  PROVE  LinearInv'
<1>1. /\ TypeOK /\ HistoryIsLinear /\ seq' = 0 /\ loc' = None /\ commits' = commits /\ snap' = snap
      /\ Committed' = Committed
  BY SMTT(60), Zenon DEF LinearInv, remove_record, store, Committed
<1>2. HistoryIsLinear'
  BY <1>1, Zenon DEF HistoryIsLinear
<1>3. ASSUME NEW t \in Session PROVE HandleOK(t)'
  <2>1. local[t].loc \in Committed \cup {None} /\ local'[t].loc \in {local[t].loc, None}
    BY SMTT(60), Zenon DEF LinearInv, HandleOK, NoLocals
  <2> QED
    BY <1>1, <2>1, Zenon DEF HandleOK
<1>4. ASSUME NEW t \in Session, t # s PROVE StepsOK(t)' /\ TryOK(t)'
  <2>1. StepsOK(t) /\ TryOK(t) /\ pc'[t] = pc[t] /\ local'[t] = local[t]
    BY <1>4, Zenon DEF LinearInv
  <2>2. new_snapshot(t)' = new_snapshot(t) /\ new_segments(t)' = new_segments(t)
    BY <1>1, <2>1, Zenon DEF new_snapshot, new_segments, own, SegmentsOf, Truncates
  <2>3. StepsOK(t)'
    BY <1>1, <2>1, Zenon DEF StepsOK, Inserts, Truncates
  <2> QED
    BY <1>1, <2>1, <2>2, <2>3, ZenonT(60) DEF TryOK, Preparing, Pending, Failing
<1>5. StepsOK(s)'
  BY <1>1, Zenon DEF StepsOK, Inserts, Truncates
<1>6. TryOK(s)'
  BY SMTT(60), Zenon DEF TryOK, Preparing, Pending, Failing
<1> QED
  BY <1>2, <1>3, <1>4, <1>5, <1>6, Zenon DEF LinearInv

\* drop_table, with any of the faults.
LEMMA drop_tableLinear ==
  ASSUME LinearInv, NEW s \in Session, drop_table(s)
  PROVE  LinearInv'
<1>1. /\ TypeOK /\ pc[s] = "drop" /\ op[s] = "drop" /\ UNCHANGED <<store, cached, op, rows, hist>>
      /\ local[s] \in Locals /\ "history" \in Pcs
  BY SessionTypes, Zenon DEF LinearInv, drop_table, StepsOK, Pcs
<1>2. Continue(s, "history", local[s]) \/ Finish(s, "error")
  BY SMTT(60), Zenon DEF drop_table
<1>3. /\ pc'[s] \in {"history", "done"} /\ local'[s] \in {local[s], NoLocals}
      /\ \A t \in Session : t # s => pc'[t] = pc[t] /\ local'[t] = local[t]
      /\ pc' \in [Session -> Pcs] /\ local' \in [Session -> Locals]
      /\ result' \in [Session -> {"none", "ok", "aborted", "error", "stopped"}]
  <2>1. CASE Continue(s, "history", local[s])
    BY <1>1, <2>1, Continued, Zenon DEF TypeOK
  <2>2. CASE Finish(s, "error")
    BY <1>1, <2>2, Finished, Zenon
  <2> QED
    BY <1>2, <2>1, <2>2, Zenon
<1>4. CASE remove_record
  <2>1. TypeOK'
    BY <1>1, <1>3, <1>4, TypesAfter, Zenon DEF TypeOK, store, remove_record
  <2> QED
    BY <1>1, <1>3, <1>4, <2>1, RemovedLinear, Zenon
<1>5. CASE UNCHANGED record /\ Finish(s, "error")
  BY <1>1, <1>5, EndLinear, ZenonT(60) DEF TypeOK, store
<1>6. CASE seq = 0 /\ UNCHANGED record /\ Continue(s, "history", local[s])
  <2>1. pc'[s] = "history" /\ local'[s] = local[s]
    BY <1>1, <1>6, Continued, Zenon
  <2>2. StepsOK(s)' /\ TryOK(s)'
    BY <1>1, <1>6, <2>1, ZenonT(60) DEF StepsOK, TryOK, Preparing, Pending, Failing, Inserts, Truncates, record
  <2>3. /\ files' \subseteq SnapId /\ cached' \subseteq SnapId /\ segments' \subseteq Session
        /\ blocks' \subseteq Session /\ hist' \in [Session -> Seq(SnapId)]
        /\ UNCHANGED <<op, record, snap, rows>>
    BY <1>1, <1>6, Zenon DEF TypeOK, store
  <2> QED
    BY <1>1, <1>6, <2>2, <2>3, ContinueLinear, Zenon
<1> QED
  BY <1>4, <1>5, <1>6, Zenon DEF drop_table

\* A new table, before any statement.
LEMMA InitLinear == Init => LinearInv
<1> SUFFICES ASSUME Init PROVE LinearInv
  OBVIOUS
<1>1. TypeOK
  <2>1. snap \in [SnapId -> [prev : SnapId \cup {None}, segs : SUBSET Session]]
    <3>1. Unwritten \in [prev : SnapId \cup {None}, segs : SUBSET Session]
      BY Zenon DEF Unwritten
    <3> QED
      BY <3>1, Zenon DEF Init
  <2>2. /\ pc \in [Session -> {"idle", "data", "read", "write", "commit", "discard", "backoff",
                           "abort", "drop", "refresh", "history", "gc", "remove", "done"}]
        /\ result \in [Session -> {"none", "ok", "aborted", "error", "stopped"}]
    BY Zenon DEF Init
  <2>3. commits \in Seq(SnapId) /\ hist \in [Session -> Seq(SnapId)]
    BY DEF Init
  <2>4. local \in [Session -> Locals] /\ rows \in [Session -> SUBSET Session]
    BY NoLocalsType, Zenon DEF Init
  <2>5. /\ seq \in Nat /\ loc \in SnapId \cup {None} /\ files \subseteq SnapId /\ op \in Plans
        /\ cached \subseteq SnapId /\ segments \subseteq Session /\ blocks \subseteq Session
    BY Zenon DEF Init
  <2> QED
    BY <2>1, <2>2, <2>3, <2>4, <2>5, Zenon DEF TypeOK
<1>2. HistoryIsLinear
  BY DEF Init, HistoryIsLinear
<1>3. ASSUME NEW s \in Session PROVE StepsOK(s) /\ HandleOK(s) /\ TryOK(s)
  <2>1. pc[s] = "idle" /\ local[s] = NoLocals /\ commits = << >> /\ seq = 1
    BY Zenon DEF Init
  <2> QED
    <3>1. /\ local[s].seq = 0 /\ local[s].loc = None /\ local[s].tries = 0
          /\ DOMAIN commits = {}
      BY <2>1, SMTT(60) DEF NoLocals
    <3>2. StepsOK(s)
      BY <2>1, <3>1, Zenon DEF StepsOK
    <3>3. HandleOK(s)
      BY <2>1, <3>1, SMTT(60) DEF HandleOK, Committed
    <3>4. ~Pending(s)
      BY <2>1, Zenon DEF Pending
    <3>5. TryOK(s)
      BY <3>1, <3>4, Zenon DEF TryOK
    <3> QED
      BY <3>2, <3>3, <3>5, Zenon
<1> QED
  BY <1>1, <1>2, <1>3, Zenon DEF LinearInv

\* Nothing happens.
LEMMA StutterLinear ==
  ASSUME LinearInv, UNCHANGED vars
  PROVE  LinearInv'
<1>1. UNCHANGED <<seq, loc, commits, snap, files, segments, blocks, cached,
                  pc, op, rows, hist, local, result>>
  BY SMTT(60), Zenon DEF vars, record, store, session
<1>2. TypeOK' /\ HistoryIsLinear'
  BY <1>1, Zenon DEF LinearInv, TypeOK, HistoryIsLinear
<1>3. ASSUME NEW t \in Session PROVE StepsOK(t)' /\ HandleOK(t)' /\ TryOK(t)'
  BY <1>1, OtherLinear, Zenon DEF LinearInv, record
<1> QED
  BY <1>2, <1>3, Zenon DEF LinearInv

\* Every step of every statement keeps the commits in a line.
LEMMA NextLinear ==
  ASSUME LinearInv, [Next]_vars
  PROVE  LinearInv'
<1>1. ASSUME NEW s \in Session, Step(s) PROVE LinearInv'
  BY <1>1, get_tableLinear, append_dataLinear, select_failsLinear, read_table_snapshotLinear,
     write_snapshotLinear, commit_to_meta_serverLinear, discard_snapshotLinear, retryLinear,
     give_upLinear, refreshLinear, read_snapshot_historyLinear, find_garbageLinear,
     remove_locationLinear, drop_tableLinear, Zenon DEF Step
<1> QED
  BY <1>1, StopLinear, StutterLinear, Zenon DEF Next

\* Whatever calls to the meta service are lost, resent or answered late, and
\* wherever a statement stops, every committed snapshot is based on the one
\* committed before it: the compare-and-swap on the record's seq in
\* upsert_table_option is enough, because do_commit retries from a record it
\* has read again as a whole.
THEOREM CommitsAreLinear == Spec => []HistoryIsLinear
<1>1. LinearInv /\ [Next]_vars => LinearInv'
  BY NextLinear, Zenon
<1>2. LinearInv => HistoryIsLinear
  BY Zenon DEF LinearInv
<1> QED
  BY <1>1, <1>2, InitLinear, PTL DEF Spec
==============================================================================
