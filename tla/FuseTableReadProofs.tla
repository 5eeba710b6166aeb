------------------------- MODULE FuseTableReadProofs -------------------------
(***************************************************************************)
(* Proof of FuseInv, for any number of statements, retries and faults: Ok  *)
(* is told only of what has happened, an abort leaves nothing behind, and, *)
(* if no answer of the meta service is lost, outcomes are as reported, the *)
(* current snapshot stays readable, and the table implements TableContent. *)
(***************************************************************************)
EXTENDS FuseTableReadLemmas

\* A statement that goes on and changes the store or the record.
LEMMA GoKeeps ==
  ASSUME FuseInv, LinearInv', NEW s \in Session, Moves(s), pc[s] # "done",
         NEW l \in Pcs, NEW v \in Locals, Continue(s, l, v),
         l # "done", op[s] = "all" /\ l \in {"refresh", "history", "gc", "remove"} => Effective(s)',
         Truncates(s) /\ Prepares(l) => <<s, 0>> \notin files',
         "undeleted" \notin Fault => LeftoversOK(s)',
         Reliable => /\ EffectOK(s)' /\ OwnDataOK(s)' /\ ContentOK(s)' /\ HistOK(s)' /\ DoomedOK(s)'
                     /\ Spares(s) /\ CurrentIsReadable'
                     /\ commits' = commits \/ (pc[s] = "commit" /\ snap' = snap)
  PROVE  FuseInv'
<1>1. TypeOK /\ OkOK(s) /\ op' = op
  BY PartsOf, Zenon DEF Moves
<1>2. pc'[s] = l /\ result'[s] = "none"
  BY <1>1, Continued, Zenon DEF OkOK
<1>3. OkPart(s)'
  BY <1>1, <1>2, Zenon DEF OkPart, OkOK, Truncates, Preparing, Prepares
<1>4. "undeleted" \notin Fault => AbortPart(s)'
  BY <1>2, Zenon DEF AbortPart
<1>5. Reliable => ReadPart(s)'
  BY <1>2, Zenon DEF ReadPart, OutcomePart
<1> QED
  BY <1>3, <1>4, <1>5, StepKeeps, Zenon

\* append_data: the statement's own block and segment are added.
LEMMA append_dataKeeps ==
  ASSUME FuseInv, LinearInv', NEW s \in Session, append_data(s)
  PROVE  FuseInv'
<1>1. /\ TypeOK /\ StepsOK(s) /\ HandleOK(s) /\ local[s] \in Locals /\ "read" \in Pcs /\ LinearInv /\ TypeOK'
      /\ "undeleted" \notin Fault => LeftoversOK(s)
      /\ Reliable => /\ EffectOK(s) /\ OwnDataOK(s) /\ HistOK(s) /\ DoomedOK(s) /\ TablePart
  BY PartsOf, PartsOfInv, Zenon DEF Pcs, LinearInv
<1>2. /\ pc[s] = "data" /\ Continue(s, "read", local[s]) /\ UNCHANGED <<record, snap, files, op, hist>>
      /\ UNCHANGED <<loc, commits>>
  BY Zenon DEF append_data, record
<1>3. PICK r \in source_rows(s) :
        /\ rows' = [rows EXCEPT ![s] = r]
        /\ blocks' = blocks \cup (IF r = {} THEN {} ELSE {s})
        /\ segments' = segments \cup (IF r = {} THEN {} ELSE {s})
  BY Zenon DEF append_data
<1>4. /\ pc'[s] = "read" /\ local'[s] = local[s] /\ Inserts(s) /\ Inserts(s)' /\ ~Truncates(s)
  <2>1. Inserts(s) /\ Inserts(s)'
    BY <1>1, <1>2, Zenon DEF StepsOK, Inserts
  <2> QED
    BY <1>1, <1>2, <2>1, Continued, Zenon DEF Inserts, Truncates
<1>5. /\ rows'[s] = r /\ \A t \in Session : t # s => rows'[t] = rows[t]
  BY <1>1, <1>3, Zenon DEF TypeOK
<1>6. /\ segments \subseteq segments' /\ segments' \subseteq segments \cup {s}
      /\ blocks \subseteq blocks' /\ blocks' \subseteq blocks \cup {s}
      /\ r = {} => segments' = segments /\ blocks' = blocks
      /\ r # {} => s \in segments' \cap blocks'
  BY <1>3, Zenon
<1>7. Moves(s)
  <2>1. \E l \in Pcs, v \in Locals : Continue(s, l, v)
    BY <1>1, <1>2, Zenon
  <2> QED
    BY <1>1, <1>2, <1>5, <1>6, <2>1, OnlyOwn, Zenon
<1>8. ASSUME "undeleted" \notin Fault PROVE LeftoversOK(s)'
  <2>1. rows[s] = {} /\ s \notin segments \cup blocks /\ SnapshotsOf(s) = {}
    BY <1>1, <1>2, <1>4, <1>8, Zenon DEF LeftoversOK, Preparing
  <2>2. SnapshotsOf(s)' = {}
    BY <1>2, <2>1, Zenon DEF SnapshotsOf
  <2> QED
    BY <1>4, <1>5, <1>6, <2>1, <2>2, Zenon DEF LeftoversOK
<1>9. ASSUME Reliable
      PROVE  /\ EffectOK(s)' /\ OwnDataOK(s)' /\ ContentOK(s)' /\ HistOK(s)' /\ DoomedOK(s)'
             /\ Spares(s) /\ CurrentIsReadable'
  <2>1. ~Effective(s) /\ ~Effective(s)' /\ op' = op
    BY <1>1, <1>2, <1>9, Zenon DEF EffectOK, Preparing, Effective
  <2>2. Spares(s)
    BY <1>2, <1>6, <2>1, Zenon DEF Spares
  <2>3. own(s)' \subseteq segments' \cap blocks'
    BY <1>5, <1>6, Zenon DEF own
  <2>4. OwnDataOK(s)'
    BY <1>4, <2>3, Zenon DEF OwnDataOK, Pending
  <2>5. ContentOK(s)'
    <3>1. CASE Compacts(s)
      BY <2>1, <3>1, Zenon DEF ContentOK, Compacts
    <3>2. CASE ~Compacts(s)
      <4>1. r \in {{}, {s}}
        BY <1>3, <3>2, Zenon DEF source_rows
      <4> QED
        BY <1>5, <4>1, Zenon DEF ContentOK
    <3> QED
      BY <3>1, <3>2, Zenon
  <2>6. HistOK(s)'
    BY <1>1, <1>2, <1>4, <1>9, HistoryStays, Zenon DEF HistOK, Preparing
  <2>7. DoomedOK(s)'
    BY <1>1, <1>2, <1>4, <1>9, Zenon DEF DoomedOK
  <2>8. EffectOK(s)'
    BY <2>1, Zenon DEF EffectOK
  <2>9. CurrentIsReadable'
    <3>1. ~HalfTruncated(s)
      BY <1>2, Zenon DEF HalfTruncated
    <3> QED
      BY <1>2, <1>6, <1>7, <1>9, <3>1, StillReadable, Zenon
  <2> QED
    BY <2>2, <2>4, <2>5, <2>6, <2>7, <2>8, <2>9, Zenon
<1> QED
  BY <1>1, <1>2, <1>4, <1>7, <1>8, <1>9, GoKeeps, Zenon

\* write_snapshot: the snapshot of the try is added.
LEMMA write_snapshotKeeps ==
  ASSUME FuseInv, LinearInv', NEW s \in Session, write_snapshot(s)
  PROVE  FuseInv'
<1>1. /\ TypeOK /\ StepsOK(s) /\ HandleOK(s) /\ local[s] \in Locals /\ LinearInv /\ TypeOK'
      /\ "undeleted" \notin Fault => LeftoversOK(s)
      /\ Reliable => /\ EffectOK(s) /\ OwnDataOK(s) /\ HistOK(s) /\ DoomedOK(s) /\ TablePart /\ ContentOK(s)
  BY PartsOf, PartsOfInv, Zenon DEF LinearInv, ReadPart
<1>2. /\ pc[s] = "write" /\ files' = files \cup {new_snapshot(s)}
      /\ UNCHANGED <<segments, blocks, op, rows, hist, loc, commits>>
  BY Zenon DEF write_snapshot, record
<1>3. PICK l \in Pcs : /\ Continue(s, l, local[s])
                       /\ l = IF op[s] = "truncate_purge" THEN "history" ELSE "commit"
  BY Zenon DEF write_snapshot, Pcs
<1>4. /\ pc'[s] = l /\ local'[s] = local[s] /\ l \in {"commit", "history"}
      /\ l = "history" => op[s] = "truncate_purge"
      /\ op[s] = "truncate_purge" => l = "history"
  BY <1>1, <1>3, Continued, Zenon
<1>5. \A m \in Committed : snap'[m] = snap[m]
  BY <1>1, SnapshotWritten, Zenon
<1>6. Moves(s)
  <2>1. \E m \in Pcs, v \in Locals : Continue(s, m, v)
    BY <1>1, <1>3, Zenon
  <2> QED
    BY <1>1, <1>2, <1>5, <2>1, OnlyOwn, Zenon
<1>7. new_snapshot(s)' = new_snapshot(s) /\ new_snapshot(s)[1] = s
  BY <1>4, Zenon DEF new_snapshot
<1>8. ASSUME "undeleted" \notin Fault PROVE LeftoversOK(s)'
  <2>1. Inserts(s) => SnapshotsOf(s)' \subseteq {new_snapshot(s)'}
    <3>1. Inserts(s) => SnapshotsOf(s) = {}
      BY <1>1, <1>2, <1>8, Zenon DEF LeftoversOK, Preparing
    <3> QED
      BY <1>2, <1>7, <3>1, Zenon DEF SnapshotsOf
  <2>2. /\ Inserts(s)' <=> Inserts(s)
        /\ Inserts(s) => l = "commit"
    BY <1>2, <1>4, Zenon DEF Inserts
  <2> QED
    BY <1>1, <1>2, <1>4, <1>8, <2>1, <2>2, Zenon DEF LeftoversOK, Preparing
<1>9. ASSUME Reliable
      PROVE  /\ EffectOK(s)' /\ OwnDataOK(s)' /\ ContentOK(s)' /\ HistOK(s)' /\ DoomedOK(s)'
             /\ Spares(s) /\ CurrentIsReadable'
  <2>1. ~Effective(s) /\ ~Effective(s)'
    BY <1>1, <1>2, <1>9, Zenon DEF EffectOK, Preparing, Effective
  <2>2. Spares(s)
    BY <1>2, Zenon DEF Spares
  <2>3. own(s)' \subseteq segments' \cap blocks'
    BY <1>1, <1>2, <1>9, Zenon DEF own, OwnDataOK
  <2>4. OwnDataOK(s)'
    BY <1>1, <1>2, <1>4, <1>7, <1>9, <2>3, Zenon DEF OwnDataOK, Inserts
  <2>5. ContentOK(s)'
    BY <1>1, <1>2, <1>9, Zenon DEF ContentOK
  <2>6. HistOK(s)'
    <3>1. hist'[s] = << >>
      BY <1>1, <1>2, <1>9, Zenon DEF HistOK, Preparing
    <3>2. pc'[s] = "history" => \E k \in 0 .. Len(commits') :
            /\ local'[s].loc = IF k = 0 THEN None ELSE commits'[k]
            /\ Len(hist'[s]) <= k
            /\ \A i \in DOMAIN hist'[s] : hist'[s][i] = commits'[k + 1 - i]
      <4>1. local[s].loc \in Committed \cup {None}
        BY <1>1, Zenon DEF HandleOK
      <4>2. \E k \in 0 .. Len(commits) :
              /\ local[s].loc = IF k = 0 THEN None ELSE commits[k]
              /\ Len(<< >>) <= k
              /\ \A i \in DOMAIN << >> : << >>[i] = commits[k + 1 - i]
        BY <1>1, <4>1, StartOfHistory, Zenon
      <4>3. PICK k \in 0 .. Len(commits) :
              /\ local[s].loc = IF k = 0 THEN None ELSE commits[k]
              /\ Len(<< >>) <= k
        BY <4>2, Zenon
      <4>4. commits' = commits /\ local'[s] = local[s] /\ DOMAIN hist'[s] = {} /\ Len(hist'[s]) <= k
        BY <1>2, <1>4, <3>1, <4>3
      <4> QED
        BY <4>3, <4>4, Zenon
    <3>3. History(s)' \subseteq Committed'
      BY <1>1, <1>2, <1>9, HistoryStays, Zenon DEF HistOK
    <3> QED
      BY <1>4, <3>1, <3>2, <3>3, Zenon DEF HistOK
  <2>7. DoomedOK(s)'
    BY <1>1, <1>2, <1>4, <1>9, Zenon DEF DoomedOK
  <2>8. EffectOK(s)'
    BY <2>1, Zenon DEF EffectOK
  <2>9. CurrentIsReadable'
    <3>1. ~HalfTruncated(s)
      BY <1>2, Zenon DEF HalfTruncated
    <3> QED
      BY <1>2, <1>6, <1>9, <3>1, StillReadable, Zenon
  <2> QED
    BY <2>2, <2>4, <2>5, <2>6, <2>7, <2>8, <2>9, Zenon
<1> QED
  <2>1. op[s] = "all" => l = "commit"
    BY <1>4, Zenon
  <2>2. ~Prepares(l) /\ l # "done" /\ pc[s] # "done"
    BY <1>2, <1>4, Zenon DEF Prepares
  <2> QED
    BY <1>1, <1>2, <1>3, <1>6, <1>8, <1>9, <2>1, <2>2, GoKeeps, Zenon

\* discard_snapshot: only the snapshot of the failed try is removed, and the
\* table does not point at it.
LEMMA discard_snapshotKeeps ==
  ASSUME FuseInv, LinearInv', NEW s \in Session, discard_snapshot(s)
  PROVE  FuseInv'
<1>1. /\ TypeOK /\ HistoryIsLinear /\ StepsOK(s) /\ HandleOK(s) /\ local[s] \in Locals /\ LinearInv /\ TypeOK'
      /\ "undeleted" \notin Fault => LeftoversOK(s)
      /\ Reliable => /\ EffectOK(s) /\ OwnDataOK(s) /\ HistOK(s) /\ DoomedOK(s) /\ TablePart /\ ContentOK(s)
  BY PartsOf, PartsOfInv, Zenon DEF LinearInv, ReadPart
<1>2. /\ pc[s] = "discard" /\ "backoff" \in Pcs
      /\ UNCHANGED <<snap, segments, blocks, op, rows, hist, loc, commits>>
      /\ Continue(s, "backoff", local[s]) \/ Finish(s, "error")
  BY Zenon DEF discard_snapshot, record, Pcs
<1>3. /\ files' \subseteq files /\ files \ {new_snapshot(s)} \subseteq files'
      /\ "undeleted" \notin Fault => files' = files \ {new_snapshot(s)}
  <2>1. files' \in Removed(files, new_snapshot(s))
    BY Zenon DEF discard_snapshot
  <2>2. files' = files \ {new_snapshot(s)} \/ ("undeleted" \in Fault /\ files' = files)
    BY <2>1, Zenon DEF Removed
  <2> QED
    BY <2>2, Zenon
<1>4. Moves(s)
  BY <1>1, <1>2, <1>3, OnlyOwn, Zenon
<1>5. new_snapshot(s)[1] = s /\ Inserts(s)
  BY <1>1, <1>2, Zenon DEF new_snapshot, StepsOK
<1>6. ASSUME Reliable
      PROVE  ~Effective(s) /\ ~Effective(s)' /\ Spares(s) /\ CurrentIsReadable'
  <2>1. ~Effective(s) /\ ~Effective(s)'
    BY <1>1, <1>2, <1>6, Zenon DEF EffectOK, Failing, Effective
  <2>2. Spares(s)
    BY <1>2, <1>3, <1>5, Zenon DEF Spares
  <2>3. loc \in files => loc \in files'
    <3>1. new_snapshot(s) \notin Committed
      BY <1>5, <2>1, Zenon DEF Committed, Effective
    <3>2. files \subseteq SnapId /\ None \notin SnapId
      BY <1>1, FuseAssumption, Zenon DEF TypeOK
    <3>3. loc # new_snapshot(s) \/ loc \notin files
      BY <1>1, <3>1, <3>2, CurrentIsCommitted, Zenon
    <3> QED
      BY <1>3, <3>3, Zenon
  <2>4. ~HalfTruncated(s)
    BY <1>5, Zenon DEF HalfTruncated, Inserts
  <2> QED
    BY <1>2, <1>4, <1>6, <2>1, <2>2, <2>3, <2>4, StillReadable, Zenon
<1>7. CASE Finish(s, "error")
  BY <1>2, <1>3, <1>4, <1>6, <1>7, EndKeeps, Zenon
<1>8. CASE Continue(s, "backoff", local[s])
  <2>1. pc'[s] = "backoff" /\ local'[s] = local[s] /\ (Inserts(s)' <=> Inserts(s))
    BY <1>1, <1>2, <1>8, Continued, Zenon DEF Inserts
  <2>2. ASSUME "undeleted" \notin Fault PROVE LeftoversOK(s)'
    <3>1. SnapshotsOf(s) \subseteq {new_snapshot(s)}
      BY <1>1, <1>2, <1>5, <2>2, Zenon DEF LeftoversOK
    <3>2. SnapshotsOf(s)' = {}
      BY <1>3, <2>2, <3>1, Zenon DEF SnapshotsOf
    <3> QED
      BY <1>1, <1>2, <2>1, <2>2, <3>2, <1>5, Zenon DEF LeftoversOK, Preparing
  <2>3. ASSUME Reliable
        PROVE  EffectOK(s)' /\ OwnDataOK(s)' /\ ContentOK(s)' /\ HistOK(s)' /\ DoomedOK(s)'
    <3>1. EffectOK(s)'
      BY <1>6, <2>3, Zenon DEF EffectOK
    <3>2. OwnDataOK(s)'
      BY <1>1, <1>2, <1>5, <2>1, <2>3, Zenon DEF OwnDataOK, Pending, own
    <3>3. ContentOK(s)'
      BY <1>1, <1>2, <2>3, Zenon DEF ContentOK
    <3>4. HistOK(s)'
      BY <1>1, <1>2, <2>1, <2>3, HistoryStays, Zenon DEF HistOK, Failing
    <3>5. DoomedOK(s)'
      BY <1>1, <1>2, <2>1, <2>3, Zenon DEF DoomedOK
    <3> QED
      BY <3>1, <3>2, <3>3, <3>4, <3>5, Zenon
  <2>4. ~Truncates(s)
    BY <1>5, Zenon DEF Truncates, Inserts
  <2> QED
    BY <1>1, <1>2, <1>4, <1>6, <1>8, <2>2, <2>3, <2>4, GoKeeps, Zenon
<1> QED
  BY <1>2, <1>7, <1>8, Zenon

\* The commit was refused, or the request never arrived.
LEMMA FailedKeeps ==
  ASSUME FuseInv, LinearInv', NEW s \in Session, pc[s] = "commit", NEW e \in {"mismatch", "other"},
         failed(s, e), UNCHANGED <<record, store, op, rows, hist>>
  PROVE  FuseInv'
<1>1. /\ TypeOK /\ HandleOK(s) /\ local[s] \in Locals /\ "discard" \in Pcs
      /\ Reliable => EffectOK(s) /\ HistOK(s) /\ DoomedOK(s)
  BY PartsOf, Zenon DEF Pcs
<1>2. Reliable => ~Effective(s)
  BY <1>1, Zenon DEF EffectOK, Pending
<1>3. CASE ~Inserts(s) /\ Finish(s, "error")
  BY <1>2, <1>3, QuietEnd, Zenon
<1>4. ASSUME Inserts(s), NEW v, v = [local[s] EXCEPT !.reply = e], Continue(s, "discard", v)
      PROVE  FuseInv'
  <2>1. /\ v \in Locals /\ v.tries = local[s].tries /\ v.loc = local[s].loc /\ v.doomed = local[s].doomed
    BY <1>1, <1>4, Zenon DEF Locals
  <2>2. Edge(s, "discard", v)
    BY <2>1, Zenon DEF Edge, Prepares
  <2>3. ASSUME Reliable PROVE ReadEdge(s, "discard", v)
    <3>1. hist[s] = << >> /\ local[s].doomed = Nothing
      BY <1>1, <1>4, <2>3, Zenon DEF HistOK, DoomedOK
    <3> QED
      BY <1>1, <1>2, <1>4, <2>1, <2>3, <3>1, Zenon DEF ReadEdge, HandleOK, HasData, Awaits, Inserts
  <2>4. Continue(s, "discard", v)
    BY <1>4, Zenon
  <2> QED
    BY <1>1, <2>1, <2>2, <2>3, <2>4, QuietGo, Zenon
<1> QED
  BY <1>3, <1>4, Zenon DEF failed

\* The snapshot that becomes current is in the store, and so is all it lists.
LEMMA CommitIsReadable ==
  ASSUME FuseInv, Reliable, NEW s \in Session, pc[s] = "commit", upsert_table_option(s), Moves(s),
         UNCHANGED <<snap, files, segments, blocks>>
  PROVE  CurrentIsReadable'
<1>1. /\ LinearInv /\ TypeOK /\ HistoryIsLinear /\ HandleOK(s) /\ TryOK(s) /\ StepsOK(s) /\ OwnDataOK(s) /\ CurrentIsReadable
  BY PartsOf, PartsOfInv, Zenon DEF TablePart
<1>2. /\ loc' = new_snapshot(s) /\ local[s].loc = loc /\ Pending(s)
  BY <1>1, Zenon DEF upsert_table_option, accepted, HandleOK, Pending
<1>3. /\ new_snapshot(s) \in files /\ own(s) \subseteq segments \cap blocks
      /\ snap[new_snapshot(s)] = [prev |-> local[s].loc, segs |-> new_segments(s)]
  BY <1>1, <1>2, Zenon DEF OwnDataOK, TryOK
<1>4. snap'[loc'].segs = new_segments(s) /\ loc' \in files'
  BY <1>2, <1>3
<1>5. ASSUME NEW g \in new_segments(s)
      PROVE  g \in segments' \cap blocks' \/ \E t \in Session : g \in TruncatedSegments(t)'
  <2>1. CASE g \in segments \cap blocks
    BY <2>1, Zenon
  <2>2. CASE g \notin segments \cap blocks
    <3>1. op[s] = "append" /\ g \in SegmentsOf(loc)
      BY <1>2, <1>3, <1>5, <2>2, Zenon DEF new_segments
    <3>2. PICK t \in Session : g \in TruncatedSegments(t)
      <4>1. loc # None
        BY <3>1, Zenon DEF SegmentsOf
      <4> QED
        BY <1>1, <2>2, <3>1, <4>1, Zenon DEF CurrentIsReadable
    <3>3. HalfTruncated(t) /\ g \in HistorySegments(t)
      BY <3>2, Zenon DEF TruncatedSegments
    <3>4. t # s
      BY <3>1, <3>3, Zenon DEF HalfTruncated
    <3>5. HalfTruncated(t)' /\ hist'[t] = hist[t]
      BY <3>3, <3>4, Zenon DEF HalfTruncated, Moves
    <3> QED
      BY <3>3, <3>5, TruncatedKept, Zenon
  <2> QED
    BY <2>1, <2>2, Zenon
<1>6. loc' # None => SegmentsOf(loc)' = new_segments(s)
  BY <1>4, Zenon DEF SegmentsOf
<1> QED
  BY <1>4, <1>5, <1>6, Zenon DEF CurrentIsReadable

\* commit_to_meta_server: whatever becomes of the call.
LEMMA commit_to_meta_serverKeeps ==
  ASSUME FuseInv, LinearInv', NEW s \in Session, commit_to_meta_server(s)
  PROVE  FuseInv'
<1>1. /\ TypeOK /\ LinearInv /\ TypeOK' /\ StepsOK(s) /\ HandleOK(s) /\ local[s] \in Locals
      /\ "discard" \in Pcs /\ "refresh" \in Pcs
      /\ "undeleted" \notin Fault => LeftoversOK(s)
      /\ Reliable => EffectOK(s) /\ HistOK(s) /\ DoomedOK(s) /\ OwnDataOK(s) /\ ContentOK(s) /\ TablePart
  BY PartsOf, PartsOfInv, Zenon DEF Pcs, LinearInv, ReadPart
<1>2. /\ pc[s] = "commit" /\ UNCHANGED <<store, op, rows, hist>>
      /\ UNCHANGED <<snap, files, segments, blocks>>
  BY Zenon DEF commit_to_meta_server, store
<1>3. ASSUME NEW e \in {"mismatch", "other"}, failed(s, e), UNCHANGED record PROVE FuseInv'
  BY <1>2, <1>3, FailedKeeps, Zenon
<1>4. ASSUME upsert_table_option(s),
             \/ \E l \in Pcs, v \in Locals : Continue(s, l, v)
             \/ \E r \in {"none", "ok", "aborted", "error", "stopped"} : Finish(s, r)
      PROVE  /\ Moves(s) /\ Effective(s)' /\ Spares(s)
             /\ Reliable => CurrentIsReadable' /\ ContentOK(s)'
  <2>1. Moves(s)
    BY <1>1, <1>2, <1>4, OnlyOwn, Zenon
  <2>2. Effective(s)'
    BY <1>1, <1>4, EffectiveMoves, Zenon
  <2>3. Spares(s)
    BY <1>2, <1>4, Zenon DEF Spares
  <2>4. Reliable => CurrentIsReadable'
    BY <1>2, <1>4, <2>1, CommitIsReadable, Zenon
  <2>5. Reliable => ContentOK(s)'
    BY <1>1, <1>2, Zenon DEF ContentOK
  <2> QED
    BY <2>1, <2>2, <2>3, <2>4, <2>5, Zenon
<1>5. ASSUME upsert_table_option(s), committed(s) PROVE FuseInv'
  <2>1. CASE op[s] # "all" /\ Finish(s, "ok")
    <3>1. op[s] \notin {"purge", "drop"}
      BY <1>1, <1>2, Zenon DEF StepsOK
    <3> QED
      BY <1>2, <1>4, <1>5, <2>1, <3>1, EndKeeps, Zenon
  <2>2. CASE op[s] = "all" /\ Continue(s, "refresh", local[s])
    <3>1. /\ Moves(s) /\ Effective(s)' /\ Spares(s)
          /\ Reliable => CurrentIsReadable' /\ ContentOK(s)'
      BY <1>1, <1>4, <1>5, <2>2, Zenon
    <3>2. pc'[s] = "refresh" /\ local'[s] = local[s] /\ Inserts(s) /\ Inserts(s)' /\ ~Truncates(s)
      BY <1>1, <1>2, <2>2, Continued, Zenon DEF Inserts, Truncates
    <3>3. "undeleted" \notin Fault => LeftoversOK(s)'
      BY <1>1, <1>2, <3>2, Zenon DEF LeftoversOK, Preparing
    <3>4. Reliable => EffectOK(s)' /\ OwnDataOK(s)'
      BY <1>1, <1>2, <2>2, <3>2, Zenon DEF EffectOK, OwnDataOK, Preparing, Pending, Failing
    <3>5. Reliable => HistOK(s)'
      <4>1. Reliable => hist[s] = << >> /\ hist'[s] = << >>
        BY <1>1, <1>2, <3>2, Zenon DEF HistOK
      <4>2. Reliable => History(s)' = {}
        <5>1. DOMAIN << >> = {}
          OBVIOUS
        <5> QED
          BY <4>1, <5>1, Zenon DEF History
      <4> QED
        BY <3>2, <4>1, <4>2, Zenon DEF HistOK
    <3>6. Reliable => DoomedOK(s)'
      BY <1>1, <1>2, <3>2, Zenon DEF DoomedOK
    <3> QED
      BY <1>1, <1>2, <2>2, <3>1, <3>2, <3>3, <3>4, <3>5, <3>6, GoKeeps, Zenon
  <2> QED
    BY <1>5, <2>1, <2>2, Zenon DEF committed
<1>6. ASSUME ~Reliable, upsert_table_option(s), NEW e \in {"mismatch", "other"}, failed(s, e) PROVE FuseInv'
  <2>1. CASE Finish(s, "error")
    BY <1>2, <1>4, <1>6, <2>1, EndKeeps, Zenon
  <2>2. ASSUME Inserts(s), NEW v, v = [local[s] EXCEPT !.reply = e], Continue(s, "discard", v)
        PROVE  FuseInv'
    <3>1. v \in Locals /\ v.tries = local[s].tries
      BY <1>1, <2>2, Zenon DEF Locals
    <3>2. Continue(s, "discard", v)
      BY <2>2, Zenon
    <3>3. Moves(s)
      BY <1>1, <1>4, <1>6, <3>1, <3>2, Zenon
    <3>4. /\ pc'[s] = "discard" /\ local'[s] = v /\ Inserts(s)' /\ ~Truncates(s)
          /\ new_snapshot(s)' = new_snapshot(s) /\ SnapshotsOf(s)' = SnapshotsOf(s)
      <4>1. pc'[s] = "discard" /\ local'[s] = v
        BY <1>1, <3>1, <3>2, Continued, Zenon
      <4> QED
        BY <1>2, <2>2, <3>1, <4>1, Zenon DEF Inserts, Truncates, new_snapshot, SnapshotsOf
    <3>5. "undeleted" \notin Fault => LeftoversOK(s)'
      BY <1>1, <1>2, <2>2, <3>4, Zenon DEF LeftoversOK, Preparing
    <3> QED
      BY <1>1, <1>2, <1>6, <3>1, <3>2, <3>3, <3>4, <3>5, GoKeeps, Zenon
  <2> QED
    BY <1>6, <2>1, <2>2, Zenon DEF failed
<1>7. rejection \in {"mismatch", "other"}
  BY Zenon DEF rejection
<1> QED
  BY <1>3, <1>5, <1>6, <1>7, Zenon DEF commit_to_meta_server, Reliable

\* drop_table: the table points at nothing any more.
LEMMA drop_tableKeeps ==
  ASSUME FuseInv, LinearInv', NEW s \in Session, drop_table(s)
  PROVE  FuseInv'
<1>1. /\ TypeOK /\ LinearInv /\ TypeOK' /\ StepsOK(s) /\ HandleOK(s) /\ local[s] \in Locals /\ "history" \in Pcs
      /\ "undeleted" \notin Fault => LeftoversOK(s)
      /\ Reliable => EffectOK(s) /\ HistOK(s) /\ DoomedOK(s) /\ OwnDataOK(s) /\ ContentOK(s) /\ TablePart
  BY PartsOf, PartsOfInv, Zenon DEF Pcs, LinearInv, ReadPart
<1>2. /\ pc[s] = "drop" /\ UNCHANGED <<store, op, rows, hist>> /\ commits' = commits
      /\ UNCHANGED <<snap, files, segments, blocks>> /\ loc' \in {loc, None}
      /\ remove_record => loc' = None
  BY Zenon DEF drop_table, store, record, remove_record
<1>3. op[s] = "drop" /\ ~Inserts(s) /\ ~Truncates(s) /\ (Reliable => ~Effective(s))
  BY <1>1, <1>2, Zenon DEF StepsOK, Inserts, Truncates, EffectOK
<1>4. UNCHANGED record \/ loc' = None
  BY <1>2, Zenon DEF drop_table
<1>5. CASE Finish(s, "error")
  <2>1. CASE UNCHANGED record
    BY <1>2, <1>3, <1>5, <2>1, QuietEnd, Zenon
  <2>2. CASE loc' = None
    <3>1. Moves(s)
      BY <1>1, <1>2, <1>5, OnlyOwn, Zenon
    <3>2. Spares(s) /\ CurrentIsReadable'
      BY <1>2, <2>2, Zenon DEF Spares, CurrentIsReadable
    <3>3. Effective(s)' = Effective(s)
      BY <1>2, Zenon DEF Effective
    <3> QED
      BY <1>2, <1>3, <1>5, <3>1, <3>2, <3>3, EndKeeps, Zenon
  <2> QED
    BY <1>4, <2>1, <2>2, Zenon
<1>6. CASE Continue(s, "history", local[s])
  <2>0. Reliable => hist[s] = << >> /\ local[s].doomed = Nothing
    BY <1>1, <1>2, Zenon DEF HistOK, DoomedOK
  <2>1. CASE UNCHANGED record
    <3>1. Edge(s, "history", local[s])
      BY <1>3, Zenon DEF Edge, Prepares
    <3>2. Reliable => ReadEdge(s, "history", local[s])
      BY <1>1, <1>2, <1>3, <2>0, Zenon DEF ReadEdge, Prepares, HasData, Awaits, HandleOK
    <3> QED
      BY <1>1, <1>2, <1>6, <2>1, <3>1, <3>2, QuietGo, Zenon
  <2>2. CASE loc' = None
    <3>1. Moves(s)
      BY <1>1, <1>2, <1>6, OnlyOwn, Zenon
    <3>2. Spares(s) /\ CurrentIsReadable'
      BY <1>2, <2>2, Zenon DEF Spares, CurrentIsReadable
    <3>3. Effective(s)' = Effective(s) /\ op' = op
      BY <1>2, Zenon DEF Effective
    <3>4. pc'[s] = "history" /\ local'[s] = local[s] /\ ~Inserts(s)'
      BY <1>1, <1>2, <1>3, <1>6, Continued, Zenon DEF Inserts
    <3>5. "undeleted" \notin Fault => LeftoversOK(s)'
      BY <1>1, <1>2, <1>3, <3>4, Zenon DEF LeftoversOK
    <3>6. ASSUME Reliable PROVE EffectOK(s)' /\ OwnDataOK(s)' /\ ContentOK(s)' /\ HistOK(s)' /\ DoomedOK(s)'
      <4>1. EffectOK(s)'
        BY <1>3, <3>3, <3>6, Zenon DEF EffectOK
      <4>2. OwnDataOK(s)'
        BY <1>1, <1>2, <1>3, <3>3, <3>4, <3>6, Zenon DEF OwnDataOK, Pending
      <4>3. ContentOK(s)'
        BY <1>3, <3>3, Zenon DEF ContentOK
      <4>4. HistOK(s)'
        <5>1. PICK k \in 0 .. Len(commits) :
                /\ local[s].loc = IF k = 0 THEN None ELSE commits[k]
                /\ Len(<< >>) <= k
          <6>1. local[s].loc \in Committed \cup {None}
            BY <1>1, Zenon DEF HandleOK
          <6> QED
            BY <1>1, <6>1, StartOfHistory, Zenon
        <5>2. commits' = commits /\ local'[s] = local[s] /\ DOMAIN hist'[s] = {} /\ Len(hist'[s]) <= k
          BY <1>2, <2>0, <3>4, <3>6, <5>1
        <5>3. \E j \in 0 .. Len(commits') :
                /\ local'[s].loc = IF j = 0 THEN None ELSE commits'[j]
                /\ Len(hist'[s]) <= j
                /\ \A i \in DOMAIN hist'[s] : hist'[s][i] = commits'[j + 1 - i]
          BY <5>1, <5>2, Zenon
        <5>4. History(s)' \subseteq Committed'
          BY <1>1, <1>2, <3>6, HistoryStays, Zenon DEF HistOK
        <5> QED
          BY <3>4, <5>3, <5>4, Zenon DEF HistOK, Preparing, Failing
      <4>5. DoomedOK(s)'
        BY <2>0, <3>4, <3>6, Zenon DEF DoomedOK
      <4> QED
        BY <4>1, <4>2, <4>3, <4>4, <4>5, Zenon
    <3> QED
      BY <1>1, <1>2, <1>3, <1>6, <3>1, <3>2, <3>5, <3>6, GoKeeps, Zenon
  <2> QED
    BY <1>4, <2>1, <2>2, Zenon
<1> QED
  BY <1>5, <1>6, Zenon DEF drop_table

\* If removing works, what is no longer to be removed is gone.
LEMMA RemovalIsReal ==
  ASSUME TypeOK, NEW s \in Session, remove_location(s), "undeleted" \notin Fault
  PROVE  \/ removal_done(s)
         \/ /\ local[s].doomed.segs \cap segments' \subseteq local'[s].doomed.segs
            /\ local[s].doomed.blocks \cap blocks' \subseteq local'[s].doomed.blocks
<1>0. local[s] \in Locals /\ pc[s] \in Pcs /\ local \in [Session -> Locals]
  BY SessionTypes, Zenon DEF TypeOK, Pcs
<1>1. \A S, x : \A R \in AfterRemoval(s, S, x) : R = S \ {x}
  BY Zenon DEF AfterRemoval, Removed
<1>2. ASSUME NEW b \in local[s].doomed.blocks, remove_block(s, b)
      PROVE  /\ local[s].doomed.segs \cap segments' \subseteq local'[s].doomed.segs
             /\ local[s].doomed.blocks \cap blocks' \subseteq local'[s].doomed.blocks
  <2>1. PICK v : v = [local[s] EXCEPT !.doomed.blocks = @ \ {b}] /\ local' = [local EXCEPT ![s] = v]
    BY <1>2, Zenon DEF remove_block, Continue
  <2>2. local'[s] = v
    BY <1>0, <2>1, Zenon
  <2>3. v.doomed.blocks = local[s].doomed.blocks \ {b} /\ v.doomed.segs = local[s].doomed.segs
    BY <1>0, <2>1, Zenon DEF Locals
  <2>4. blocks' = blocks \ {b}
    BY <1>1, <1>2, Zenon DEF remove_block
  <2> QED
    BY <2>2, <2>3, <2>4, Zenon
<1>3. ASSUME NEW g \in local[s].doomed.segs, remove_segment(s, g)
      PROVE  /\ local[s].doomed.segs \cap segments' \subseteq local'[s].doomed.segs
             /\ local[s].doomed.blocks \cap blocks' \subseteq local'[s].doomed.blocks
  <2>1. PICK v : v = [local[s] EXCEPT !.doomed.segs = @ \ {g}] /\ local' = [local EXCEPT ![s] = v]
    BY <1>3, Zenon DEF remove_segment, Continue
  <2>2. local'[s] = v
    BY <1>0, <2>1, Zenon
  <2>3. v.doomed.segs = local[s].doomed.segs \ {g} /\ v.doomed.blocks = local[s].doomed.blocks
    BY <1>0, <2>1, Zenon DEF Locals
  <2>4. segments' = segments \ {g}
    BY <1>1, <1>3, Zenon DEF remove_segment
  <2> QED
    BY <2>2, <2>3, <2>4, Zenon
<1>4. ASSUME remove_snapshot(s)
      PROVE  /\ local[s].doomed.segs \cap segments' \subseteq local'[s].doomed.segs
             /\ local[s].doomed.blocks \cap blocks' \subseteq local'[s].doomed.blocks
  <2>1. local[s].doomed.segs = {} /\ local[s].doomed.blocks = {}
    BY <1>4, Zenon DEF remove_snapshot
  <2> QED
    BY <2>1, Zenon
<1> QED
  BY <1>2, <1>3, <1>4, Zenon DEF remove_location

\* Only the empty sequence has no elements.
LEMMA EmptyDomain == ASSUME NEW q \in Seq(SnapId), DOMAIN q = {} PROVE q = << >>
OBVIOUS

\* One removal of an abort or of a purge.
LEMMA OneRemovalKeeps ==
  ASSUME FuseInv, LinearInv', NEW s \in Session, pc[s] \in {"abort", "remove"},
         NEW v \in Locals, Continue(s, pc[s], v), Shrinks(s, v),
         UNCHANGED <<record, snap, op, rows, hist>>,
         blocks \ local[s].doomed.blocks \subseteq blocks', blocks' \subseteq blocks,
         segments \ local[s].doomed.segs \subseteq segments', segments' \subseteq segments,
         files' \subseteq files,
         \A l \in files : l \in files' \/ \E i \in DOMAIN local[s].doomed.snaps : l = local[s].doomed.snaps[i],
         "undeleted" \notin Fault =>
             /\ local[s].doomed.segs \cap segments' \subseteq local'[s].doomed.segs
             /\ local[s].doomed.blocks \cap blocks' \subseteq local'[s].doomed.blocks
  PROVE  FuseInv'
<1>1. /\ TypeOK /\ LinearInv /\ TypeOK' /\ HistoryIsLinear /\ StepsOK(s) /\ pc[s] \in Pcs /\ OkOK(s)
      /\ "undeleted" \notin Fault => LeftoversOK(s)
      /\ Reliable => EffectOK(s) /\ HistOK(s) /\ DoomedOK(s) /\ OwnDataOK(s) /\ ContentOK(s) /\ TablePart
  BY PartsOf, PartsOfInv, Zenon DEF Pcs, LinearInv, ReadPart
<1>2. commits' = commits /\ loc' = loc /\ Committed' = Committed /\ (Effective(s)' <=> Effective(s))
  BY Zenon DEF record, Committed, Effective
<1>3. /\ pc'[s] = pc[s] /\ local'[s] = v /\ result'[s] = "none"
      /\ (Inserts(s)' <=> Inserts(s)) /\ (Pending(s)' <=> Pending(s))
      /\ new_snapshot(s)' = new_snapshot(s) /\ v.loc = local[s].loc
  <2>1. pc'[s] = pc[s] /\ local'[s] = v /\ result' = result /\ v.tries = local[s].tries /\ v.loc = local[s].loc
    BY <1>1, Continued, Zenon DEF Shrinks
  <2>2. result[s] = "none"
    BY <1>1, Zenon DEF OkOK
  <2> QED
    BY <2>1, <2>2, Zenon DEF Inserts, Pending, new_snapshot
<1>4. Moves(s)
  <2>1. \E l \in Pcs, w \in Locals : Continue(s, l, w)
    BY <1>1, Zenon
  <2> QED
    BY <1>1, <1>2, <2>1, OnlyOwn, Zenon
<1>5. ASSUME "undeleted" \notin Fault PROVE LeftoversOK(s)'
  <2>1. SnapshotsOf(s)' \subseteq SnapshotsOf(s)
    BY Zenon DEF SnapshotsOf
  <2>2. pc[s] = "abort" => /\ {s} \cap segments' \subseteq local'[s].doomed.segs
                           /\ {s} \cap blocks' \subseteq local'[s].doomed.blocks
    BY <1>1, <1>5, Zenon DEF LeftoversOK
  <2> QED
    BY <1>1, <1>3, <1>5, <2>1, <2>2, Zenon DEF LeftoversOK, Preparing
<1>6. op[s] = "all" /\ pc[s] \in {"refresh", "history", "gc", "remove"} => Effective(s)'
  BY <1>1, <1>2, Zenon DEF OkOK
<1>7. ASSUME Reliable
      PROVE  /\ EffectOK(s)' /\ OwnDataOK(s)' /\ ContentOK(s)' /\ HistOK(s)' /\ DoomedOK(s)'
             /\ Spares(s) /\ CurrentIsReadable'
  <2>0. DoomedOK(s) /\ HistOK(s) /\ EffectOK(s) /\ OwnDataOK(s) /\ ContentOK(s) /\ TablePart
    BY <1>1, <1>7, Zenon
  <2>1. \A g \in Garbage(s) : g = s \/ Effective(g)
    BY <2>0, Zenon DEF DoomedOK
  <2>2. \A i \in DOMAIN local[s].doomed.snaps : local[s].doomed.snaps[i] \in Committed
    <3>1. DOMAIN << >> = {}
      OBVIOUS
    <3> QED
      BY <2>0, <3>1, Zenon DEF DoomedOK
  <2>3. /\ segments \ Garbage(s) \subseteq segments' /\ blocks \ Garbage(s) \subseteq blocks'
        /\ files \ Committed \subseteq files'
    BY <2>2, Zenon DEF Garbage
  <2>4. Spares(s)
    BY <1>2, <2>1, <2>3, Zenon DEF Spares
  <2>5. EffectOK(s)'
    BY <1>2, <1>3, <2>0, Zenon DEF EffectOK, Preparing, Failing
  <2>6. OwnDataOK(s)'
    <3>1. Pending(s) => new_snapshot(s) \in files'
      BY <1>1, <2>0, <2>3, NewIsNew, Zenon DEF OwnDataOK
    <3> QED
      BY <1>3, <2>0, <3>1, Zenon DEF OwnDataOK
  <2>7. ContentOK(s)'
    BY <2>0, Zenon DEF ContentOK
  <2>8. HistOK(s)'
    BY <1>2, <1>3, <2>0, HistoryStays, Zenon DEF HistOK, Preparing, Failing
  <2>9. /\ Garbage(s)' \subseteq Garbage(s)
        /\ \A i \in DOMAIN v.doomed.snaps : i \in DOMAIN local[s].doomed.snaps
                                           /\ v.doomed.snaps[i] = local[s].doomed.snaps[i]
    BY <1>3, Zenon DEF Garbage, Shrinks
  <2>10. DoomedOK(s)'
    <3>1. \A g \in Session : Effective(g)' <=> Effective(g)
      BY <1>2, Zenon DEF Effective
    <3>2. (keep_last_snapshot(s)' <=> keep_last_snapshot(s)) /\ SegmentsOf(loc)' = SegmentsOf(loc)
      BY <1>2, Zenon DEF keep_last_snapshot, SegmentsOf
    <3>3. Garbage(s) \subseteq Session
      BY <1>1, SessionTypes, Zenon DEF Garbage, Locals
    <3>4. CASE pc[s] = "abort"
      <4>1. v.doomed.snaps = << >>
        <5>1. local[s].doomed.snaps = << >> /\ v.doomed.snaps \in Seq(SnapId)
          BY <2>0, <3>4, Zenon DEF DoomedOK, Locals
        <5>2. DOMAIN v.doomed.snaps = {}
          BY <2>9, <5>1
        <5> QED
          BY <5>1, <5>2, EmptyDomain, Zenon
      <4> QED
        BY <1>3, <2>0, <2>9, <3>4, <4>1, Zenon DEF DoomedOK
    <3>5. CASE pc[s] = "remove"
      <4>1. /\ \A g \in Garbage(s)' : Effective(g)'
            /\ \A i \in DOMAIN v.doomed.snaps : v.doomed.snaps[i] \in Committed
        BY <2>0, <2>2, <2>9, <3>1, <3>3, <3>5, Zenon DEF DoomedOK
      <4>2. keep_last_snapshot(s) => /\ Garbage(s)' \cap SegmentsOf(loc)' = {}
                                     /\ \A i \in DOMAIN v.doomed.snaps : v.doomed.snaps[i] # loc
        BY <2>0, <2>9, <3>2, <3>5, Zenon DEF DoomedOK
      <4>3. op[s] = "truncate_purge" =>
              /\ Garbage(s)' \subseteq HistorySegments(s)'
              /\ \A i \in DOMAIN v.doomed.snaps : v.doomed.snaps[i] \in History(s)'
        <5>1. History(s)' = History(s) /\ HistorySegments(s)' = HistorySegments(s)
          BY <1>1, <2>0, HistoryKept, Zenon DEF HistOK
        <5> QED
          BY <2>0, <2>9, <3>5, <5>1, Zenon DEF DoomedOK
      <4> QED
        BY <1>2, <1>3, <3>2, <3>5, <4>1, <4>2, <4>3, Zenon DEF DoomedOK
    <3> QED
      BY <3>4, <3>5, Zenon
  <2>11. CurrentIsReadable'
    <3>1. CASE op[s] = "truncate_purge" /\ pc[s] = "remove"
      <4>1. HalfTruncated(s)' /\ hist'[s] = hist[s]
        BY <1>3, <3>1, Zenon DEF HalfTruncated
      <4>2. (loc \in files => loc \in files') \/ loc \in History(s)
        BY <2>0, <3>1, Zenon DEF DoomedOK
      <4>3. \A g \in SegmentsOf(loc) \cap segments \cap blocks :
              g \in segments' \cap blocks' \/ g \in HistorySegments(s)
        <5>1. Garbage(s) \subseteq HistorySegments(s)
          BY <2>0, <3>1, Zenon DEF DoomedOK
        <5> QED
          BY <2>3, <5>1, Zenon
      <4> QED
        BY <1>2, <1>4, <1>7, <4>1, <4>2, <4>3, StillReadable, Zenon
    <3>2. CASE ~(op[s] = "truncate_purge" /\ pc[s] = "remove")
      <4>1. loc = None \/ (Garbage(s) \cap SegmentsOf(loc) = {} /\ \A i \in DOMAIN local[s].doomed.snaps : local[s].doomed.snaps[i] # loc)
        <5>1. CASE pc[s] = "abort"
          <6>1. Garbage(s) \subseteq {s} /\ local[s].doomed.snaps = << >> /\ ~Effective(s)
            BY <2>0, <5>1, Zenon DEF DoomedOK, EffectOK
          <6>2. DOMAIN local[s].doomed.snaps = {}
            BY <6>1
          <6>3. loc # None => \A g \in SegmentsOf(loc) : Effective(g)
            BY <1>1, <2>0, CurrentIsCommitted, Zenon DEF TablePart, SegmentsAreEffective, SegmentsOf
          <6> QED
            BY <6>1, <6>2, <6>3, Zenon
        <5>2. CASE pc[s] = "remove" /\ op[s] = "drop"
          <6>1. seq = 0
            BY <1>1, <5>2, Zenon DEF StepsOK
          <6> QED
            BY <1>1, <6>1, Zenon DEF HistoryIsLinear
        <5>3. CASE pc[s] = "remove" /\ op[s] # "drop"
          BY <2>0, <3>2, <5>3, Zenon DEF DoomedOK, keep_last_snapshot
        <5> QED
          BY <5>1, <5>2, <5>3, Zenon
      <4>2. loc \in files => loc \in files'
        <5>1. files \subseteq SnapId /\ None \notin SnapId
          BY <1>1, FuseAssumption, Zenon DEF TypeOK
        <5> QED
          BY <4>1, <5>1, Zenon
      <4>3. SegmentsOf(loc) \cap segments \cap blocks \subseteq segments' \cap blocks'
        <5>1. loc = None => SegmentsOf(loc) = {}
          BY Zenon DEF SegmentsOf
        <5> QED
          BY <2>3, <4>1, <5>1, Zenon
      <4>4. HalfTruncated(s) => HalfTruncated(s)' /\ hist'[s] = hist[s]
        BY <1>3, Zenon DEF HalfTruncated
      <4> QED
        BY <1>2, <1>4, <1>7, <4>2, <4>3, <4>4, StillReadable, Zenon
    <3> QED
      BY <3>1, <3>2, Zenon
  <2> QED
    BY <2>4, <2>5, <2>6, <2>7, <2>8, <2>10, <2>11, Zenon
<1>8. ~Prepares(pc[s]) /\ pc[s] # "done"
  BY Zenon DEF Prepares
<1> QED
  BY <1>1, <1>2, <1>4, <1>5, <1>6, <1>7, <1>8, GoKeeps, Zenon

\* remove_location: an abort or a purge removes one object, or is through.
LEMMA remove_locationKeeps ==
  ASSUME FuseInv, LinearInv', NEW s \in Session, remove_location(s)
  PROVE  FuseInv'
<1>1. /\ TypeOK /\ StepsOK(s) /\ ("undeleted" \notin Fault => LeftoversOK(s)) /\ (Reliable => EffectOK(s))
  BY PartsOf, Zenon
<1>2. pc[s] \in {"abort", "remove"} /\ UNCHANGED <<record, snap, op, rows, hist>>
  BY Zenon DEF remove_location
<1>3. CASE removal_done(s)
  <2>1. local[s].doomed = Nothing /\ UNCHANGED <<record, store, op, rows, hist>>
    BY <1>2, <1>3, Zenon DEF removal_done, store
  <2>2. CASE pc[s] = "abort" /\ Finish(s, "aborted")
    <3>1. Reliable => ~Effective(s)
      BY <1>1, <2>2, Zenon DEF EffectOK
    <3>2. ASSUME "undeleted" \notin Fault
          PROVE  s \notin segments \cup blocks /\ \A l \in files : l[1] # s
      <4>1. Inserts(s) /\ LeftoversOK(s)
        BY <1>1, <2>2, <3>2, Zenon DEF StepsOK
      <4>2. local[s].doomed.segs = {} /\ local[s].doomed.blocks = {}
        BY <2>1 DEF Nothing
      <4>3. s \notin segments \cup blocks
        BY <2>2, <4>1, <4>2, Zenon DEF LeftoversOK
      <4>4. SnapshotsOf(s) = {}
        BY <2>2, <4>1, Zenon DEF LeftoversOK
      <4> QED
        BY <4>3, <4>4, Zenon DEF SnapshotsOf
    <3> QED
      BY <2>1, <2>2, <3>1, <3>2, QuietEnd, Zenon
  <2>3. CASE pc[s] = "remove" /\ optimized(s)
    BY <2>1, <2>3, optimizedKeeps, Zenon
  <2> QED
    BY <1>2, <1>3, <2>2, <2>3, Zenon DEF removal_done
<1>4. CASE ~(removal_done(s))
  <2>1. "undeleted" \notin Fault =>
             /\ local[s].doomed.segs \cap segments' \subseteq local'[s].doomed.segs
             /\ local[s].doomed.blocks \cap blocks' \subseteq local'[s].doomed.blocks
    BY <1>1, <1>4, RemovalIsReal, Zenon
  <2>2. CASE /\ \E v \in Locals : Continue(s, pc[s], v) /\ Shrinks(s, v)
             /\ blocks \ local[s].doomed.blocks \subseteq blocks' /\ blocks' \subseteq blocks
             /\ segments \ local[s].doomed.segs \subseteq segments' /\ segments' \subseteq segments
             /\ files' \subseteq files
             /\ \A l \in files : l \in files' \/ \E i \in DOMAIN local[s].doomed.snaps : l = local[s].doomed.snaps[i]
    BY <1>2, <2>1, <2>2, OneRemovalKeeps, Zenon
  <2> QED
    BY <1>1, <1>4, <2>2, RemovalCases, Zenon
<1> QED
  BY <1>3, <1>4, Zenon

\* A new table, before any statement.
LEMMA InitKeeps == Init => FuseInv
<1> SUFFICES ASSUME Init PROVE FuseInv
  OBVIOUS
<1>1. /\ loc = None /\ commits = << >> /\ files = {} /\ segments = {} /\ blocks = {}
      /\ DOMAIN commits = {} /\ NoLocals.doomed = Nothing
  BY NoLocalsType DEF Init
<1>2. ASSUME NEW s \in Session
      PROVE  /\ pc[s] = "idle" /\ rows[s] = {} /\ hist[s] = << >> /\ local[s] = NoLocals /\ result[s] = "none"
  BY Zenon DEF Init
<1>3. LinearInv
  BY InitLinear, Zenon
<1>4. \A s \in Session : ~Effective(s)
  BY <1>1, Zenon DEF Effective
<1>5. OkInv
  BY <1>1, <1>2, <1>4, Zenon DEF OkInv, OkIsReal, OkOK
<1>6. AbortInv
  BY <1>1, <1>2, Zenon DEF AbortInv, AbortLeavesNothing, LeftoversOK, SnapshotsOf, Preparing
<1>7. OutcomeIsReal /\ NeverReturns /\ SegmentsAreEffective /\ CurrentIsReadable
  BY <1>1, <1>2, <1>5, Zenon DEF OkInv, OutcomeIsReal, Once, NeverReturns, SegmentsAreEffective, CurrentIsReadable
<1>8. ASSUME NEW s \in Session
      PROVE EffectOK(s) /\ OwnDataOK(s) /\ ContentOK(s) /\ HistOK(s) /\ DoomedOK(s)
  <2>1. EffectOK(s) /\ OwnDataOK(s)
    BY <1>2, <1>4, Zenon DEF EffectOK, OwnDataOK, Pending
  <2>2. ContentOK(s)
    BY <1>2, Zenon DEF ContentOK
  <2>3. HistOK(s) /\ DoomedOK(s)
    <3>1. DOMAIN << >> = {}
      OBVIOUS
    <3>2. History(s) = {}
      BY <1>2, <3>1, Zenon DEF History
    <3> QED
      BY <1>1, <1>2, <3>2, Zenon DEF HistOK, DoomedOK
  <2> QED
    BY <2>1, <2>2, <2>3, Zenon
<1> QED
  BY <1>3, <1>5, <1>6, <1>7, <1>8, Zenon DEF FuseInv, ReadInv

\* Nothing happens.
LEMMA StutterKeeps ==
  ASSUME FuseInv, LinearInv', UNCHANGED vars
  PROVE  FuseInv'
<1>1. UNCHANGED <<seq, loc, commits, snap, files, segments, blocks, pc, op, rows, hist, local, result>>
  BY Zenon DEF vars, record, store, session
<1>2. \A s \in Session : OkPart(s)'
  BY <1>1, PartsOfInv, Zenon DEF OkPart, OkOK, Inserts, Truncates, Preparing, Effective
<1>3. "undeleted" \notin Fault => \A s \in Session : AbortPart(s)'
  BY <1>1, PartsOfInv, Zenon DEF AbortPart, LeftoversOK, SnapshotsOf, Inserts, Preparing, new_snapshot
<1>4. Reliable => TablePart'
  <2>1. Once' <=> Once
    BY <1>1, Zenon DEF Once
  <2>2. NeverReturns' <=> NeverReturns
    <3>1. DOMAIN commits' = DOMAIN commits /\ \A i : snap'[commits'[i]] = snap[commits[i]]
      BY <1>1, Zenon
    <3> QED
      BY <3>1, Zenon DEF NeverReturns
  <2>3. SegmentsAreEffective' <=> SegmentsAreEffective
    BY <1>1, Zenon DEF SegmentsAreEffective, Effective
  <2>4. CurrentIsReadable' <=> CurrentIsReadable
    <3>1. \A s \in Session : Truncated(s)' = Truncated(s) /\ TruncatedSegments(s)' = TruncatedSegments(s)
      <4>1. SUFFICES ASSUME NEW s \in Session
                     PROVE  Truncated(s)' = Truncated(s) /\ TruncatedSegments(s)' = TruncatedSegments(s)
        OBVIOUS
      <4>2. History(s)' = History(s)
        BY <1>1, Zenon DEF History
      <4>3. HistorySegments(s)' = HistorySegments(s)
        BY <1>1, <4>2, Zenon DEF HistorySegments, SegmentsOf
      <4>4. HalfTruncated(s)' = HalfTruncated(s)
        BY <1>1, Zenon DEF HalfTruncated
      <4> QED
        BY <4>2, <4>3, <4>4, Zenon DEF Truncated, TruncatedSegments
    <3>2. SegmentsOf(loc)' = SegmentsOf(loc)
      BY <1>1, Zenon DEF SegmentsOf
    <3> QED
      BY <1>1, <3>1, <3>2, Zenon DEF CurrentIsReadable
  <2> QED
    BY <2>1, <2>2, <2>3, <2>4, PartsOfInv, Zenon DEF TablePart
<1>5. ASSUME Reliable, NEW s \in Session PROVE ReadPart(s)'
  <2>1. ReadPart(s)
    BY <1>5, PartsOfInv, Zenon
  <2>2. EffectOK(s)' /\ OutcomePart(s)'
    BY <1>1, <2>1, Zenon DEF ReadPart, EffectOK, OutcomePart, Preparing, Pending, Failing, Effective
  <2>3. OwnDataOK(s)'
    BY <1>1, <2>1, Zenon DEF ReadPart, OwnDataOK, Pending, Inserts, own, new_snapshot
  <2>4. ContentOK(s)'
    BY <1>1, <2>1, Zenon DEF ReadPart, ContentOK
  <2>5. HistOK(s)'
    BY <1>1, <2>1, HistoryStays, Zenon DEF ReadPart, HistOK, Preparing, Failing, Inserts
  <2>6. DoomedOK(s)'
    <3>1. /\ Garbage(s)' = Garbage(s) /\ Committed' = Committed /\ SegmentsOf(loc)' = SegmentsOf(loc)
          /\ keep_last_snapshot(s)' <=> keep_last_snapshot(s)
      BY <1>1, Zenon DEF Garbage, Committed, keep_last_snapshot, SegmentsOf
    <3>2. \A g : Effective(g)' <=> Effective(g)
      BY <1>1, Zenon DEF Effective
    <3>3. DoomedOK(s) /\ HistOK(s) /\ LinearInv
      BY <2>1, PartsOfInv, Zenon DEF ReadPart
    <3>4. History(s)' = History(s) /\ HistorySegments(s)' = HistorySegments(s)
      BY <1>1, <3>3, HistoryKept, Zenon DEF HistOK
    <3> QED
      BY <1>1, <3>1, <3>2, <3>3, <3>4, Zenon DEF DoomedOK
  <2> QED
    BY <2>2, <2>3, <2>4, <2>5, <2>6, Zenon DEF ReadPart
<1> QED
  BY <1>2, <1>3, <1>4, <1>5, InvOfParts, Zenon

\* FuseInv is inductive: every step of every statement keeps it.
LEMMA NextKeeps ==
  ASSUME FuseInv, [Next]_vars
  PROVE  FuseInv'
<1>0. LinearInv'
  BY NextLinear, Zenon DEF FuseInv
<1>1. ASSUME NEW s \in Session, Step(s) PROVE FuseInv'
  BY <1>0, <1>1, get_tableKeeps, append_dataKeeps, select_failsKeeps, read_table_snapshotKeeps,
     write_snapshotKeeps, commit_to_meta_serverKeeps, discard_snapshotKeeps, retryKeeps,
     give_upKeeps, refreshKeeps, read_snapshot_historyKeeps, find_garbageKeeps,
     remove_locationKeeps, drop_tableKeeps, Zenon DEF Step
<1> QED
  BY <1>0, <1>1, StopKeeps, StutterKeeps, Zenon DEF Next

\* FuseInv holds of every reachable state, for any number of statements, any
\* number of retries and every set of faults.
THEOREM FuseInvHolds == Spec => []FuseInv
<1>1. FuseInv /\ [Next]_vars => FuseInv'
  BY NextKeeps, Zenon
<1> QED
  BY <1>1, InitKeeps, PTL DEF Spec

-----------------------------------------------------------------------------
(* The table implements TableContent *)

\* The statements that have taken effect.
LEMMA EffectiveSet ==
  ASSUME TypeOK, NEW s \in Session
  PROVE  s \in {l[1] : l \in Committed} <=> Effective(s)
BY Zenon DEF Committed, Effective

\* The rest of the abstract state when the record, the committed snapshots and
\* their rows stay as they are.
LEMMA QuietTable ==
  ASSUME LinearInv, SegmentsAreEffective, UNCHANGED <<record, op>>,
         \A l \in Committed : snap'[l] = snap[l],
         \A g \in Session : Effective(g) => rows'[g] = rows[g]
  PROVE  /\ op' = op /\ (seq' = 0) = (seq = 0) /\ ContentOf(loc)' = ContentOf(loc)
         /\ {l[1] : l \in Committed}' = {l[1] : l \in Committed}
         /\ \A l \in Committed \cup {None} : ContentOf(l)' = ContentOf(l)
         /\ \A g \in Session : Effective(g)' = Effective(g)
<1>1. /\ TypeOK /\ HistoryIsLinear /\ seq' = seq /\ loc' = loc /\ commits' = commits
      /\ op' = op /\ Committed' = Committed
  BY Zenon DEF LinearInv, record, Committed
<1>2. /\ loc \in Committed \cup {None} /\ Committed \subseteq SnapId /\ None \notin Committed
  BY <1>1, CurrentIsCommitted, Zenon
<1>3. ASSUME NEW l \in Committed PROVE ContentOf(l)' = ContentOf(l)
  <2>1. SegmentsOf(l) = snap[l].segs /\ SegmentsOf(l)' = snap[l].segs /\ snap[l].segs \subseteq Session
    BY <1>1, <1>2, Zenon DEF SegmentsOf, TypeOK
  <2>2. \A g \in snap[l].segs : Effective(g)
    BY Zenon DEF SegmentsAreEffective, Committed
  <2>3. \A g \in snap[l].segs : rows'[g] = rows[g]
    BY <2>1, <2>2, Zenon
  <2>4. {rows'[g] : g \in snap[l].segs} = {rows[g] : g \in snap[l].segs}
    BY <2>3, Zenon
  <2>5. /\ ContentOf(l)' = UNION {rows'[g] : g \in snap[l].segs}
        /\ ContentOf(l) = UNION {rows[g] : g \in snap[l].segs}
    BY <2>1, Zenon DEF ContentOf
  <2> QED
    BY <2>4, <2>5, Zenon
<1>4. ContentOf(None)' = {} /\ ContentOf(None) = {}
  BY Zenon DEF ContentOf, SegmentsOf
<1>5. ContentOf(loc)' = ContentOf(loc)
  <2>1. CASE loc = None
    BY <1>1, <2>1, Zenon DEF ContentOf, SegmentsOf
  <2>2. CASE loc \in Committed
    <3>1. ContentOf(loc)' = UNION {rows'[g] : g \in snap'[loc].segs} /\ ContentOf(loc) = UNION {rows[g] : g \in snap[loc].segs}
      BY <1>1, <1>2, <2>2, Zenon DEF ContentOf, SegmentsOf
    <3> QED
      BY <1>3, <1>1, <2>2, Zenon DEF ContentOf, SegmentsOf
  <2> QED
    BY <1>2, <2>1, <2>2, Zenon
<1>6. \A l \in Committed \cup {None} : ContentOf(l)' = ContentOf(l)
  BY <1>3, <1>4, Zenon
<1>7. \A g \in Session : Effective(g)' = Effective(g)
  BY <1>1, Zenon DEF Effective
<1> QED
  BY <1>1, <1>5, <1>6, <1>7, Zenon

\* The other statements stay where they are.
Alone(s) == \A t \in Session : t # s => pc'[t] = pc[t] /\ local'[t] = local[t] /\ rows'[t] = rows[t]

LEMMA StepsAlone ==
  ASSUME TypeOK, NEW s \in Session, Step(s) \/ Stop(s)
  PROVE  Alone(s)
<1>1. pc \in [Session -> Pcs] /\ local \in [Session -> Locals] /\ rows \in [Session -> SUBSET Session]
  BY Zenon DEF TypeOK, Pcs
<1>2. ASSUME NEW l, NEW v, pc' = [pc EXCEPT ![s] = l], local' = [local EXCEPT ![s] = v],
             NEW r, rows' = rows \/ rows' = [rows EXCEPT ![s] = r]
      PROVE  Alone(s)
  BY <1>1, <1>2, Zenon DEF Alone
<1>3. ASSUME rows' = rows, (\E l, v : Continue(s, l, v)) \/ (\E x : Finish(s, x)) PROVE Alone(s)
  BY <1>2, <1>3, Zenon DEF Continue, Finish
<1>4. CASE append_data(s)
  <2>1. Continue(s, "read", local[s]) /\ \E r : rows' = [rows EXCEPT ![s] = r]
    BY <1>4, Zenon DEF append_data
  <2> QED
    BY <1>2, <2>1, Zenon DEF Continue
<1>5. CASE get_table(s) \/ select_fails(s) \/ write_snapshot(s) \/ retry(s) \/ give_up(s) \/ refresh(s) \/ Stop(s)
  BY <1>3, <1>5, Zenon DEF get_table, select_fails, write_snapshot, retry, give_up, refresh, Stop
<1>6. CASE read_table_snapshot(s)
  BY <1>3, <1>6, Zenon DEF read_table_snapshot
<1>7. CASE commit_to_meta_server(s)
  BY <1>3, <1>7, Zenon DEF commit_to_meta_server, committed, failed
<1>8. CASE drop_table(s) \/ discard_snapshot(s) \/ read_snapshot_history(s)
  BY <1>3, <1>8, Zenon DEF drop_table, discard_snapshot, read_snapshot_history
<1>9. CASE find_garbage(s)
  BY <1>3, <1>9, Zenon DEF find_garbage, optimized
<1>10. CASE remove_location(s)
  BY <1>3, <1>10, Zenon DEF remove_location, remove_block, remove_segment, remove_snapshot, removal_done, optimized
<1> QED
  BY <1>4, <1>5, <1>6, <1>7, <1>8, <1>9, <1>10, Zenon DEF Step

\* And so does what they have selected.
LEMMA OthersSelected ==
  ASSUME LinearInv, NEW s \in Session, Alone(s), op' = op,
         \A l \in Committed \cup {None} : ContentOf(l)' = ContentOf(l),
         \A g \in Session : g # s => Effective(g)' = Effective(g)
  PROVE  \A t \in Session : t # s => selected(t)' = selected(t)
<1> SUFFICES ASSUME NEW t \in Session, t # s PROVE selected(t)' = selected(t)
  OBVIOUS
<1>1. local[t].loc \in Committed \cup {None}
  BY Zenon DEF LinearInv, HandleOK
<1>2. pc'[t] = pc[t] /\ local'[t] = local[t] /\ rows'[t] = rows[t] /\ (Effective(t)' = Effective(t))
  BY Zenon DEF Alone
<1>3. ContentOf(local[t].loc)' = ContentOf(local[t].loc)
  <2>1. PICK l \in Committed \cup {None} : l = local[t].loc
    BY <1>1, Zenon
  <2>2. ContentOf(local[t].loc)' = UNION {rows'[g] : g \in SegmentsOf(l)'}
    BY <1>2, <2>1, Zenon DEF ContentOf, SegmentsOf
  <2> QED
    BY <2>1, <2>2, Zenon DEF ContentOf
<1>4. compacting(t)' = compacting(t)
  BY <1>2, Zenon DEF compacting, Compacts
<1> QED
  BY <1>2, <1>3, <1>4, Zenon DEF selected

\* The selections after a step of s.
LEMMA SelectionsAfter ==
  ASSUME NEW s \in Session, \A t \in Session : t # s => selected(t)' = selected(t)
  PROVE  /\ [t \in Session |-> selected(t)]' = [[t \in Session |-> selected(t)] EXCEPT ![s] = selected(s)']
         /\ selected(s)' = selected(s) =>
              [t \in Session |-> selected(t)]' = [t \in Session |-> selected(t)]
<1>1. PICK F : F = [t \in Session |-> selected(t)]
  OBVIOUS
<1>2. PICK G : G = [t \in Session |-> selected(t)']
  OBVIOUS
<1>3. /\ F = [t \in Session |-> F[t]] /\ G = [t \in Session |-> G[t]]
      /\ G[s] = selected(s)' /\ \A t \in Session : F[t] = selected(t) /\ G[t] = selected(t)'
  BY <1>1, <1>2, Zenon
<1>4. G = [F EXCEPT ![s] = G[s]]
  <2>1. \A t \in Session : t # s => G[t] = F[t]
    BY <1>3, Zenon
  <2> HIDE <1>1, <1>2
  <2> QED
    BY <1>3, <2>1
<1>5. selected(s)' = selected(s) => G = F
  <2>1. selected(s)' = selected(s) => \A t \in Session : selected(t)' = selected(t)
    BY Zenon
  <2> QED
    BY <1>1, <1>2, <2>1, Zenon
<1> QED
  BY <1>1, <1>2, <1>3, <1>4, <1>5, Zenon

\* A step that commits nothing is none of the table, or the end of a compaction.
LEMMA SilentStep ==
  ASSUME LinearInv, SegmentsAreEffective, NEW s \in Session, Alone(s), UNCHANGED <<record, op>>,
         \A l \in Committed : snap'[l] = snap[l],
         \A g \in Session : Effective(g) => rows'[g] = rows[g],
         selected(s)' = selected(s) \/ selected(s)' = {}
  PROVE  [Table!Next]_(Table!vars)
<1>1. /\ op' = op /\ (seq' = 0) = (seq = 0) /\ ContentOf(loc)' = ContentOf(loc)
      /\ {l[1] : l \in Committed}' = {l[1] : l \in Committed}
      /\ \A l \in Committed \cup {None} : ContentOf(l)' = ContentOf(l)
      /\ \A g \in Session : Effective(g)' = Effective(g)
  BY QuietTable, Zenon
<1>2. \A t \in Session : t # s => selected(t)' = selected(t)
  BY <1>1, OthersSelected, Zenon
<1>3. CASE selected(s)' = selected(s)
  BY <1>1, <1>2, <1>3, SelectionsAfter, Zenon DEF Table!vars
<1>4. CASE selected(s)' = {} /\ selected(s) # {}
  <2>1. Table!Fail(s)
    BY <1>1, <1>2, <1>4, SelectionsAfter, Zenon DEF Table!Fail
  <2> QED
    BY <2>1, Zenon DEF Table!Next
<1> QED
  BY <1>3, <1>4, Zenon

\* What a compaction has selected stays with it until it ends.
LEMMA SelectedAfter ==
  ASSUME NEW s \in Session, UNCHANGED <<record, op, rows>>, pc[s] \notin {"idle", "data", "done"},
         pc'[s] \notin {"idle", "data"}
  PROVE  selected(s)' = selected(s) \/ selected(s)' = {}
<1>1. Effective(s)' = Effective(s)
  BY Zenon DEF Effective, record
<1>2. CASE compacting(s)' /\ compacting(s)
  BY <1>2, Zenon DEF selected
<1>3. CASE ~compacting(s)'
  BY <1>3, Zenon DEF selected
<1>4. CASE compacting(s)' /\ ~compacting(s)
  BY <1>1, <1>4, Zenon DEF compacting, Compacts, selected
<1> QED
  BY <1>2, <1>3, <1>4, Zenon

\* A statement that ends has selected nothing any more.
LEMMA FinishSelects ==
  ASSUME TypeOK, NEW s \in Session, NEW x, Finish(s, x)
  PROVE  selected(s)' = {}
<1>1. pc'[s] = "done"
  BY Zenon DEF TypeOK, Finish
<1> QED
  BY <1>1, Zenon DEF selected, compacting

\* The rows of the snapshot that becomes current.
LEMMA CommitContent ==
  ASSUME FuseInv, Reliable, NEW s \in Session, pc[s] = "commit", upsert_table_option(s),
         UNCHANGED <<snap, rows>>
  PROVE  /\ ContentOf(loc)' = UNION {rows[g] : g \in new_segments(s)}
         /\ \A l : ContentOf(l)' = ContentOf(l)
         /\ Effective(s)' /\ \A g \in Session : g # s => Effective(g)' = Effective(g)
         /\ {l[1] : l \in Committed}' = {l[1] : l \in Committed} \cup {s}
<1>1. /\ LinearInv /\ TypeOK /\ HistoryIsLinear /\ HandleOK(s) /\ TryOK(s)
  BY PartsOf, Zenon
<1>2. /\ loc' = new_snapshot(s) /\ Pending(s) /\ new_snapshot(s)[1] = s
  BY <1>1, Zenon DEF upsert_table_option, Pending, new_snapshot
<1>3. /\ snap[new_snapshot(s)].segs = new_segments(s)
      /\ new_snapshot(s) # None
  <2>1. snap[new_snapshot(s)] = [prev |-> local[s].loc, segs |-> new_segments(s)]
    BY <1>1, <1>2, Zenon DEF TryOK
  <2>2. new_snapshot(s) \in SnapId
    BY <1>1, SessionTypes, Zenon
  <2> QED
    BY <2>1, <2>2, FuseAssumption
<1>4. Committed' = Committed \cup {new_snapshot(s)}
  <2>1. /\ DOMAIN commits' = 1 .. Len(commits) + 1 /\ DOMAIN commits = 1 .. Len(commits) /\ Len(commits) \in Nat
        /\ \A i \in DOMAIN commits : commits'[i] = commits[i]
        /\ commits'[Len(commits) + 1] = new_snapshot(s)
    <3>1. Len(commits) \in Nat /\ DOMAIN commits = 1 .. Len(commits)
      BY <1>1 DEF TypeOK
    <3> QED
      BY <1>1, <3>1, CommitAppended, Zenon
  <2>2. /\ \A i \in DOMAIN commits : i \in DOMAIN commits'
        /\ Len(commits) + 1 \in DOMAIN commits'
        /\ \A i \in DOMAIN commits' : i \in DOMAIN commits \/ i = Len(commits) + 1
    BY <2>1
  <2> QED
    BY <2>1, <2>2, Zenon DEF Committed
<1>5. \A l : SegmentsOf(l)' = SegmentsOf(l) /\ ContentOf(l)' = ContentOf(l)
  BY Zenon DEF ContentOf, SegmentsOf
<1>6. ContentOf(loc)' = ContentOf(new_snapshot(s))
  BY <1>2, ZenonT(60) DEF ContentOf, SegmentsOf
<1>7. ContentOf(new_snapshot(s)) = UNION {rows[g] : g \in new_segments(s)}
  BY <1>3, Zenon DEF ContentOf, SegmentsOf
<1>8. {l[1] : l \in Committed}' = {l[1] : l \in Committed} \cup {s}
  BY <1>2, <1>4, Zenon
<1>9. Effective(s)' /\ \A g \in Session : g # s => Effective(g)' = Effective(g)
  <2>1. \A g \in Session : Effective(g) = (\E l \in Committed : l[1] = g)
    BY Zenon DEF Effective, Committed
  <2>2. \A g \in Session : Effective(g)' = (\E l \in Committed' : l[1] = g)
    BY Zenon DEF Effective, Committed
  <2> QED
    BY <1>2, <1>4, <2>1, <2>2, Zenon
<1> QED
  BY <1>5, <1>6, <1>7, <1>8, <1>9, Zenon

\* A commit is one step of the abstract table: the statement takes effect.
LEMMA CommitTable ==
  ASSUME FuseInv, Reliable, NEW s \in Session, pc[s] = "commit", upsert_table_option(s),
         UNCHANGED <<snap, rows, op>>, Alone(s)
  PROVE  Table!Next
<1>1. /\ LinearInv /\ TypeOK /\ HandleOK(s) /\ StepsOK(s) /\ op[s] \in Ops /\ EffectOK(s) /\ ContentOK(s)
      /\ seq \in Nat
  BY PartsOf, PartsOfInv, Zenon DEF ReadPart, TypeOK
<1>2. local[s].loc = loc /\ seq # 0 /\ seq' = seq + 1
  BY <1>1, Zenon DEF upsert_table_option, accepted, HandleOK
<1>3. PICK c : c = UNION {rows[g] : g \in new_segments(s)}
  BY Zenon
<1>4. Table!Effect(s, c)
  <2>1. ~Effective(s)
    BY <1>1, Zenon DEF EffectOK, Pending
  <2>2. s \notin {l[1] : l \in Committed}
    BY <1>1, <2>1, EffectiveSet, Zenon
  <2>3. /\ ContentOf(loc)' = c
        /\ \A l : ContentOf(l)' = ContentOf(l)
        /\ Effective(s)' /\ \A g \in Session : g # s => Effective(g)' = Effective(g)
        /\ {l[1] : l \in Committed}' = {l[1] : l \in Committed} \cup {s}
    BY <1>3, CommitContent, Zenon
  <2>4. seq' # 0
    BY <1>1, <1>2
  <2>5. \A t \in Session : t # s => selected(t)' = selected(t)
    <3>1. \A l \in Committed \cup {None} : ContentOf(l)' = ContentOf(l)
      BY <2>3, Zenon
    <3>2. \A g \in Session : g # s => Effective(g)' = Effective(g)
      BY <2>3, Zenon
    <3>3. op' = op
      OBVIOUS
    <3> QED
      BY <1>1, <3>1, <3>2, <3>3, OthersSelected, Zenon
  <2>6. (seq' = 0) = (seq = 0)
    BY <1>2, <2>4, Zenon
  <2>7. selected(s)' = {}
    BY <2>3, Zenon DEF selected, compacting
  <2>8. [t \in Session |-> selected(t)]' = [[t \in Session |-> selected(t)] EXCEPT ![s] = {}]
    BY <2>5, <2>7, SelectionsAfter, Zenon
  <2> QED
    BY <1>2, <2>2, <2>3, <2>6, <2>8, Zenon DEF Table!Effect
<1>5. UNION {rows[g] : g \in own(s)} = rows[s]
  <2>1. CASE rows[s] = {}
    BY <2>1, Zenon DEF own
  <2>2. CASE rows[s] # {}
    <3>1. own(s) = {s}
      BY <2>2, Zenon DEF own
    <3> QED
      BY <3>1, Zenon
  <2> QED
    BY <2>1, <2>2, Zenon
<1>6. CASE op[s] = "append"
  <2>1. new_segments(s) = own(s) \cup SegmentsOf(loc)
    BY <1>2, <1>6, Zenon DEF new_segments, Truncates
  <2>2. c = (UNION {rows[g] : g \in own(s)}) \cup ContentOf(loc)
    BY <1>3, <2>1, Zenon DEF ContentOf
  <2>3. rows[s] \in {{}, {s}}
    BY <1>1, <1>6, Zenon DEF ContentOK
  <2>4. c \in {ContentOf(loc), ContentOf(loc) \cup {s}}
    BY <1>5, <2>2, <2>3, Zenon
  <2> QED
    BY <1>4, <1>6, <2>4, Zenon DEF Table!Next, Table!Insert
<1>7. CASE Truncates(s)
  <2>1. new_segments(s) = {}
    BY <1>7, Zenon DEF new_segments, Truncates
  <2>2. c = {}
    BY <1>3, <2>1, Zenon
  <2> QED
    BY <1>4, <1>7, <2>2, Zenon DEF Table!Next, Table!Truncate, Truncates
<1>8. CASE op[s] \in {"overwrite", "compact", "all"}
  <2>1. new_segments(s) = own(s)
    BY <1>8, Zenon DEF new_segments, Truncates
  <2>2. c = rows[s]
    BY <1>3, <1>5, <2>1, Zenon
  <2>3. CASE op[s] = "overwrite"
    <3>1. c \in {{}, {s}}
      BY <1>1, <2>2, <2>3, Zenon DEF ContentOK
    <3> QED
      BY <1>4, <2>3, <3>1, Zenon DEF Table!Next, Table!Overwrite
  <2>4. CASE op[s] \in {"compact", "all"}
    <3>1. ~Effective(s)
      BY <1>1, Zenon DEF EffectOK, Pending
    <3>2. pc[s] # "idle" /\ pc[s] # "done" /\ pc[s] # "data"
      OBVIOUS
    <3>3. c \in selected(s)
      BY <2>2, <2>4, <3>1, <3>2, Zenon DEF selected, compacting, Compacts
    <3>4. Table!Compact(s)
      BY <1>4, <3>3, Zenon DEF Table!Compact
    <3> QED
      BY <3>4, Zenon DEF Table!Next
  <2> QED
    BY <1>8, <2>3, <2>4, Zenon
<1> QED
  BY <1>1, <1>6, <1>7, <1>8, Zenon DEF Ops, StepsOK, Truncates

\* Every step of a statement is a step of the abstract table, or none.
LEMMA StepTable ==
  ASSUME FuseInv, Reliable, NEW s \in Session, Step(s) \/ Stop(s)
  PROVE  [Table!Next]_(Table!vars)
<1>1. /\ LinearInv /\ TypeOK /\ StepsOK(s) /\ EffectOK(s) /\ SegmentsAreEffective
  BY PartsOf, PartsOfInv, Zenon DEF TablePart
<1>2. Alone(s) /\ pc \in [Session -> Pcs]
  BY <1>1, StepsAlone, Zenon DEF TypeOK, Pcs
<1>3. ASSUME UNCHANGED <<record, op, snap, rows>>,
             \/ \E x : Finish(s, x)
             \/ pc[s] \notin {"idle", "data", "done"} /\ \E l, v : l \notin {"idle", "data"} /\ Continue(s, l, v)
      PROVE  [Table!Next]_(Table!vars)
  <2>1. selected(s)' = selected(s) \/ selected(s)' = {}
    <3>1. CASE \E x : Finish(s, x)
      BY <1>1, <3>1, FinishSelects, Zenon
    <3>2. CASE pc[s] \notin {"idle", "data", "done"} /\ \E l, v : l \notin {"idle", "data"} /\ Continue(s, l, v)
      <4>1. pc'[s] \notin {"idle", "data"}
        BY <1>2, <3>2, Zenon DEF Continue
      <4> QED
        BY <1>3, <3>2, <4>1, SelectedAfter, Zenon
    <3> QED
      BY <1>3, <3>1, <3>2, Zenon
  <2> QED
    BY <1>1, <1>2, <1>3, <2>1, SilentStep, Zenon
<1>4. CASE get_table(s)
  <2>1. UNCHANGED <<record, op, snap, rows>> /\ pc[s] = "idle"
    BY <1>4, Zenon DEF get_table, store
  <2>2. CASE \E x : Finish(s, x)
    BY <1>3, <2>1, <2>2, Zenon
  <2>3. CASE seq # 0 /\ Continue(s, first_step(s), latest(s)) /\ ~Compacts(s)
    <3>1. selected(s)' = selected(s)
      BY <2>1, <2>3, Zenon DEF selected, compacting, Compacts
    <3> QED
      BY <1>1, <1>2, <2>1, <3>1, SilentStep, Zenon
  <2>4. CASE seq # 0 /\ Continue(s, first_step(s), latest(s)) /\ Compacts(s)
    <3>1. ~Effective(s)
      BY <1>1, <2>1, Zenon DEF EffectOK, Preparing
    <3>2. /\ op' = op /\ (seq' = 0) = (seq = 0) /\ ContentOf(loc)' = ContentOf(loc)
          /\ {l[1] : l \in Committed}' = {l[1] : l \in Committed}
          /\ \A l \in Committed \cup {None} : ContentOf(l)' = ContentOf(l)
          /\ \A g \in Session : Effective(g)' = Effective(g)
      BY <1>1, <2>1, QuietTable, Zenon
    <3>3. \A t \in Session : t # s => selected(t)' = selected(t)
      BY <1>1, <1>2, <3>2, OthersSelected, Zenon
    <3>4. selected(s) = {}
      BY <2>1, Zenon DEF selected, compacting
    <3>5. pc'[s] = "data" /\ local'[s].loc = loc
      <4>1. pc'[s] = first_step(s) /\ local'[s] = latest(s)
        BY <1>1, <1>2, <2>4, Zenon DEF Continue, TypeOK
      <4>2. first_step(s) = "data" /\ latest(s).loc = loc
        <5>1. first_step(s) = "data"
          BY <2>4 DEF first_step, Compacts, Inserts, Truncates
        <5>2. local[s] \in Locals
          BY <1>1, Zenon DEF TypeOK
        <5>3. latest(s).loc = loc
          BY <5>2 DEF latest, Locals
        <5> QED
          BY <5>1, <5>3, Zenon
      <4> QED
        BY <4>1, <4>2, Zenon
    <3>6. selected(s)' = {ContentOf(loc)}
      <4>1. compacting(s)'
        BY <2>1, <2>4, <3>1, <3>2, <3>5, Zenon DEF compacting, Compacts
      <4>2. selected(s)' = {ContentOf(local[s].loc)'}
        BY <3>5, <4>1, Zenon DEF selected
      <4>3. ContentOf(local[s].loc)' = ContentOf(loc)'
        BY <2>1, <3>5, Zenon DEF ContentOf, SegmentsOf, record
      <4> QED
        BY <3>2, <4>2, <4>3, Zenon
    <3>7. s \notin {l[1] : l \in Committed}
      BY <1>1, <3>1, EffectiveSet, Zenon
    <3>8. [t \in Session |-> selected(t)]' = [[t \in Session |-> selected(t)] EXCEPT ![s] = {ContentOf(loc)}]
      BY <3>3, <3>6, SelectionsAfter, Zenon
    <3>9. Table!Select(s)
      BY <2>4, <3>2, <3>4, <3>7, <3>8, Zenon DEF Table!Select, Compacts
    <3> QED
      BY <3>9, Zenon DEF Table!Next
  <2> QED
    BY <1>4, <2>2, <2>3, <2>4, Zenon DEF get_table
<1>5. CASE append_data(s)
  <2>1. /\ UNCHANGED <<record, op, snap>> /\ pc[s] = "data" /\ Continue(s, "read", local[s])
        /\ \E r \in source_rows(s) : rows' = [rows EXCEPT ![s] = r]
    BY <1>5, Zenon DEF append_data
  <2>2. ~Effective(s)
    BY <1>1, <2>1, Zenon DEF EffectOK, Preparing
  <2>3. \A g \in Session : g # s => rows'[g] = rows[g]
    BY <1>1, <2>1, Zenon DEF TypeOK
  <2>4. \A g \in Session : Effective(g) => rows'[g] = rows[g]
    BY <2>2, <2>3, Zenon
  <2>5. pc'[s] = "read" /\ rows'[s] \in source_rows(s)
    BY <1>1, <1>2, <2>1, Zenon DEF Continue, TypeOK
  <2>6. Effective(s)' = Effective(s)
    BY <2>1, Zenon DEF Effective, record
  <2>7. selected(s)' = selected(s)
    <3>1. CASE Compacts(s)
      <4>1. rows'[s] = ContentOf(local[s].loc)
        BY <2>5, <3>1, Zenon DEF source_rows
      <4>2. selected(s) = {ContentOf(local[s].loc)}
        BY <2>1, <2>2, <3>1, Zenon DEF selected, compacting
      <4>3. selected(s)' = {rows'[s]}
        BY <2>1, <2>2, <2>5, <2>6, <3>1, Zenon DEF selected, compacting, Compacts
      <4> QED
        BY <4>1, <4>2, <4>3, Zenon
    <3>2. CASE ~Compacts(s)
      BY <2>1, <3>2, Zenon DEF selected, compacting, Compacts
    <3> QED
      BY <3>1, <3>2, Zenon
  <2> QED
    BY <1>1, <1>2, <2>1, <2>4, <2>7, SilentStep, Zenon
<1>6. CASE write_snapshot(s)
  <2>1. UNCHANGED <<record, op, rows>> /\ pc[s] = "write"
    BY <1>6, Zenon DEF write_snapshot
  <2>2. \A l \in Committed : snap'[l] = snap[l]
    BY <1>1, <1>6, SnapshotWritten, Zenon
  <2>3. pc'[s] \in {"history", "commit"}
    BY <1>2, <1>6, Zenon DEF write_snapshot, Continue
  <2>4. selected(s)' = selected(s) \/ selected(s)' = {}
    BY <2>1, <2>3, SelectedAfter, Zenon
  <2> QED
    BY <1>1, <1>2, <2>1, <2>2, <2>4, SilentStep, Zenon
<1>7. CASE commit_to_meta_server(s)
  <2>1. pc[s] = "commit" /\ UNCHANGED <<op, snap, rows>> /\ (upsert_table_option(s) \/ UNCHANGED record)
    BY <1>7, Zenon DEF commit_to_meta_server, store
  <2>2. \/ \E x : Finish(s, x)
        \/ \E l, v : l \notin {"idle", "data"} /\ Continue(s, l, v)
    BY <1>7, Zenon DEF commit_to_meta_server, committed, failed
  <2> QED
    BY <1>2, <1>3, <2>1, <2>2, CommitTable, Zenon
<1>8. CASE drop_table(s)
  <2>1. /\ pc[s] = "drop" /\ UNCHANGED <<op, snap, rows>> /\ (remove_record \/ UNCHANGED record)
    BY <1>8, Zenon DEF drop_table, store
  <2>2. \/ \E x : Finish(s, x)
        \/ \E l, v : l \notin {"idle", "data"} /\ Continue(s, l, v)
    BY <1>8, Zenon DEF drop_table
  <2>3. ASSUME remove_record PROVE Table!Next
    <3>1. op[s] = "drop" /\ seq' = 0 /\ loc' = None /\ commits' = commits
      BY <1>1, <2>1, <2>3, Zenon DEF StepsOK, remove_record
    <3>2. ContentOf(loc)' = {}
      BY <3>1, Zenon DEF ContentOf, SegmentsOf
    <3>3. Committed' = Committed /\ \A l : ContentOf(l)' = ContentOf(l)
      BY <2>1, <3>1, Zenon DEF Committed, ContentOf, SegmentsOf
    <3>4. \A g \in Session : Effective(g)' = Effective(g)
      BY <3>1, Zenon DEF Effective
    <3>5. \A t \in Session : t # s => selected(t)' = selected(t)
      BY <1>1, <1>2, <2>1, <3>3, <3>4, OthersSelected, Zenon
    <3>6. selected(s)' = selected(s)
      BY <2>1, <3>1, Zenon DEF selected, compacting, Compacts
    <3>7. [t \in Session |-> selected(t)]' = [t \in Session |-> selected(t)]
      BY <3>5, <3>6, SelectionsAfter, Zenon
    <3>8. Table!Drop(s)
      BY <2>1, <3>1, <3>2, <3>3, <3>7, Zenon DEF Table!Drop
    <3> QED
      BY <3>8, Zenon DEF Table!Next
  <2> QED
    BY <1>3, <2>1, <2>2, <2>3, Zenon
<1>9. CASE remove_location(s)
  <2>1. UNCHANGED <<record, op, snap, rows>> /\ pc[s] \in {"abort", "remove"}
    BY <1>9, Zenon DEF remove_location
  <2>2. \/ \E x : Finish(s, x)
        \/ \E l, v : l \notin {"idle", "data"} /\ Continue(s, l, v)
    BY <1>9, <2>1, Zenon DEF remove_location, remove_block, remove_segment, remove_snapshot, removal_done, optimized
  <2> QED
    BY <1>3, <2>1, <2>2, Zenon
<1>10. CASE discard_snapshot(s)
  <2>1. UNCHANGED <<record, op, snap, rows>> /\ pc[s] = "discard"
    BY <1>10, Zenon DEF discard_snapshot
  <2>2. \/ \E x : Finish(s, x)
        \/ \E l, v : l \notin {"idle", "data"} /\ Continue(s, l, v)
    BY <1>10, Zenon DEF discard_snapshot
  <2> QED
    BY <1>3, <2>1, <2>2, Zenon
<1>11. CASE read_snapshot_history(s)
  <2>1. UNCHANGED <<record, op, snap, rows>> /\ pc[s] = "history"
    BY <1>11, Zenon DEF read_snapshot_history, store
  <2>2. \E l, v : l \notin {"idle", "data"} /\ Continue(s, l, v)
    BY <1>11, Zenon DEF read_snapshot_history
  <2> QED
    BY <1>3, <2>1, <2>2, Zenon
<1>12. CASE select_fails(s) \/ Stop(s)
  <2>1. UNCHANGED <<record, store, op, rows>> /\ \E x : Finish(s, x)
    BY <1>12, Zenon DEF select_fails, Stop
  <2> QED
    BY <1>3, <2>1, Zenon DEF store
<1>13. CASE read_table_snapshot(s) \/ retry(s) \/ give_up(s) \/ refresh(s) \/ find_garbage(s)
  <2>1. UNCHANGED <<record, store, op, rows>> /\ pc[s] \in {"read", "backoff", "refresh", "gc"}
    BY <1>13, Zenon DEF read_table_snapshot, retry, give_up, refresh, find_garbage
  <2>2. \/ \E x : Finish(s, x)
        \/ \E l, v : l \notin {"idle", "data"} /\ Continue(s, l, v)
    BY <1>13, Zenon DEF read_table_snapshot, retry, give_up, refresh, find_garbage, optimized
  <2> QED
    BY <1>3, <2>1, <2>2, Zenon DEF store
<1> QED
  BY <1>4, <1>5, <1>6, <1>7, <1>8, <1>9, <1>10, <1>11, <1>12, <1>13, Zenon DEF Step

\* A new table is an empty one.
LEMMA InitTable == Init => Table!Init
<1> SUFFICES ASSUME Init PROVE Table!Init
  OBVIOUS
<1>1. seq = 1 /\ loc = None /\ DOMAIN commits = {} /\ op \in [Session -> Ops]
  BY FuseAssumption DEF Init
<1>2. Committed = {} /\ ContentOf(loc) = {} /\ Table!Kinds = Ops
  BY <1>1, Zenon DEF Committed, ContentOf, SegmentsOf, Table!Kinds, Ops
<1>3. (seq = 0) = FALSE
  BY <1>1
<1>4. {l[1] : l \in Committed} = {}
  BY <1>2, Zenon
<1>5. [t \in Session |-> selected(t)] = [t \in Session |-> {}]
  <2>1. \A t \in Session : selected(t) = {}
    BY Zenon DEF selected, compacting, Init
  <2> QED
    BY <2>1, Zenon
<1> QED
  BY <1>1, <1>2, <1>3, <1>4, <1>5, Zenon DEF Table!Init

\* And nothing else moves it.
LEMMA NextTable ==
  ASSUME FuseInv, Reliable, [Next]_vars
  PROVE  [Table!Next]_(Table!vars)
<1>1. ASSUME UNCHANGED vars PROVE UNCHANGED Table!vars
  <2>1. UNCHANGED <<record, op, snap, rows, pc, local>>
    BY <1>1, Zenon DEF vars, store, session
  <2>2. LinearInv /\ SegmentsAreEffective
    BY PartsOfInv, Zenon DEF TablePart
  <2>3. /\ op' = op /\ (seq' = 0) = (seq = 0) /\ ContentOf(loc)' = ContentOf(loc)
        /\ {l[1] : l \in Committed}' = {l[1] : l \in Committed}
        /\ \A g \in Session : Effective(g)' = Effective(g)
    BY <2>1, <2>2, QuietTable, Zenon
  <2>4. \A t \in Session : selected(t)' = selected(t)
    <3> SUFFICES ASSUME NEW t \in Session PROVE selected(t)' = selected(t)
      OBVIOUS
    <3>1. pc'[t] = pc[t] /\ rows'[t] = rows[t] /\ op'[t] = op[t] /\ (Effective(t)' = Effective(t))
      BY <2>1, <2>3, Zenon
    <3>2. ContentOf(local[t].loc)' = ContentOf(local[t].loc)
      <4>1. snap' = snap /\ rows' = rows /\ local' = local
        BY <2>1, Zenon
      <4> HIDE <2>1
      <4>2. SegmentsOf(local[t].loc)' = SegmentsOf(local[t].loc)
        BY <4>1, Zenon DEF SegmentsOf
      <4> QED
        BY <4>1, <4>2, ZenonT(60) DEF ContentOf
    <3>3. compacting(t)' = compacting(t)
      BY <3>1, Zenon DEF compacting, Compacts
    <3> QED
      BY <3>1, <3>2, <3>3, Zenon DEF selected
  <2>5. [t \in Session |-> selected(t)]' = [t \in Session |-> selected(t)]
    BY <2>4, Zenon
  <2> QED
    BY <2>3, <2>5, Zenon DEF Table!vars
<1> QED
  BY <1>1, StepTable, Zenon DEF Next

-----------------------------------------------------------------------------
(* Results *)

\* Whatever requests and answers are lost or repeated, the client is told Ok
\* of an insertion or a truncation only when its snapshot is in the history of
\* the table.
THEOREM OkMeansEffect == Spec => []OkIsReal
<1>1. FuseInv => OkIsReal
  BY Zenon DEF FuseInv, OkInv
<1> QED
  BY <1>1, FuseInvHolds, PTL

\* If objects can be removed, a statement that gives up after its retries
\* leaves no block, no segment and no snapshot of its own in the store.
THEOREM AbortCleansUp == ASSUME "undeleted" \notin Fault PROVE Spec => []AbortLeavesNothing
<1>1. FuseInv => AbortLeavesNothing
  BY Zenon DEF FuseInv, AbortInv
<1> QED
  BY <1>1, FuseInvHolds, PTL

\* If no answer of the meta service is lost after the commit it reports, every
\* statement takes effect at most once, exactly once when the client is told
\* Ok, and never when it is told an error or an abort.
THEOREM OutcomesAreReal == ASSUME Reliable PROVE Spec => []OutcomeIsReal
<1>1. FuseInv => OutcomeIsReal
  BY Zenon DEF FuseInv, ReadInv
<1> QED
  BY <1>1, FuseInvHolds, PTL

\* Then also no retry, abort, purge or stop takes an object away that the
\* current snapshot needs; the exception is TRUNCATE ... PURGE, which removes
\* the data before it moves the pointer.
THEOREM CurrentStaysReadable == ASSUME Reliable PROVE Spec => []CurrentIsReadable
<1>1. FuseInv => CurrentIsReadable
  BY Zenon DEF FuseInv, ReadInv
<1> QED
  BY <1>1, FuseInvHolds, PTL

\* And the statements take effect atomically: the table implements
\* TableContent.
THEOREM TableImplemented == ASSUME Reliable PROVE Spec => TableSpec
<1>1. FuseInv /\ [Next]_vars => [Table!Next]_(Table!vars)
  BY NextTable, Zenon
<1> QED
  BY <1>1, InitTable, FuseInvHolds, PTL DEF Spec, TableSpec, Table!Spec
=============================================================================
