------------------------- MODULE FuseTableReadLemmas -------------------------
(***************************************************************************)
(* Lemmas on the rest of FuseInv: what a step of one statement may do to   *)
(* the others and to the table, and the actions that change neither the    *)
(* store nor the record.                                                   *)
(***************************************************************************)
EXTENDS FuseTableProofs

\* FuseInv, arranged by what it says of one statement and of the table.
OkPart(s) ==
  /\ OkOK(s)
  /\ result[s] = "ok" /\ Inserts(s) => Effective(s)
  /\ result[s] = "ok" /\ Truncates(s) /\ <<s, 0>> \in files => Effective(s)

AbortPart(s) ==
  /\ LeftoversOK(s)
  /\ result[s] = "aborted" => s \notin segments \cup blocks /\ \A l \in files : l[1] # s

OutcomePart(s) ==
  /\ result[s] = "aborted" => ~Effective(s)
  /\ result[s] = "error" /\ op[s] # "all" => ~Effective(s)

ReadPart(s) ==
  /\ EffectOK(s) /\ OwnDataOK(s) /\ ContentOK(s) /\ HistOK(s) /\ DoomedOK(s)
  /\ OutcomePart(s)

TablePart == Once /\ NeverReturns /\ SegmentsAreEffective /\ CurrentIsReadable

\* The two arrangements say the same.
LEMMA PartsOfInv ==
  ASSUME FuseInv
  PROVE  /\ LinearInv /\ TypeOK
         /\ \A s \in Session : OkPart(s)
         /\ "undeleted" \notin Fault => \A s \in Session : AbortPart(s)
         /\ Reliable => TablePart /\ \A s \in Session : ReadPart(s)
BY Zenon DEF FuseInv, LinearInv, OkInv, OkIsReal, AbortInv, AbortLeavesNothing, ReadInv, OutcomeIsReal,
             OkPart, AbortPart, OutcomePart, ReadPart, TablePart

\* And after a step.
LEMMA InvOfParts ==
  ASSUME LinearInv',
         \A s \in Session : OkPart(s)',
         "undeleted" \notin Fault => \A s \in Session : AbortPart(s)',
         Reliable => TablePart' /\ \A s \in Session : ReadPart(s)'
  PROVE  FuseInv'
<1>1. OkInv'
  BY Zenon DEF OkInv, OkIsReal, OkPart
<1>2. "undeleted" \notin Fault => AbortInv'
  BY Zenon DEF AbortInv, AbortLeavesNothing, AbortPart
<1>3. Reliable => ReadInv'
  BY <1>1, Zenon DEF OkInv, ReadInv, OutcomeIsReal, OutcomePart, ReadPart, TablePart
<1> QED
  BY <1>1, <1>2, <1>3, Zenon DEF FuseInv, Reliable

-----------------------------------------------------------------------------
(* What a step of one statement may do to the others *)

\* A step of s: it adds no object of another statement, changes no committed
\* snapshot, and commits nothing but its own.
Moves(s) ==
  /\ op' = op
  /\ \A t \in Session : t # s =>
       /\ pc'[t] = pc[t] /\ local'[t] = local[t] /\ result'[t] = result[t]
       /\ rows'[t] = rows[t] /\ hist'[t] = hist[t]
  /\ \A g \in Session : g # s => (g \in segments' => g \in segments) /\ (g \in blocks' => g \in blocks)
  /\ \A l \in SnapId : l[1] # s => (l \in files' => l \in files)
  /\ \A l \in Committed : snap'[l] = snap[l]
  /\ commits' = commits \/ upsert_table_option(s)

\* And what it removes of others is committed; where it has changed its rows,
\* nobody reads them yet.
Spares(s) ==
  /\ \A g \in Session : g # s /\ ~Effective(g) =>
       (g \in segments => g \in segments') /\ (g \in blocks => g \in blocks')
  /\ \A l \in SnapId \ Committed : l[1] # s => (l \in files => l \in files')
  /\ rows'[s] = rows[s] \/ ~Effective(s)
  /\ \/ loc' = loc
     \/ loc' = None
     \/ pc[s] = "commit" /\ upsert_table_option(s) /\ snap' = snap

\* What is committed stays so, and only s can become effective.
LEMMA EffectiveMoves ==
  ASSUME TypeOK, NEW s \in Session, commits' = commits \/ upsert_table_option(s)
  PROVE  /\ \A t \in Session : Effective(t) => Effective(t)'
         /\ \A t \in Session : t # s => (Effective(t)' <=> Effective(t))
         /\ Committed \subseteq Committed'
         /\ upsert_table_option(s) => Effective(s)'
         /\ Len(commits) <= Len(commits') /\ Len(commits) \in Nat /\ Len(commits') \in Nat
         /\ DOMAIN commits = 1 .. Len(commits)
         /\ \A i \in DOMAIN commits : i \in DOMAIN commits' /\ commits'[i] = commits[i]
<1>0. Len(commits) \in Nat /\ DOMAIN commits = 1 .. Len(commits)
  BY DEF TypeOK
<1>1. CASE commits' = commits
  <2>1. ~(upsert_table_option(s))
    <3> SUFFICES ASSUME upsert_table_option(s) PROVE FALSE
      OBVIOUS
    <3>1. Len(commits') = Len(commits) + 1
      BY CommitAppended, Zenon
    <3>2. Len(commits) = Len(commits) + 1
      BY <1>1, <3>1, Zenon
    <3> QED
      BY <1>0, <3>2
  <2> QED
    BY <1>0, <1>1, <2>1 DEF Effective, Committed
<1>2. CASE upsert_table_option(s)
  <2>1. /\ DOMAIN commits' = 1 .. Len(commits) + 1 /\ Len(commits') = Len(commits) + 1
        /\ \A i \in DOMAIN commits : commits'[i] = commits[i]
        /\ commits'[Len(commits) + 1] = new_snapshot(s)
        /\ Committed \subseteq Committed'
    BY <1>2, CommitAppended, Zenon
  <2>2. /\ \A i \in DOMAIN commits : i \in DOMAIN commits'
        /\ Len(commits) + 1 \in DOMAIN commits'
        /\ \A i \in DOMAIN commits' : i \in DOMAIN commits \/ i = Len(commits) + 1
    BY <1>0, <2>1
  <2>3. new_snapshot(s)[1] = s
    BY Zenon DEF new_snapshot
  <2>4. /\ \A t \in Session : Effective(t) => Effective(t)'
        /\ \A t \in Session : t # s => (Effective(t)' => Effective(t))
        /\ Effective(s)'
    BY <2>1, <2>2, <2>3, Zenon DEF Effective
  <2> QED
    BY <1>0, <2>1, <2>2, <2>4
<1> QED
  BY <1>1, <1>2, Zenon

\* Nobody else's step falsifies what Ok needs.
LEMMA OthersOk ==
  ASSUME TypeOK, NEW s \in Session, Moves(s), NEW t \in Session, t # s, OkPart(t)
  PROVE  OkPart(t)'
<1>1. /\ pc'[t] = pc[t] /\ op' = op /\ result'[t] = result[t] /\ Effective(t) => Effective(t)'
  BY EffectiveMoves, Zenon DEF Moves
<1>2. <<t, 0>> \in files' => <<t, 0>> \in files
  BY FuseAssumption DEF Moves, SnapId
<1> QED
  BY <1>1, <1>2, EffectiveMoves, Zenon DEF Moves, OkPart, OkOK, Inserts, Truncates, Preparing

\* Nor what an abort needs.
LEMMA OthersAbort ==
  ASSUME TypeOK, TypeOK', NEW s \in Session, Moves(s), NEW t \in Session, t # s, AbortPart(t)
  PROVE  AbortPart(t)'
<1>1. /\ pc'[t] = pc[t] /\ local'[t] = local[t] /\ rows'[t] = rows[t] /\ op' = op
      /\ result'[t] = result[t]
      /\ (t \in segments' => t \in segments) /\ (t \in blocks' => t \in blocks)
  BY Zenon DEF Moves
<1>2. SnapshotsOf(t)' \subseteq SnapshotsOf(t)
  BY Zenon DEF Moves, SnapshotsOf, TypeOK
<1>3. new_snapshot(t)' = new_snapshot(t) /\ Preparing(t)' = Preparing(t) /\ Inserts(t)' = Inserts(t)
  BY <1>1, Zenon DEF new_snapshot, Preparing, Inserts
<1>4. LeftoversOK(t)'
  BY <1>1, <1>2, <1>3, Zenon DEF AbortPart, LeftoversOK
<1> QED
  BY <1>1, <1>2, <1>4, Zenon DEF AbortPart, SnapshotsOf

\* What the pointer is swung to: the segments of the statement and, for an
\* insertion, those of the snapshot that is current at that moment.
LEMMA CommitSegments ==
  ASSUME LinearInv, NEW s \in Session, pc[s] = "commit", upsert_table_option(s)
  PROVE  /\ loc' = new_snapshot(s) /\ new_snapshot(s) \in SnapId
         /\ new_snapshot(s) \notin Committed /\ local[s].loc = loc
         /\ snap[new_snapshot(s)].segs = new_segments(s)
         /\ own(s) \subseteq {s} /\ new_segments(s) \subseteq own(s) \cup SegmentsOf(loc)
<1>1. TypeOK /\ Pending(s) /\ HandleOK(s) /\ TryOK(s) /\ new_snapshot(s) \in SnapId
  BY SessionTypes, Zenon DEF LinearInv, Pending
<1>2. loc' = new_snapshot(s) /\ local[s].loc = loc
  BY <1>1, Zenon DEF upsert_table_option, accepted, HandleOK
<1>3. snap[new_snapshot(s)] = [prev |-> local[s].loc, segs |-> new_segments(s)]
  BY <1>1, Zenon DEF TryOK
<1>4. new_snapshot(s) \notin Committed
  BY <1>1, NewIsNew, Zenon
<1>5. own(s) \subseteq {s}
  BY Zenon DEF own
<1>6. new_segments(s) \subseteq own(s) \cup SegmentsOf(loc)
  BY <1>2, Zenon DEF new_segments
<1> QED
  BY <1>1, <1>2, <1>3, <1>4, <1>5, <1>6

\* The snapshot the table points at is a committed one.
LEMMA CurrentIsCommitted ==
  ASSUME TypeOK, HistoryIsLinear
  PROVE  /\ loc \in Committed \cup {None} /\ Committed \subseteq SnapId /\ None \notin Committed
         /\ loc # None => /\ commits # << >> /\ Len(commits) \in DOMAIN commits
                          /\ loc = commits[Len(commits)]
<1>1. commits \in Seq(SnapId) /\ None \notin SnapId
  BY FuseAssumption, Zenon DEF TypeOK
<1>2. Committed \subseteq SnapId
  BY <1>1 DEF Committed
<1>3. commits # << >> => Len(commits) \in DOMAIN commits
  BY <1>1
<1> QED
  BY <1>1, <1>2, <1>3, Zenon DEF HistoryIsLinear, Committed

\* As long as nothing is read or committed.
LEMMA HistoryStays ==
  ASSUME NEW s \in Session, hist'[s] = hist[s], commits' = commits
  PROVE  History(s)' = History(s) /\ Committed' = Committed
<1>1. History(s)' = History(s)
  BY Zenon DEF History
<1>2. Committed' = Committed
  BY Zenon DEF Committed
<1> QED
  BY <1>1, <1>2, Zenon

\* Committed snapshots do not change, so a history that has been read stays
\* what it is.
LEMMA HistoryKept ==
  ASSUME LinearInv, \A l \in Committed : snap'[l] = snap[l],
         NEW t \in Session, History(t) \subseteq Committed, hist'[t] = hist[t]
  PROVE  History(t)' = History(t) /\ HistorySegments(t)' = HistorySegments(t)
<1>1. History(t)' = History(t)
  BY Zenon DEF History
<1>2. \A l \in History(t) : SegmentsOf(l)' = SegmentsOf(l)
  BY Zenon DEF SegmentsOf
<1>3. \A l \in History(t)' : SegmentsOf(l)' = SegmentsOf(l)
  BY <1>1, <1>2, Zenon
<1> QED
  BY <1>1, <1>2, <1>3, Zenon DEF HistorySegments

\* What an other statement is about to remove is still garbage.
LEMMA OthersDoomed ==
  ASSUME LinearInv, NEW s \in Session, Moves(s), Spares(s), ReadPart(s),
         NEW t \in Session, t # s, DoomedOK(t), HistOK(t)
  PROVE  DoomedOK(t)'
<1>1. TypeOK /\ HistoryIsLinear
  BY Zenon DEF LinearInv
<1>2. pc'[t] = pc[t] /\ local'[t] = local[t] /\ op' = op /\ Garbage(t)' = Garbage(t)
  BY Zenon DEF Moves, Garbage
<1>3. local[t].doomed.snaps \in Seq(SnapId) /\ Garbage(t) \subseteq Session
  BY <1>1, SessionTypes, Zenon DEF Garbage
<1>4. pc[t] = "remove" => /\ \A g \in Garbage(t) : Effective(g)'
                          /\ \A i \in DOMAIN local[t].doomed.snaps : local[t].doomed.snaps[i] \in Committed'
  BY <1>1, <1>3, EffectiveMoves, Zenon DEF DoomedOK, Moves
<1>5. ASSUME pc[t] = "remove", keep_last_snapshot(t)
      PROVE  /\ Garbage(t) \cap SegmentsOf(loc)' = {}
             /\ \A i \in DOMAIN local[t].doomed.snaps : local[t].doomed.snaps[i] # loc'
  <2>1. /\ Garbage(t) \cap SegmentsOf(loc) = {} /\ \A g \in Garbage(t) : Effective(g)
        /\ \A i \in DOMAIN local[t].doomed.snaps :
             local[t].doomed.snaps[i] # loc /\ local[t].doomed.snaps[i] \in Committed
    BY <1>5, Zenon DEF DoomedOK
  <2>2. CASE loc' = loc
    BY <1>1, <2>1, <2>2, CurrentIsCommitted, Zenon DEF SegmentsOf, Moves
  <2>3. CASE loc' = None
    BY <1>1, <2>1, <2>3, CurrentIsCommitted, Zenon DEF SegmentsOf
  <2>4. CASE pc[s] = "commit" /\ upsert_table_option(s) /\ snap' = snap
    <3>1. /\ loc' = new_snapshot(s) /\ new_snapshot(s) \in SnapId
          /\ new_snapshot(s) \notin Committed
          /\ snap[new_snapshot(s)].segs = new_segments(s)
          /\ own(s) \subseteq {s} /\ new_segments(s) \subseteq own(s) \cup SegmentsOf(loc)
      BY <2>4, CommitSegments, Zenon
    <3>2. ~Effective(s)
      BY <2>4, Zenon DEF ReadPart, EffectOK, Pending
    <3>3. s \notin Garbage(t)
      BY <2>1, <3>2, Zenon
    <3>4. SegmentsOf(loc)' = new_segments(s)
      BY <2>4, <3>1, FuseAssumption, Zenon DEF SegmentsOf
    <3> QED
      BY <2>1, <3>1, <3>3, <3>4, Zenon
  <2> QED
    BY <2>2, <2>3, <2>4, Zenon DEF Spares
<1>6. History(t)' = History(t) /\ HistorySegments(t)' = HistorySegments(t)
  BY HistoryKept, Zenon DEF HistOK, Moves
<1> QED
  BY <1>2, <1>4, <1>5, <1>6, Zenon DEF DoomedOK, keep_last_snapshot

\* Nobody else's step falsifies what ReadInv says of a statement.
LEMMA OthersRead ==
  ASSUME LinearInv, LinearInv', TablePart, NEW s \in Session, Moves(s), Spares(s), ReadPart(s),
         NEW t \in Session, t # s, ReadPart(t)
  PROVE  ReadPart(t)'
<1>1. TypeOK /\ TryOK(t) /\ new_snapshot(t) \in SnapId
  BY SessionTypes, Zenon DEF LinearInv
<1>2. /\ pc'[t] = pc[t] /\ local'[t] = local[t] /\ rows'[t] = rows[t] /\ op' = op
      /\ hist'[t] = hist[t] /\ result'[t] = result[t] /\ (Effective(t)' <=> Effective(t))
  BY <1>1, EffectiveMoves, Zenon DEF Moves
<1>3. /\ new_snapshot(t)' = new_snapshot(t) /\ Preparing(t)' = Preparing(t) /\ own(t)' = own(t)
      /\ Pending(t)' = Pending(t) /\ Failing(t)' = Failing(t) /\ Inserts(t)' = Inserts(t)
      /\ Compacts(t)' = Compacts(t)
  BY <1>2, Zenon DEF new_snapshot, Preparing, Pending, Failing, Inserts, own, Compacts
<1>4. EffectOK(t)' /\ OutcomePart(t)'
  BY <1>2, <1>3, Zenon DEF ReadPart, EffectOK, OutcomePart
<1>5. OwnDataOK(t)'
  <2>1. Pending(t) => new_snapshot(t) \in files'
    <3>1. new_snapshot(t)[1] = t
      BY Zenon DEF new_snapshot
    <3>2. Pending(t) => new_snapshot(t) \notin Committed /\ new_snapshot(t) \in files
      BY NewIsNew, Zenon DEF ReadPart, OwnDataOK
    <3> QED
      BY <1>1, <3>1, <3>2, Zenon DEF Spares
  <2>2. ASSUME pc[t] \in {"read", "write", "commit", "discard", "backoff"}
        PROVE  own(t) \subseteq segments' \cap blocks'
    <3>1. ~Effective(t)
      BY <2>2, Zenon DEF ReadPart, EffectOK, Preparing, Pending, Failing
    <3>2. own(t) \subseteq segments \cap blocks /\ own(t) \subseteq {t}
      BY <2>2, Zenon DEF ReadPart, OwnDataOK, own
    <3> QED
      BY <3>1, <3>2, Zenon DEF Spares
  <2> QED
    BY <1>2, <1>3, <2>1, <2>2, Zenon DEF ReadPart, OwnDataOK
<1>6. ContentOK(t)'
  BY <1>2, Zenon DEF ReadPart, ContentOK
<1>7. HistOK(t)'
  <2>1. ASSUME pc[t] \in {"history", "gc"}
        PROVE  \E k \in 0 .. Len(commits') :
                 /\ local'[t].loc = IF k = 0 THEN None ELSE commits'[k]
                 /\ Len(hist'[t]) <= k
                 /\ \A i \in DOMAIN hist'[t] : hist'[t][i] = commits'[k + 1 - i]
    <3>1. PICK k \in 0 .. Len(commits) :
                 /\ local[t].loc = IF k = 0 THEN None ELSE commits[k]
                 /\ Len(hist[t]) <= k
                 /\ \A i \in DOMAIN hist[t] : hist[t][i] = commits[k + 1 - i]
      BY <2>1, Zenon DEF ReadPart, HistOK
    <3>2. /\ Len(commits) \in Nat /\ Len(commits') \in Nat /\ Len(commits) <= Len(commits')
          /\ DOMAIN commits = 1 .. Len(commits)
          /\ \A i \in DOMAIN commits : commits'[i] = commits[i]
      BY <1>1, EffectiveMoves, Zenon DEF Moves
    <3>3. k \in 0 .. Len(commits') /\ (k # 0 => commits'[k] = commits[k])
      BY <3>1, <3>2
    <3>4. \A i \in DOMAIN hist[t] : k + 1 - i \in DOMAIN commits
      <4>1. hist[t] \in Seq(SnapId)
        BY <1>1, SessionTypes, Zenon
      <4> QED
        BY <3>1, <3>2, <4>1
    <3>5. \A i \in DOMAIN hist[t] : hist[t][i] = commits'[k + 1 - i]
      BY <3>1, <3>2, <3>4, Zenon
    <3> QED
      BY <1>2, <3>1, <3>3, <3>5, Zenon
  <2>2. History(t)' \subseteq Committed'
    <3>1. History(t) \subseteq Committed /\ Committed \subseteq Committed'
      BY <1>1, EffectiveMoves, Zenon DEF ReadPart, HistOK, Moves
    <3>2. History(t)' = History(t)
      BY <1>2, Zenon DEF History
    <3> QED
      BY <3>1, <3>2, Zenon
  <2> QED
    BY <1>2, <1>3, <2>1, <2>2, Zenon DEF ReadPart, HistOK
<1>8. DoomedOK(t)'
  BY OthersDoomed, Zenon DEF ReadPart
<1> QED
  BY <1>4, <1>5, <1>6, <1>7, <1>8, Zenon DEF ReadPart

\* A step that commits nothing leaves what is known of the commits.
LEMMA TableQuiet ==
  ASSUME LinearInv, Once, NeverReturns, SegmentsAreEffective,
         commits' = commits, \A l \in Committed : snap'[l] = snap[l]
  PROVE  Once' /\ NeverReturns' /\ SegmentsAreEffective'
<1>1. \A i \in DOMAIN commits : snap'[commits[i]] = snap[commits[i]]
  BY Zenon DEF Committed
<1>2. \A g : Effective(g)' = Effective(g)
  BY Zenon DEF Effective
<1>3. Once'
  BY Zenon DEF Once
<1>4. NeverReturns'
  BY <1>1, SMTT(60) DEF NeverReturns
<1>5. SegmentsAreEffective'
  BY <1>1, <1>2, Zenon DEF SegmentsAreEffective
<1> QED
  BY <1>3, <1>4, <1>5, Zenon

\* Sets in a row, none of which has x and where what has left never returns,
\* may be followed by one that has x and elements of the last.
LEMMA StretchExtended ==
  ASSUME NEW n \in Nat, NEW S, NEW T, NEW x, NEW L,
         \A i, j, k \in 1 .. n : i < j /\ j < k => S[i] \cap S[k] \subseteq S[j],
         \A i \in 1 .. n : x \notin S[i] /\ T[i] = S[i],
         T[n + 1] \subseteq {x} \cup L, L = {} \/ (n \in 1 .. n /\ L = S[n])
  PROVE  \A i, j, k \in 1 .. n + 1 : i < j /\ j < k => T[i] \cap T[k] \subseteq T[j]
<1> TAKE i, j, k \in 1 .. n + 1
<1> HAVE i < j /\ j < k
<1>1. i \in 1 .. n /\ j \in 1 .. n /\ (k \in 1 .. n \/ k = n + 1)
  OBVIOUS
<1>2. CASE k \in 1 .. n
  BY <1>1, <1>2, Zenon
<1>3. CASE k = n + 1
  <2>1. S[i] \cap T[k] \subseteq S[i] \cap L
    BY <1>1, <1>3
  <2>2. CASE j = n
    BY <1>1, <2>1, <2>2, Zenon
  <2>3. CASE j # n /\ L # {}
    <3>1. n \in 1 .. n /\ L = S[n] /\ j < n
      BY <1>1, <2>3
    <3>2. S[i] \cap S[n] \subseteq S[j]
      BY <1>1, <3>1, Zenon
    <3> QED
      BY <1>1, <2>1, <3>1, <3>2, Zenon
  <2> QED
    BY <1>1, <2>1, <2>2, <2>3, Zenon
<1> QED
  BY <1>1, <1>2, <1>3, Zenon

\* A commit keeps what is known of the commits: the statement had not taken
\* effect, and the segments it does not write itself are in the last snapshot.
LEMMA TableCommit ==
  ASSUME LinearInv, TablePart, NEW s \in Session, pc[s] = "commit", upsert_table_option(s), snap' = snap,
         ~Effective(s)
  PROVE  Once' /\ NeverReturns' /\ SegmentsAreEffective'
<1>0. TypeOK /\ HistoryIsLinear
  BY Zenon DEF LinearInv
<1>a. PICK n : n = Len(commits)
  OBVIOUS
<1>b. PICK S : S = [i \in 1 .. n |-> snap[commits[i]].segs]
  OBVIOUS
<1>c. PICK T : T = [i \in 1 .. n + 1 |-> snap'[commits'[i]].segs]
  OBVIOUS
<1>1. /\ n \in Nat /\ DOMAIN commits = 1 .. n /\ DOMAIN commits' = 1 .. n + 1
      /\ \A i \in 1 .. n : commits'[i] = commits[i]
      /\ commits'[n + 1] = new_snapshot(s)
  BY <1>0, <1>a, CommitAppended, Zenon
<1>d. new_snapshot(s)[1] = s
  BY Zenon DEF new_snapshot
<1>2. snap[new_snapshot(s)].segs \subseteq {s} \cup SegmentsOf(loc)
  BY <1>0, CommitSegments, Zenon
<1>3. \A i \in 1 .. n : commits[i][1] # s
  BY <1>1, Zenon DEF Effective
<1>4. \A i \in 1 .. n + 1 : i \in 1 .. n \/ i = n + 1
  BY <1>1
<1>5. \A i \in 1 .. n : S[i] = snap[commits[i]].segs /\ T[i] = S[i]
  BY <1>1, <1>b, <1>c
<1>6. T[n + 1] = snap[new_snapshot(s)].segs
  BY <1>1, <1>c
<1>7. Once'
  BY <1>1, <1>3, <1>d, <1>4, SMTT(60) DEF TablePart, Once
<1>8. \A i \in 1 .. n : s \notin S[i] /\ \A g \in S[i] : g \in Session /\ Effective(g)
  <2>1. \A i \in 1 .. n : S[i] \subseteq Session
    BY <1>0, <1>1, <1>5, CommitTypes, Zenon DEF TypeOK
  <2> QED
    BY <1>1, <1>5, <2>1, Zenon DEF TablePart, SegmentsAreEffective
<1>9. SegmentsOf(loc) = {} \/ (n \in 1 .. n /\ SegmentsOf(loc) = S[n])
  BY <1>0, <1>1, <1>5, <1>a, CurrentIsCommitted, Zenon DEF SegmentsOf
<1>10. NeverReturns'
  <2>1. ASSUME NEW i \in 1 .. n, NEW j \in 1 .. n, NEW k \in 1 .. n, i < j, j < k
        PROVE  S[i] \cap S[k] \subseteq S[j]
    <3>1. snap[commits[i]].segs \cap snap[commits[k]].segs \subseteq snap[commits[j]].segs
      BY <1>1, <2>1, Zenon DEF TablePart, NeverReturns
    <3>2. S[i] = snap[commits[i]].segs /\ S[j] = snap[commits[j]].segs /\ S[k] = snap[commits[k]].segs
      BY <1>5, Zenon
    <3> QED
      BY <3>1, <3>2, Zenon
  <2>a. /\ \A i \in 1 .. n : s \notin S[i] /\ T[i] = S[i]
        /\ n \in Nat /\ T[n + 1] \subseteq {s} \cup SegmentsOf(loc)
    BY <1>1, <1>2, <1>5, <1>6, <1>8, Zenon
  <2>b. PICK L : L = SegmentsOf(loc)
    OBVIOUS
  <2>2. \A i, j, k \in 1 .. n + 1 : i < j /\ j < k => T[i] \cap T[k] \subseteq T[j]
    <3>1. T[n + 1] \subseteq {s} \cup L /\ (L = {} \/ (n \in 1 .. n /\ L = S[n]))
      BY <1>9, <2>a, <2>b, Zenon
    <3> QED
      BY <2>1, <2>a, <3>1, StretchExtended
  <2>3. \A i \in 1 .. n + 1 : T[i] = snap'[commits'[i]].segs
    BY <1>c, Zenon
  <2> QED
    BY <1>1, <2>2, <2>3, SMTT(60) DEF NeverReturns
<1>11. SegmentsAreEffective'
  <2>1. Effective(s)' /\ \A g \in Session : Effective(g) => Effective(g)'
    BY <1>0, EffectiveMoves, Zenon
  <2>2. \A i \in 1 .. n + 1 : \A g \in T[i] : Effective(g)'
    BY <1>2, <1>4, <1>5, <1>6, <1>8, <1>9, <2>1, Zenon
  <2>3. \A i \in 1 .. n + 1 : T[i] = snap'[commits'[i]].segs
    BY <1>c, Zenon
  <2> QED
    BY <1>1, <2>2, <2>3, Zenon DEF SegmentsAreEffective
<1> QED
  BY <1>7, <1>10, <1>11, Zenon

-----------------------------------------------------------------------------
(* What has to be shown of a step: something of the statement that takes it *)

\* FuseInv after a step of s, from what holds of s and of the current snapshot.
LEMMA StepKeeps ==
  ASSUME FuseInv, LinearInv', NEW s \in Session, Moves(s), OkPart(s)',
         "undeleted" \notin Fault => AbortPart(s)',
         Reliable => /\ Spares(s) /\ ReadPart(s)' /\ CurrentIsReadable'
                     /\ commits' = commits \/ (pc[s] = "commit" /\ snap' = snap)
  PROVE  FuseInv'
<1>1. /\ LinearInv /\ TypeOK /\ TypeOK'
      /\ \A t \in Session : OkPart(t)
      /\ "undeleted" \notin Fault => \A t \in Session : AbortPart(t)
      /\ Reliable => TablePart /\ \A t \in Session : ReadPart(t)
  BY PartsOfInv, Zenon DEF LinearInv
<1>2. \A t \in Session : OkPart(t)'
  BY <1>1, OthersOk, Zenon
<1>3. "undeleted" \notin Fault => \A t \in Session : AbortPart(t)'
  BY <1>1, OthersAbort, Zenon
<1>4. Reliable => \A t \in Session : ReadPart(t)'
  BY <1>1, OthersRead, Zenon
<1>5. ASSUME Reliable PROVE TablePart'
  <2>1. CASE commits' = commits
    BY <1>1, <1>5, <2>1, TableQuiet, Zenon DEF TablePart, Moves
  <2>2. CASE pc[s] = "commit" /\ upsert_table_option(s) /\ snap' = snap
    <3>1. ~Effective(s)
      BY <1>1, <1>5, <2>2, Zenon DEF ReadPart, EffectOK, Pending
    <3> QED
      BY <1>1, <1>5, <2>2, <3>1, TableCommit, Zenon DEF TablePart
  <2> QED
    BY <1>5, <2>1, <2>2, Zenon DEF Moves
<1> QED
  BY <1>2, <1>3, <1>4, <1>5, InvOfParts, Zenon

\* What a truncation had in its history when it removes it.
LEMMA TruncatedKept ==
  ASSUME FuseInv, Reliable, NEW s \in Session, Moves(s),
         NEW t \in Session, hist'[t] = hist[t], HalfTruncated(t)'
  PROVE  /\ \A l \in History(t) : l \in Truncated(t)'
         /\ \A g \in HistorySegments(t) : g \in TruncatedSegments(t)'
<1>1. LinearInv /\ History(t) \subseteq Committed
  BY PartsOfInv, Zenon DEF ReadPart, HistOK
<1>2. History(t)' = History(t) /\ HistorySegments(t)' = HistorySegments(t)
  BY <1>1, HistoryKept, Zenon DEF Moves
<1> QED
  BY <1>2, Zenon DEF Truncated, TruncatedSegments

\* The current snapshot stays readable unless something of it is removed, and
\* then a truncation has done that.
LEMMA StillReadable ==
  ASSUME FuseInv, Reliable, NEW s \in Session, Moves(s), loc' = loc,
         HalfTruncated(s) => HalfTruncated(s)' /\ hist'[s] = hist[s],
         \/ loc \in files => loc \in files'
         \/ HalfTruncated(s)' /\ hist'[s] = hist[s] /\ loc \in History(s),
         \A g \in SegmentsOf(loc) \cap segments \cap blocks :
            \/ g \in segments' \cap blocks'
            \/ HalfTruncated(s)' /\ hist'[s] = hist[s] /\ g \in HistorySegments(s)
  PROVE  CurrentIsReadable'
<1> SUFFICES ASSUME loc' # None
             PROVE  /\ loc' \in files' \/ \E t \in Session : loc' \in Truncated(t)'
                    /\ \A g \in SegmentsOf(loc)' :
                         g \in segments' \cap blocks' \/ \E t \in Session : g \in TruncatedSegments(t)'
  BY Zenon DEF CurrentIsReadable
<1>1. LinearInv /\ TypeOK /\ HistoryIsLinear /\ CurrentIsReadable
  BY PartsOfInv, Zenon DEF TablePart, LinearInv
<1>2. SegmentsOf(loc)' = SegmentsOf(loc)
  BY <1>1, CurrentIsCommitted, Zenon DEF SegmentsOf, Moves
<1>3. ASSUME NEW t \in Session, HalfTruncated(t)
      PROVE  HalfTruncated(t)' /\ hist'[t] = hist[t]
  BY <1>3, Zenon DEF HalfTruncated, Moves
<1>4. ASSUME NEW t \in Session
      PROVE  /\ \A l \in Truncated(t) : l \in Truncated(t)'
             /\ \A g \in TruncatedSegments(t) : g \in TruncatedSegments(t)'
  <2>1. CASE HalfTruncated(t)
    BY <1>3, <2>1, TruncatedKept, Zenon DEF Truncated, TruncatedSegments
  <2>2. CASE ~HalfTruncated(t)
    BY <2>2, Zenon DEF Truncated, TruncatedSegments
  <2> QED
    BY <2>1, <2>2, Zenon
<1>5. loc \in files' \/ \E t \in Session : loc \in Truncated(t)'
  BY <1>1, <1>4, TruncatedKept, Zenon DEF CurrentIsReadable
<1>6. ASSUME NEW g \in SegmentsOf(loc)
      PROVE  g \in segments' \cap blocks' \/ \E t \in Session : g \in TruncatedSegments(t)'
  <2>1. CASE g \in segments \cap blocks
    BY <1>6, <2>1, TruncatedKept, Zenon
  <2>2. CASE \E t \in Session : g \in TruncatedSegments(t)
    BY <1>4, <2>2, Zenon
  <2> QED
    BY <1>1, <1>6, <2>1, <2>2, Zenon DEF CurrentIsReadable
<1> QED
  BY <1>2, <1>5, <1>6, Zenon

\* The other statements see nothing of a step but the store and the record.
LEMMA OnlyOwn ==
  ASSUME TypeOK, TypeOK', NEW s \in Session, op' = op,
         \/ \E l \in Pcs, v \in Locals : Continue(s, l, v)
         \/ \E r \in {"none", "ok", "aborted", "error", "stopped"} : Finish(s, r),
         \A t \in Session : t # s => rows'[t] = rows[t] /\ hist'[t] = hist[t],
         segments' \subseteq segments \cup {s}, blocks' \subseteq blocks \cup {s},
         files' \subseteq files \cup {new_snapshot(s)},
         \A l \in Committed : snap'[l] = snap[l],
         commits' = commits \/ upsert_table_option(s)
  PROVE  Moves(s)
<1>1. \A t \in Session : t # s =>
        pc'[t] = pc[t] /\ local'[t] = local[t] /\ result'[t] = result[t]
  BY SMTT(60), Zenon DEF Continue, Finish, TypeOK
<1>2. \A l \in SnapId : l[1] # s => (l \in files' => l \in files)
  <2>1. new_snapshot(s)[1] = s
    BY Zenon DEF new_snapshot
  <2> QED
    BY <2>1, Zenon
<1> QED
  BY <1>1, <1>2, Zenon DEF Moves

\* A statement that ends, having removed at most its own snapshot.
LEMMA EndKeeps ==
  ASSUME FuseInv, LinearInv', NEW s \in Session, Moves(s), UNCHANGED <<rows, segments, blocks>>,
         hist'[s] = hist[s] \/ hist'[s] = << >>,
         NEW r \in {"ok", "aborted", "error", "stopped"}, Finish(s, r),
         files' \subseteq files,
         r = "ok" => /\ Inserts(s) => Effective(s)'
                     /\ Truncates(s) /\ <<s, 0>> \in files => Effective(s)',
         r = "aborted" /\ "undeleted" \notin Fault =>
             s \notin segments \cup blocks /\ \A l \in files : l[1] # s,
         Reliable => /\ Spares(s) /\ CurrentIsReadable'
                     /\ commits' = commits \/ (pc[s] = "commit" /\ snap' = snap)
                     /\ op[s] \in {"purge", "drop"} => ~Effective(s)'
                     /\ r = "aborted" \/ (r = "error" /\ op[s] # "all") => ~Effective(s)'
  PROVE  FuseInv'
<1>1. LinearInv /\ TypeOK /\ op' = op
  BY PartsOfInv, Zenon DEF Moves
<1>2. pc'[s] = "done" /\ local'[s] = NoLocals /\ result'[s] = r /\ NoLocals.doomed = Nothing
  BY <1>1, Finished, NoLocalsType, Zenon
<1>3. OkPart(s)'
  BY <1>1, <1>2, Zenon DEF OkPart, OkOK, Preparing, Inserts, Truncates
<1>4. ASSUME "undeleted" \notin Fault PROVE AbortPart(s)'
  <2>1. LeftoversOK(s)
    BY <1>4, PartsOfInv, Zenon DEF AbortPart
  <2>2. LeftoversOK(s)'
    BY <1>1, <1>2, <2>1, Zenon DEF LeftoversOK, Preparing, Inserts
  <2> QED
    BY <1>2, <1>4, <2>2, Zenon DEF AbortPart
<1>5. ASSUME Reliable PROVE ReadPart(s)'
  <2>1. OwnDataOK(s) /\ ContentOK(s) /\ HistOK(s)
    BY <1>5, PartsOfInv, Zenon DEF ReadPart
  <2>a. History(s)' \subseteq Committed'
    <3>1. History(s) \subseteq Committed /\ Committed \subseteq Committed'
      BY <1>1, <2>1, EffectiveMoves, Zenon DEF HistOK, Moves
    <3>2. History(s)' = History(s) \/ History(s)' = {}
      <4>1. DOMAIN << >> = {}
        OBVIOUS
      <4> QED
        BY <4>1, Zenon DEF History
    <3> QED
      BY <3>1, <3>2, Zenon
  <2>2. EffectOK(s)' /\ OutcomePart(s)' /\ HistOK(s)' /\ DoomedOK(s)'
    BY <1>1, <1>2, <1>5, <2>a, Zenon DEF EffectOK, OutcomePart, HistOK, DoomedOK, Preparing, Pending, Failing
  <2>3. ContentOK(s)'
    BY <1>1, <2>1, Zenon DEF ContentOK
  <2>4. OwnDataOK(s)'
    BY <1>1, <1>2, <2>1, Zenon DEF OwnDataOK, Pending, Inserts
  <2> QED
    BY <2>2, <2>3, <2>4, Zenon DEF ReadPart
<1> QED
  BY <1>3, <1>4, <1>5, StepKeeps, Zenon

\* A statement that ends and changes nothing else.
LEMMA QuietEnd ==
  ASSUME FuseInv, LinearInv', NEW s \in Session, UNCHANGED <<record, store, op, rows>>,
         \A t \in Session : t # s => hist'[t] = hist[t],
         hist'[s] = hist[s] \/ (hist'[s] = << >> /\ pc[s] \in {"history", "gc"}),
         NEW r \in {"ok", "aborted", "error", "stopped"}, Finish(s, r),
         r = "ok" => /\ Inserts(s) => Effective(s)
                     /\ Truncates(s) /\ <<s, 0>> \in files => Effective(s),
         Reliable /\ r = "ok" => ~HalfTruncated(s),
         r = "aborted" /\ "undeleted" \notin Fault =>
             s \notin segments \cup blocks /\ \A l \in files : l[1] # s,
         Reliable /\ (r = "aborted" \/ (r = "error" /\ op[s] # "all")) => ~Effective(s)
  PROVE  FuseInv'
<1>1. /\ LinearInv /\ TypeOK /\ TypeOK' /\ commits' = commits /\ loc' = loc
      /\ snap' = snap /\ files' = files /\ segments' = segments /\ blocks' = blocks
  BY PartsOfInv, Zenon DEF LinearInv, record, store
<1>2. Moves(s) /\ Spares(s)
  <2>1. Moves(s)
    BY <1>1, OnlyOwn, Zenon
  <2> QED
    BY <1>1, <2>1, Zenon DEF Spares
<1>3. Effective(s)' = Effective(s)
  BY <1>1, Zenon DEF Effective
<1>4. ASSUME Reliable PROVE CurrentIsReadable'
  <2>1. result'[s] = r /\ pc'[s] = "done"
    BY <1>1, Finished, Zenon
  <2>2. HalfTruncated(s) => HalfTruncated(s)' /\ hist'[s] = hist[s]
    BY <1>4, <2>1, Zenon DEF HalfTruncated
  <2> QED
    BY <1>1, <1>2, <1>4, <2>2, StillReadable, Zenon
<1>5. Reliable /\ op[s] \in {"purge", "drop"} => ~Effective(s)
  BY PartsOfInv, Zenon DEF ReadPart, EffectOK
<1> QED
  BY <1>1, <1>2, <1>3, <1>4, <1>5, EndKeeps, Zenon

\* A handle leads to a place in the history.
LEMMA StartOfHistory ==
  ASSUME TypeOK, NEW x \in Committed \cup {None}
  PROVE  \E k \in 0 .. Len(commits) :
           /\ x = IF k = 0 THEN None ELSE commits[k]
           /\ Len(<< >>) <= k
           /\ \A i \in DOMAIN << >> : << >>[i] = commits[k + 1 - i]
<1>0. commits \in Seq(SnapId) /\ Len(<< >>) = 0 /\ DOMAIN << >> = {}
  BY DEF TypeOK
<1>1. \E k \in 0 .. Len(commits) : x = IF k = 0 THEN None ELSE commits[k]
  BY <1>0 DEF Committed
<1>2. \A k \in 0 .. Len(commits) : 0 <= k
  BY <1>0
<1> QED
  BY <1>0, <1>1, <1>2, Zenon

\* A statement goes on at l with locals v: what that requires.
Prepares(l) == l \in {"idle", "data", "read", "write"}
HasData(l) == l \in {"read", "write", "commit", "discard", "backoff"}
Awaits(s, l) == l = "commit" \/ (op[s] = "truncate_purge" /\ l \in {"history", "gc", "remove"})

Edge(s, l, v) ==
  /\ op[s] = "all" /\ l \in {"refresh", "history", "gc", "remove"} => Effective(s)
  /\ Truncates(s) /\ Prepares(l) => Preparing(s)
  /\ l \in {"idle", "data"} => pc[s] \in {"idle", "data"}
  /\ Inserts(s) /\ (Prepares(l) \/ l \in {"backoff", "abort"}) =>
       Preparing(s) \/ pc[s] \in {"backoff", "abort"}
  /\ Inserts(s) /\ l \in {"commit", "discard"} =>
       pc[s] \in {"commit", "discard"} /\ v.tries = local[s].tries
  /\ l = "abort" => own(s) \subseteq v.doomed.segs /\ own(s) \subseteq v.doomed.blocks

ReadEdge(s, l, v) ==
  /\ Prepares(l) \/ Awaits(s, l) \/ l \in {"discard", "backoff", "abort"} => ~Effective(s)
  /\ HasData(l) => HasData(pc[s]) \/ rows[s] = {}
  /\ Awaits(s, l) => Pending(s) /\ v.tries = local[s].tries
  /\ (l \notin {"abort", "remove"} /\ v.doomed = Nothing) \/ DoomedOK(s)'
  /\ (hist'[s] = << >> /\ v.loc \in Committed \cup {None}) \/ HistOK(s)'
  /\ op[s] = "truncate_purge" /\ pc[s] \in {"remove", "commit"} =>
       l \in {"remove", "commit"} /\ hist'[s] = hist[s]

\* A statement that goes on and changes nothing but what it knows.
LEMMA QuietGo ==
  ASSUME FuseInv, LinearInv', NEW s \in Session, UNCHANGED <<record, store, op, rows>>,
         pc[s] # "done", NEW l \in Pcs, NEW v \in Locals, Continue(s, l, v),
         \A t \in Session : t # s => hist'[t] = hist[t],
         Edge(s, l, v), Reliable => ReadEdge(s, l, v)
  PROVE  FuseInv'
<1>1. /\ LinearInv /\ TypeOK /\ TypeOK' /\ commits' = commits /\ loc' = loc /\ op' = op
      /\ snap' = snap /\ files' = files /\ segments' = segments /\ blocks' = blocks /\ rows' = rows
  BY PartsOfInv, Zenon DEF LinearInv, record, store
<1>2. Moves(s) /\ Spares(s)
  <2>1. Moves(s)
    BY <1>1, OnlyOwn, Zenon
  <2> QED
    BY <1>1, <2>1, Zenon DEF Spares
<1>3. /\ result' = result /\ result[s] = "none" /\ pc'[s] = l /\ local'[s] = v
      /\ Effective(s)' = Effective(s) /\ own(s)' = own(s) /\ SnapshotsOf(s)' = SnapshotsOf(s)
      /\ Inserts(s)' = Inserts(s) /\ Truncates(s)' = Truncates(s)
  BY <1>1, PartsOfInv, Continued, Zenon
  DEF Continue, OkPart, OkOK, Effective, own, SnapshotsOf, Inserts, Truncates
<1>4. OkPart(s)'
  <2>1. OkOK(s)
    BY PartsOfInv, Zenon DEF OkPart
  <2> QED
    BY <1>1, <1>3, <2>1, Zenon DEF OkPart, OkOK, Edge, Preparing, Prepares
<1>5. ASSUME "undeleted" \notin Fault PROVE AbortPart(s)'
  <2>1. LeftoversOK(s)
    BY <1>5, PartsOfInv, Zenon DEF AbortPart
  <2>2. v.tries = local[s].tries => new_snapshot(s)' = new_snapshot(s)
    BY <1>3, Zenon DEF new_snapshot
  <2>3. l = "abort" => {s} \cap segments \subseteq own(s) /\ {s} \cap blocks \subseteq own(s)
    BY <2>1, Zenon DEF LeftoversOK, own
  <2>4. LeftoversOK(s)'
    BY <1>1, <1>3, <2>1, <2>2, <2>3, Zenon DEF LeftoversOK, Edge, Preparing, Prepares
  <2> QED
    BY <1>3, <2>4, Zenon DEF AbortPart
<1>6. ASSUME Reliable PROVE ReadPart(s)' /\ CurrentIsReadable'
  <2>1. EffectOK(s) /\ OwnDataOK(s) /\ ContentOK(s)
    BY <1>6, PartsOfInv, Zenon DEF ReadPart
  <2>2. ContentOK(s)'
    BY <1>1, <2>1, Zenon DEF ContentOK
  <2>3. HalfTruncated(s) => HalfTruncated(s)' /\ hist'[s] = hist[s]
    BY <1>1, <1>3, <1>6, Zenon DEF HalfTruncated, ReadEdge
  <2>5. CurrentIsReadable'
    BY <1>1, <1>2, <1>6, <2>3, StillReadable, Zenon
  <2>6. EffectOK(s)'
    BY <1>1, <1>3, <1>6, <2>1, Zenon
    DEF EffectOK, ReadEdge, Preparing, Prepares, Pending, Awaits, Failing
  <2>7. OwnDataOK(s)'
    <3>1. Awaits(s, l) => new_snapshot(s)' = new_snapshot(s) /\ Pending(s)
      BY <1>3, <1>6, Zenon DEF new_snapshot, ReadEdge
    <3>2. rows[s] = {} => own(s) = {}
      BY Zenon DEF own
    <3> QED
      BY <1>1, <1>3, <1>6, <2>1, <3>1, <3>2, Zenon
      DEF OwnDataOK, ReadEdge, Edge, HasData, Pending, Awaits
  <2>8. DoomedOK(s)'
    BY <1>3, <1>6, Zenon DEF DoomedOK, ReadEdge
  <2>9. HistOK(s)'
    <3>1. ASSUME hist'[s] = << >>, v.loc \in Committed \cup {None}
          PROVE  HistOK(s)'
      <4>1. \E k \in 0 .. Len(commits) :
              /\ v.loc = IF k = 0 THEN None ELSE commits[k]
              /\ Len(<< >>) <= k
              /\ \A i \in DOMAIN << >> : << >>[i] = commits[k + 1 - i]
        BY <1>1, <3>1, StartOfHistory, Zenon
      <4>2. DOMAIN << >> = {}
        OBVIOUS
      <4>3. History(s)' = {}
        BY <3>1, <4>2, Zenon DEF History
      <4> QED
        BY <1>1, <1>3, <3>1, <4>1, <4>3, ZenonT(40) DEF HistOK
    <3> QED
      BY <1>6, <3>1, Zenon DEF ReadEdge
  <2> QED
    BY <1>3, <2>2, <2>5, <2>6, <2>7, <2>8, <2>9, Zenon DEF ReadPart, OutcomePart
<1> QED
  BY <1>1, <1>2, <1>4, <1>5, <1>6, StepKeeps, Zenon

-----------------------------------------------------------------------------
(* Action by action *)

\* A statement that stops half way.
LEMMA StopKeeps ==
  ASSUME FuseInv, LinearInv', NEW s \in Session, Stop(s)
  PROVE  FuseInv'
<1>1. /\ \A t \in Session : t # s => hist'[t] = hist[t]
      /\ hist'[s] = hist[s] \/ (hist'[s] = << >> /\ pc[s] \in {"history", "gc"})
  <2>1. hist \in [Session -> Seq(SnapId)]
    BY PartsOfInv, Zenon DEF TypeOK
  <2>2. CASE pc[s] \in {"history", "gc"}
    BY <2>1, <2>2, Zenon DEF Stop
  <2>3. CASE pc[s] \notin {"history", "gc"}
    BY <2>1, <2>3, Zenon DEF Stop
  <2> QED
    BY <2>2, <2>3, Zenon
<1> QED
  BY <1>1, QuietEnd, Zenon DEF Stop

\* What FuseInv says of one statement.
LEMMA PartsOf ==
  ASSUME FuseInv, NEW s \in Session
  PROVE  /\ LinearInv /\ TypeOK /\ HistoryIsLinear /\ StepsOK(s) /\ HandleOK(s) /\ TryOK(s)
         /\ OkOK(s) /\ op[s] \in Ops /\ local[s] \in Locals
         /\ "undeleted" \notin Fault => LeftoversOK(s)
         /\ Reliable => EffectOK(s) /\ OwnDataOK(s) /\ HistOK(s) /\ DoomedOK(s)
BY PartsOfInv, SessionTypes, Zenon DEF LinearInv, OkPart, AbortPart, ReadPart

\* get_table: the statement starts, or ends because there is no table.
LEMMA get_tableKeeps ==
  ASSUME FuseInv, LinearInv', NEW s \in Session, get_table(s)
  PROVE  FuseInv'
<1>1. /\ TypeOK /\ HistoryIsLinear /\ op[s] \in Ops
      /\ Reliable => EffectOK(s) /\ OwnDataOK(s) /\ HistOK(s) /\ DoomedOK(s)
  BY PartsOf, Zenon
<1>2. pc[s] = "idle" /\ UNCHANGED <<record, store, cached, op, rows, hist>>
  BY Zenon DEF get_table
<1>3. Reliable => /\ ~Effective(s) /\ rows[s] = {} /\ hist[s] = << >>
                  /\ local[s].doomed = Nothing
  BY <1>1, <1>2, Zenon DEF EffectOK, Preparing, OwnDataOK, HistOK, DoomedOK
<1>4. CASE Finish(s, "error")
  BY <1>2, <1>3, <1>4, QuietEnd, Zenon
<1>5. CASE op[s] = "drop" /\ Finish(s, "ok")
  BY <1>2, <1>3, <1>5, QuietEnd, Zenon DEF Inserts, Truncates, HalfTruncated
<1>6. CASE seq # 0 /\ Continue(s, first_step(s), latest(s))
  <2>1. PICK l : l = first_step(s)
    OBVIOUS
  <2>2. /\ l \in Pcs
        /\ \/ Inserts(s) /\ l = "data"
           \/ Truncates(s) /\ l = "read"
           \/ op[s] = "purge" /\ l = "history"
           \/ op[s] = "drop" /\ l = "drop"
    BY <1>1, <2>1, Zenon DEF Ops, Inserts, Truncates, first_step, Pcs
  <2>3. /\ latest(s) \in Locals /\ latest(s).loc \in Committed \cup {None}
        /\ latest(s).doomed = local[s].doomed
    BY <1>1, LatestOK, Zenon
  <2>4. Edge(s, l, latest(s))
    BY <1>2, <2>2, Zenon DEF Edge, Preparing, Prepares, Inserts, Truncates
  <2>5. Reliable => ReadEdge(s, l, latest(s))
    BY <1>2, <1>3, <2>2, <2>3, Zenon DEF ReadEdge, Prepares, Awaits, HasData, Inserts, Truncates
  <2> QED
    BY <1>2, <1>6, <2>1, <2>2, <2>3, <2>4, <2>5, QuietGo, Zenon
<1> QED
  BY <1>4, <1>5, <1>6, Zenon DEF get_table

\* A compaction that cannot read its rows ends.
LEMMA select_failsKeeps ==
  ASSUME FuseInv, LinearInv', NEW s \in Session, select_fails(s)
  PROVE  FuseInv'
<1>1. /\ pc[s] = "data" /\ Finish(s, "error")
      /\ UNCHANGED <<record, store, cached, op, rows, hist>>
  BY Zenon DEF select_fails
<1>2. Reliable => ~Effective(s)
  BY <1>1, PartsOf, Zenon DEF EffectOK, Preparing
<1> QED
  BY <1>1, <1>2, QuietEnd, Zenon

\* read_table_snapshot: the statement goes on to write, or ends.
LEMMA read_table_snapshotKeeps ==
  ASSUME FuseInv, LinearInv', NEW s \in Session, read_table_snapshot(s)
  PROVE  FuseInv'
<1>1. pc[s] = "read" /\ UNCHANGED <<record, store, op, rows, hist>>
  BY Zenon DEF read_table_snapshot
<1>2. /\ OkOK(s) /\ HandleOK(s) /\ local[s] \in Locals /\ "write" \in Pcs
      /\ Reliable => ~Effective(s) /\ hist[s] = << >> /\ local[s].doomed = Nothing
  BY <1>1, PartsOf, Zenon DEF EffectOK, HistOK, DoomedOK, Preparing, Pcs
<1>3. CASE Truncates(s) /\ Finish(s, "ok")
  <2>1. <<s, 0>> \notin files /\ ~Inserts(s)
    BY <1>1, <1>2, <1>3, Zenon DEF OkOK, Preparing, Inserts, Truncates
  <2>2. ~HalfTruncated(s)
    BY <1>1, Zenon DEF HalfTruncated
  <2> QED
    BY <1>1, <1>2, <1>3, <2>1, <2>2, QuietEnd, Zenon
<1>4. CASE Finish(s, "error")
  BY <1>1, <1>2, <1>4, QuietEnd, Zenon
<1>5. CASE Continue(s, "write", local[s])
  <2>1. Edge(s, "write", local[s])
    BY <1>1, Zenon DEF Edge, Preparing, Prepares
  <2>2. Reliable => ReadEdge(s, "write", local[s])
    BY <1>1, <1>2, Zenon DEF ReadEdge, Prepares, Awaits, HasData, HandleOK
  <2> QED
    BY <1>1, <1>2, <1>5, <2>1, <2>2, QuietGo, Zenon
<1> QED
  BY <1>3, <1>4, <1>5, Zenon DEF read_table_snapshot

\* retry: a new try, with a handle read again.
LEMMA retryKeeps ==
  ASSUME FuseInv, LinearInv', NEW s \in Session, retry(s)
  PROVE  FuseInv'
<1> DEFINE w == [latest(s) EXCEPT !.reply = "none", !.tries = @ + 1]
<1>1. /\ pc[s] = "backoff" /\ local[s].tries < MaxRetries
      /\ UNCHANGED <<record, store, cached, op, rows, hist>>
      /\ Finish(s, "error") \/ Continue(s, "read", w)
  BY Zenon DEF retry
<1>2. /\ TypeOK /\ HistoryIsLinear /\ StepsOK(s) /\ Inserts(s) /\ latest(s) \in Locals
      /\ loc \in Committed \cup {None}
      /\ Reliable => ~Effective(s) /\ hist[s] = << >> /\ latest(s).doomed = Nothing
  BY <1>1, PartsOf, LatestOK, Zenon DEF EffectOK, HistOK, DoomedOK, Failing, StepsOK
<1>3. CASE Finish(s, "error")
  BY <1>1, <1>2, <1>3, QuietEnd, Zenon
<1>4. w \in Locals /\ w.loc = loc /\ w.doomed = latest(s).doomed
  <2>1. local[s].tries \in Nat /\ latest(s).tries = local[s].tries /\ latest(s).loc = loc
    BY <1>2, SessionTypes, LatestOK, Zenon
  <2>2. local[s].tries + 1 \in 0 .. MaxRetries
    BY <1>1, <2>1, FuseAssumption
  <2> QED
    BY <1>2, <2>1, <2>2, Zenon DEF Locals
<1>5. PICK v \in Locals : v = w
  BY <1>4, Zenon
<1>6. "read" \in Pcs /\ ~Truncates(s)
  BY <1>2, Zenon DEF Pcs, Inserts, Truncates
<1>7. Edge(s, "read", v)
  BY <1>1, <1>6, Zenon DEF Edge, Preparing, Prepares
<1>8. Reliable => ReadEdge(s, "read", v)
  BY <1>1, <1>2, <1>4, <1>5, <1>6, Zenon DEF ReadEdge, Prepares, Awaits, HasData
<1> QED
  BY <1>1, <1>3, <1>5, <1>6, <1>7, <1>8, QuietGo, Zenon

\* give_up: the statement is going to remove its own data.
LEMMA give_upKeeps ==
  ASSUME FuseInv, LinearInv', NEW s \in Session, give_up(s)
  PROVE  FuseInv'
<1> DEFINE w == [local[s] EXCEPT !.doomed.blocks = own(s), !.doomed.segs = own(s)]
<1>1. pc[s] = "backoff" /\ Continue(s, "abort", w) /\ UNCHANGED <<record, store, cached, op, rows, hist>>
  BY Zenon DEF give_up
<1>2. /\ TypeOK /\ HandleOK(s) /\ StepsOK(s) /\ Inserts(s) /\ local[s] \in Locals
      /\ Reliable => ~Effective(s) /\ hist[s] = << >> /\ local[s].doomed = Nothing
  BY <1>1, PartsOf, Zenon DEF EffectOK, HistOK, DoomedOK, Failing, StepsOK
<1>3. own(s) \subseteq {s} /\ own(s) \subseteq Session
  BY Zenon DEF own
<1>4. /\ w \in Locals /\ w.doomed.blocks = own(s) /\ w.doomed.segs = own(s)
      /\ w.doomed.snaps = local[s].doomed.snaps /\ w.loc = local[s].loc
  BY <1>2, <1>3, Zenon DEF Locals
<1>5. PICK v \in Locals : v = w
  BY <1>4, Zenon
<1> HIDE DEF w
<1>6. "abort" \in Pcs /\ ~Truncates(s) /\ op[s] # "truncate_purge"
  BY <1>2, Zenon DEF Pcs, Inserts, Truncates
<1>7. Edge(s, "abort", v)
  BY <1>1, <1>4, <1>5, <1>6, Zenon DEF Edge, Prepares
<1>8. ASSUME Reliable PROVE ReadEdge(s, "abort", v)
  <2>1. pc'[s] = "abort" /\ local'[s] = v
    BY <1>1, <1>2, <1>5, <1>6, Continued, Zenon
  <2>2. DoomedOK(s)'
    <3>1. v.doomed.snaps = << >> /\ v.doomed.blocks \cup v.doomed.segs \subseteq {s}
      BY <1>2, <1>3, <1>4, <1>5, <1>8 DEF Nothing
    <3> QED
      BY <2>1, <3>1, Zenon DEF DoomedOK, Garbage
  <2> QED
    BY <1>1, <1>2, <1>4, <1>5, <1>6, <1>8, <2>2, Zenon DEF ReadEdge, Prepares, Awaits, HasData, HandleOK
<1> QED
  BY <1>1, <1>5, <1>6, <1>7, <1>8, QuietGo, Zenon

\* refresh: OPTIMIZE ALL goes on to purge, with a handle read again.
LEMMA refreshKeeps ==
  ASSUME FuseInv, LinearInv', NEW s \in Session, refresh(s)
  PROVE  FuseInv'
<1>1. /\ pc[s] = "refresh" /\ UNCHANGED <<record, store, cached, op, rows, hist>>
      /\ Finish(s, "error") \/ Continue(s, "history", latest(s))
  BY Zenon DEF refresh
<1>a. OkOK(s) /\ StepsOK(s) /\ (Reliable => HistOK(s) /\ DoomedOK(s))
  BY PartsOf, Zenon
<1>b. op[s] = "all" /\ Effective(s)
  BY <1>1, <1>a, Zenon DEF OkOK, StepsOK
<1>c. Reliable => hist[s] = << >> /\ local[s].doomed = Nothing
  BY <1>1, <1>a, Zenon DEF HistOK, DoomedOK
<1>2. /\ op[s] = "all" /\ Effective(s) /\ latest(s) \in Locals /\ "history" \in Pcs
      /\ latest(s).loc \in Committed \cup {None}
      /\ Reliable => hist[s] = << >> /\ latest(s).doomed = Nothing
  BY <1>b, <1>c, PartsOf, LatestOK, Zenon DEF Pcs
<1>3. CASE Finish(s, "error")
  BY <1>1, <1>2, <1>3, QuietEnd, Zenon
<1>4. CASE Continue(s, "history", latest(s))
  <2>1. Edge(s, "history", latest(s))
    BY <1>1, <1>2, Zenon DEF Edge, Preparing, Prepares
  <2>2. Reliable => ReadEdge(s, "history", latest(s))
    BY <1>1, <1>2, Zenon DEF ReadEdge, Prepares, Awaits, HasData
  <2> QED
    BY <1>1, <1>2, <1>4, <2>1, <2>2, QuietGo, Zenon
<1> QED
  BY <1>1, <1>3, <1>4, Zenon

\* One more snapshot of a stretch of the commits.
LEMMA HistoryExtended ==
  ASSUME NEW c \in Seq(SnapId), NEW q \in Seq(SnapId), NEW k \in 0 .. Len(c), Len(q) < k,
         \A i \in DOMAIN q : q[i] = c[k + 1 - i]
  PROVE  /\ Len(Append(q, c[k - Len(q)])) <= k
         /\ \A i \in DOMAIN Append(q, c[k - Len(q)]) : Append(q, c[k - Len(q)])[i] = c[k + 1 - i]
<1> DEFINE x == c[k - Len(q)]
           p == Append(q, x)
<1>1. x \in SnapId
  OBVIOUS
<1>2. /\ Len(p) = Len(q) + 1 /\ DOMAIN p = 1 .. Len(q) + 1 /\ DOMAIN q = 1 .. Len(q)
      /\ Len(q) \in Nat /\ p[Len(q) + 1] = x /\ \A i \in 1 .. Len(q) : p[i] = q[i]
  BY <1>1
<1> HIDE DEF p
<1>3. ASSUME NEW i \in 1 .. Len(q) + 1 PROVE p[i] = c[k + 1 - i]
  <2>1. CASE i \in 1 .. Len(q)
    BY <1>2, <2>1, Zenon
  <2>2. CASE i = Len(q) + 1
    <3>1. k + 1 - i = k - Len(q)
      BY <1>2, <2>2
    <3> QED
      BY <1>2, <2>2, <3>1, Zenon
  <2> QED
    BY <1>2, <2>1, <2>2
<1>4. Len(p) <= k
  BY <1>2
<1> QED
  BY <1>2, <1>3, <1>4, Zenon DEF p

\* read_snapshot_history: one more snapshot, or the end of the history.
LEMMA read_snapshot_historyKeeps ==
  ASSUME FuseInv, LinearInv', NEW s \in Session, read_snapshot_history(s)
  PROVE  FuseInv'
<1>1. pc[s] = "history" /\ UNCHANGED <<record, store, op, rows>>
  BY Zenon DEF read_snapshot_history
<1>2. /\ TypeOK /\ HistoryIsLinear /\ local[s] \in Locals /\ hist[s] \in Seq(SnapId)
      /\ "history" \in Pcs /\ "gc" \in Pcs
      /\ op[s] = "all" => Effective(s)
      /\ Reliable => /\ local[s].doomed = Nothing /\ HistOK(s)
                     /\ op[s] = "truncate_purge" => ~Effective(s) /\ Pending(s)
  BY <1>1, PartsOf, SessionTypes, Zenon DEF OkOK, EffectOK, DoomedOK, Pending, Pcs
<1>3. ASSUME NEW l \in {"history", "gc"}
      PROVE  /\ Edge(s, l, local[s])
             /\ Reliable /\ HistOK(s)' => ReadEdge(s, l, local[s])
  BY <1>1, <1>2, Zenon DEF Edge, ReadEdge, Prepares, Awaits, HasData
<1>4. CASE /\ UNCHANGED hist /\ Continue(s, "gc", local[s])
  <2>1. pc'[s] = "gc" /\ local'[s] = local[s] /\ commits' = commits
    BY <1>1, <1>2, <1>4, Continued, Zenon DEF record
  <2>2. Reliable => HistOK(s)'
    BY <1>1, <1>2, <1>4, <2>1, HistoryStays, Zenon DEF HistOK, Preparing, Failing
  <2> QED
    BY <1>1, <1>2, <1>3, <1>4, <2>2, QuietGo, Zenon
<1>5. CASE /\ next_in_history(s) # None
           /\ hist' = [hist EXCEPT ![s] = Append(@, next_in_history(s))]
           /\ Continue(s, "history", local[s])
  <2>1. pc'[s] = "history" /\ local'[s] = local[s] /\ commits' = commits
    BY <1>1, <1>2, <1>5, Continued, Zenon DEF record
  <2>2. /\ hist'[s] = Append(hist[s], next_in_history(s)) /\ hist'[s] # << >>
        /\ \A t \in Session : t # s => hist'[t] = hist[t]
    <3>1. hist \in [Session -> Seq(SnapId)]
      BY <1>2, Zenon DEF TypeOK
    <3> QED
      BY <1>2, <1>5, <3>1
  <2>3. ASSUME Reliable PROVE HistOK(s)'
    <3>0. commits \in Seq(SnapId) /\ DOMAIN commits = 1 .. Len(commits) /\ Len(hist[s]) \in Nat
      BY <1>2 DEF TypeOK
    <3>1. PICK k \in 0 .. Len(commits) :
            /\ local[s].loc = IF k = 0 THEN None ELSE commits[k]
            /\ Len(hist[s]) <= k
            /\ \A i \in DOMAIN hist[s] : hist[s][i] = commits[k + 1 - i]
      BY <1>1, <1>2, <2>3, Zenon DEF HistOK
    <3>2. Len(hist[s]) < k /\ next_in_history(s) = commits[k - Len(hist[s])]
      <4>1. CASE hist[s] = << >>
        BY <1>5, <3>0, <3>1, <4>1 DEF next_in_history
      <4>2. CASE hist[s] # << >>
        <5>1. PICK j : j = k + 1 - Len(hist[s])
          OBVIOUS
        <5>2. Len(hist[s]) \in DOMAIN hist[s] /\ j \in DOMAIN commits /\ j - 1 = k - Len(hist[s])
          <6>1. hist[s] \in Seq(SnapId)
            BY <1>2, Zenon DEF TypeOK
          <6>2. Len(hist[s]) \in DOMAIN hist[s] /\ Len(hist[s]) >= 1
            BY <4>2, <6>1
          <6>3. PICK n : n = Len(hist[s]) /\ n \in Nat /\ n >= 1 /\ n <= k
            BY <3>0, <3>1, <6>2, Zenon
          <6>4. PICK m : m = Len(commits) /\ m \in Nat
            BY <3>0
          <6>5. k \in 0 .. m /\ j = k + 1 - n
            BY <5>1, <6>3, <6>4, Zenon
          <6>6. j \in 1 .. m /\ j - 1 = k - n
            BY <6>3, <6>4, <6>5
          <6> QED
            BY <3>0, <6>2, <6>3, <6>4, <6>6, Zenon
        <5>3. hist[s][Len(hist[s])] = commits[j]
          BY <3>1, <5>1, <5>2, Zenon
        <5>4. next_in_history(s) = IF j = 1 THEN None ELSE commits[j - 1]
          BY <1>2, <4>2, <5>2, <5>3, Zenon DEF next_in_history, HistoryIsLinear
        <5>5. j # 1 /\ next_in_history(s) = commits[j - 1]
          BY <1>5, <5>4, Zenon
        <5>6. Len(hist[s]) < k
          BY <3>0, <3>1, <5>1, <5>2, <5>5
        <5> QED
          BY <5>2, <5>5, <5>6, Zenon
      <4> QED
        BY <4>1, <4>2, Zenon
    <3>3. /\ Len(hist'[s]) <= k
          /\ \A i \in DOMAIN hist'[s] : hist'[s][i] = commits[k + 1 - i]
      <4>1. PICK q \in Seq(SnapId) : q = hist[s]
        BY <1>2, Zenon
      <4>2. \A i \in DOMAIN q : q[i] = commits[k + 1 - i]
        BY <3>1, <4>1, Zenon
      <4>3. /\ Len(Append(q, commits[k - Len(q)])) <= k
            /\ \A i \in DOMAIN Append(q, commits[k - Len(q)]) :
                 Append(q, commits[k - Len(q)])[i] = commits[k + 1 - i]
        BY <3>0, <3>2, <4>1, <4>2, HistoryExtended, Zenon
      <4>4. hist'[s] = Append(q, commits[k - Len(q)])
        BY <2>2, <3>2, <4>1, Zenon
      <4> QED
        BY <4>3, <4>4, Zenon
    <3>4. \A i \in DOMAIN hist'[s] : k + 1 - i \in DOMAIN commits
      <4>1. hist'[s] \in Seq(SnapId)
        BY Zenon DEF LinearInv, TypeOK
      <4>2. PICK n \in Nat : DOMAIN hist'[s] = 1 .. n /\ n <= k
        <5>1. Len(hist'[s]) \in Nat /\ DOMAIN hist'[s] = 1 .. Len(hist'[s])
          BY <4>1
        <5> QED
          BY <3>3, <5>1, Zenon
      <4>3. PICK m \in Nat : DOMAIN commits = 1 .. m /\ k \in 0 .. m
        <5>1. Len(commits) \in Nat
          BY <3>0
        <5> QED
          BY <3>0, <5>1, Zenon
      <4> QED
        BY <4>2, <4>3
    <3>5. History(s)' \subseteq Committed'
      BY <2>1, <3>3, <3>4, Zenon DEF History, Committed
    <3> QED
      BY <2>1, <3>1, <3>3, <3>5, Zenon DEF HistOK, Preparing, Failing
  <2> QED
    BY <1>1, <1>2, <1>3, <1>5, <2>2, <2>3, QuietGo, Zenon
<1> QED
  BY <1>4, <1>5, Zenon DEF read_snapshot_history

\* do_optimize is through: a truncation goes on to commit.
LEMMA optimizedKeeps ==
  ASSUME FuseInv, LinearInv', NEW s \in Session, pc[s] \in {"gc", "remove"}, optimized(s),
         UNCHANGED <<record, store, op, rows, hist>>, Reliable => local[s].doomed = Nothing
  PROVE  FuseInv'
<1>1. /\ TypeOK /\ OkOK(s) /\ StepsOK(s) /\ local[s] \in Locals /\ "commit" \in Pcs
      /\ Reliable => EffectOK(s) /\ OwnDataOK(s) /\ HistOK(s)
  BY PartsOf, Zenon DEF Pcs
<1>2. CASE op[s] # "truncate_purge" /\ Finish(s, "ok")
  <2>1. (Inserts(s) => Effective(s)) /\ ~Truncates(s) /\ ~HalfTruncated(s)
    BY <1>1, <1>2, Zenon DEF OkOK, StepsOK, Inserts, Truncates, HalfTruncated
  <2> QED
    BY <1>2, <2>1, QuietEnd, Zenon
<1>3. CASE op[s] = "truncate_purge" /\ Continue(s, "commit", local[s])
  <2>1. ~Inserts(s) /\ Pending(s) /\ Truncates(s)
    BY <1>3, Zenon DEF Inserts, Pending, Truncates
  <2>2. Edge(s, "commit", local[s])
    BY <2>1, Zenon DEF Edge, Prepares
  <2>3. ASSUME Reliable PROVE ReadEdge(s, "commit", local[s])
    <3>1. ~Effective(s) /\ rows[s] = {}
      BY <1>1, <2>1, <2>3, Zenon DEF EffectOK, OwnDataOK
    <3>2. pc'[s] = "commit"
      BY <1>1, <1>3, Continued, Zenon
    <3>a. History(s)' \subseteq Committed'
      BY <1>1, <2>3, HistoryStays, Zenon DEF HistOK, record
    <3>3. HistOK(s)'
      BY <2>1, <3>2, <3>a, Zenon DEF HistOK, Preparing, Failing, Inserts
    <3> QED
      BY <2>1, <2>3, <3>1, <3>3, Zenon DEF ReadEdge, Prepares, Awaits, HasData
  <2> QED
    BY <1>1, <1>3, <2>2, <2>3, QuietGo, Zenon
<1> QED
  BY <1>2, <1>3, Zenon DEF optimized

\* q is the part of c that ends at k, backwards; and what follows from it.
Backwards(q, c, k) ==
  /\ k \in 0 .. Len(c) /\ Len(q) <= k
  /\ \A i \in DOMAIN q : q[i] = c[k + 1 - i]
EndsAt(q, c, k) ==
  /\ k \in DOMAIN c /\ q[1] = c[k]
  /\ \A i \in DOMAIN q : \E j \in DOMAIN c : q[i] = c[j]
  /\ \A i \in DOMAIN Tail(q) : \E j \in DOMAIN c : j < k /\ Tail(q)[i] = c[j]

\* What is left of a history when its newest snapshot is kept.
LEMMA PrevsOf ==
  ASSUME NEW c \in Seq(SnapId), NEW q \in Seq(SnapId), NEW k, Backwards(q, c, k), q # << >>
  PROVE  EndsAt(q, c, k)
<1>0. /\ k \in 0 .. Len(c) /\ Len(q) <= k
      /\ \A i \in DOMAIN q : q[i] = c[k + 1 - i]
  BY Zenon DEF Backwards
<1>1. /\ Len(q) \in Nat /\ Len(q) >= 1 /\ DOMAIN q = 1 .. Len(q) /\ DOMAIN c = 1 .. Len(c)
      /\ Len(c) \in Nat /\ k \in Nat /\ 1 <= k /\ k <= Len(c) /\ Len(q) <= k
  BY <1>0
<1>2. DOMAIN Tail(q) = 1 .. Len(q) - 1 /\ \A i \in 1 .. Len(q) - 1 : Tail(q)[i] = q[i + 1]
  BY <1>1
<1>3. 1 \in DOMAIN q /\ k + 1 - 1 = k
  BY <1>1
<1>4. \A i \in DOMAIN q : k + 1 - i \in DOMAIN c
  BY <1>1
<1>5. ASSUME NEW i \in DOMAIN Tail(q) PROVE \E j \in DOMAIN c : j < k /\ Tail(q)[i] = c[j]
  <2>1. i + 1 \in DOMAIN q /\ k + 1 - (i + 1) \in DOMAIN c /\ k + 1 - (i + 1) < k /\ Tail(q)[i] = q[i + 1]
    BY <1>1, <1>2, <1>5
  <2> QED
    BY <1>0, <2>1, Zenon
<1>6. k \in DOMAIN c
  BY <1>1
<1> QED
  BY <1>0, <1>3, <1>4, <1>5, <1>6, Zenon DEF EndsAt

\* Nothing of the snapshot that is kept is removed.
LEMMA DeltaOf == ASSUME NEW s \in Session PROVE \A g \in seg_delta(s) : g \notin gc_root(s)
<1>1. PICK U : U = UNION {SegmentsOf(prevs(s)[i]) : i \in DOMAIN prevs(s)}
  BY Zenon
<1>2. seg_delta(s) = U \ gc_root(s)
  BY <1>1, Zenon DEF seg_delta
<1> QED
  BY <1>2, Zenon

\* What a purge is going to remove is committed and, when the newest snapshot
\* of the history is kept, no longer used.
LEMMA GarbageIsOld ==
  ASSUME LinearInv, TablePart, NEW s \in Session, pc[s] = "gc", HistOK(s),
         Len(hist[s]) > min_history_len(s)
  PROVE  /\ \A g \in seg_delta(s) : Effective(g)
         /\ \A i \in DOMAIN prevs(s) : prevs(s)[i] \in Committed
         /\ keep_last_snapshot(s) => /\ seg_delta(s) \cap SegmentsOf(loc) = {}
                                     /\ \A i \in DOMAIN prevs(s) : prevs(s)[i] # loc
<1>0. /\ TypeOK /\ HistoryIsLinear /\ hist[s] # << >> /\ hist[s] \in Seq(SnapId)
      /\ commits \in Seq(SnapId) /\ Len(commits) \in Nat /\ None \notin Committed
  <2>1. TypeOK /\ HistoryIsLinear
    BY Zenon DEF LinearInv
  <2>2. commits \in Seq(SnapId) /\ Len(commits) \in Nat
    BY <2>1 DEF TypeOK
  <2> QED
    BY <2>1, <2>2, GarbageTypes, CurrentIsCommitted, Zenon
<1>1. PICK k \in 0 .. Len(commits) : Backwards(hist[s], commits, k)
  BY Zenon DEF HistOK, Backwards
<1>2. /\ k \in DOMAIN commits /\ hist[s][1] = commits[k]
      /\ \A i \in DOMAIN hist[s] : \E j \in DOMAIN commits : hist[s][i] = commits[j]
      /\ \A i \in DOMAIN Tail(hist[s]) : \E j \in DOMAIN commits : j < k /\ Tail(hist[s])[i] = commits[j]
  <2>1. EndsAt(hist[s], commits, k)
    BY <1>0, <1>1, PrevsOf, Zenon
  <2> QED
    BY <2>1, Zenon DEF EndsAt
<1>3. \A i \in DOMAIN prevs(s) : \E j \in DOMAIN commits : prevs(s)[i] = commits[j]
  BY <1>2, Zenon DEF prevs
<1>4. \A i \in DOMAIN prevs(s) : prevs(s)[i] \in Committed
  BY <1>3, Zenon DEF Committed
<1>5. \A l \in Committed : SegmentsOf(l) = snap[l].segs
  BY <1>0, Zenon DEF SegmentsOf
<1>8. \A g \in seg_delta(s) : \E i \in DOMAIN prevs(s) : g \in SegmentsOf(prevs(s)[i])
  BY Zenon DEF seg_delta
<1>9. \A g \in seg_delta(s) : g \notin gc_root(s)
  BY DeltaOf, Zenon
<1>6. \A g \in seg_delta(s) : Effective(g)
  <2>1. \A j \in DOMAIN commits : commits[j] \in Committed
    BY Zenon DEF Committed
  <2>2. ASSUME NEW g \in seg_delta(s) PROVE Effective(g)
    <3>1. PICK i \in DOMAIN prevs(s) : g \in SegmentsOf(prevs(s)[i])
      BY <1>8, <2>2, Zenon
    <3>2. PICK j \in DOMAIN commits : prevs(s)[i] = commits[j]
      BY <1>3, Zenon
    <3>3. g \in snap[commits[j]].segs
      BY <1>5, <2>1, <3>1, <3>2, Zenon
    <3> QED
      BY <3>3, Zenon DEF TablePart, SegmentsAreEffective
  <2> QED
    BY <2>2, Zenon
<1>7. ASSUME keep_last_snapshot(s)
      PROVE  /\ seg_delta(s) \cap SegmentsOf(loc) = {}
             /\ \A i \in DOMAIN prevs(s) : prevs(s)[i] # loc
  <2>1. /\ \A i \in DOMAIN prevs(s) : \E j \in DOMAIN commits : j < k /\ prevs(s)[i] = commits[j]
        /\ gc_root(s) = SegmentsOf(commits[k])
    BY <1>2, <1>7, Zenon DEF prevs, gc_root
  <2>2. CASE loc = None
    BY <1>0, <1>4, <2>2, Zenon DEF SegmentsOf
  <2>3. CASE loc # None
    <3>1. Len(commits) \in DOMAIN commits /\ loc = commits[Len(commits)] /\ k <= Len(commits)
          /\ DOMAIN commits = 1 .. Len(commits)
      BY <1>0, <1>2, <2>3, CurrentIsCommitted
    <3>2. ASSUME NEW j \in DOMAIN commits, j < k
          PROVE  commits[j] # loc /\ SegmentsOf(commits[j]) \cap SegmentsOf(loc) \subseteq SegmentsOf(commits[k])
      <4>1. j < Len(commits) /\ (k = Len(commits) \/ k < Len(commits))
        BY <1>0, <1>2, <3>1, <3>2
      <4>2. commits[j] # loc
        <5>1. commits[j] = loc => j = Len(commits)
          BY <3>1, <3>2, Zenon DEF TablePart, Once
        <5> QED
          BY <1>0, <4>1, <5>1
      <4>3. commits[j] \in Committed /\ commits[k] \in Committed /\ loc \in Committed
        BY <1>2, <3>1, <3>2, Zenon DEF Committed
      <4>4. SegmentsOf(commits[j]) \cap SegmentsOf(loc) \subseteq SegmentsOf(commits[k])
        <5>1. k < Len(commits) =>
                snap[commits[j]].segs \cap snap[commits[Len(commits)]].segs \subseteq snap[commits[k]].segs
          BY <1>2, <3>1, <3>2, Zenon DEF TablePart, NeverReturns
        <5>2. k = Len(commits) => commits[k] = loc
          BY <3>1, Zenon
        <5> QED
          BY <1>5, <3>1, <4>1, <4>3, <5>1, <5>2, Zenon
      <4> QED
        BY <4>2, <4>4, Zenon
    <3>3. ASSUME NEW g \in seg_delta(s), g \in SegmentsOf(loc) PROVE FALSE
      <4>1. PICK i \in DOMAIN prevs(s) : g \in SegmentsOf(prevs(s)[i])
        BY <1>8, <3>3, Zenon
      <4>2. PICK j \in DOMAIN commits : j < k /\ prevs(s)[i] = commits[j]
        BY <2>1, Zenon
      <4>3. g \in SegmentsOf(commits[k])
        BY <3>2, <3>3, <4>1, <4>2, Zenon
      <4> QED
        BY <1>9, <2>1, <3>3, <4>3, Zenon
    <3>4. \A i \in DOMAIN prevs(s) : prevs(s)[i] # loc
      BY <2>1, <3>2, Zenon
    <3> QED
      BY <3>3, <3>4, Zenon
  <2> QED
    BY <2>2, <2>3, Zenon
<1> QED
  BY <1>4, <1>6, <1>7, Zenon

\* find_garbage: purge computes what it will delete, all of it effective
\* and, when it keeps the last snapshot, none of it in the current one.
LEMMA find_garbageKeeps ==
  ASSUME FuseInv, LinearInv', NEW s \in Session, find_garbage(s)
  PROVE  FuseInv'
<1>1. /\ TypeOK /\ OkOK(s) /\ StepsOK(s) /\ local[s] \in Locals /\ "remove" \in Pcs
      /\ Reliable => EffectOK(s) /\ OwnDataOK(s) /\ HistOK(s) /\ DoomedOK(s)
  BY PartsOf, Zenon DEF Pcs
<1>2. pc[s] = "gc" /\ UNCHANGED <<record, store, op, rows>>
  BY Zenon DEF find_garbage
<1>3. CASE optimized(s) /\ UNCHANGED hist
  <2>1. Reliable => local[s].doomed = Nothing
    BY <1>1, <1>2, Zenon DEF DoomedOK
  <2> QED
    BY <1>2, <1>3, <2>1, optimizedKeeps, Zenon
<1>4. CASE Finish(s, "error") /\ hist' = [hist EXCEPT ![s] = << >>]
  <2>1. Reliable /\ op[s] # "all" => ~Effective(s)
    BY <1>1, <1>2, Zenon DEF EffectOK, StepsOK, Pending
  <2>2. hist'[s] = << >> /\ \A t \in Session : t # s => hist'[t] = hist[t]
    BY <1>1, <1>4, Zenon DEF TypeOK
  <2> QED
    BY <1>2, <1>4, <2>1, <2>2, QuietEnd, Zenon
<1>5. ASSUME Len(hist[s]) > min_history_len(s), NEW d, d = [blocks |-> seg_delta(s), segs |-> seg_delta(s), snaps |-> prevs(s)],
             NEW v, v = [local[s] EXCEPT !.doomed = d], Continue(s, "remove", v), UNCHANGED hist
      PROVE  FuseInv'
  <2>1. /\ prevs(s) \in Seq(SnapId) /\ seg_delta(s) \in SUBSET Session /\ hist[s] # << >>
    BY <1>1, <1>5, GarbageTypes, Zenon
  <2>2. /\ v \in Locals /\ v.doomed = d /\ v.seq = local[s].seq /\ v.loc = local[s].loc
        /\ v.tries = local[s].tries /\ v.reply = local[s].reply
        /\ d.blocks = seg_delta(s) /\ d.segs = seg_delta(s) /\ d.snaps = prevs(s)
    BY <1>1, <1>5, <2>1, Zenon DEF Locals
  <2>3. Edge(s, "remove", v)
    BY <1>1, <1>2, Zenon DEF Edge, Prepares, OkOK
  <2>4. pc'[s] = "remove" /\ local'[s] = v
    <3>1. Continue(s, "remove", v)
      BY <1>5, Zenon
    <3> QED
      BY <1>1, <2>2, <3>1, Continued, Zenon
  <2>5. ASSUME Reliable PROVE ReadEdge(s, "remove", v)
    <3>1. /\ \A g \in seg_delta(s) : Effective(g)
          /\ \A i \in DOMAIN prevs(s) : prevs(s)[i] \in Committed
          /\ keep_last_snapshot(s) => /\ seg_delta(s) \cap SegmentsOf(loc) = {}
                                      /\ \A i \in DOMAIN prevs(s) : prevs(s)[i] # loc
      BY <1>1, <1>2, <1>5, <2>5, PartsOfInv, GarbageIsOld, Zenon
    <3>2. UNCHANGED <<loc, commits, snap, op, hist>>
      BY <1>2, <1>5, Zenon DEF record, store
    <3>3. \A g : g \in Garbage(s)' <=> g \in seg_delta(s)
      BY <2>2, <2>4, Zenon DEF Garbage
    <3>4. /\ \A g \in Garbage(s)' : Effective(g)'
          /\ \A i \in DOMAIN local'[s].doomed.snaps : local'[s].doomed.snaps[i] \in Committed'
      <4>1. (\A g : Effective(g)' <=> Effective(g)) /\ Committed' = Committed
        BY <3>2, Zenon DEF Effective, Committed
      <4>2. local'[s].doomed.snaps = prevs(s)
        BY <2>2, <2>4, Zenon
      <4> QED
        BY <3>1, <3>3, <4>1, <4>2, Zenon
    <3>5. keep_last_snapshot(s)' =>
            /\ Garbage(s)' \cap SegmentsOf(loc)' = {}
            /\ \A i \in DOMAIN local'[s].doomed.snaps : local'[s].doomed.snaps[i] # loc'
      <4>1. (keep_last_snapshot(s)' <=> keep_last_snapshot(s)) /\ SegmentsOf(loc)' = SegmentsOf(loc)
        BY <3>2, Zenon DEF keep_last_snapshot, SegmentsOf
      <4> QED
        BY <2>2, <2>4, <3>1, <3>2, <3>3, <4>1, Zenon
    <3>a. ASSUME op[s] = "truncate_purge"
          PROVE  /\ \A g \in Garbage(s)' : g \in HistorySegments(s)'
                 /\ \A i \in DOMAIN local'[s].doomed.snaps : local'[s].doomed.snaps[i] \in History(s)'
      <4>1. prevs(s) = hist[s] /\ local'[s].doomed.snaps = hist[s]
        BY <2>2, <2>4, <3>a, Zenon DEF prevs, keep_last_snapshot
      <4>2. \A g \in seg_delta(s) : g \in HistorySegments(s)
        BY <4>1, Zenon DEF seg_delta, HistorySegments, History
      <4>3. History(s)' = History(s) /\ HistorySegments(s)' = HistorySegments(s)
        BY <1>1, <2>5, <3>2, PartsOf, HistoryKept, Zenon DEF HistOK
      <4> QED
        BY <3>3, <4>1, <4>2, <4>3, Zenon DEF History
    <3>6. DoomedOK(s)'
      BY <2>4, <3>2, <3>4, <3>5, <3>a, Zenon DEF DoomedOK
    <3>7. HistOK(s)'
      BY <1>1, <2>4, <2>5, <3>2, HistoryStays, Zenon DEF HistOK, Preparing, Failing
    <3> QED
      BY <1>1, <1>2, <2>2, <2>5, <3>6, <3>7, Zenon DEF ReadEdge, Prepares, Awaits, HasData, EffectOK, OwnDataOK, Pending
  <2> QED
    <3>1. Continue(s, "remove", v)
      BY <1>5, Zenon
    <3>2. pc[s] # "done" /\ hist' = hist
      BY <1>2, <1>5, Zenon
    <3> QED
      BY <1>1, <1>2, <2>2, <2>3, <2>5, <3>1, <3>2, QuietGo, Zenon
<1> QED
  BY <1>3, <1>4, <1>5, Zenon DEF find_garbage
=============================================================================
