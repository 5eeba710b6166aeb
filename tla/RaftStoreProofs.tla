--------------------------- MODULE RaftStoreProofs --------------------------
(***************************************************************************)
(* Proofs about RaftStore: the invariant IInv is inductive as long as no   *)
(* installation fails, for every committed log and any number of crashes;  *)
(* and FaultInv, what a store keeps even when installations fail half way, *)
(* is inductive whatever Faults is.                                        *)
(***************************************************************************)
EXTENDS RaftStore, TLAPS

USE SMTT(60), ZenonT(30)

-----------------------------------------------------------------------------
(***************************************************************************)
(* The content of trees.                                                   *)
(***************************************************************************)

\* A value that a prefix of the log gives to a key is the index of an entry.
LEMMA ValueType == \A k, i : ValueAt(k, i) \in 0..Len(Entries)
  <1>1. Len(Entries) \in Nat
    BY StoreAssumption
  <1> QED BY <1>1 DEF ValueAt, Indexes

\* The state after a prefix of the log is the content of a tree.
LEMMA PrefixType ==
  ASSUME NEW i \in 0..Len(Entries)
  PROVE  Prefix(i) \in Tree /\ Prefix(i).applied = i /\ Prefix(i) # NoTree
  <1>1. Prefix(i) \in Tree
    BY ValueType, Zenon DEF Prefix, Tree
  <1> QED BY <1>1, StoreAssumption, Zenon DEF Prefix

\* The keys of the state after i entries, which an installation inserts.
LEMMA PrefixKeys ==
  ASSUME NEW i \in 0..Len(Entries)
  PROVE  Prefix(i).kv \in [Keys -> 0..Len(Entries)]
BY PrefixType, Zenon DEF Tree

\* An empty tree is the state after no entry.
LEMMA PrefixZero == Prefix(0) = EmptyTree
  <1>1. ASSUME NEW k \in Keys PROVE ValueAt(k, 0) = 0
    <2>1. Writers(k, 0) = {0}
      BY DEF Writers
    <2>2. Max({0}) = 0
      BY DEF Max
    <2> QED BY <2>1, <2>2, Zenon DEF ValueAt, Indexes
  <1> QED BY <1>1, Zenon DEF Prefix, EmptyTree

\* The last of the writers of a key up to i is i itself, when i writes it.
LEMMA LastWriter ==
  ASSUME NEW i \in Indexes
  PROVE  Max(Writers(Entries[i].key, i)) = i
  <1> DEFINE S == Writers(Entries[i].key, i)
  <1>1. i \in S /\ S \subseteq Int /\ \A y \in S : i >= y
    BY StoreAssumption DEF Writers, Indexes
  <1>2. \A x \in S : (\A y \in S : x >= y) => x = i
    BY <1>1 DEF Indexes
  <1>3. \E x \in S : \A y \in S : x >= y
    BY <1>1, Zenon
  <1> HIDE DEF S
  <1>4. Max(S) \in S /\ \A y \in S : Max(S) >= y
    BY <1>3, Zenon DEF Max
  <1> QED BY <1>2, <1>4, Zenon DEF S

\* Applying the next entry to the state after a prefix gives the state after
\* the longer prefix.
LEMMA PrefixStep ==
  ASSUME NEW i \in Indexes
  PROVE  ApplyEntry(Prefix(i - 1), i) = Prefix(i)
  <1> DEFINE Entry == [key : Keys, put : BOOLEAN]
  <1> HIDE DEF Entry
  <1>a. Entries \in Seq(Entry) /\ i \in 1..Len(Entries) /\ Len(Entries) \in Nat
    BY StoreAssumption DEF Indexes, Entry
  <1>b. Entries[i] \in Entry
    BY <1>a
  <1>0. i \in 1..Len(Entries) /\ Len(Entries) \in Nat /\ Entries[i].key \in Keys
    BY <1>a, <1>b, Zenon DEF Entry
  <1>1. ValueAt(Entries[i].key, i) = IF Entries[i].put THEN i ELSE 0
    BY <1>0, LastWriter, Zenon DEF ValueAt
  <1>2. ASSUME NEW k \in Keys, k # Entries[i].key
        PROVE  ValueAt(k, i) = ValueAt(k, i - 1)
    <2>1. Writers(k, i) = Writers(k, i - 1)
      BY <1>0, <1>2 DEF Writers
    <2> QED BY <2>1, Zenon DEF ValueAt
  <1>3. [Prefix(i - 1).kv EXCEPT ![Entries[i].key] = IF Entries[i].put THEN i ELSE 0]
        = [k \in Keys |-> ValueAt(k, i)]
    BY <1>0, <1>1, <1>2, ZenonT(60) DEF Prefix
  <1> QED BY <1>3, ZenonT(60) DEF ApplyEntry, Prefix

-----------------------------------------------------------------------------
(***************************************************************************)
(* The log: the trees stay as they are, and are flushed on the way.        *)
(***************************************************************************)

\* A flush leaves the tree to use as it is, and makes the others durable.
LEMMA FlushKeeps ==
  ASSUME IInv, UNCHANGED <<smids, trees>>, stable' = trees \/ stable' = stable
  PROVE  /\ DurableStateIsPrefix' /\ (trees[sm_id] = stable[sm_id])' /\ NoGarbage'
         /\ stable'[sm_id] = stable[sm_id]
         /\ stable' \in [TreeIds -> Tree \cup {NoTree}]
  BY Zenon DEF IInv, TypeOK, DurableStateIsPrefix, NoGarbage, smids

\* append_to_log leaves no hole: the index is the next one.
LEMMA AppendInv ==
  ASSUME IInv, NEW i \in Indexes, NEW what \in {"good", "stale"}, append_to_log(i, what)
  PROVE  IInv'
  <1>1. /\ UNCHANGED <<smids, trees>> /\ stable' = trees
        /\ UNCHANGED <<purged, up, handle, applied, purging, phase, last, todo, build, current>>
        /\ log' = [log EXCEPT ![i] = what]
        /\ Ready /\ IsNext(i)
    BY Zenon DEF append_to_log, core, install
  <1>2. /\ DurableStateIsPrefix' /\ (trees[sm_id] = stable[sm_id])' /\ NoGarbage'
        /\ stable'[sm_id] = stable[sm_id]
        /\ stable' \in [TreeIds -> Tree \cup {NoTree}]
    BY <1>1, FlushKeeps, Zenon
  <1>3. TypeOK'
    BY <1>1, <1>2, Zenon DEF IInv, TypeOK, smids
  <1>4. IdsOK' /\ FillOK' /\ AppliedOK' /\ BuildOK' /\ SnapshotMatchesMeta'
    BY <1>1, Zenon DEF IInv, IdsOK, FillOK, AppliedOK, BuildOK, SnapshotMatchesMeta, smids
  <1>5. PurgedIsApplied'
    BY <1>1, <1>2, Zenon DEF IInv, PurgedIsApplied, smids
  <1>6. NoHole'
    <2>1. applied = stable[sm_id].applied /\ purged <= stable[sm_id].applied
          /\ purged \in Nat /\ applied \in Nat
      BY <1>1 DEF IInv, AppliedOK, PurgedIsApplied, Ready, TypeOK
    <2>2. ASSUME NEW j \in Indexes, stable[sm_id].applied < j, j < i PROVE log[j] # "none"
      <3>1. i - 1 \in Indexes /\ log[i - 1] # "none"
        BY <1>1, <2>1, <2>2 DEF IsNext, Logged, Indexes
      <3> QED BY <2>2, <3>1 DEF IInv, NoHole, Indexes
    <2>3. \A j \in Indexes : log[j] # "none" => j < i
      BY <1>1, ZenonT(60) DEF IsNext, Logged
    <2>4. \A j \in Indexes : j # i => log'[j] = log[j]
      BY <1>1, Zenon DEF IInv, TypeOK
    <2>5. log'[i] # "none"
      BY <1>1, Zenon DEF IInv, TypeOK
    <2>6. sm_id' = sm_id
      BY <1>1, Zenon DEF smids
    <2> QED BY <1>2, <2>1, <2>2, <2>3, <2>4, <2>5, <2>6, Zenon DEF IInv, NoHole, Indexes
  <1> QED BY <1>2, <1>3, <1>4, <1>5, <1>6, Zenon DEF IInv

\* delete_conflict_logs_since removes the end of the log, and no applied entry.
LEMMA DeleteInv ==
  ASSUME IInv, NEW i \in Indexes, delete_conflict_logs_since(i)
  PROVE  IInv'
  <1>1. /\ UNCHANGED <<smids, trees>> /\ stable' = trees
        /\ UNCHANGED <<purged, up, handle, applied, purging, phase, last, todo, build, current>>
        /\ log' = [j \in Indexes |-> IF j >= i THEN "none" ELSE log[j]]
    BY Zenon DEF delete_conflict_logs_since, core, install
  <1>2. /\ DurableStateIsPrefix' /\ (trees[sm_id] = stable[sm_id])' /\ NoGarbage'
        /\ stable'[sm_id] = stable[sm_id]
        /\ stable' \in [TreeIds -> Tree \cup {NoTree}]
    BY <1>1, FlushKeeps, Zenon
  <1>3. TypeOK'
    BY <1>1, <1>2, Zenon DEF IInv, TypeOK, smids
  <1>4. IdsOK' /\ FillOK' /\ AppliedOK' /\ BuildOK' /\ SnapshotMatchesMeta'
    BY <1>1, Zenon DEF IInv, IdsOK, FillOK, AppliedOK, BuildOK, SnapshotMatchesMeta, smids
  <1>5. PurgedIsApplied'
    BY <1>1, <1>2, Zenon DEF IInv, PurgedIsApplied, smids
  <1>6. NoHole'
    <2>1. sm_id' = sm_id /\ \A j \in Indexes : log'[j] = IF j >= i THEN "none" ELSE log[j]
      BY <1>1, Zenon DEF smids
    <2> QED BY <1>2, <2>1 DEF IInv, NoHole, Indexes
  <1> QED BY <1>2, <1>3, <1>4, <1>5, <1>6, Zenon DEF IInv

\* set_last_purged names an entry that is applied, hence durable.
LEMMA SetPurgedInv ==
  ASSUME IInv, NEW i \in Indexes, set_last_purged(i)
  PROVE  IInv'
  <1>1. /\ UNCHANGED <<smids, trees>> /\ stable' = trees
        /\ UNCHANGED <<log, up, handle, applied, phase, last, todo, build, current>>
        /\ purged' = i /\ purging' = i /\ i <= applied /\ up = "up" /\ phase = "idle"
    BY Zenon DEF set_last_purged, core, install, Ready
  <1>2. /\ DurableStateIsPrefix' /\ (trees[sm_id] = stable[sm_id])' /\ NoGarbage'
        /\ stable'[sm_id] = stable[sm_id]
        /\ stable' \in [TreeIds -> Tree \cup {NoTree}]
    BY <1>1, FlushKeeps, Zenon
  <1>3. TypeOK'
    BY <1>1, <1>2 DEF IInv, TypeOK, smids, Indexes
  <1>4. IdsOK' /\ FillOK' /\ AppliedOK' /\ BuildOK' /\ SnapshotMatchesMeta'
    BY <1>1, Zenon DEF IInv, IdsOK, FillOK, AppliedOK, BuildOK, SnapshotMatchesMeta, smids
  <1>5. PurgedIsApplied' /\ NoHole'
    <2>1. applied = stable[sm_id].applied /\ sm_id' = sm_id
      BY <1>1, Zenon DEF IInv, AppliedOK, smids
    <2> QED BY <1>1, <1>2, <2>1, Zenon DEF IInv, PurgedIsApplied, NoHole
  <1> QED BY <1>2, <1>3, <1>4, <1>5, Zenon DEF IInv

\* range_remove removes only entries that are in the durable state machine.
LEMMA RangeRemoveInv ==
  ASSUME IInv, range_remove
  PROVE  IInv'
  <1>1. /\ UNCHANGED <<smids, trees>> /\ stable' = trees
        /\ UNCHANGED <<purged, up, handle, applied, phase, last, todo, build, current>>
        /\ purging' = 0 /\ purging # 0
        /\ log' = [j \in Indexes |-> IF j <= purging THEN "none" ELSE log[j]]
    BY Zenon DEF range_remove, core, install
  <1>2. /\ DurableStateIsPrefix' /\ (trees[sm_id] = stable[sm_id])' /\ NoGarbage'
        /\ stable'[sm_id] = stable[sm_id]
        /\ stable' \in [TreeIds -> Tree \cup {NoTree}]
    BY <1>1, FlushKeeps, Zenon
  <1>3. TypeOK'
    BY <1>1, <1>2, StoreAssumption DEF IInv, TypeOK, smids
  <1>4. IdsOK' /\ FillOK' /\ AppliedOK' /\ BuildOK' /\ SnapshotMatchesMeta'
    BY <1>1, Zenon DEF IInv, IdsOK, FillOK, AppliedOK, BuildOK, SnapshotMatchesMeta, smids
  <1>5. PurgedIsApplied'
    BY <1>1, <1>2, Zenon DEF IInv, PurgedIsApplied, smids
  <1>6. NoHole'
    <2>1. sm_id' = sm_id /\ \A j \in Indexes : log'[j] = IF j <= purging THEN "none" ELSE log[j]
      BY <1>1, Zenon DEF smids
    <2>2. applied = stable[sm_id].applied /\ purging <= applied
          /\ purging \in Nat /\ applied \in Nat
      BY <1>1 DEF IInv, AppliedOK, TypeOK
    <2> QED BY <1>2, <2>1, <2>2 DEF IInv, NoHole, Indexes
  <1> QED BY <1>2, <1>3, <1>4, <1>5, <1>6, Zenon DEF IInv

\* apply_to_state_machine moves the durable state to the next prefix.
LEMMA ApplyInv ==
  ASSUME IInv, NEW i \in Indexes, apply_to_state_machine(i)
  PROVE  IInv'
  <1>1. /\ UNCHANGED <<smids, log, purged, up, handle, purging, phase, last, todo, build, current>>
        /\ trees' = [trees EXCEPT ![handle] = ApplyEntry(@, i)] /\ stable' = trees'
        /\ applied' = i /\ i = applied + 1
        /\ up = "up" /\ phase = "idle" /\ purging = 0
    BY Zenon DEF apply_to_state_machine, install, Ready
  <1>2. handle = sm_id /\ prev_sm_id = sm_id /\ sm_id \in TreeIds /\ smids' = smids
        /\ sm_id' = sm_id /\ prev_sm_id' = prev_sm_id
    BY <1>1, Zenon DEF IInv, IdsOK, TypeOK, smids
  <1>3. trees[sm_id] = Prefix(i - 1)
    <2>1. trees[sm_id] = Prefix(trees[sm_id].applied) /\ trees[sm_id].applied = applied
      BY <1>1, Zenon DEF IInv, AppliedOK, DurableStateIsPrefix
    <2>2. applied = i - 1
      BY <1>1 DEF IInv, TypeOK
    <2> QED BY <2>1, <2>2, Zenon
  <1>4. i \in 0..Len(Entries) /\ i \in Nat /\ applied \in Nat
    BY DEF IInv, TypeOK, Indexes
  <1>5. Prefix(i) \in Tree /\ Prefix(i).applied = i /\ Prefix(i) # NoTree
    BY <1>4, PrefixType, Zenon
  <1>6. ApplyEntry(trees[sm_id], i) = Prefix(i)
    BY <1>3, PrefixStep, Zenon
  <1>7. /\ trees' \in [TreeIds -> Tree \cup {NoTree}]
        /\ trees'[sm_id] = Prefix(i)
        /\ \A u \in TreeIds : u # sm_id => trees'[u] = trees[u]
    BY <1>1, <1>2, <1>5, <1>6, Zenon DEF IInv, TypeOK
  <1>8. TypeOK'
    BY <1>1, <1>2, <1>4, <1>7, Zenon DEF IInv, TypeOK
  <1>9. IdsOK' /\ FillOK' /\ BuildOK' /\ SnapshotMatchesMeta'
    BY <1>1, <1>2, Zenon DEF IInv, IdsOK, FillOK, BuildOK, SnapshotMatchesMeta
  <1>10. DurableStateIsPrefix' /\ (trees[sm_id] = stable[sm_id])' /\ AppliedOK'
    BY <1>1, <1>2, <1>5, <1>7, Zenon DEF DurableStateIsPrefix, AppliedOK
  <1>11. NoGarbage'
    BY <1>1, <1>2, <1>7, Zenon DEF IInv, NoGarbage
  <1>12. stable[sm_id].applied = i - 1 /\ stable'[sm_id].applied = i
    BY <1>1, <1>3, <1>5, <1>7, PrefixType DEF IInv, AppliedOK, TypeOK
  <1>13. PurgedIsApplied'
    BY <1>1, <1>2, <1>4, <1>5, <1>7, <1>12 DEF IInv, PurgedIsApplied, TypeOK
  <1>14. NoHole'
    BY <1>1, <1>2, <1>4, <1>12, SMTT(60) DEF IInv, NoHole, Indexes
  <1> QED BY <1>8, <1>9, <1>10, <1>11, <1>13, <1>14, Zenon DEF IInv

-----------------------------------------------------------------------------
(***************************************************************************)
(* Snapshots that the node builds.                                         *)
(***************************************************************************)

\* The content that is taken is the state at the index that is taken with it.
LEMMA TakeInv ==
  ASSUME IInv, take_snapshot
  PROVE  IInv'
  <1>1. /\ UNCHANGED <<smids, trees, stable, log, purged, up, handle, applied, purging,
                      phase, last, todo, current>>
        /\ up = "up" /\ phase = "idle" /\ trees[handle] # NoTree
        /\ trees[handle].applied > 0
        /\ build' = [last |-> trees[handle].applied, data |-> trees[handle]]
    BY SMTT(60), Zenon DEF take_snapshot, disk, core, install
  <1>2. handle = sm_id /\ trees[sm_id] = Prefix(trees[sm_id].applied)
    BY <1>1, Zenon DEF IInv, IdsOK, DurableStateIsPrefix
  <1>3. trees[sm_id] \in Tree
    BY <1>1, <1>2, Zenon DEF IInv, TypeOK
  <1>4. trees[sm_id].applied \in Indexes
    BY <1>1, <1>2, <1>3, StoreAssumption DEF Tree, Indexes
  <1>5. build' \in Snapshot /\ BuildOK'
    BY <1>1, <1>2, <1>3, <1>4, Zenon DEF Snapshot, BuildOK
  <1>6. TypeOK'
    BY <1>1, <1>5, Zenon DEF IInv, TypeOK, smids
  <1> QED BY <1>1, <1>5, <1>6, Zenon DEF IInv, IdsOK, FillOK, AppliedOK, SnapshotMatchesMeta,
            DurableStateIsPrefix, NoGarbage, PurgedIsApplied, NoHole, smids

\* Publishing keeps the index and the content together.
LEMMA PublishInv ==
  ASSUME IInv, publish_snapshot
  PROVE  IInv'
  <1>1. /\ UNCHANGED <<smids, trees, stable, log, purged, up, handle, applied, purging,
                      phase, last, todo>>
        /\ build # NoSnapshot /\ current' = build /\ build' = NoSnapshot
    BY Zenon DEF publish_snapshot, disk, core, install
  <1>2. TypeOK'
    BY <1>1, Zenon DEF IInv, TypeOK, smids
  <1> QED BY <1>1, <1>2, Zenon DEF IInv, IdsOK, FillOK, AppliedOK, SnapshotMatchesMeta, BuildOK,
            DurableStateIsPrefix, NoGarbage, PurgedIsApplied, NoHole, smids

\* sled may flush at any time.
LEMMA BackgroundFlushInv ==
  ASSUME IInv, background_flush
  PROVE  IInv'
  <1>1. /\ UNCHANGED <<smids, trees, log, purged, up, handle, applied, purging,
                      phase, last, todo, build, current>>
        /\ stable' = trees
    BY Zenon DEF background_flush, core, install
  <1>2. /\ DurableStateIsPrefix' /\ (trees[sm_id] = stable[sm_id])' /\ NoGarbage'
        /\ stable'[sm_id] = stable[sm_id]
        /\ stable' \in [TreeIds -> Tree \cup {NoTree}]
    BY <1>1, FlushKeeps, Zenon
  <1>3. TypeOK'
    BY <1>1, <1>2, Zenon DEF IInv, TypeOK, smids
  <1>4. IdsOK' /\ FillOK' /\ AppliedOK' /\ BuildOK' /\ SnapshotMatchesMeta'
    BY <1>1, Zenon DEF IInv, IdsOK, FillOK, AppliedOK, BuildOK, SnapshotMatchesMeta, smids
  <1>5. PurgedIsApplied' /\ NoHole'
    BY <1>1, <1>2, Zenon DEF IInv, PurgedIsApplied, NoHole, smids
  <1> QED BY <1>2, <1>3, <1>4, <1>5, Zenon DEF IInv

-----------------------------------------------------------------------------
(***************************************************************************)
(* The installation of a snapshot, write by write.                         *)
(***************************************************************************)

\* The next tree does not exist when an installation begins.
LEMMA BeginInv ==
  ASSUME IInv, NEW i \in Indexes, install_begin(i)
  PROVE  IInv'
  <1>1. /\ UNCHANGED <<sm_id, todo, trees, log, purged, up, handle, applied, purging,
                      build, current>>
        /\ stable' = trees /\ prev_sm_id' = sm_id + 1 /\ sm_id = prev_sm_id
        /\ sm_id + 1 \in TreeIds /\ phase' = "marked" /\ last' = i /\ i > applied
        /\ up = "up" /\ phase = "idle" /\ purging = 0
    BY Zenon DEF install_begin, core, Ready
  <1>2. handle = sm_id /\ sm_id \in Nat /\ sm_id \in TreeIds /\ sm_id + 1 # sm_id
    BY <1>1, SMTT(60) DEF IInv, IdsOK, TypeOK, TreeIds
  <1>3. trees[sm_id + 1] = NoTree /\ stable'[sm_id] = stable[sm_id]
    BY <1>1, <1>2, Zenon DEF IInv, NoGarbage
  <1>4. TypeOK'
    BY <1>1, SMTT(60) DEF IInv, TypeOK, Phases, Indexes
  <1>5. IdsOK' /\ FillOK' /\ AppliedOK' /\ BuildOK' /\ SnapshotMatchesMeta'
    BY <1>1, <1>2, <1>3, Zenon DEF IInv, IdsOK, FillOK, AppliedOK, BuildOK, SnapshotMatchesMeta, TypeOK
  <1>6. DurableStateIsPrefix' /\ (trees[sm_id] = stable[sm_id])' /\ NoGarbage'
    BY <1>1, <1>2, <1>3, Zenon DEF IInv, DurableStateIsPrefix, NoGarbage
  <1>7. PurgedIsApplied' /\ NoHole'
    BY <1>1, <1>3, Zenon DEF IInv, PurgedIsApplied, NoHole
  <1> QED BY <1>4, <1>5, <1>6, <1>7, Zenon DEF IInv

\* What is not to be inserted is absent from the snapshot, and from a new tree.
LEMMA OpenTreeInv ==
  ASSUME IInv, install_open
  PROVE  IInv'
  <1>1. /\ UNCHANGED <<sm_id, prev_sm_id, last, log, purged, up, handle, applied, purging,
                      build, current>>
        /\ trees' = [trees EXCEPT ![prev_sm_id] = IF @ = NoTree THEN EmptyTree ELSE @]
        /\ stable' = trees' /\ phase' = "filling" /\ phase = "marked" /\ up = "up"
        /\ todo' = {"LastApplied"} \cup {k \in Keys : Prefix(last).kv[k] # 0}
    BY SMTT(60), Zenon DEF install_open, core, smids
  <1>2. /\ trees[prev_sm_id] = NoTree /\ prev_sm_id = sm_id + 1 /\ sm_id \in Nat
        /\ prev_sm_id \in TreeIds /\ sm_id \in TreeIds /\ prev_sm_id # sm_id
    BY <1>1 DEF IInv, FillOK, IdsOK, TypeOK, TreeIds
  <1>3. EmptyTree \in Tree /\ EmptyTree # NoTree
    BY StoreAssumption, PrefixZero, PrefixType, SMTT(60)
  <1>4. /\ trees' \in [TreeIds -> Tree \cup {NoTree}]
        /\ trees'[prev_sm_id] = EmptyTree
        /\ \A u \in TreeIds : u # prev_sm_id => trees'[u] = trees[u]
    BY <1>1, <1>2, <1>3, Zenon DEF IInv, TypeOK
  <1>5. TypeOK'
    BY <1>1, <1>4, Zenon DEF IInv, TypeOK, Phases
  <1>6. trees'[sm_id] = trees[sm_id] /\ stable'[sm_id] = stable[sm_id]
    BY <1>1, <1>2, <1>4, Zenon DEF IInv
  <1>7. \A k \in Keys \ todo' : EmptyTree.kv[k] = Prefix(last).kv[k]
    BY <1>1, Zenon DEF EmptyTree
  <1>8. IdsOK' /\ BuildOK' /\ SnapshotMatchesMeta'
    BY <1>1, Zenon DEF IInv, IdsOK, BuildOK, SnapshotMatchesMeta
  <1>9. FillOK' /\ AppliedOK'
    BY <1>1, <1>3, <1>4, <1>6, <1>7 DEF IInv, FillOK, AppliedOK
  <1>10. DurableStateIsPrefix' /\ (trees[sm_id] = stable[sm_id])'
    BY <1>1, <1>6, Zenon DEF IInv, DurableStateIsPrefix
  <1>11. NoGarbage'
    BY <1>1, <1>4, Zenon DEF IInv, NoGarbage
  <1>12. PurgedIsApplied' /\ NoHole'
    BY <1>1, <1>6, Zenon DEF IInv, PurgedIsApplied, NoHole
  <1> QED BY <1>5, <1>8, <1>9, <1>10, <1>11, <1>12, Zenon DEF IInv

\* An insertion changes only the tree that is not in use.
LEMMA InsertInv ==
  ASSUME IInv, NEW k \in Keys \cup {"LastApplied"}, install_insert(k)
  PROVE  IInv'
  <1> DEFINE old == trees[prev_sm_id]
             new == IF k = "LastApplied"
                    THEN [old EXCEPT !.applied = last]
                    ELSE [old EXCEPT !.kv[k] = Prefix(last).kv[k]]
  <1>1. /\ UNCHANGED <<sm_id, prev_sm_id, phase, last, stable, log, purged, up, handle, applied,
                      purging, build, current>>
        /\ trees' = [trees EXCEPT ![prev_sm_id] = new]
        /\ phase = "filling" /\ up = "up" /\ todo' = todo \ {k}
    BY Zenon DEF install_insert, core, smids
  <1>2. /\ prev_sm_id = sm_id + 1 /\ sm_id \in Nat
        /\ prev_sm_id \in TreeIds /\ sm_id \in TreeIds /\ prev_sm_id # sm_id
    BY <1>1 DEF IInv, IdsOK, TypeOK, TreeIds
  <1>3. old \in Tree /\ last \in 0..Len(Entries)
        /\ (\A x \in Keys \ todo : old.kv[x] = Prefix(last).kv[x])
        /\ ("LastApplied" \notin todo => old.applied = last)
    BY <1>1, <1>2, Zenon DEF IInv, FillOK, TypeOK
  <1>4. Prefix(last).kv \in [Keys -> 0..Len(Entries)]
    BY <1>3, PrefixKeys, Zenon
  <1> HIDE DEF old
  <1>5. /\ new \in Tree
        /\ \A x \in Keys \ (todo \ {k}) : new.kv[x] = Prefix(last).kv[x]
        /\ "LastApplied" \notin todo \ {k} => new.applied = last
    <2>1. CASE k = "LastApplied"
      BY <1>3, <2>1, StoreAssumption, Zenon DEF Tree
    <2>2. CASE k # "LastApplied"
      BY <1>3, <1>4, <2>2, ZenonT(60) DEF Tree
    <2> QED BY <2>1, <2>2, Zenon
  <1> HIDE DEF new
  <1>6. /\ trees' \in [TreeIds -> Tree \cup {NoTree}]
        /\ trees'[prev_sm_id] = new
        /\ \A u \in TreeIds : u # prev_sm_id => trees'[u] = trees[u]
    BY <1>1, <1>2, <1>5, Zenon DEF IInv, TypeOK
  <1>7. TypeOK'
    BY <1>1, <1>6, Zenon DEF IInv, TypeOK
  <1>8. new # NoTree /\ trees'[sm_id] = trees[sm_id]
    BY <1>2, <1>5, <1>6, StoreAssumption, Zenon
  <1>9. IdsOK' /\ BuildOK' /\ SnapshotMatchesMeta'
    BY <1>1, Zenon DEF IInv, IdsOK, BuildOK, SnapshotMatchesMeta
  <1>10. FillOK' /\ AppliedOK'
    BY <1>1, <1>5, <1>6, <1>8, Zenon DEF IInv, FillOK, AppliedOK
  <1>11. DurableStateIsPrefix' /\ (trees[sm_id] = stable[sm_id])'
    BY <1>1, <1>8, Zenon DEF IInv, DurableStateIsPrefix
  <1>12. NoGarbage'
    BY <1>1, <1>6, Zenon DEF IInv, NoGarbage
  <1>13. PurgedIsApplied' /\ NoHole'
    BY <1>1, Zenon DEF IInv, PurgedIsApplied, NoHole
  <1> QED BY <1>7, <1>9, <1>10, <1>11, <1>12, <1>13, Zenon DEF IInv

\* When everything is inserted, the new tree is the snapshot and nothing else.
LEMMA InstallFlushInv ==
  ASSUME IInv, install_flush
  PROVE  IInv'
  <1>1. /\ UNCHANGED <<sm_id, prev_sm_id, last, todo, trees, log, purged, up, handle, applied,
                      purging, build, current>>
        /\ stable' = trees /\ phase' = "flushed" /\ phase = "filling" /\ up = "up" /\ todo = {}
    BY Zenon DEF install_flush, core, smids
  <1>2. /\ DurableStateIsPrefix' /\ (trees[sm_id] = stable[sm_id])' /\ NoGarbage'
        /\ stable'[sm_id] = stable[sm_id]
        /\ stable' \in [TreeIds -> Tree \cup {NoTree}]
    BY <1>1, FlushKeeps, Zenon DEF smids
  <1>3. trees[prev_sm_id] = Prefix(last)
    <2>1. /\ trees[prev_sm_id] \in Tree /\ last \in 0..Len(Entries)
          /\ trees[prev_sm_id].applied = last
          /\ \A k \in Keys : trees[prev_sm_id].kv[k] = Prefix(last).kv[k]
      BY <1>1, Zenon DEF IInv, TypeOK, FillOK
    <2>2. Prefix(last) \in Tree /\ Prefix(last).applied = last
      BY <2>1, PrefixType, Zenon
    <2> QED BY <2>1, <2>2 DEF Tree
  <1>4. TypeOK'
    BY <1>1, <1>2, Zenon DEF IInv, TypeOK, Phases
  <1>5. IdsOK' /\ FillOK' /\ AppliedOK' /\ BuildOK' /\ SnapshotMatchesMeta'
    BY <1>1, <1>3, Zenon DEF IInv, IdsOK, FillOK, AppliedOK, BuildOK, SnapshotMatchesMeta
  <1>6. PurgedIsApplied' /\ NoHole'
    BY <1>1, <1>2, Zenon DEF IInv, PurgedIsApplied, NoHole
  <1> QED BY <1>2, <1>4, <1>5, <1>6, Zenon DEF IInv

\* The switch moves the durable state from one prefix to a longer one.
LEMMA SwitchInv ==
  ASSUME IInv, install_switch
  PROVE  IInv'
  <1>1. /\ UNCHANGED <<last, todo, trees, log, purged, up, handle, applied,
                      purging, build, current>>
        /\ sm_id' = prev_sm_id /\ prev_sm_id' = sm_id
        /\ stable' = trees /\ phase' = "switched" /\ phase = "flushed" /\ up = "up"
    BY SMTT(60), Zenon DEF install_switch, core
  <1>2. /\ trees[prev_sm_id] = Prefix(last) /\ last \in 0..Len(Entries) /\ last \in Nat
        /\ applied = stable[sm_id].applied /\ applied \in Nat /\ applied < last
    BY <1>1 DEF IInv, FillOK, AppliedOK, TypeOK
  <1>3. Prefix(last).applied = last /\ Prefix(last) # NoTree
    BY <1>2, PrefixType, Zenon
  <1>4. TypeOK'
    BY <1>1, Zenon DEF IInv, TypeOK, Phases
  <1>5. IdsOK' /\ FillOK' /\ AppliedOK' /\ BuildOK' /\ SnapshotMatchesMeta'
    BY <1>1, <1>2, <1>3, Zenon DEF IInv, IdsOK, FillOK, AppliedOK, BuildOK, SnapshotMatchesMeta
  <1>6. DurableStateIsPrefix' /\ (trees[sm_id] = stable[sm_id])' /\ NoGarbage'
    BY <1>1, <1>2, <1>3, Zenon DEF IInv, DurableStateIsPrefix, NoGarbage
  <1>7. stable'[sm_id'].applied = last
    BY <1>1, <1>2, <1>3, Zenon
  <1>8. PurgedIsApplied'
    BY <1>1, <1>2, <1>3 DEF IInv, PurgedIsApplied, TypeOK
  <1>9. NoHole'
    BY <1>1, <1>2, <1>7, SMTT(60) DEF IInv, NoHole, Indexes
  <1> QED BY <1>4, <1>5, <1>6, <1>8, <1>9, Zenon DEF IInv

\* The tree that is dropped is no longer the one to use.
LEMMA CleanInv ==
  ASSUME IInv, install_clean
  PROVE  IInv'
  <1>1. /\ UNCHANGED <<sm_id, prev_sm_id, last, todo, stable, log, purged, up, handle, applied,
                      purging, build, current>>
        /\ trees' = [trees EXCEPT ![handle] = NoTree]
        /\ phase' = "cleaned" /\ phase = "switched" /\ up = "up"
    BY Zenon DEF install_clean, core, smids
  <1>2. handle = prev_sm_id /\ sm_id # handle /\ sm_id \in TreeIds /\ prev_sm_id \in TreeIds
    BY <1>1 DEF IInv, IdsOK, TypeOK, TreeIds
  <1>3. /\ trees' \in [TreeIds -> Tree \cup {NoTree}]
        /\ trees'[prev_sm_id] = NoTree /\ trees'[sm_id] = trees[sm_id]
        /\ \A u \in TreeIds : u # prev_sm_id => trees'[u] = trees[u]
    BY <1>1, <1>2, Zenon DEF IInv, TypeOK
  <1>4. TypeOK'
    BY <1>1, <1>3, Zenon DEF IInv, TypeOK, Phases
  <1>5. IdsOK' /\ FillOK' /\ AppliedOK' /\ BuildOK' /\ SnapshotMatchesMeta'
    BY <1>1, <1>3, Zenon DEF IInv, IdsOK, FillOK, AppliedOK, BuildOK, SnapshotMatchesMeta
  <1>6. DurableStateIsPrefix' /\ (trees[sm_id] = stable[sm_id])' /\ NoGarbage'
    BY <1>1, <1>3, Zenon DEF IInv, DurableStateIsPrefix, NoGarbage
  <1>7. PurgedIsApplied' /\ NoHole'
    BY <1>1, Zenon DEF IInv, PurgedIsApplied, NoHole
  <1> QED BY <1>4, <1>5, <1>6, <1>7, Zenon DEF IInv

\* At the end the node uses the new tree, and the core knows its last log.
LEMMA FinishInv ==
  ASSUME IInv, install_finish
  PROVE  IInv'
  <1>1. /\ UNCHANGED <<sm_id, trees, log, purged, up, purging, build>>
        /\ prev_sm_id' = sm_id /\ handle' = sm_id /\ stable' = trees /\ applied' = last
        /\ current' = [last |-> last, data |-> Prefix(last)]
        /\ phase' = "idle" /\ last' = 0 /\ todo' = {}
        /\ phase = "cleaned" /\ up = "up"
    BY SMTT(60), Zenon DEF install_finish, Installed
  <1>2. /\ trees[sm_id].applied = last /\ trees[prev_sm_id] = NoTree /\ purging = 0
        /\ last \in 0..Len(Entries) /\ applied < last /\ applied \in Nat
    BY <1>1 DEF IInv, FillOK, AppliedOK, TypeOK
  <1>3. last \in Indexes /\ Prefix(last) \in Tree
    BY <1>2, PrefixType DEF Indexes
  <1>4. TypeOK'
    BY <1>1, <1>2, <1>3, StoreAssumption, Zenon DEF IInv, TypeOK, Phases, Snapshot
  <1>5. IdsOK' /\ FillOK' /\ AppliedOK' /\ BuildOK' /\ SnapshotMatchesMeta'
    BY <1>1, <1>2, Zenon DEF IInv, IdsOK, FillOK, AppliedOK, BuildOK, SnapshotMatchesMeta
  <1>6. DurableStateIsPrefix' /\ (trees[sm_id] = stable[sm_id])' /\ NoGarbage'
    BY <1>1, <1>2, Zenon DEF IInv, DurableStateIsPrefix, NoGarbage
  <1>7. PurgedIsApplied' /\ NoHole'
    BY <1>1, Zenon DEF IInv, PurgedIsApplied, NoHole
  <1> QED BY <1>4, <1>5, <1>6, <1>7, Zenon DEF IInv

\* No installation is refused: an idle store has nothing left to clean up.
LEMMA NeverRefused ==
  ASSUME IInv, ~Faults, NEW i \in Indexes
  PROVE  ~install_refused(i) /\ ~install_fails
  BY Zenon DEF IInv, IdsOK, install_refused, install_fails, Ready

-----------------------------------------------------------------------------
(***************************************************************************)
(* Crash and restart.                                                      *)
(***************************************************************************)

\* A crash loses nothing of the tree to use.
LEMMA CrashInv ==
  ASSUME IInv, crash
  PROVE  IInv'
  <1>1. /\ UNCHANGED <<sm_id, prev_sm_id, stable, log, purged>>
        /\ trees' = stable /\ up' = "down" /\ handle' = 0 /\ applied' = 0 /\ purging' = 0
        /\ phase' = "idle" /\ last' = 0 /\ todo' = {}
        /\ build' = NoSnapshot /\ current' = NoSnapshot
    BY Zenon DEF crash, smids
  <1>2. TypeOK'
    BY <1>1, StoreAssumption, SMTT(60) DEF IInv, TypeOK, Phases, TreeIds
  <1>3. IdsOK' /\ FillOK' /\ AppliedOK' /\ BuildOK' /\ SnapshotMatchesMeta'
    BY <1>1, Zenon DEF IInv, IdsOK, FillOK, AppliedOK, BuildOK, SnapshotMatchesMeta
  <1>4. DurableStateIsPrefix' /\ (trees[sm_id] = stable[sm_id])' /\ NoGarbage'
    BY <1>1, Zenon DEF IInv, DurableStateIsPrefix, NoGarbage
  <1>5. PurgedIsApplied' /\ NoHole'
    BY <1>1, Zenon DEF IInv, PurgedIsApplied, NoHole
  <1> QED BY <1>2, <1>3, <1>4, <1>5, Zenon DEF IInv

\* open_create drops the tree that is not to be used.
LEMMA OpenCleanInv ==
  ASSUME IInv, open_clean
  PROVE  IInv'
  <1>1. /\ UNCHANGED <<sm_id, prev_sm_id, stable, log, purged, handle, applied, purging,
                      phase, last, todo, build, current>>
        /\ up = "down" /\ sm_id # prev_sm_id /\ up' = "cleaned"
        /\ trees' = [trees EXCEPT ![prev_sm_id] = NoTree]
    BY Zenon DEF open_clean, smids, install
  <1>2. /\ trees' \in [TreeIds -> Tree \cup {NoTree}]
        /\ trees'[prev_sm_id] = NoTree /\ trees'[sm_id] = trees[sm_id]
        /\ \A u \in TreeIds : u # prev_sm_id => trees'[u] = trees[u]
    BY <1>1, Zenon DEF IInv, TypeOK
  <1>3. TypeOK'
    BY <1>1, <1>2, Zenon DEF IInv, TypeOK
  <1>4. IdsOK' /\ FillOK' /\ AppliedOK' /\ BuildOK' /\ SnapshotMatchesMeta'
    BY <1>1, <1>2, Zenon DEF IInv, IdsOK, FillOK, AppliedOK, BuildOK, SnapshotMatchesMeta
  <1>5. DurableStateIsPrefix' /\ (trees[sm_id] = stable[sm_id])' /\ NoGarbage'
    BY <1>1, <1>2, Zenon DEF IInv, DurableStateIsPrefix, NoGarbage
  <1>6. PurgedIsApplied' /\ NoHole'
    BY <1>1, Zenon DEF IInv, PurgedIsApplied, NoHole
  <1> QED BY <1>3, <1>4, <1>5, <1>6, Zenon DEF IInv

\* Then it forgets its number.
LEMMA OpenMarkInv ==
  ASSUME IInv, open_mark
  PROVE  IInv'
  <1>1. /\ UNCHANGED <<sm_id, trees, log, purged, handle, applied, purging,
                      phase, last, todo, build, current>>
        /\ up = "cleaned" /\ prev_sm_id' = sm_id /\ stable' = trees /\ up' = "opening"
    BY Zenon DEF open_mark, install
  <1>2. TypeOK'
    BY <1>1, Zenon DEF IInv, TypeOK
  <1>3. IdsOK' /\ FillOK' /\ AppliedOK' /\ BuildOK' /\ SnapshotMatchesMeta'
    BY <1>1, Zenon DEF IInv, IdsOK, FillOK, AppliedOK, BuildOK, SnapshotMatchesMeta
  <1>4. DurableStateIsPrefix' /\ (trees[sm_id] = stable[sm_id])' /\ NoGarbage'
    BY <1>1, Zenon DEF IInv, DurableStateIsPrefix, NoGarbage, FillOK
  <1>5. PurgedIsApplied' /\ NoHole'
    BY <1>1, Zenon DEF IInv, PurgedIsApplied, NoHole
  <1> QED BY <1>2, <1>3, <1>4, <1>5, Zenon DEF IInv

\* The tree to use is there, and the core learns its last log from it.
LEMMA OpenStateMachineInv ==
  ASSUME IInv, open_state_machine
  PROVE  IInv'
  <1>1. /\ UNCHANGED <<sm_id, prev_sm_id, log, purged, purging, phase, last, todo, build, current>>
        /\ trees' = [trees EXCEPT ![sm_id] = IF @ = NoTree THEN EmptyTree ELSE @]
        /\ stable' = trees' /\ up' = "up" /\ handle' = sm_id
        /\ applied' = trees'[sm_id].applied
        /\ up # "up"
    BY SMTT(60), Zenon DEF open_state_machine, smids, install
  <1>2. sm_id = prev_sm_id /\ sm_id \in TreeIds /\ phase = "idle" /\ purging = 0
    BY <1>1, Zenon DEF open_state_machine, IInv, IdsOK, TypeOK, AppliedOK
  <1>3. trees[sm_id] # NoTree /\ trees[sm_id] \in Tree /\ trees[sm_id] = stable[sm_id]
    BY <1>2, Zenon DEF IInv, TypeOK, DurableStateIsPrefix
  <1>4. trees' = trees
    BY <1>1, <1>2, <1>3, Zenon DEF IInv, TypeOK
  <1>5. trees[sm_id].applied \in 0..Len(Entries)
    BY <1>3, Zenon DEF Tree
  <1>6. TypeOK'
    BY <1>1, <1>2, <1>4, <1>5, Zenon DEF IInv, TypeOK
  <1>7. IdsOK' /\ FillOK' /\ AppliedOK' /\ BuildOK' /\ SnapshotMatchesMeta'
    BY <1>1, <1>2, <1>4, Zenon DEF IInv, IdsOK, FillOK, AppliedOK, BuildOK, SnapshotMatchesMeta
  <1>8. DurableStateIsPrefix' /\ (trees[sm_id] = stable[sm_id])' /\ NoGarbage'
    BY <1>1, <1>3, <1>4, Zenon DEF IInv, DurableStateIsPrefix, NoGarbage
  <1>9. PurgedIsApplied' /\ NoHole'
    BY <1>1, <1>3, <1>4, Zenon DEF IInv, PurgedIsApplied, NoHole
  <1> QED BY <1>6, <1>7, <1>8, <1>9, Zenon DEF IInv

-----------------------------------------------------------------------------
\* Initially the only tree is empty, and nothing is logged.
LEMMA InitInv == Init => IInv
  <1> SUFFICES ASSUME Init PROVE IInv
    OBVIOUS
  <1>1. EmptyTree \in Tree /\ EmptyTree # NoTree /\ EmptyTree.applied = 0
    BY StoreAssumption, PrefixZero, PrefixType
  <1>2. TypeOK
    BY <1>1, StoreAssumption DEF Init, TypeOK, Phases, TreeIds
  <1>3. trees[0] = EmptyTree /\ stable = trees /\ sm_id = 0 /\ prev_sm_id = 0
        /\ \A u \in TreeIds : u # 0 => trees[u] = NoTree
    BY StoreAssumption DEF Init, TreeIds
  <1>4. DurableStateIsPrefix /\ NoGarbage /\ PurgedIsApplied
    BY <1>1, <1>3, PrefixZero DEF Init, DurableStateIsPrefix, NoGarbage, PurgedIsApplied
  <1>5. IdsOK /\ FillOK /\ AppliedOK /\ BuildOK /\ SnapshotMatchesMeta /\ NoHole
    BY <1>1, <1>3, Zenon DEF Init, IdsOK, FillOK, AppliedOK, BuildOK, SnapshotMatchesMeta, NoHole
  <1> QED BY <1>2, <1>3, <1>4, <1>5, Zenon DEF IInv

\* Every step keeps the invariant, when installations do not fail.
LEMMA StepInv ==
  ASSUME ~Faults, IInv, [Next]_vars
  PROVE  IInv'
  <1>1. CASE UNCHANGED vars
    BY <1>1 DEF vars, smids, install, IInv, TypeOK, IdsOK, FillOK, AppliedOK, BuildOK,
         SnapshotMatchesMeta, DurableStateIsPrefix, NoGarbage, PurgedIsApplied, NoHole
  <1>2. ASSUME NEW i \in Indexes,
               \/ append_to_log(i, "good") \/ append_to_log(i, "stale")
               \/ delete_conflict_logs_since(i) \/ set_last_purged(i)
               \/ apply_to_state_machine(i) \/ install_refused(i) \/ install_begin(i)
        PROVE  IInv'
    BY <1>2, AppendInv, DeleteInv, SetPurgedInv, ApplyInv, NeverRefused, BeginInv, Zenon
  <1>3. CASE range_remove \/ take_snapshot \/ publish_snapshot \/ install_open
    BY <1>3, RangeRemoveInv, TakeInv, PublishInv, OpenTreeInv, Zenon
  <1>4. ASSUME NEW k \in Keys \cup {"LastApplied"}, install_insert(k) PROVE IInv'
    BY <1>4, InsertInv, Zenon
  <1>5. CASE install_flush \/ install_switch \/ install_clean \/ install_finish
    BY <1>5, InstallFlushInv, SwitchInv, CleanInv, FinishInv, Zenon
  <1>6. CASE install_fails
    BY <1>6, Zenon DEF install_fails
  <1>7. CASE \/ background_flush \/ crash
             \/ open_clean \/ open_mark \/ open_state_machine
    BY <1>7, BackgroundFlushInv, CrashInv, OpenCleanInv, OpenMarkInv, OpenStateMachineInv, Zenon
  <1> QED BY <1>1, <1>2, <1>3, <1>4, <1>5, <1>6, <1>7, Zenon DEF Next

\* The invariant holds in every behaviour without failing installations, for
\* every committed log, with crashes between any two writes.
THEOREM StoreInvariance ==
  ASSUME ~Faults
  PROVE  Spec => []IInv
  <1>1. IInv /\ [Next]_vars => IInv'
    BY StepInv, Zenon
  <1> QED BY <1>1, InitInv, PTL DEF Spec

\* The tree that a restart opens is always the complete state after a prefix of
\* the committed log (MetaRaftStore::install_snapshot, open_create).
THEOREM StoreIsCrashSafe ==
  ASSUME ~Faults
  PROVE  Spec => []DurableStateIsPrefix
  <1>1. IInv => DurableStateIsPrefix
    BY Zenon DEF IInv
  <1> QED BY <1>1, StoreInvariance, PTL

\* No entry is purged that the durable state machine does not contain
\* (purge_logs_upto, install_snapshot).
THEOREM PurgesAreSafe ==
  ASSUME ~Faults
  PROVE  Spec => []PurgedIsApplied
  <1>1. IInv => PurgedIsApplied
    BY Zenon DEF IInv
  <1> QED BY <1>1, StoreInvariance, PTL

\* The entries after the durable state can all be read (append_to_log,
\* delete_conflict_logs_since, purge_logs_upto).
THEOREM NothingLost ==
  ASSUME ~Faults
  PROVE  Spec => []NoHole
  <1>1. IInv => NoHole
    BY Zenon DEF IInv
  <1> QED BY <1>1, StoreInvariance, PTL

\* The current snapshot is the state at the log id that it is labelled with,
\* although it is built beside the raft core (build_snapshot).
THEOREM SnapshotsAreLabelled ==
  ASSUME ~Faults
  PROVE  Spec => []SnapshotMatchesMeta
  <1>1. IInv => SnapshotMatchesMeta
    BY Zenon DEF IInv
  <1> QED BY <1>1, StoreInvariance, PTL

\* What install_snapshot and last_applied_state tell the raft core is what the
\* open state machine has applied.
THEOREM CoreIsRight ==
  ASSUME ~Faults
  PROVE  Spec => []CoreKnowsApplied
  <1>1. IInv => CoreKnowsApplied
    BY Zenon DEF IInv, IdsOK, AppliedOK, DurableStateIsPrefix, CoreKnowsApplied
  <1> QED BY <1>1, StoreInvariance, PTL

-----------------------------------------------------------------------------
(***************************************************************************)
(* What a store keeps when installations fail half way.                    *)
(***************************************************************************)

\* FaultInv without the types, which the steps are shown to keep first.
Shape ==
  /\ NoGarbage
  /\ TreeToOpen /\ trees[sm_id] # NoTree
  /\ up = "up" => handle \in {sm_id, prev_sm_id}
  /\ phase # "idle" => up = "up" /\ sm_id # prev_sm_id /\ last \in Indexes
  /\ phase \in {"marked", "filling", "flushed"} => handle = sm_id
  /\ phase \in {"switched", "cleaned"} => handle = prev_sm_id
  /\ phase \in {"filling", "flushed"} => trees[prev_sm_id] # NoTree
  /\ phase = "cleaned" \/ up = "cleaned" => trees[prev_sm_id] = NoTree
  /\ up = "opening" => sm_id = prev_sm_id

\* Applying an entry to a tree gives a tree.
LEMMA ApplyType ==
  ASSUME NEW t \in Tree, NEW i \in Indexes
  PROVE  ApplyEntry(t, i) \in Tree
  <1> DEFINE v == IF Entries[i].put THEN i ELSE 0
  <1>1. v \in 0..Len(Entries) /\ i \in 0..Len(Entries)
    BY StoreAssumption DEF Indexes
  <1>2. t.kv \in [Keys -> 0..Len(Entries)]
    BY Zenon DEF Tree
  <1> HIDE DEF v
  <1>3. [t.kv EXCEPT ![Entries[i].key] = v] \in [Keys -> 0..Len(Entries)]
    BY <1>1, <1>2, ZenonT(60)
  <1> QED BY <1>1, <1>3, Zenon DEF ApplyEntry, Tree, v

\* The steps of the log change no tree.
LEMMA LogShape ==
  ASSUME FaultInv, NEW i \in Indexes, NEW what \in {"good", "stale"},
         \/ append_to_log(i, what) \/ delete_conflict_logs_since(i)
         \/ set_last_purged(i) \/ range_remove
  PROVE  FaultInv'
  <1>1. /\ UNCHANGED <<smids, trees, up, handle, applied, phase, last, todo, build, current>>
        /\ stable' = trees
        /\ log' \in [Indexes -> {"none", "good", "stale"}]
        /\ purged' \in 0..Len(Entries) /\ purging' \in 0..Len(Entries)
    BY StoreAssumption DEF FaultInv, TypeOK, append_to_log, delete_conflict_logs_since,
       set_last_purged, range_remove, core, install, smids, Indexes
  <1>2. TypeOK'
    BY <1>1, Zenon DEF FaultInv, TypeOK, smids
  <1>3. Shape'
    BY <1>1, Zenon DEF FaultInv, Shape, NoGarbage, TreeToOpen, smids
  <1> QED BY <1>2, <1>3, Zenon DEF FaultInv, Shape

\* An entry is applied to one of the two trees, which then still exists.
LEMMA ApplyShape ==
  ASSUME FaultInv, NEW i \in Indexes, apply_to_state_machine(i)
  PROVE  FaultInv'
  <1>1. /\ UNCHANGED <<sm_id, prev_sm_id, log, purged, up, handle, purging, phase, last, todo,
                      build, current>>
        /\ trees' = [trees EXCEPT ![handle] = ApplyEntry(@, i)] /\ stable' = trees'
        /\ applied' = i /\ up = "up" /\ phase = "idle" /\ trees[handle] # NoTree
    BY Zenon DEF apply_to_state_machine, install, Ready, smids
  <1>2. handle \in {sm_id, prev_sm_id} /\ handle \in TreeIds /\ trees[handle] \in Tree
    BY <1>1, Zenon DEF FaultInv, TypeOK
  <1>3. ApplyEntry(trees[handle], i) \in Tree /\ ApplyEntry(trees[handle], i) # NoTree
    BY <1>2, ApplyType, StoreAssumption, Zenon
  <1>4. /\ trees' \in [TreeIds -> Tree \cup {NoTree}]
        /\ trees'[handle] # NoTree
        /\ \A u \in TreeIds : u # handle => trees'[u] = trees[u]
    BY <1>1, <1>2, <1>3, Zenon DEF FaultInv, TypeOK
  <1>5. TypeOK'
    BY <1>1, <1>4 DEF FaultInv, TypeOK, Indexes
  <1>6. Shape'
    BY <1>1, <1>2, <1>4, Zenon DEF FaultInv, TypeOK, Shape, NoGarbage, TreeToOpen
  <1> QED BY <1>5, <1>6, Zenon DEF FaultInv, Shape

\* Snapshots that are built, and flushes, change no tree.
LEMMA BuildShape ==
  ASSUME FaultInv, take_snapshot \/ publish_snapshot \/ background_flush
  PROVE  FaultInv'
  <1>1. /\ UNCHANGED <<smids, trees, log, purged, up, handle, applied, purging, phase, last, todo>>
        /\ stable' = trees \/ stable' = stable
    BY Zenon DEF take_snapshot, publish_snapshot, background_flush, disk, core, install
  <1>2. build' \in Snapshot \cup {NoSnapshot} /\ current' \in Snapshot \cup {NoSnapshot}
    <2>1. CASE take_snapshot
      <3>1. trees[handle] \in Tree /\ trees[handle].applied > 0
        BY <2>1, Zenon DEF FaultInv, TypeOK, take_snapshot
      <3>2. trees[handle].applied \in Indexes
        BY <3>1, StoreAssumption DEF Tree, Indexes
      <3> QED BY <2>1, <3>1, <3>2, Zenon DEF take_snapshot, Snapshot, FaultInv, TypeOK
    <2>2. CASE publish_snapshot \/ background_flush
      BY <2>2, Zenon DEF publish_snapshot, background_flush, FaultInv, TypeOK
    <2> QED BY <2>1, <2>2, Zenon
  <1>3. TypeOK'
    BY <1>1, <1>2, Zenon DEF FaultInv, TypeOK, smids
  <1>4. Shape'
    BY <1>1, Zenon DEF FaultInv, Shape, NoGarbage, TreeToOpen, smids
  <1> QED BY <1>3, <1>4, Zenon DEF FaultInv, Shape

\* An installation that fails leaves everything on disk as it is.
LEMMA FailShape ==
  ASSUME FaultInv, NEW i \in Indexes, install_refused(i) \/ install_fails
  PROVE  FaultInv'
  <1>1. UNCHANGED <<smids, trees, stable, log, purged, up, handle, purging, build>>
    BY Zenon DEF install_refused, install_fails, disk
  <1>2. PICK j \in Indexes : Installed(j)
    BY Zenon DEF install_refused, install_fails, FaultInv
  <1>3. /\ current' = [last |-> j, data |-> Prefix(j)] /\ applied' = j
        /\ phase' = "idle" /\ last' = 0 /\ todo' = {}
    BY <1>2, Zenon DEF Installed
  <1>4. current' \in Snapshot
    BY <1>3, PrefixType, StoreAssumption DEF Snapshot, Indexes
  <1>5. TypeOK'
    BY <1>1, <1>3, <1>4, StoreAssumption DEF FaultInv, TypeOK, smids, Phases, Indexes
  <1>6. Shape'
    BY <1>1, <1>3, Zenon DEF FaultInv, Shape, NoGarbage, TreeToOpen, smids
  <1> QED BY <1>5, <1>6, Zenon DEF FaultInv, Shape

\* The first two writes of an installation: the number, then an empty tree.
LEMMA BeginShape ==
  ASSUME FaultInv, NEW i \in Indexes, install_begin(i)
  PROVE  FaultInv'
  <1>1. /\ UNCHANGED <<sm_id, todo, trees, log, purged, up, handle, applied, purging,
                      build, current>>
        /\ stable' = trees /\ prev_sm_id' = sm_id + 1 /\ sm_id = prev_sm_id
        /\ sm_id + 1 \in TreeIds /\ phase' = "marked" /\ last' = i
        /\ up = "up" /\ phase = "idle"
    BY Zenon DEF install_begin, core, Ready
  <1>2. handle = sm_id /\ sm_id \in Nat /\ sm_id + 1 # sm_id
    BY <1>1 DEF FaultInv, TypeOK, TreeIds
  <1>3. TypeOK'
    BY <1>1 DEF FaultInv, TypeOK, Phases, Indexes
  <1>4. Shape'
    BY <1>1, <1>2, Zenon DEF FaultInv, Shape, NoGarbage, TreeToOpen
  <1> QED BY <1>3, <1>4, Zenon DEF FaultInv, Shape

\* The new tree exists from here on.
LEMMA OpenTreeShape ==
  ASSUME FaultInv, install_open
  PROVE  FaultInv'
  <1>1. /\ UNCHANGED <<sm_id, prev_sm_id, last, log, purged, up, handle, applied, purging,
                      build, current>>
        /\ trees' = [trees EXCEPT ![prev_sm_id] = IF @ = NoTree THEN EmptyTree ELSE @]
        /\ stable' = trees' /\ phase' = "filling" /\ phase = "marked"
        /\ todo' \subseteq Keys \cup {"LastApplied"}
    BY Zenon DEF install_open, core, smids
  <1>2. EmptyTree \in Tree /\ EmptyTree # NoTree
    BY StoreAssumption, PrefixZero, PrefixType
  <1>3. /\ trees' \in [TreeIds -> Tree \cup {NoTree}]
        /\ trees'[prev_sm_id] # NoTree
        /\ \A u \in TreeIds : u # prev_sm_id => trees'[u] = trees[u]
    BY <1>1, <1>2, Zenon DEF FaultInv, TypeOK
  <1>4. TypeOK'
    BY <1>1, <1>3, Zenon DEF FaultInv, TypeOK, Phases
  <1>5. Shape'
    BY <1>1, <1>3, Zenon DEF FaultInv, TypeOK, Shape, NoGarbage, TreeToOpen
  <1> QED BY <1>4, <1>5, Zenon DEF FaultInv, Shape

\* Insertions leave a tree a tree.
LEMMA InsertShape ==
  ASSUME FaultInv, NEW k \in Keys \cup {"LastApplied"}, install_insert(k)
  PROVE  FaultInv'
  <1> DEFINE old == trees[prev_sm_id]
             new == IF k = "LastApplied"
                    THEN [old EXCEPT !.applied = last]
                    ELSE [old EXCEPT !.kv[k] = Prefix(last).kv[k]]
  <1>1. /\ UNCHANGED <<sm_id, prev_sm_id, phase, last, stable, log, purged, up, handle, applied,
                      purging, build, current>>
        /\ trees' = [trees EXCEPT ![prev_sm_id] = new]
        /\ phase = "filling" /\ todo' = todo \ {k}
    BY Zenon DEF install_insert, core, smids
  <1>2. old \in Tree /\ last \in 0..Len(Entries)
    BY <1>1, Zenon DEF FaultInv, TypeOK
  <1>3. Prefix(last).kv \in [Keys -> 0..Len(Entries)]
    BY <1>2, PrefixKeys, Zenon
  <1> HIDE DEF old
  <1>4. new \in Tree
    <2>1. CASE k = "LastApplied"
      BY <1>2, <2>1, Zenon DEF Tree
    <2>2. CASE k # "LastApplied"
      BY <1>2, <1>3, <2>2, Zenon DEF Tree
    <2> QED BY <2>1, <2>2, Zenon
  <1> HIDE DEF new
  <1>5. /\ trees' \in [TreeIds -> Tree \cup {NoTree}]
        /\ trees'[prev_sm_id] # NoTree
        /\ \A u \in TreeIds : u # prev_sm_id => trees'[u] = trees[u]
    BY <1>1, <1>4, StoreAssumption, Zenon DEF FaultInv, TypeOK
  <1>6. TypeOK'
    BY <1>1, <1>5, Zenon DEF FaultInv, TypeOK
  <1>7. Shape'
    BY <1>1, <1>5, Zenon DEF FaultInv, TypeOK, Shape, NoGarbage, TreeToOpen
  <1> QED BY <1>6, <1>7, Zenon DEF FaultInv, Shape

\* The flush and the switch: the tree that is switched to exists.
LEMMA SwitchShape ==
  ASSUME FaultInv, install_flush \/ install_switch
  PROVE  FaultInv'
  <1>1. /\ UNCHANGED <<last, todo, trees, log, purged, up, handle, applied, purging,
                      build, current>>
        /\ stable' = trees
        /\ \/ phase = "filling" /\ phase' = "flushed" /\ sm_id' = sm_id /\ prev_sm_id' = prev_sm_id
           \/ phase = "flushed" /\ phase' = "switched" /\ sm_id' = prev_sm_id /\ prev_sm_id' = sm_id
    BY Zenon DEF install_flush, install_switch, core, smids
  <1>2. TypeOK'
    BY <1>1, Zenon DEF FaultInv, TypeOK, Phases
  <1>3. Shape'
    BY <1>1, Zenon DEF FaultInv, Shape, NoGarbage, TreeToOpen
  <1> QED BY <1>2, <1>3, Zenon DEF FaultInv, Shape

\* The old tree is dropped, and its number forgotten only afterwards.
LEMMA CleanShape ==
  ASSUME FaultInv, install_clean
  PROVE  FaultInv'
  <1>1. /\ UNCHANGED <<sm_id, prev_sm_id, last, todo, stable, log, purged, up, handle, applied,
                      purging, build, current>>
        /\ trees' = [trees EXCEPT ![handle] = NoTree]
        /\ phase' = "cleaned" /\ phase = "switched"
    BY Zenon DEF install_clean, core, smids
  <1>2. /\ trees' \in [TreeIds -> Tree \cup {NoTree}]
        /\ trees'[prev_sm_id] = NoTree
        /\ \A u \in TreeIds : u # prev_sm_id => trees'[u] = trees[u]
    BY <1>1 DEF FaultInv, TypeOK
  <1>3. TypeOK'
    BY <1>1, <1>2, Zenon DEF FaultInv, TypeOK, Phases
  <1>4. Shape'
    BY <1>1, <1>2, Zenon DEF FaultInv, TypeOK, Shape, NoGarbage, TreeToOpen
  <1> QED BY <1>3, <1>4, Zenon DEF FaultInv, Shape

\* The end of an installation that succeeds.
LEMMA FinishShape ==
  ASSUME FaultInv, install_finish
  PROVE  FaultInv'
  <1>1. /\ UNCHANGED <<sm_id, trees, log, purged, up, purging, build>>
        /\ prev_sm_id' = sm_id /\ handle' = sm_id /\ stable' = trees /\ applied' = last
        /\ current' = [last |-> last, data |-> Prefix(last)]
        /\ phase' = "idle" /\ last' = 0 /\ todo' = {}
        /\ phase = "cleaned" /\ up = "up"
    BY Zenon DEF install_finish, Installed
  <1>2. last \in Indexes /\ last \in 0..Len(Entries) /\ Prefix(last) \in Tree
    BY <1>1, PrefixType, Zenon DEF FaultInv, TypeOK
  <1>3. TypeOK'
    BY <1>1, <1>2, StoreAssumption DEF FaultInv, TypeOK, Phases, Snapshot
  <1>4. Shape'
    BY <1>1, Zenon DEF FaultInv, Shape, NoGarbage, TreeToOpen
  <1> QED BY <1>3, <1>4, Zenon DEF FaultInv, Shape

\* A crash, and the first two steps of the restart.
LEMMA CrashShape ==
  ASSUME FaultInv, crash \/ open_clean \/ open_mark
  PROVE  FaultInv'
  <1>1. CASE crash
    <2>1. TypeOK'
      BY <1>1, StoreAssumption DEF FaultInv, TypeOK, crash, smids, Phases, TreeIds
    <2>2. Shape'
      BY <1>1, Zenon DEF FaultInv, Shape, NoGarbage, TreeToOpen, crash, smids
    <2> QED BY <2>1, <2>2, Zenon DEF FaultInv, Shape
  <1>2. CASE open_clean
    <2>1. /\ trees' \in [TreeIds -> Tree \cup {NoTree}]
          /\ trees'[prev_sm_id] = NoTree
          /\ \A u \in TreeIds : u # prev_sm_id => trees'[u] = trees[u]
      BY <1>2, Zenon DEF FaultInv, TypeOK, open_clean
    <2>2. TypeOK'
      BY <1>2, <2>1, Zenon DEF FaultInv, TypeOK, open_clean, smids, install
    <2>3. Shape'
      BY <1>2, <2>1, Zenon DEF FaultInv, TypeOK, Shape, NoGarbage, TreeToOpen, open_clean, smids, install
    <2> QED BY <2>2, <2>3, Zenon DEF FaultInv, Shape
  <1>3. CASE open_mark
    <2>1. TypeOK'
      BY <1>3, Zenon DEF FaultInv, TypeOK, open_mark, install
    <2>2. Shape'
      BY <1>3, Zenon DEF FaultInv, Shape, NoGarbage, TreeToOpen, open_mark, install
    <2> QED BY <2>1, <2>2, Zenon DEF FaultInv, Shape
  <1> QED BY <1>1, <1>2, <1>3, Zenon

\* The last step of the restart finds a tree.
LEMMA OpenShape ==
  ASSUME FaultInv, open_state_machine
  PROVE  FaultInv'
  <1>1. /\ UNCHANGED <<sm_id, prev_sm_id, log, purged, purging, phase, last, todo, build, current>>
        /\ trees' = [trees EXCEPT ![sm_id] = IF @ = NoTree THEN EmptyTree ELSE @]
        /\ stable' = trees' /\ up' = "up" /\ handle' = sm_id
        /\ applied' = trees'[sm_id].applied
        /\ up # "up"
    BY Zenon DEF open_state_machine, smids, install
  <1>2. trees' = trees /\ trees[sm_id] \in Tree
    BY <1>1, Zenon DEF FaultInv, TypeOK
  <1>3. trees[sm_id].applied \in 0..Len(Entries)
    BY <1>2, Zenon DEF Tree
  <1>4. TypeOK'
    BY <1>1, <1>2, <1>3, Zenon DEF FaultInv, TypeOK
  <1>5. Shape'
    BY <1>1, <1>2, Zenon DEF FaultInv, Shape, NoGarbage, TreeToOpen
  <1> QED BY <1>4, <1>5, Zenon DEF FaultInv, Shape

\* Every step keeps FaultInv.
LEMMA FaultStep ==
  ASSUME FaultInv, [Next]_vars
  PROVE  FaultInv'
  <1>1. CASE UNCHANGED vars
    BY <1>1, Zenon DEF vars, smids, install, FaultInv, TypeOK, NoGarbage, TreeToOpen
  <1>2. ASSUME NEW i \in Indexes,
               \/ append_to_log(i, "good") \/ append_to_log(i, "stale")
               \/ delete_conflict_logs_since(i) \/ set_last_purged(i)
               \/ apply_to_state_machine(i) \/ install_refused(i) \/ install_begin(i)
        PROVE  FaultInv'
    BY <1>2, LogShape, ApplyShape, FailShape, BeginShape, Zenon
  <1>3. CASE range_remove
    <2>1. CASE Indexes = {}
      BY <1>3, <2>1, StoreAssumption DEF range_remove, FaultInv, TypeOK, Indexes
    <2>2. CASE Indexes # {}
      BY <1>3, <2>2, LogShape, Zenon
    <2> QED BY <2>1, <2>2, Zenon
  <1>4. CASE take_snapshot \/ publish_snapshot \/ background_flush
    BY <1>4, BuildShape, Zenon
  <1>5. CASE install_open \/ install_flush \/ install_switch \/ install_clean \/ install_finish
    BY <1>5, OpenTreeShape, SwitchShape, CleanShape, FinishShape, Zenon
  <1>6. ASSUME NEW k \in Keys \cup {"LastApplied"}, install_insert(k) PROVE FaultInv'
    BY <1>6, InsertShape, Zenon
  <1>7. CASE install_fails
    <2>1. last \in Indexes
      BY <1>7, Zenon DEF install_fails, FaultInv
    <2> QED BY <1>7, <2>1, FailShape, Zenon
  <1>8. CASE crash \/ open_clean \/ open_mark \/ open_state_machine
    BY <1>8, CrashShape, OpenShape, Zenon
  <1> QED BY <1>1, <1>2, <1>3, <1>4, <1>5, <1>6, <1>7, <1>8, Zenon DEF Next

\* FaultInv holds in every behaviour, whatever fails and whenever the node
\* crashes (install_snapshot, open_create).
THEOREM FaultInvariance == Spec => []FaultInv
  <1>1. Init => FaultInv
    BY InitInv, Zenon DEF IInv, FaultInv, TreeToOpen, DurableStateIsPrefix, Init
  <1>2. FaultInv /\ [Next]_vars => FaultInv'
    BY FaultStep, Zenon
  <1> QED BY <1>1, <1>2, PTL DEF Spec

\* No tree is left behind that StateMachineId does not name, so that an
\* installation always starts on an empty one (install_snapshot, open_create).
THEOREM FailuresLeaveNoGarbage == Spec => []NoGarbage
  <1>1. FaultInv => NoGarbage
    BY Zenon DEF FaultInv
  <1> QED BY <1>1, FaultInvariance, PTL

\* There is always a state machine for a restart to open (open_create).
THEOREM RestartFindsTree == Spec => []TreeToOpen
  <1>1. FaultInv => TreeToOpen
    BY Zenon DEF FaultInv
  <1> QED BY <1>1, FaultInvariance, PTL
=============================================================================
