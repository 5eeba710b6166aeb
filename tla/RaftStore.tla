------------------------------ MODULE RaftStore -----------------------------
(***************************************************************************)
(* The storage of one meta node: metasrv/src/store/meta_raft_store.rs on   *)
(* top of the raft log, the raft state and the sled trees of               *)
(* common/meta/raft-store and common/meta/sled-store.                      *)
(*                                                                         *)
(* The state machine lives in a sled tree of its own, named by a number.   *)
(* A snapshot is installed by filling the tree with the next number and    *)
(* then switching to it.  The raft state records two numbers: the tree to  *)
(* use, and one that is either the same or garbage.  The node may crash    *)
(* between any two writes, and what sled has not flushed is then lost.     *)
(*                                                                         *)
(* The caller of the storage is the raft core of the openraft library,     *)
(* one task that waits for each call; only a snapshot is built in a task   *)
(* beside it.  The cluster commits the entries of Entries, in that order.  *)
(***************************************************************************)
EXTENDS Integers, Sequences, FiniteSetsExt

CONSTANTS Keys,      \* keys of the state machine
          Entries,   \* the committed log: writes and deletions of keys
          MaxTree,   \* bound: the number of the last tree
          Faults,    \* whether an installation may fail half way
          NoTree, NoSnapshot

TreeIds == 0..MaxTree
Indexes == 1..Len(Entries)

\* The content of a tree: LastApplied, and for every key the index of the entry
\* that wrote its value, 0 for no value.
Tree == [applied : 0..Len(Entries), kv : [Keys -> 0..Len(Entries)]]

ASSUME StoreAssumption ==
  /\ Entries \in Seq([key : Keys, put : BOOLEAN])
  /\ MaxTree \in Nat
  /\ Faults \in BOOLEAN
  /\ NoTree \notin Tree
  /\ "LastApplied" \notin Keys

VARIABLES sm_id,    \* StateMachineId of the raft state: the tree to use,
          prev_sm_id, \* and the same number, or that of a garbage tree
          trees,    \* tree number -> its content, as sled shows it
          stable,   \* tree number -> the content that survives a crash
          log,      \* index -> "none", "good" (the committed entry), "stale"
          purged,   \* LastPurged of the log
          up,       \* "down", "cleaned" and "opening" while it starts, "up"
          handle,   \* number of the tree that the StateMachine object holds
          applied,  \* last applied index, as the raft core knows it
          purging,  \* the index of a purge of which the first half is done, or 0
          phase,    \* how far the installation of a snapshot is
          last,     \* the last log of that snapshot
          todo,     \* what of it is still to be inserted
          build,    \* a snapshot that was taken and is not yet published
          current   \* current_snapshot

smids == <<sm_id, prev_sm_id>>
install == <<phase, last, todo>>

vars == <<smids, trees, stable, log, purged, up, handle, applied, purging,
          install, build, current>>

disk == <<smids, trees, stable, log, purged>>
core == <<up, handle, applied>>

-----------------------------------------------------------------------------
EmptyTree == [applied |-> 0, kv |-> [k \in Keys |-> 0]]

ApplyEntry(t, i) ==
  [applied |-> i,
   kv |-> [t.kv EXCEPT ![Entries[i].key] = IF Entries[i].put THEN i ELSE 0]]

\* The state after the first i entries: every key as its last writer left it.
Writers(k, i) == {0} \cup {j \in 1..i : Entries[j].key = k}

ValueAt(k, i) ==
  LET j == Max(Writers(k, i)) IN IF j \in Indexes /\ Entries[j].put THEN j ELSE 0

Prefix(i) == [applied |-> i, kv |-> [k \in Keys |-> ValueAt(k, i)]]

Init ==
  /\ sm_id = 0 /\ prev_sm_id = 0
  /\ trees = [t \in TreeIds |-> IF t = 0 THEN EmptyTree ELSE NoTree]
  /\ stable = trees
  /\ log = [i \in Indexes |-> "none"]
  /\ purged = 0
  /\ up = "up" /\ handle = 0 /\ applied = 0 /\ purging = 0
  /\ phase = "idle" /\ last = 0 /\ todo = {}
  /\ build = NoSnapshot /\ current = NoSnapshot

-----------------------------------------------------------------------------
(***************************************************************************)
(* The log.  The raft core calls when it waits for nothing else.           *)
(***************************************************************************)

Ready == up = "up" /\ phase = "idle" /\ purging = 0

Logged == {0, purged, applied} \cup {i \in Indexes : log[i] # "none"}
IsNext(i) == i - 1 \in Logged /\ \A j \in Logged : j < i

\* append_to_log: an entry that is committed sooner or later, or one of a
\* leader that is going to be deposed.
append_to_log(i, what) ==
  /\ Ready
  /\ IsNext(i)
  /\ what = "good" => \A j \in Indexes : applied < j => log[j] # "stale"
  /\ log' = [log EXCEPT ![i] = what]
  /\ stable' = trees
  /\ UNCHANGED <<smids, trees, purged, core, purging, install, build, current>>

\* Only the log at the conflict is removed.
delete_one_conflict(i) ==
  /\ Ready
  /\ i > applied /\ log[i] = "stale"
  /\ log' = [log EXCEPT ![i] = "none"]
  /\ stable' = trees
  /\ UNCHANGED <<smids, trees, purged, core, purging, install, build, current>>

delete_conflict_logs_since(i) ==
  /\ Ready
  /\ i > applied /\ log[i] = "stale"
  /\ log' = [j \in Indexes |-> IF j >= i THEN "none" ELSE log[j]]
  /\ stable' = trees
  /\ UNCHANGED <<smids, trees, purged, core, purging, install, build, current>>

\* purge_logs_upto: LastPurged first, then the logs, each write flushed.
set_last_purged(i) ==
  /\ Ready
  /\ purged < i /\ i <= applied
  /\ purged' = i
  /\ purging' = i
  /\ stable' = trees
  /\ UNCHANGED <<smids, trees, log, core, install, build, current>>

range_remove ==
  /\ up = "up" /\ purging # 0
  /\ log' = [j \in Indexes |-> IF j <= purging THEN "none" ELSE log[j]]
  /\ purging' = 0
  /\ stable' = trees
  /\ UNCHANGED <<smids, trees, purged, core, install, build, current>>

\* apply_to_state_machine for one entry: a sled transaction, flushed.
apply_to_state_machine(i) ==
  /\ Ready
  /\ i = applied + 1 /\ log[i] = "good"
  /\ trees[handle] # NoTree
  /\ trees' = [trees EXCEPT ![handle] = ApplyEntry(@, i)]
  /\ stable' = trees'
  /\ applied' = i
  /\ UNCHANGED <<smids, log, purged, up, handle, purging, install, build, current>>

-----------------------------------------------------------------------------
(***************************************************************************)
(* Snapshots.                                                              *)
(***************************************************************************)

\* build_snapshot, in its own task: the content is taken under the lock of the
\* state machine, and published later.
take_snapshot ==
  /\ up = "up" /\ phase = "idle" /\ build = NoSnapshot
  /\ trees[handle] # NoTree /\ trees[handle].applied > 0
  /\ build' = [last |-> trees[handle].applied, data |-> trees[handle]]
  /\ UNCHANGED <<disk, core, purging, install, current>>

\* The last applied log is asked for only now.
publish_with_late_meta ==
  /\ up = "up" /\ build # NoSnapshot
  /\ current' = [build EXCEPT !.last = applied]
  /\ build' = NoSnapshot
  /\ UNCHANGED <<disk, core, purging, install>>

publish_snapshot ==
  /\ up = "up" /\ build # NoSnapshot
  /\ current' = build
  /\ build' = NoSnapshot
  /\ UNCHANGED <<disk, core, purging, install>>

\* What follows an installation, whether it succeeded or not: the snapshot
\* becomes the current one and the core believes that it is applied.
Installed(i) ==
  /\ current' = [last |-> i, data |-> Prefix(i)]
  /\ applied' = i
  /\ phase' = "idle" /\ last' = 0 /\ todo' = {}

\* install_snapshot: a leader sends the state after i entries.  Nothing is
\* done, and no error is returned, while an earlier installation is not
\* cleaned up or when the snapshot cannot be decoded.
install_refused(i) ==
  /\ Ready
  /\ i > applied
  /\ sm_id # prev_sm_id \/ Faults
  /\ Installed(i)
  /\ UNCHANGED <<disk, up, handle, purging, build>>

install_begin(i) ==
  /\ Ready
  /\ i > applied
  /\ sm_id = prev_sm_id /\ sm_id + 1 \in TreeIds
  /\ prev_sm_id' = sm_id + 1
  /\ stable' = trees
  /\ phase' = "marked" /\ last' = i
  /\ UNCHANGED <<sm_id, todo, trees, log, purged, core, purging, build, current>>

\* StateMachine::open makes the tree when there is none, and flushes.  What
\* is to be inserted is every key that has a value, and LastApplied.
install_open ==
  /\ up = "up" /\ phase = "marked"
  /\ trees' = [trees EXCEPT ![prev_sm_id] = IF @ = NoTree THEN EmptyTree ELSE @]
  /\ stable' = trees'
  /\ phase' = "filling"
  /\ todo' = {"LastApplied"} \cup {k \in Keys : Prefix(last).kv[k] # 0}
  /\ UNCHANGED <<smids, last, log, purged, core, purging, build, current>>

install_insert(k) ==
  /\ up = "up" /\ phase = "filling"
  /\ k \in todo
  /\ trees' = [trees EXCEPT ![prev_sm_id] =
                 IF k = "LastApplied"
                 THEN [@ EXCEPT !.applied = last]
                 ELSE [@ EXCEPT !.kv[k] = Prefix(last).kv[k]]]
  /\ todo' = todo \ {k}
  /\ UNCHANGED <<smids, phase, last, stable, log, purged, core, purging, build, current>>

install_flush ==
  /\ up = "up" /\ phase = "filling" /\ todo = {}
  /\ stable' = trees
  /\ phase' = "flushed"
  /\ UNCHANGED <<smids, last, todo, trees, log, purged, core, purging, build, current>>

\* The numbers stay as they are.
install_no_switch ==
  /\ up = "up" /\ phase = "flushed"
  /\ stable' = trees
  /\ phase' = "switched"
  /\ UNCHANGED <<smids, last, todo, trees, log, purged, core, purging, build, current>>

install_switch ==
  /\ up = "up" /\ phase = "flushed"
  /\ sm_id' = prev_sm_id /\ prev_sm_id' = sm_id
  /\ stable' = trees
  /\ phase' = "switched"
  /\ UNCHANGED <<last, todo, trees, log, purged, core, purging, build, current>>

\* StateMachine::clean: the tree is dropped, without a flush.
install_clean ==
  /\ up = "up" /\ phase = "switched"
  /\ trees' = [trees EXCEPT ![handle] = NoTree]
  /\ phase' = "cleaned"
  /\ UNCHANGED <<smids, last, todo, stable, log, purged, core, purging, build, current>>

\* The StateMachine object of the dropped tree stays in use.
finish_with_old_handle ==
  /\ up = "up" /\ phase = "cleaned"
  /\ prev_sm_id' = sm_id
  /\ stable' = trees
  /\ handle' = handle
  /\ Installed(last)
  /\ UNCHANGED <<sm_id, trees, log, purged, up, purging, build>>

\* The last write, and then the StateMachine object is replaced.
install_finish ==
  /\ up = "up" /\ phase = "cleaned"
  /\ prev_sm_id' = sm_id
  /\ stable' = trees
  /\ handle' = sm_id
  /\ Installed(last)
  /\ UNCHANGED <<sm_id, trees, log, purged, up, purging, build>>

\* An error of any step is logged and otherwise ignored.
install_fails ==
  /\ Faults
  /\ up = "up" /\ phase # "idle"
  /\ Installed(last)
  /\ UNCHANGED <<disk, up, handle, purging, build>>

-----------------------------------------------------------------------------
(***************************************************************************)
(* sled flushes in the background; a crash loses what is not flushed.      *)
(* open_create starts the node again.                                      *)
(***************************************************************************)

background_flush ==
  /\ stable' = trees
  /\ UNCHANGED <<smids, trees, log, purged, core, purging, install, build, current>>

crash ==
  /\ trees' = stable
  /\ up' = "down" /\ handle' = 0 /\ applied' = 0 /\ purging' = 0
  /\ phase' = "idle" /\ last' = 0 /\ todo' = {}
  /\ build' = NoSnapshot /\ current' = NoSnapshot
  /\ UNCHANGED <<smids, stable, log, purged>>

\* The garbage is forgotten and not removed.
open_forget ==
  /\ up = "down" /\ sm_id # prev_sm_id
  /\ up' = "cleaned"
  /\ UNCHANGED <<disk, handle, applied, purging, install, build, current>>

\* The two numbers of StateMachineId are taken for each other.
open_clean_wrong ==
  /\ up = "down" /\ sm_id # prev_sm_id
  /\ trees' = [trees EXCEPT ![sm_id] = NoTree]
  /\ up' = "cleaned"
  /\ UNCHANGED <<smids, stable, log, purged, handle, applied, purging, install, build, current>>

\* There is a garbage state machine that needs to be cleaned.
open_clean ==
  /\ up = "down" /\ sm_id # prev_sm_id
  /\ trees' = [trees EXCEPT ![prev_sm_id] = NoTree]
  /\ up' = "cleaned"
  /\ UNCHANGED <<smids, stable, log, purged, handle, applied, purging, install, build, current>>

open_mark ==
  /\ up = "cleaned"
  /\ prev_sm_id' = sm_id
  /\ stable' = trees
  /\ up' = "opening"
  /\ UNCHANGED <<sm_id, trees, log, purged, handle, applied, purging, install, build, current>>

\* StateMachine::open, and the raft core reads last_applied_state.
open_state_machine ==
  /\ up = "opening" \/ (up = "down" /\ sm_id = prev_sm_id)
  /\ trees' = [trees EXCEPT ![sm_id] = IF @ = NoTree THEN EmptyTree ELSE @]
  /\ stable' = trees'
  /\ up' = "up" /\ handle' = sm_id /\ applied' = trees'[sm_id].applied
  /\ UNCHANGED <<smids, log, purged, purging, install, build, current>>

Next ==
  \/ \E i \in Indexes :
       \/ append_to_log(i, "good") \/ append_to_log(i, "stale")
       \/ delete_conflict_logs_since(i)
       \/ set_last_purged(i)
       \/ apply_to_state_machine(i)
       \/ install_refused(i) \/ install_begin(i)
  \/ range_remove
  \/ take_snapshot \/ publish_snapshot
  \/ install_open
  \/ \E k \in Keys \cup {"LastApplied"} : install_insert(k)
  \/ install_flush \/ install_switch \/ install_clean \/ install_finish
  \/ install_fails
  \/ background_flush \/ crash
  \/ open_clean \/ open_mark \/ open_state_machine

Spec == Init /\ [][Next]_vars

-----------------------------------------------------------------------------
Snapshot == [last : Indexes, data : Tree]
Phases == {"idle", "marked", "filling", "flushed", "switched", "cleaned"}

\* The variables keep their types.
TypeOK ==
  /\ sm_id \in TreeIds /\ prev_sm_id \in TreeIds
  /\ trees \in [TreeIds -> Tree \cup {NoTree}]
  /\ stable \in [TreeIds -> Tree \cup {NoTree}]
  /\ log \in [Indexes -> {"none", "good", "stale"}]
  /\ purged \in 0..Len(Entries)
  /\ up \in {"down", "cleaned", "opening", "up"}
  /\ handle \in TreeIds /\ applied \in 0..Len(Entries) /\ purging \in 0..Len(Entries)
  /\ phase \in Phases /\ last \in 0..Len(Entries)
  /\ todo \subseteq Keys \cup {"LastApplied"}
  /\ build \in Snapshot \cup {NoSnapshot}
  /\ current \in Snapshot \cup {NoSnapshot}

\* Whenever the node crashes, the tree that StateMachineId names holds exactly
\* the state after the entries up to its LastApplied: never a snapshot that is
\* half inserted, or one mixed with what an earlier installation left behind.
DurableStateIsPrefix ==
  stable[sm_id] # NoTree /\ stable[sm_id] = Prefix(stable[sm_id].applied)

\* "The logs to clean are all included in a snapshot and state machine"
\* (RaftLog::range_remove): what is purged is in the state machine that a
\* restart would open.
PurgedIsApplied ==
  stable[sm_id] # NoTree /\ purged <= stable[sm_id].applied

\* Every entry between the durable state and the end of the log can be read.
NoHole ==
  \A i \in Indexes :
    log[i] # "none" => \A j \in Indexes :
      stable[sm_id].applied < j /\ j < i => log[j] # "none"

\* The snapshot that a follower would be sent is the state at its last_log_id,
\* although it is published some time after it was taken.
SnapshotMatchesMeta ==
  current # NoSnapshot => current.data = Prefix(current.last)

\* The raft core and the open state machine agree on what is applied.
CoreKnowsApplied ==
  up = "up" /\ phase = "idle" =>
    trees[handle] # NoTree /\ trees[handle].applied = applied

\* A tree that neither number of StateMachineId names does not exist: an
\* installation never starts on what is left of another one, also after
\* crashes and failures.
NoGarbage ==
  \A t \in TreeIds : t # sm_id /\ t # prev_sm_id => trees[t] = NoTree /\ stable[t] = NoTree

\* There is always a tree to open, also after crashes and failures.
TreeToOpen == stable[sm_id] # NoTree

-----------------------------------------------------------------------------
(***************************************************************************)
(* The inductive invariant of a store whose installations do not fail.     *)
(***************************************************************************)

IdsOK ==
  /\ up # "up" => phase = "idle" /\ applied = 0
  /\ up = "up" /\ phase = "idle" => sm_id = handle /\ prev_sm_id = handle
  /\ phase \in {"marked", "filling", "flushed"} =>
       sm_id = handle /\ prev_sm_id = handle + 1
  /\ phase \in {"switched", "cleaned"} =>
       sm_id = handle + 1 /\ prev_sm_id = handle
  /\ up = "opening" => sm_id = prev_sm_id
  /\ up = "cleaned" => sm_id # prev_sm_id

\* What the tree of an installation holds, phase by phase.
FillOK ==
  /\ phase = "marked" => trees[prev_sm_id] = NoTree
  /\ phase = "filling" =>
       /\ trees[prev_sm_id] # NoTree
       /\ \A k \in Keys \ todo : trees[prev_sm_id].kv[k] = Prefix(last).kv[k]
       /\ "LastApplied" \notin todo => trees[prev_sm_id].applied = last
  /\ phase = "flushed" => trees[prev_sm_id] = Prefix(last)
  /\ phase \in {"switched", "cleaned"} => trees[sm_id].applied = last
  /\ phase = "cleaned" \/ up = "cleaned" => trees[prev_sm_id] = NoTree

AppliedOK ==
  /\ up = "up" /\ phase \notin {"switched", "cleaned"} => applied = trees[sm_id].applied
  /\ phase # "idle" => applied < last
  /\ purging # 0 => up = "up" /\ phase = "idle" /\ purging <= applied

BuildOK == build # NoSnapshot => build.data = Prefix(build.last)

\* The tree to use is durable and holds a prefix of the committed log, the
\* other one is as far as the installation has come, and nothing else exists.
IInv ==
  /\ TypeOK
  /\ IdsOK
  /\ DurableStateIsPrefix
  /\ trees[sm_id] = stable[sm_id]
  /\ NoGarbage
  /\ FillOK
  /\ AppliedOK
  /\ PurgedIsApplied
  /\ NoHole
  /\ BuildOK
  /\ SnapshotMatchesMeta

\* What is left of it when installations fail half way: the two numbers still
\* account for every tree, and the first one always names a tree.
FaultInv ==
  /\ TypeOK
  /\ NoGarbage
  /\ TreeToOpen /\ trees[sm_id] # NoTree
  /\ up = "up" => handle \in {sm_id, prev_sm_id}
  /\ phase # "idle" => up = "up" /\ sm_id # prev_sm_id /\ last \in Indexes
  /\ phase \in {"marked", "filling", "flushed"} => handle = sm_id
  /\ phase \in {"switched", "cleaned"} => handle = prev_sm_id
  /\ phase \in {"filling", "flushed"} => trees[prev_sm_id] # NoTree
  /\ phase = "cleaned" \/ up = "cleaned" => trees[prev_sm_id] = NoTree
  /\ up = "opening" => sm_id = prev_sm_id
=============================================================================
