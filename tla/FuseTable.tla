------------------------------ MODULE FuseTable ------------------------------
(***************************************************************************)
(* The write path of a Fuse table: sessions of any number of query nodes   *)
(* that insert into, overwrite, truncate, optimize and drop one table kept *)
(* in an object store.  The table's record in the meta service points at a *)
(* snapshot, a snapshot lists segments, a segment lists blocks.  Writers   *)
(* are optimistic: write data, write a snapshot based on the one they      *)
(* know, and swing the pointer if the record still has the sequence number *)
(* they know; otherwise read the record again and start over.              *)
(*                                                                         *)
(* A session runs one statement.  It writes at most one segment of one     *)
(* block, both named by the session.  A read of a purged snapshot or       *)
(* segment may still be answered by a cache of its node, so a missing      *)
(* object that was ever cached may be found or not found.                  *)
(***************************************************************************)
EXTENDS Naturals, Sequences, FiniteSets

CONSTANTS Session,     \* the statements that run, one per session
          Plans,       \* which kinds of statement they may be, together
          MaxRetries,  \* bound: refreshes before the backoff has elapsed
          Fault,       \* what may go wrong with a call to the meta service
          Sizes,       \* how many segments an INSERT may write: 0, 1 or both
          None         \* no snapshot

Ops == {"append", "overwrite", "compact", "purge", "all", "truncate", "truncate_purge", "drop"}
Faults == {"lost", "resent", "unsent", "undeleted"}

\* A snapshot is named by who wrote it and in which try (a fresh Uuid).
SnapId == Session \X (0 .. MaxRetries)

ASSUME FuseAssumption ==
    /\ Plans \subseteq [Session -> Ops]
    /\ Fault \subseteq Faults
    /\ MaxRetries \in Nat
    /\ None \notin SnapId
    /\ Sizes \subseteq {0, 1}

VARIABLES
    seq,      \* sequence number of the table's meta record, 0 when it is dropped
    loc,      \* its option snapshot_location
    snap,     \* every snapshot: what it is based on and its segments
    files,    \* the snapshot objects in the store
    segments, \* the segment objects in the store
    blocks,   \* the block objects in the store
    cached,   \* the snapshots some node has put into its snapshot cache
    commits,  \* history: the snapshots the pointer has been swung to
    pc, op,   \* per session: where it is, what it runs
    rows,     \* the rows of the segment it wrote
    hist,     \* the snapshot history it has read, kept once it removes objects
    local,    \* the other locals of its statement, see Locals
    result    \* what the client was told

record == <<seq, loc, commits>>
store == <<snap, files, segments, blocks>>
session == <<pc, op, rows, hist, local, result>>
vars == <<record, store, cached, session>>

Nothing == [blocks |-> {}, segs |-> {}, snaps |-> << >>]

Locals == [seq : Nat, loc : SnapId \cup {None},   \* the FuseTable: the record it read
           reply : {"none", "mismatch", "other"},  \* the error being handled
           doomed : [blocks : SUBSET Session, segs : SUBSET Session, snaps : Seq(SnapId)],
           tries : 0 .. MaxRetries]                \* refreshes so far

NoLocals == [seq |-> 0, loc |-> None, reply |-> "none", doomed |-> Nothing, tries |-> 0]

Unwritten == [prev |-> None, segs |-> {}]

Init ==
    /\ seq = 1 /\ loc = None /\ commits = << >>
    /\ snap = [l \in SnapId |-> Unwritten] /\ files = {} /\ segments = {} /\ blocks = {}
    /\ cached = {}
    /\ pc = [s \in Session |-> "idle"]
    /\ op \in Plans
    /\ rows = [s \in Session |-> {}]
    /\ hist = [s \in Session |-> << >>]
    /\ local = [s \in Session |-> NoLocals]
    /\ result = [s \in Session |-> "none"]

-----------------------------------------------------------------------------
(* Helpers *)

Inserts(s) == op[s] \in {"append", "overwrite", "compact", "all"}
Truncates(s) == op[s] \in {"truncate", "truncate_purge"}

\* The statement goes on at l with locals v.
Continue(s, l, v) ==
    /\ pc' = [pc EXCEPT ![s] = l]
    /\ local' = [local EXCEPT ![s] = v]
    /\ UNCHANGED result

\* The statement ends: its locals are gone, and the client is told r.
Finish(s, r) ==
    /\ pc' = [pc EXCEPT ![s] = "done"]
    /\ local' = [local EXCEPT ![s] = NoLocals]
    /\ result' = [result EXCEPT ![s] = r]

\* The FuseTable of a record read now.
latest(s) == [local[s] EXCEPT !.seq = seq, !.loc = loc]

\* The snapshot of the current try.
new_snapshot(s) == <<s, local[s].tries>>

\* The segments the statement wrote (its operation log).
own(s) == IF rows[s] = {} THEN {} ELSE {s}

SegmentsOf(l) == IF l = None THEN {} ELSE snap[l].segs
ContentOf(l) == UNION {rows[g] : g \in SegmentsOf(l)}

\* CachedReader::read of a snapshot: found in the store or in a cache.
CanRead(l) == l \in files \cup cached
CanMiss(l) == l \notin files

-----------------------------------------------------------------------------
(* Starting a statement, writing its data *)

first_step(s) ==
    CASE Inserts(s) -> "data" [] Truncates(s) -> "read" [] op[s] = "purge" -> "history"
      [] OTHER -> "drop"

\* QueryContext::get_table: one handle for the whole query.  Without a table
\* only DROP ... IF EXISTS succeeds.
get_table(s) ==
    /\ pc[s] = "idle"
    /\ \/ seq # 0 /\ Continue(s, first_step(s), latest(s))
       \/ seq = 0 /\ Finish(s, "error")
       \/ seq = 0 /\ op[s] = "drop" /\ Finish(s, "ok")
    /\ UNCHANGED <<record, store, cached, op, rows, hist>>

Compacts(s) == op[s] \in {"compact", "all"}

\* The rows a statement has to write: a compaction selects all rows of its
\* handle, which needs the snapshot and every block of it.
source_rows(s) ==
    IF Compacts(s) THEN {ContentOf(local[s].loc)} ELSE {IF n = 0 THEN {} ELSE {s} : n \in Sizes}

missing_blocks(s) == SegmentsOf(local[s].loc) \ blocks

\* The sink writes the block, then the segment, and logs the segment.
append_data(s) ==
    /\ pc[s] = "data"
    /\ Compacts(s) /\ local[s].loc # None => CanRead(local[s].loc) /\ missing_blocks(s) = {}
    /\ \E r \in source_rows(s) :
         /\ rows' = [rows EXCEPT ![s] = r]
         /\ blocks' = blocks \cup (IF r = {} THEN {} ELSE {s})
         /\ segments' = segments \cup (IF r = {} THEN {} ELSE {s})
    /\ Continue(s, "read", local[s])
    /\ UNCHANGED <<record, snap, files, cached, op, hist>>

select_fails(s) ==
    /\ pc[s] = "data"
    /\ Compacts(s) /\ local[s].loc # None
    /\ ~(local[s].loc \in files /\ missing_blocks(s) = {})
    /\ Finish(s, "error")
    /\ UNCHANGED <<record, store, cached, op, rows, hist>>

-----------------------------------------------------------------------------
(* try_commit and do_truncate: read the snapshot, write a new one *)

read_table_snapshot(s) ==
    LET l == local[s].loc IN
    /\ pc[s] = "read"
    /\ \/ /\ l = None
          /\ IF Truncates(s) THEN Finish(s, "ok") ELSE Continue(s, "write", local[s])
          /\ UNCHANGED cached
       \/ /\ l # None /\ CanRead(l)
          /\ cached' = cached \cup {l}
          /\ Continue(s, "write", local[s])
       \/ /\ l # None /\ CanMiss(l)
          /\ Finish(s, "error")
          /\ UNCHANGED cached
    /\ UNCHANGED <<record, store, op, rows, hist>>

\* merge_table_operations, the overwriting branch of try_commit, and the
\* empty snapshot of do_truncate.
new_segments(s) ==
    CASE op[s] = "append" -> own(s) \cup SegmentsOf(local[s].loc)
      [] Truncates(s) -> {}
      [] OTHER -> own(s)

write_snapshot(s) ==
    /\ pc[s] = "write"
    /\ snap' = [snap EXCEPT ![new_snapshot(s)] = [prev |-> local[s].loc, segs |-> new_segments(s)]]
    /\ files' = files \cup {new_snapshot(s)}
    /\ Continue(s, IF op[s] = "truncate_purge" THEN "history" ELSE "commit", local[s])
    /\ UNCHANGED <<record, segments, blocks, cached, op, rows, hist>>

-----------------------------------------------------------------------------
(* Swinging the pointer *)

accepts_any_seq(s) == seq # 0 /\ local[s].seq <= seq

\* UpsertTableOptionReq with MatchSeq::Exact: the record is as the handle says.
\* What upsert_table_option does with it is the subject of module SchemaApi.
accepted(s) == seq # 0 /\ local[s].seq = seq

upsert_table_option(s) ==
    /\ accepted(s)
    /\ seq' = seq + 1
    /\ loc' = new_snapshot(s)
    /\ commits' = Append(commits, new_snapshot(s))

\* What the caller does with Ok: try_commit caches the snapshot, and OPTIMIZE
\* ALL goes on to purge a refreshed table.
committed(s) ==
    /\ cached' = IF Inserts(s) THEN cached \cup {new_snapshot(s)} ELSE cached
    /\ IF op[s] = "all" THEN Continue(s, "refresh", local[s]) ELSE Finish(s, "ok")

ignored(s, e) ==
    /\ UNCHANGED cached
    /\ IF Inserts(s)
       THEN Continue(s, "discard", [local[s] EXCEPT !.reply = e])
       ELSE Finish(s, "ok")

\* And with an error: try_commit deletes its snapshot, do_truncate does not.
failed(s, e) ==
    /\ UNCHANGED cached
    /\ IF Inserts(s)
       THEN Continue(s, "discard", [local[s] EXCEPT !.reply = e])
       ELSE Finish(s, "error")

\* A dropped table is not a version mismatch.
rejection == IF seq = 0 THEN "other" ELSE "mismatch"

\* The call returns what happened; or its answer is lost; or it is lost and
\* the client sends the transaction again, which then finds the record
\* changed by itself; or the request never arrives.
commit_to_meta_server(s) ==
    /\ pc[s] = "commit"
    /\ \/ upsert_table_option(s) /\ committed(s)
       \/ ~accepted(s) /\ UNCHANGED record /\ failed(s, rejection)
       \/ "lost" \in Fault /\ upsert_table_option(s) /\ failed(s, "other")
       \/ "resent" \in Fault /\ upsert_table_option(s) /\ failed(s, "mismatch")
       \/ "unsent" \in Fault /\ UNCHANGED record /\ failed(s, "other")
    /\ UNCHANGED <<store, op, rows, hist>>

-----------------------------------------------------------------------------
(* do_commit after an error of try_commit *)

\* Removing an object succeeds, or fails and the failure is ignored.
Removed(S, x) == {S \ {x}} \cup (IF "undeleted" \in Fault THEN {S} ELSE {})

is_error_recoverable(e) == e = "mismatch"

\* try_commit deletes the snapshot it could not commit; do_commit looks at
\* the error.
discard_snapshot(s) ==
    /\ pc[s] = "discard"
    /\ files' \in Removed(files, new_snapshot(s))
    /\ IF is_error_recoverable(local[s].reply)
       THEN Continue(s, "backoff", local[s])
       ELSE Finish(s, "error")
    /\ UNCHANGED <<record, snap, segments, blocks, cached, op, rows, hist>>

retry_on_old_snapshot(s) ==
    /\ pc[s] = "backoff"
    /\ local[s].tries < MaxRetries
    /\ IF seq = 0
       THEN Finish(s, "error")
       ELSE Continue(s, "read", [local[s] EXCEPT !.seq = seq, !.reply = "none", !.tries = @ + 1])
    /\ UNCHANGED <<record, store, cached, op, rows, hist>>

\* next_backoff gave a delay: read the record again, try again.  When the
\* table is gone the statement ends, and its data is left behind.
retry(s) ==
    /\ pc[s] = "backoff"
    /\ local[s].tries < MaxRetries
    /\ IF seq = 0
       THEN Finish(s, "error")
       ELSE Continue(s, "read", [latest(s) EXCEPT !.reply = "none", !.tries = @ + 1])
    /\ UNCHANGED <<record, store, cached, op, rows, hist>>

give_up_blocks(s) ==
    /\ pc[s] = "backoff"
    /\ Continue(s, "abort", [local[s] EXCEPT !.doomed.blocks = own(s)])
    /\ UNCHANGED <<record, store, cached, op, rows, hist>>

\* The time for retries has elapsed: abort_operations.
give_up(s) ==
    /\ pc[s] = "backoff"
    /\ Continue(s, "abort", [local[s] EXCEPT !.doomed.blocks = own(s), !.doomed.segs = own(s)])
    /\ UNCHANGED <<record, store, cached, op, rows, hist>>

-----------------------------------------------------------------------------
(* DROP TABLE *)

remove_record ==
    /\ seq # 0
    /\ seq' = 0 /\ loc' = None
    /\ UNCHANGED commits

\* The table's record is removed, then everything is purged that the handle
\* leads to.  With IF EXISTS a table that is already gone is purged again.
drop_table(s) ==
    /\ pc[s] = "drop"
    /\ \/ remove_record /\ Continue(s, "history", local[s])
       \/ seq = 0 /\ UNCHANGED record /\ Continue(s, "history", local[s])
       \/ seq = 0 /\ UNCHANGED record /\ Finish(s, "error")
       \/ Fault \cap {"lost", "resent"} # {} /\ remove_record /\ Finish(s, "error")
       \/ "unsent" \in Fault /\ UNCHANGED record /\ Finish(s, "error")
    /\ UNCHANGED <<store, cached, op, rows, hist>>

-----------------------------------------------------------------------------
(* do_optimize *)

\* OPTIMIZE ALL has compacted and asks the catalog for the table again.
refresh(s) ==
    /\ pc[s] = "refresh"
    /\ IF seq = 0 THEN Finish(s, "error") ELSE Continue(s, "history", latest(s))
    /\ UNCHANGED <<record, store, cached, op, rows, hist>>

next_in_history(s) ==
    IF hist[s] = << >> THEN local[s].loc ELSE snap[hist[s][Len(hist[s])]].prev

\* read_snapshot_history, one snapshot per step; a snapshot that is not found
\* ends the history like the first one does.
read_snapshot_history(s) ==
    LET l == next_in_history(s) IN
    /\ pc[s] = "history"
    /\ \/ /\ l # None /\ CanRead(l)
          /\ hist' = [hist EXCEPT ![s] = Append(@, l)]
          /\ cached' = cached \cup {l}
          /\ Continue(s, "history", local[s])
       \/ /\ l # None => CanMiss(l)
          /\ Continue(s, "gc", local[s])
          /\ UNCHANGED <<hist, cached>>
    /\ UNCHANGED <<record, store, op, rows>>

keep_last_snapshot(s) == op[s] \notin {"truncate_purge", "drop"}
min_history_len(s) == IF keep_last_snapshot(s) THEN 1 ELSE 0
gc_root_of_oldest(s) == IF keep_last_snapshot(s) THEN SegmentsOf(hist[s][Len(hist[s])]) ELSE {}

gc_root(s) == IF keep_last_snapshot(s) THEN SegmentsOf(hist[s][1]) ELSE {}
prevs(s) == IF keep_last_snapshot(s) THEN Tail(hist[s]) ELSE hist[s]

seg_delta(s) == (UNION {SegmentsOf(prevs(s)[i]) : i \in DOMAIN prevs(s)}) \ gc_root(s)

\* What do_optimize returns to: the truncation still has to commit.
optimized(s) ==
    IF op[s] = "truncate_purge" THEN Continue(s, "commit", local[s]) ELSE Finish(s, "ok")

\* Nothing but the snapshot to keep: the short cut.  Otherwise the segments of
\* the old snapshots and of the kept one are read for their blocks; one that
\* is gone and not cached fails the statement.
find_garbage(s) ==
    /\ pc[s] = "gc"
    /\ \/ /\ Len(hist[s]) <= min_history_len(s)
          /\ optimized(s)
          /\ UNCHANGED hist
       \/ /\ Len(hist[s]) > min_history_len(s)
          /\ Continue(s, "remove",
                 [local[s] EXCEPT !.doomed = [blocks |-> seg_delta(s), segs |-> seg_delta(s),
                                              snaps |-> prevs(s)]])
          /\ UNCHANGED hist
       \/ /\ Len(hist[s]) > min_history_len(s)
          /\ ~(seg_delta(s) \cup gc_root(s) \subseteq segments)
          /\ Finish(s, "error")
          /\ hist' = [hist EXCEPT ![s] = << >>]
    /\ UNCHANGED <<record, store, cached, op, rows>>

-----------------------------------------------------------------------------
(* Removing objects one by one: blocks, then segments, then the snapshots,
   oldest first.  abort_operations ignores a failure, do_optimize stops. *)

AfterRemoval(s, S, x) == IF pc[s] = "abort" THEN Removed(S, x) ELSE {S \ {x}}

remove_block(s, b) ==
    /\ b \in local[s].doomed.blocks
    /\ blocks' \in AfterRemoval(s, blocks, b)
    /\ Continue(s, pc[s], [local[s] EXCEPT !.doomed.blocks = @ \ {b}])
    /\ UNCHANGED <<segments, files>>

remove_segment(s, g) ==
    /\ local[s].doomed.blocks = {} /\ g \in local[s].doomed.segs
    /\ segments' \in AfterRemoval(s, segments, g)
    /\ Continue(s, pc[s], [local[s] EXCEPT !.doomed.segs = @ \ {g}])
    /\ UNCHANGED <<blocks, files>>

remove_snapshot(s) ==
    LET old == local[s].doomed.snaps IN
    /\ local[s].doomed.blocks = {} /\ local[s].doomed.segs = {} /\ old # << >>
    /\ files' = files \ {old[Len(old)]}
    /\ Continue(s, pc[s], [local[s] EXCEPT !.doomed.snaps = SubSeq(old, 1, Len(old) - 1)])
    /\ UNCHANGED <<blocks, segments>>

removal_done(s) ==
    /\ local[s].doomed = Nothing
    /\ IF pc[s] = "abort" THEN Finish(s, "aborted") ELSE optimized(s)
    /\ UNCHANGED <<blocks, segments, files>>

remove_location(s) ==
    /\ pc[s] \in {"abort", "remove"}
    /\ \/ \E b \in local[s].doomed.blocks : remove_block(s, b)
       \/ \E g \in local[s].doomed.segs : remove_segment(s, g)
       \/ remove_snapshot(s)
       \/ removal_done(s)
    /\ UNCHANGED <<record, snap, cached, op, rows, hist>>

-----------------------------------------------------------------------------
(* The environment *)

\* The query node stops at an await, or an error of the object store leaves
\* the statement there through `?'.
Stop(s) ==
    /\ pc[s] \notin {"idle", "done"}
    /\ Finish(s, "stopped")
    /\ hist' = [hist EXCEPT ![s] = IF pc[s] \in {"history", "gc"} THEN << >> ELSE @]
    /\ UNCHANGED <<record, store, cached, op, rows>>

Step(s) ==
    \/ get_table(s) \/ append_data(s) \/ select_fails(s)
    \/ read_table_snapshot(s) \/ write_snapshot(s)
    \/ commit_to_meta_server(s) \/ discard_snapshot(s) \/ retry(s) \/ give_up(s)
    \/ drop_table(s) \/ refresh(s) \/ read_snapshot_history(s) \/ find_garbage(s) \/ remove_location(s)

Terminated == \A s \in Session : pc[s] = "done"

Next ==
    \/ \E s \in Session : Step(s) \/ Stop(s)
    \/ Terminated /\ UNCHANGED vars

Spec == Init /\ [][Next]_vars

-----------------------------------------------------------------------------
(* Properties *)

Committed == {commits[i] : i \in DOMAIN commits}

\* Every variable has its type.
TypeOK ==
    /\ seq \in Nat
    /\ snap \in [SnapId -> [prev : SnapId \cup {None}, segs : SUBSET Session]]
    /\ commits \in Seq(SnapId) /\ loc \in SnapId \cup {None}
    /\ files \subseteq SnapId /\ cached \subseteq SnapId
    /\ segments \subseteq Session /\ blocks \subseteq Session
    /\ pc \in [Session -> {"idle", "data", "read", "write", "commit", "discard", "backoff",
                           "abort", "drop", "refresh", "history", "gc", "remove", "done"}]
    /\ op \in Plans
    /\ rows \in [Session -> SUBSET Session]
    /\ hist \in [Session -> Seq(SnapId)]
    /\ local \in [Session -> Locals]
    /\ result \in [Session -> {"none", "ok", "aborted", "error", "stopped"}]

History(s) == {hist[s][i] : i \in DOMAIN hist[s]}
HistorySegments(s) == UNION {SegmentsOf(l) : l \in History(s)}

\* A TRUNCATE ... PURGE that has got as far as removing its whole history and
\* has not moved the pointer, and what it takes away with that.
HalfTruncated(s) ==
    op[s] = "truncate_purge" /\ pc[s] \in {"remove", "commit", "done"} /\ result[s] # "ok"
Truncated(s) == IF HalfTruncated(s) THEN History(s) ELSE {}
TruncatedSegments(s) == IF HalfTruncated(s) THEN HistorySegments(s) ELSE {}

\* The snapshot the table points at can be read, with every segment and block
\* it lists, whatever statements are being retried, aborted, stopped half way
\* or purging old snapshots from a stale handle.  The exception is the code's
\* own: do_truncate removes the data before it swings the pointer
\* (truncate.rs:49), so what is missing is what such a truncation removed.
CurrentIsReadable ==
    loc # None =>
        /\ loc \in files \/ \E s \in Session : loc \in Truncated(s)
        /\ \A g \in SegmentsOf(loc) :
             g \in segments \cap blocks \/ \E s \in Session : g \in TruncatedSegments(s)

Effective(s) == \E i \in DOMAIN commits : commits[i][1] = s

\* Even when requests and answers are lost or repeated, the client is told Ok
\* only of a statement that has taken effect: no insertion or truncation is
\* acknowledged and then missing from the history of the table.
OkIsReal ==
    \A s \in Session :
        /\ result[s] = "ok" /\ Inserts(s) => Effective(s)
        /\ result[s] = "ok" /\ Truncates(s) /\ <<s, 0>> \in files => Effective(s)

\* No statement takes effect twice.
Once == \A i, j \in DOMAIN commits : commits[i][1] = commits[j][1] => i = j

\* What the client is told is what happened: after Ok a statement that writes
\* has taken effect exactly once (a truncation of a table without a snapshot
\* writes nothing), after an abort or an error it has had no effect and never
\* will.  OPTIMIZE ALL may still fail when it purges, after its compaction.
OutcomeIsReal ==
    /\ Once
    /\ OkIsReal
    /\ \A s \in Session :
        /\ result[s] = "aborted" => ~Effective(s)
        /\ result[s] = "error" /\ op[s] # "all" => ~Effective(s)

\* The chain of prev_snapshot_id is the order of the commits: every committed
\* snapshot was based on the one committed before it, no two on the same.
HistoryIsLinear ==
    /\ loc = IF seq = 0 \/ commits = << >> THEN None ELSE commits[Len(commits)]
    /\ \A i \in DOMAIN commits :
         snap[commits[i]].prev = IF i = 1 THEN None ELSE commits[i - 1]

\* A statement that gives up after its retries leaves no object of its own in
\* the store: no block, no segment, and none of the snapshots of its tries.
AbortLeavesNothing ==
    \A s \in Session : result[s] = "aborted" =>
        s \notin segments \cup blocks /\ \A l \in files : l[1] # s

\* The statements take effect one at a time and atomically: the table
\* implements TableContent.  An insertion never undoes another statement, and a
\* compaction never brings back anything older than what it found.
compacting(s) == Compacts(s) /\ pc[s] \notin {"idle", "done"} /\ ~Effective(s)
selected(s) ==
    IF compacting(s) THEN {IF pc[s] = "data" THEN ContentOf(local[s].loc) ELSE rows[s]} ELSE {}
Table == INSTANCE TableContent WITH
             Statement <- Session,
             kind <- op,
             dropped <- seq = 0,
             content <- ContentOf(loc),
             seen <- [s \in Session |-> selected(s)],
             effective <- {l[1] : l \in Committed}
TableSpec == Table!Spec

-----------------------------------------------------------------------------
(* The inductive invariant *)

\* No answer of the meta service is lost after the commit it reports.
Reliable == "lost" \notin Fault /\ "resent" \notin Fault

\* Before the commit of the current try; about to commit it; after it failed.
Preparing(s) == pc[s] \in {"idle", "data", "read", "write"}
Pending(s) ==
    pc[s] = "commit" \/ (op[s] = "truncate_purge" /\ pc[s] \in {"history", "gc", "remove"})
Failing(s) == pc[s] \in {"discard", "backoff"}

\* Which statements reach which step.
StepsOK(s) ==
    /\ pc[s] \in {"data", "discard", "backoff", "abort"} => Inserts(s)
    /\ pc[s] = "refresh" => op[s] = "all"
    /\ pc[s] = "drop" => op[s] = "drop"
    /\ pc[s] \in {"history", "gc", "remove"} => op[s] \in {"purge", "all", "truncate_purge", "drop"}
    /\ pc[s] \in {"history", "gc", "remove"} /\ op[s] = "drop" => seq = 0
    /\ pc[s] \in {"read", "write", "commit"} => op[s] \notin {"purge", "drop"}
    /\ Truncates(s) => local[s].tries = 0

\* A handle with the record's seq has the record's snapshot.
HandleOK(s) ==
    /\ seq # 0 => local[s].seq <= seq
    /\ seq # 0 /\ local[s].seq = seq => local[s].loc = loc
    /\ local[s].loc \in Committed \cup {None}

\* The snapshot of a try is new, and is based on the handle.
TryOK(s) ==
    /\ Preparing(s) \/ Pending(s) =>
         \A i \in DOMAIN commits : commits[i][1] = s => commits[i][2] < local[s].tries
    /\ Failing(s) =>
         \A i \in DOMAIN commits : commits[i][1] = s => commits[i][2] <= local[s].tries
    /\ Pending(s) => snap[new_snapshot(s)] = [prev |-> local[s].loc, segs |-> new_segments(s)]

LinearInv ==
    /\ TypeOK
    /\ HistoryIsLinear
    /\ \A s \in Session : StepsOK(s) /\ HandleOK(s) /\ TryOK(s)

\* A segment that has left the table never comes back.
NeverReturns ==
    \A i, j, k \in DOMAIN commits :
        i < j /\ j < k => snap[commits[i]].segs \cap snap[commits[k]].segs \subseteq snap[commits[j]].segs

SegmentsAreEffective ==
    \A i \in DOMAIN commits : \A g \in snap[commits[i]].segs : Effective(g)

\* Ok is told only of what has happened: what that needs of a statement under
\* way, whatever calls are lost.
OkOK(s) ==
    /\ pc[s] # "done" => result[s] = "none"
    /\ op[s] = "all" /\ pc[s] \in {"refresh", "history", "gc", "remove"} => Effective(s)
    /\ Truncates(s) /\ Preparing(s) => <<s, 0>> \notin files

OkInv == OkIsReal /\ \A s \in Session : OkOK(s)

\* Which objects of a statement can be in the store.
SnapshotsOf(s) == {l \in files : l[1] = s}
LeftoversOK(s) ==
    /\ pc[s] \in {"idle", "data"} \/ ~Inserts(s) => rows[s] = {}
    /\ rows[s] = {} => s \notin segments \cup blocks
    /\ Inserts(s) /\ (Preparing(s) \/ pc[s] \in {"backoff", "abort"}) => SnapshotsOf(s) = {}
    /\ Inserts(s) /\ pc[s] \in {"commit", "discard"} => SnapshotsOf(s) \subseteq {new_snapshot(s)}
    /\ pc[s] = "abort" => /\ {s} \cap segments \subseteq local[s].doomed.segs
                         /\ {s} \cap blocks \subseteq local[s].doomed.blocks

AbortInv == AbortLeavesNothing /\ \A s \in Session : LeftoversOK(s)

EffectOK(s) ==
    /\ Preparing(s) \/ Pending(s) \/ Failing(s) \/ pc[s] = "abort" => ~Effective(s)
    /\ op[s] \in {"purge", "drop"} => ~Effective(s)

\* What the statement has written and not yet committed is in the store.
OwnDataOK(s) ==
    /\ pc[s] \in {"idle", "data"} \/ ~Inserts(s) => rows[s] = {}
    /\ pc[s] \in {"read", "write", "commit", "discard", "backoff"} => own(s) \subseteq segments \cap blocks
    /\ Pending(s) => new_snapshot(s) \in files

\* The rows it has written are what its kind of statement may leave.
ContentOK(s) == op[s] \in {"append", "overwrite"} => rows[s] \in {{}, {s}}

\* The history read so far is a stretch of the commits, backwards from the
\* snapshot of the handle.
HistOK(s) ==
    /\ History(s) \subseteq Committed
    /\ Preparing(s) \/ Failing(s) \/ pc[s] \in {"refresh", "drop"} => hist[s] = << >>
    /\ pc[s] = "commit" /\ Inserts(s) => hist[s] = << >>
    /\ pc[s] \in {"history", "gc"} => \E k \in 0 .. Len(commits) :
         /\ local[s].loc = IF k = 0 THEN None ELSE commits[k]
         /\ Len(hist[s]) <= k
         /\ \A i \in DOMAIN hist[s] : hist[s][i] = commits[k + 1 - i]

\* What is going to be removed: by an abort the statement's own data, by a
\* purge data of committed snapshots that the table no longer uses.
Garbage(s) == local[s].doomed.blocks \cup local[s].doomed.segs
DoomedOK(s) ==
    /\ pc[s] \notin {"abort", "remove"} => local[s].doomed = Nothing
    /\ pc[s] = "abort" => Garbage(s) \subseteq {s} /\ local[s].doomed.snaps = << >>
    /\ pc[s] = "remove" =>
         /\ \A g \in Garbage(s) : Effective(g)
         /\ \A i \in DOMAIN local[s].doomed.snaps : local[s].doomed.snaps[i] \in Committed
    /\ pc[s] = "remove" /\ op[s] = "truncate_purge" =>
         /\ Garbage(s) \subseteq HistorySegments(s)
         /\ \A i \in DOMAIN local[s].doomed.snaps : local[s].doomed.snaps[i] \in History(s)
    /\ pc[s] = "remove" /\ keep_last_snapshot(s) =>
         /\ Garbage(s) \cap SegmentsOf(loc) = {}
         /\ \A i \in DOMAIN local[s].doomed.snaps : local[s].doomed.snaps[i] # loc

ReadInv ==
    /\ OutcomeIsReal
    /\ NeverReturns
    /\ SegmentsAreEffective
    /\ CurrentIsReadable
    /\ \A s \in Session : EffectOK(s) /\ OwnDataOK(s) /\ ContentOK(s) /\ HistOK(s) /\ DoomedOK(s)

\* Every commit is based on the one before it and Ok means that a statement has
\* taken effect, whatever calls are lost; an abort cleans up if removing works;
\* and if no answer is lost, nothing the table needs is removed by a retry, an
\* abort or a purge, and the outcomes are as reported.
FuseInv ==
    /\ LinearInv /\ OkInv
    /\ "undeleted" \notin Fault => AbortInv
    /\ Reliable => ReadInv
=============================================================================
