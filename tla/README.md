# Databend in TLA+

TLA+ models of the concurrent parts of Databend: the meta service and the
catalog kept in it, the write path of a Fuse table, the executor of query
pipelines, and the HTTP query handler. The models are checked with TLC on small
instances. The safety properties of the catalog, of the replicated state
machine, of the storage of a meta node, of the Fuse write path and of the HTTP
handler are also proved with TLAPS for every value of the constants.

## The system and its modules

A query node parses a statement, plans it and runs it through a pipeline of
processors. Databases and tables are records in the meta service, a raft cluster
with a key-value state machine. The rows of a Fuse table are immutable objects
in an object store; the table's meta record points at its current snapshot.

| Part | Code | Modules |
|---|---|---|
| Schema API | `common/meta/api/src/schema_api_impl.rs` | `SchemaApi`, abstract `Catalog`; proofs in `SchemaApiLemmas`, `SchemaApiProofs` |
| Raft state machine | `common/meta/raft-store/src/state_machine/sm.rs` | `StateMachine` (operators) |
| Replication of it | the same, and `metasrv/src/store/meta_raft_store.rs` | `MetaReplication`; proofs in `MetaReplicationProofs` |
| Storage of a meta node | `metasrv/src/store/meta_raft_store.rs`, raft log and raft state | `RaftStore`; proofs in `RaftStoreProofs` |
| Fuse write path | `query/src/storages/fuse/operations/` and its interpreters | `FuseTable`, abstract `TableContent`; proofs in `FuseTableProofs`, `FuseTableReadLemmas`, `FuseTableReadProofs` |
| Ports and processors | `query/src/pipelines/new/processors/` | `PipelineGraph` (operators) |
| Pipeline executor | `query/src/pipelines/new/executor/` | `PipelineExecutor` |
| HTTP queries | `query/src/servers/http/v1/`, `common/streams/src/stream_abort.rs` | `HttpQuery`; proofs in `HttpQueryProofs` |

`MC*` modules hold the instances. `PROJECT.json` maps every definition to the
lines it models, and lists hazards, findings and theorems.

### Schema API

The variables are the key space by prefix: `dbName`, `dbMeta`, `tbName`,
`tbMeta`, each record with its seq (0: absent), and the counter `seq`. A client
has a request `op`, the call it makes next `pc`, and what it has read `rd`. One
`get_kv`, one `fetch_id` or one transaction is a step, so clients interleave
between any two calls. A call may fail, and after a transaction has been
executed the client may send it a second time (`Resent`), because
`MetaGrpcClient::transaction` does so when the first answer is an Internal or
Unauthenticated status (`grpc_client.rs:357`). `Catalog` states what callers are
promised: each operation takes effect at one instant and ids are never reused.

### State machine and replication

`StateMachine` is `StateMachine::apply` as a function of a state and an entry:
sequences, upserts with `MatchSeq`, transactions, expiry, membership, and the
last reply kept for each client. `MetaReplication` adds nodes that apply one
committed log at their own pace and by their own clocks or take a snapshot from
one another, and clients that repeat requests. Consensus itself is openraft's:
the log is an assumption.

### Storage of a meta node

`RaftStore` has the sled trees twice, as the process sees them (`trees`) and as
a crash leaves them (`stable`), the pair `StateMachineId`, the log and
`LastPurged`. Installing a snapshot is one step per write; a crash may come
between any two, and a restart repeats `open_create` write by write. With
`Faults` an installation may also return an error half way. Assumed of openraft:
one task makes the calls and waits for each, only `build_snapshot` runs beside
it, it purges only what it believes applied, and it offers no snapshot older
than what is applied. Assumed of sled: a flush makes all earlier writes durable.

### Fuse write path

A session runs one statement: INSERT, INSERT OVERWRITE, OPTIMIZE (compact,
purge, all), TRUNCATE with or without PURGE, or DROP. Steps are the calls to the
meta service and the object store. `snap` describes every snapshot ever written,
`files`, `segments` and `blocks` are the objects that exist, and `commits` is
the history of the pointer. A session writes at most one segment of one block.
A purged object that was cached may be found or not found. `Fault` selects lost
or repeated calls to the meta service and deletions that do not happen.

`TableContent` is the table as a set of rows. A statement takes effect in one
step: an insertion adds to the rows of that moment, and a compaction puts back
the rows it found when it started (`Select`, then `Compact` or `Fail`), so what
others commit in between is undone, as in the code, and nothing else is.

### Pipeline

`PipelineGraph` has the methods of ports and processors as functions of a graph
value. `PipelineExecutor` has one step per critical section: of the task queues,
of the sleepers, of a node, or one atomic access. Its actors are the workers,
the asynchronous tasks, the joining thread and the client, which may drop the
executor at any time. `event()` of a node is one step. That is coarser than the
code where an event reads a port twice while the port's other end is moved by a
different worker: `ResizeProcessor::event` asks `get_current_output` and then
reads `is_finished` of what it got (`resize_processor.rs:153-157`), and a port
that finishes in between would finish all inputs. In a graph with one output per
resize processor, such as the run's, that is what would be done anyway. The code calls
`Node::trigger` after it has released the node (`executor_graph.rs:246`), so two
threads can be at one `UpdateList`; that is undefined behaviour, the model sets
`race`, and **nothing is claimed of what follows it**.

### HTTP queries

`HttpQuery` is one query from its registration on: the executing task, the
bounded channel of blocks, the page handlers, the client, and the three ways to
end the query (cancel, expiry, KILL). A step is what runs between two awaits or
under one lock. Two pairs of steps are merged, because a step of another actor
between them leads to the same states as one before or after both: `get_query`
with `clear_expire_time`, and `get_state` with `update_expire_time` and the
answer.

## Runs

| Run | Question | Result |
|---|---|---|
| `catalog_databases` | Two clients, every order of four operations from an empty store, transactions sent twice | names and metas correspond, `SchemaApi` implements `Catalog`, and the invariant of the proofs holds |
| `catalog_tables` | Two clients on a store with two databases and a table: options, moves between the databases and back, drops, transactions sent twice | names and records stay paired, dropped ids stay dropped, a second copy is refused, a change of a table touches its database, every step is a step of `Catalog`, every call returns |
| `replicas_agree` | Two nodes, all logs of three entries, repeated requests | equal logs give equal states, a repeated request is executed once, seqs grow |
| `store_crashes` | A crash between any two writes | a restart opens the state after a prefix of the log, and nothing after it is lost |
| `store_faults` | Installations also fail half way | no unknown tree is left, and the tree the state names is there |
| `store_loss` | The same, and the logs are purged | **violated**, see Findings |
| `fuse_statements` | Any three statements race, retry, abort, purge, stop | they take effect atomically (`TableContent`), outcomes are as reported, aborts leave nothing, the current snapshot is readable but for what a TRUNCATE PURGE removed |
| `fuse_faults` | Any two statements, calls lost and repeated | commits are linear, what was reported Ok has happened |
| `fuse_lost_answer` | The answer to a commit is lost | **violated**, see Findings |
| `pipeline_workers` | Two workers, five processors, two blocks for a channel of one, a failing source, a client that may leave | one owner per processor, exact counters, no early finish, `None` only after everything, in order |
| `pipeline_lost_wakeup` | Do workers sleep only when there is nothing to do? | **violated**, see Findings |
| `http_pages` | Paging, retries, dropped connections, cancel, expiry, KILL | pages in order and once, the last one tells the outcome, a success misses only what two named gaps lose, handlers return, silent and killed queries end |

Some properties have a premise or an exception that a reader should know:

- `ReplicasAgree` is about logs in which no record expires. Whether a record has
  expired is decided by the clock of the node that applies the log (`sm.rs:871`).
- The properties of the catalog are checked and proved for every transaction sent
  twice except that of `create_database` (`CreatesOnce`). It is conditioned only on
  the name being free, so a late second copy is executed again when the database
  has been dropped or renamed in between, and gives a second life or a second name
  to the same id: TLC finds both when `create_database` is added to `Resent`.
- `CurrentIsReadable` excepts exactly the objects that a TRUNCATE PURGE takes away
  before it has moved the pointer (`truncate.rs:49`): each missing snapshot or
  segment has to be of the history that such a statement has read and is removing,
  or has removed without a commit.
- `TableSpec` lets a compaction undo what was committed since its start.
- `OnlyTheseAreMissing` names the two ways in which a client told Succeeded can
  lack rows, against `00-rest.md:90`: a handler that is dropped with its connection
  loses the blocks it had taken from the channel (`result_data_manager.rs:140`),
  and a KILL between `is_aborted` and `poll_next` (`stream_abort.rs:52-54`) ends
  the stream like the end of the result. TLC finds both when they are not named.
- `LastPageTellsOutcome` counts a 404 as told: a client that repeats the request
  of the last, empty page after the query was removed learns only that.
- `SilentQueriesEnd` needs the expiry time to be set. Without that premise TLC
  finds a query whose first handler was dropped and that never expires.

### Bounds

- Catalog: two clients; two database names and one table name from the empty
  store, three and two on the populated one, where a table is moved between two
  databases while both, and the table, are dropped or renamed. `MaxOps` is the
  number of operations (4 and 3, a second copy counting as one), enough for a read,
  an overtaking commit and a retry. `MaxSeq` (14 and 22) is not reached before
  `MaxOps`: a larger one gives the same states.
- Replication: `MaxLog` 3, enough for a request, another one and a late copy.
  `MaxFlight` 2 copies, `MaxTime` 1: before and after an expiry.
- Store: three entries, the last deleting what the second wrote, so that a tree
  filled on top of an old one shows it. `MaxTree` 2: two installations.
- Fuse: three statements of any kinds with `MaxRetries` 1: a conflict, and a
  retry that gives up. Two statements when calls fail.
- Pipeline: two sources meet in a resize processor, then a transform and the
  sink; two blocks with rows from one source, an empty one from the other; a result
  channel of one, so that the second block finds it full.
- HTTP: two blocks, a page of two rows, a channel of one block, so that the task
  waits for room. `MaxEvents` bounds repeated requests, closed connections,
  cancellations and KILLs together: one, or two for synchronous queries. The
  invariants were also checked with two and three.

Symmetry is used for Fuse sessions and for meta nodes, where no liveness is
checked. Deadlock is not checked where the system may stop: all operations done,
the log full, the query over.

### Fairness

- `EveryCallReturns`: weak fairness of each client's next call; calls to the meta
  service return. Finitely many operations are started. With calls without end
  one loop could be refused for ever, as the code has no bound on its loops.
- `HttpQuery`: weak fairness of the executing task, the handlers, the timer and
  whoever ends the query, because tokio polls every task that can run. This
  includes the start of the query (`interpreter.execute`), which a kill does not
  interrupt: `KilledQueriesEnd` assumes that it returns by itself. Strong
  fairness of taking the lock of the data, because tokio's mutex is first come,
  first served. The client, the network, cancel and KILL have no fairness.

## Proofs

Assumptions about constants are those named in the modules (`BoundAssumption`,
`RequestsAssumption`, `ReplicationAssumption`, `CommandsAssumption`,
`StoreAssumption`, `FuseAssumption`, `QueryAssumption`): types and bounds, that
commands have the shape of `Cmd`, that an expiry time of `Never` is later than
every clock, and that `None` is no value of the code.

- **Catalog.** `Inv` is inductive (`Invariance`). Names and metas alone are not:
  a transaction is right because what a client read under a seq is what the
  store still holds under that seq (`ReadsOK`), because the counter is ahead of
  every seq and id (`StoreOK`), and because an id just fetched is used nowhere
  (`NewIdOK`), and because a transaction that was executed left a seq behind that
  its second copy is refused for (`ResendOK`). From it follow the consistency of databases and
  tables, that dropped ids stay dropped, that a second copy changes nothing
  (`SafeToResend`), that a change of a table touches its database, and the
  refinement of `Catalog` (`Refinement`). All of them assume `CreatesOnce`.
- **Replication.** `ReplicationInv` is inductive (`ReplicationInvHolds`). That a
  copy is skipped depends on one serial per client, so the invariant ties the
  serial to the history: it is that of the last request of the client the node
  executed, with its reply (`LastOK`); between two executions of one request
  there is another one of the client (`RanOK`); and a skipped log repeats the
  last execution (`SkippedOK`). Hence `CopiesAreSkipped` and `RepliesAreKept`.
  What `apply` does to the records is proved command by command, a transaction by
  induction over its operations; hence `SeqsGrow`. For `NodesAgree` the nodes are
  compared with the states that the log leads to on a clock that stands still:
  while no entry sets an expiry time, no step of `apply` depends on the clock.
- **Storage.** `IInv` is inductive when installations do not fail. It says for
  every phase of an installation what each of the two trees holds; from it
  follow crash safety (`StoreIsCrashSafe`), `PurgesAreSafe`, `NothingLost`,
  `SnapshotsAreLabelled` and `CoreIsRight`. `FaultInv` is what remains when they
  fail, and is inductive whatever `Faults` is (`FaultInvariance`,
  `FailuresLeaveNoGarbage`, `RestartFindsTree`).
- **Fuse.** `FuseInv` is inductive (`FuseInvHolds`). It has four parts, each
  resting on the ones before it and on what it assumes of the environment.
  - `LinearInv`, under every fault: a handle with the record's seq has the
    record's snapshot, and the snapshot of a try is new and based on the handle.
    Hence the commits form one line (`CommitsAreLinear`).
  - `OkInv`, under every fault: a statement that goes on after its commit has
    taken effect. Hence `OkMeansEffect`.
  - `AbortInv`, when removing an object removes it: which objects of a statement
    can be in the store at which step. Hence `AbortCleansUp`.
  - `ReadInv`, when no answer of the meta service is lost (`Reliable`; the run
    `fuse_lost_answer` shows why it is needed): a purge may remove only what has
    left the table for good. That takes three facts: the history a purge has read
    is a stretch of the commits backwards from its handle (`HistOK`), a segment
    that has left the table never comes back (`NeverReturns`), and what is to be
    removed belongs to committed statements and not to the current snapshot
    (`DoomedOK`), while uncommitted data belongs to a statement without effect
    (`EffectOK`, `OwnDataOK`). Hence `OutcomesAreReal` and
    `CurrentStaysReadable`, and that every step maps to a step of `TableContent`
    or to a stutter (`TableImplemented`): the start of a compaction to `Select`, its
    commit to `Compact`, its end without one to `Fail`, and `ContentOK` says what
    rows an insertion brings.
- **HTTP.** `HttpInv` is inductive (`HttpInvHolds`). What a client has says
  nothing of the pages to come, so the invariant says where every block of the
  result is: there are four positions l <= h <= c <= e such that blocks 1..h are
  in pages or went with a dropped handler, h+1..c are with the handler that holds
  the lock, c+1..e are in the channel, and the rest is with the executing task,
  unless the channel was closed; the last page begins after l. The client has
  everything up to h or up to l (`GotOK`), an answer on its way is the page it
  lacks, or empty (`AnswerOK`), and the end of the stream is seen only after the
  state is final (`ExecOK`). Hence `PagesComeInOrder`, `OutcomeIsTold` and
  `SuccessMissesOnlyThese`.

Only model-checked: everything about `PipelineExecutor`; and all liveness, which
with ENABLED is out of the prover's reach.

## Findings

- `meta_raft_store.rs:433`: a failed snapshot installation is logged and reported
  as applied, and logs that no state machine contains are purged.
- `commit.rs:209`: when the answer to a successful commit is lost, the snapshot
  the table now points at is deleted.
- `executor_tasks.rs:85`: a worker unlocks the task queues before it counts as
  asleep. A task completed in between wakes nobody, and all workers sleep.

## Not modelled

The map covers a few per cent of the lines of the repository, and most of the
rest cannot be modelled to any purpose. About two thirds of the code is
sequential and about data: functions, data values and blocks, the parsers,
planners and optimizers, conversions and formats. Their correctness is SQL
semantics over large domains, and a model would be a transliteration. Other parts are
I/O around libraries (MySQL, ClickHouse, Flight, gRPC) or forward to what is
modelled (interpreters, catalogs, management). `PROJECT.json` gives a reason for
each. Of the concurrent code these parts are left out:

- consensus and membership changes, which are openraft's;
- the watch service, whose hazard `PROJECT.json` lists, cluster heartbeats (a node
  that restarts before its old record expires) and the limit on sessions;
- the old pipeline, whose streams have no scheduler of their own;
- HTTP sessions kept between queries, panics of the executing task, and failures
  to format a block.

Inside the modelled parts these points are open:

- `get_table` reads three records in turn, and no property says which of the
  catalog's states its answer describes;
- tables of a dropped database keep their records, and nothing removes them;
- the store is never asked to install a snapshot older than what it has applied,
  which is left to openraft, and no property orders the snapshots it publishes: one
  that was built may replace a newer one that was installed;
- a page request that arrives between `check_expire` and `remove_query` is
  answered, and its query removed all the same;
- a pipeline thread that throws an error wakes the others through `finish`, and a
  worker that is between the unlock and its sleep (see Findings) misses that wakeup
  too; no run of its own covers it.
