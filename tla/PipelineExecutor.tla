-------------------------- MODULE PipelineExecutor --------------------------
(***************************************************************************)
(* The executor of a pulling pipeline (query/src/pipelines/new/executor):  *)
(* worker threads that take tasks from shared queues, run processors,      *)
(* schedule the nodes the processors touched and sleep when there is       *)
(* nothing to do; asynchronous tasks that complete on another runtime; the *)
(* thread that joins the workers; and the client that pulls the result     *)
(* through a bounded channel and may drop the executor at any time.        *)
(*                                                                         *)
(* Every step below is one critical section of the code: of the mutex of   *)
(* the task queues (workers_tasks), of the mutex of the sleepers           *)
(* (mutable_state), of a node's state, or one atomic access.               *)
(***************************************************************************)
EXTENDS PipelineGraph, FiniteSets

CONSTANTS
    Threads,    \* threads_num
    CanFail,    \* the nodes whose process or async_process may return Err
    Capacity,   \* of the result channel: pipeline.output_len()
    None

VARIABLES
    graph,      \* ports and processors
    state,      \* [node -> State]
    finished,   \* ExecutorTasksQueue.finished
    tasks,      \* ExecutorTasks
    notify,     \* WorkersNotify
    lock,       \* who holds workers_tasks across two steps
    worker,     \* [actor -> its step and what it holds]
    inflight,   \* the spawned asynchronous tasks
    main,       \* the thread that joins the workers
    chan, received, saw,   \* the result channel, and what the client got
    failed,     \* the nodes whose error was thrown
    race        \* two threads were at one node's UpdateList: undefined behaviour

vars == <<graph, state, finished, tasks, notify, lock, worker, inflight, main,
          chan, received, saw, failed, race>>
pipeline == <<graph, state>>
client == <<chan, received, saw>>

Workers == 1 .. Threads
Client == 0
Actors == Workers \cup {Client}
Idler == [pc |-> "loop", task |-> None, node |-> None, edges |-> <<>>,
          sync |-> <<>>, async |-> <<>>, index |-> 0, err |-> FALSE]
\* Nothing is said of what follows undefined behaviour: no actor has a step then.
PC(a) == IF race THEN "undefined" ELSE worker[a].pc
Goto(a, l) == worker' = [worker EXCEPT ![a].pc = l]
Become(a, r) == worker' = [worker EXCEPT ![a] = r]

\* has_task decides whether the worker runs or looks for work.
Onward(r) == [r EXCEPT !.pc = IF r.task = None THEN "loop" ELSE "run"]

\* create, init_schedule_queue, init_tasks: the sinks are scheduled first.  None
\* has been started, so each becomes a synchronous task and touches no port.
SinkSeq == SetToSortSeq(Sinks, <)
Dealt(w) == SelectSeq(SinkSeq, LAMBDA n :
                \E k \in DOMAIN SinkSeq : SinkSeq[k] = n /\ 1 + ((k - 1) % Threads) = w)

Init ==
    /\ graph = NewGraph
    /\ state = [n \in Nodes |-> IF n \in Sinks THEN "Processing" ELSE "Idle"]
    /\ finished = FALSE
    /\ tasks = [size |-> Cardinality(Sinks), sync |-> [w \in Workers |-> Dealt(w)],
                async |-> [w \in Workers |-> <<>>], completed |-> [w \in Workers |-> <<>>]]
    /\ notify = [size |-> 0, waiting |-> {}, asleep |-> {}, async |-> 0]
    /\ lock = None
    /\ worker = [a \in Actors |-> IF a = Client THEN [Idler EXCEPT !.pc = "pull"] ELSE Idler]
    /\ inflight = {}
    /\ main = [pc |-> "join", thread |-> Threads]
    /\ chan = <<>> /\ received = <<>> /\ saw = "nothing"
    /\ failed = {} /\ race = FALSE

-----------------------------------------------------------------------------
(* ExecutorTasks *)

HasTask(w) == tasks.sync[w] # <<>> \/ tasks.async[w] # <<>> \/ tasks.completed[w] # <<>>
Wrap(w) == IF w > Threads THEN 1 ELSE w

\* Mutant: the neighbour, without wrapping around.
Neighbour(q, from) == from

\* When no worker has a task the loop ends one past the last worker it looked at.
best_worker_id(q, from) ==
    LET has(w) == q.sync[w] # <<>> \/ q.async[w] # <<>> \/ q.completed[w] # <<>>
        found == SelectSeq(Round(Wrap(from), Threads), has)
    IN  IF found # <<>> THEN found[1] ELSE Wrap(from) + (IF Wrap(from) = 1 THEN Threads ELSE 0)

\* pop_task, pop_worker_task: the worker's own tasks first, then the others';
\* of one worker the synchronous, the completed, the asynchronous ones.
Victim(w) == SelectSeq(Round(w, Threads), HasTask)[1]
Which(v) == IF tasks.sync[v] # <<>> THEN "sync"
            ELSE IF tasks.completed[v] # <<>> THEN "completed" ELSE "async"
popped(w) ==
    LET v == Victim(w)
        k == Which(v)
    IN  [task |-> [kind |-> k, item |-> Head(tasks[k][v])],
         rest |-> [tasks EXCEPT ![k][v] = Tail(@), !.size = @ - 1]]

-----------------------------------------------------------------------------
(* WorkersNotify *)

\* wakeup: the named worker if it sleeps, or else the first one that does.
woken(t) ==
    LET s == IF t \in notify.waiting THEN t
             ELSE CHOOSE w \in notify.waiting : \A x \in notify.waiting : w <= x
    IN  IF notify.size = 0 THEN notify
        ELSE IF notify.waiting = {} THEN [notify EXCEPT !.size = @ - 1]
        ELSE [notify EXCEPT !.size = @ - 1, !.waiting = @ \ {s}, !.asleep = @ \ {s}]

\* wait: counted first, then asleep on the condition variable.
wait(w) ==
    /\ PC(w) = "wait"
    /\ notify' = [notify EXCEPT !.size = @ + 1, !.waiting = @ \cup {w}, !.asleep = @ \cup {w}]
    /\ Goto(w, "asleep")
    /\ UNCHANGED <<pipeline, finished, tasks, lock, inflight, main, client, failed, race>>

awake(w) ==
    /\ PC(w) = "asleep" /\ w \notin notify.asleep
    /\ Goto(w, "loop")
    /\ UNCHANGED <<pipeline, finished, tasks, notify, lock, inflight, main, client, failed, race>>

\* wakeup after a steal or a push, outside workers_tasks.
wakeup(w) ==
    /\ PC(w) = "wakeup"
    /\ notify' = woken(worker[w].index)
    /\ Become(w, Onward([worker[w] EXCEPT !.index = 0]))
    /\ UNCHANGED <<pipeline, finished, tasks, lock, inflight, main, client, failed, race>>

\* finish and wakeup_all, by a worker or by the client that drops the executor.
finish(a) ==
    /\ PC(a) = "finish"
    /\ finished' = TRUE
    /\ Goto(a, "wakeup_all")
    /\ UNCHANGED <<pipeline, tasks, notify, lock, inflight, main, client, failed, race>>

\* Where an actor goes on after wakeup_all: a failed worker returns its error.
Leave(a) == IF a = Client \/ worker[a].err THEN "exit" ELSE "loop"

wakeup_all(a) ==
    /\ PC(a) = "wakeup_all"
    /\ IF notify.size > 0
       THEN /\ notify' = [notify EXCEPT !.size = 0, !.waiting = {}]
            /\ Become(a, [worker[a] EXCEPT !.pc = "wakeup_each", !.index = 1])
       ELSE UNCHANGED notify /\ Goto(a, Leave(a))
    /\ UNCHANGED <<pipeline, finished, tasks, lock, inflight, main, client, failed, race>>

wakeup_each(a) ==
    /\ PC(a) = "wakeup_each"
    /\ notify' = [notify EXCEPT !.asleep = @ \ {worker[a].index}]
    /\ IF worker[a].index < Threads THEN worker' = [worker EXCEPT ![a].index = @ + 1]
       ELSE Become(a, [worker[a] EXCEPT !.pc = Leave(a), !.index = 0])
    /\ UNCHANGED <<pipeline, finished, tasks, lock, inflight, main, client, failed, race>>


-----------------------------------------------------------------------------
(* execute_single_thread *)

loop(w) ==
    /\ PC(w) = "loop"
    /\ Goto(w, IF finished THEN "exit" ELSE "steal")
    /\ UNCHANGED <<pipeline, finished, tasks, notify, lock, inflight, main, client, failed, race>>

\* steal_task_to_context, when there is a task: the thief counts an
\* asynchronous task and wakes a sleeper for the tasks that are left.
steal(w) ==
    /\ PC(w) = "steal" /\ lock = None /\ tasks.size # 0
    /\ LET p == popped(w)
           r == [worker[w] EXCEPT !.task = p.task]
           more == p.rest.size # 0 /\ notify.size # 0
       IN  /\ tasks' = p.rest
           /\ notify' = [notify EXCEPT !.async = @ + (IF p.task.kind = "async" THEN 1 ELSE 0)]
           /\ Become(w, IF more THEN [r EXCEPT !.pc = "wakeup",
                                               !.index = best_worker_id(p.rest, w + 1)]
                        ELSE Onward(r))
    /\ UNCHANGED <<pipeline, finished, lock, inflight, main, client, failed, race>>

\* Mutant: asynchronous tasks are not looked at.
NoAsyncCheck(w) ==
    /\ PC(w) = "steal" /\ lock = None /\ tasks.size = 0
    /\ Goto(w, "last") /\ lock' = w
    /\ UNCHANGED <<pipeline, finished, tasks, notify, inflight, main, client, failed, race>>

\* When there is none: the counter of asynchronous tasks is read first,
no_task(w) ==
    /\ PC(w) = "steal" /\ lock = None /\ tasks.size = 0
    /\ IF notify.async # 0 THEN Goto(w, "wait") /\ UNCHANGED lock
       ELSE Goto(w, "last") /\ lock' = w
    /\ UNCHANGED <<pipeline, finished, tasks, notify, inflight, main, client, failed, race>>

\* then, workers_tasks still locked, the number of sleepers.
last_worker(w) ==
    /\ PC(w) = "last"
    /\ lock' = None
    /\ Goto(w, IF Threads - notify.size <= 1 THEN "finish" ELSE "wait")
    /\ UNCHANGED <<pipeline, finished, tasks, notify, inflight, main, client, failed, race>>

\* execute_task returned n: schedule it again.
Executed(w, n) ==
    Become(w, [worker[w] EXCEPT !.pc = "again", !.task = None, !.node = n])

\* It returned an error: throw_error.
Throw(w, n) ==
    /\ Become(w, [worker[w] EXCEPT !.pc = "finish", !.task = None, !.err = TRUE])
    /\ failed' = failed \cup {n}

Receiving == PC(Client) # "exit"

\* PullingSink: consume and on_finish send on the bounded channel, blocking
\* while it is full, and fail when the receiver is gone.
sink_process(w, n) ==
    LET p == graph.proc[n]
        item == IF SinkStep(p) = "consume" THEN <<"block", p.input_data>> ELSE <<"none">>
    IN  IF SinkStep(p) \in {"on_start", "nothing"}
        THEN UNCHANGED <<chan, failed>> /\ Executed(w, n)
        ELSE IF Receiving
        THEN /\ Len(chan) < Capacity /\ chan' = Append(chan, item)
             /\ UNCHANGED failed /\ Executed(w, n)
        ELSE UNCHANGED chan /\ Throw(w, n)

\* execute_sync_task: process.
run_sync(w) ==
    /\ PC(w) = "run" /\ worker[w].task.kind = "sync"
    /\ LET n == worker[w].task.item
       IN  \/ /\ n \in Sinks /\ graph' = AfterSinkStep(graph, n) /\ sink_process(w, n)
           \/ /\ n \notin Sinks /\ UNCHANGED <<chan, failed>> /\ Executed(w, n)
              /\ graph' = IF n \in Sources THEN Generate(graph, n) ELSE Transform(graph, n)
           \/ n \in CanFail /\ UNCHANGED <<graph, chan>> /\ Throw(w, n)
    /\ UNCHANGED <<state, finished, tasks, notify, lock, inflight, main, received, saw, race>>

\* A number no spawned task has.
FreshId == CHOOSE i \in 1 .. Cardinality(inflight) + 1 : \A t \in inflight : t.id # i

\* execute_async_task: spawn it and look for other work.
run_async(w) ==
    /\ PC(w) = "run" /\ worker[w].task.kind = "async"
    /\ inflight' = inflight \cup {[node |-> worker[w].task.item, owner |-> w,
                                   step |-> "process", id |-> FreshId]}
    /\ Become(w, Onward([worker[w] EXCEPT !.task = None]))
    /\ UNCHANGED <<pipeline, finished, tasks, notify, lock, main, client, failed, race>>

\* A completed task brings its result to a worker.
run_completed(w) ==
    /\ PC(w) = "run" /\ worker[w].task.kind = "completed"
    /\ LET c == worker[w].task.item
       IN  IF c.ok THEN Executed(w, c.node) /\ UNCHANGED failed ELSE Throw(w, c.node)
    /\ UNCHANGED <<pipeline, finished, tasks, notify, lock, inflight, main, client, race>>

Advance(t, l) == inflight' = (inflight \ {t}) \cup {[t EXCEPT !.step = l]}

\* Mutant: the completed task is queued and not counted.
CompletedUncounted(t) ==
    /\ ~race /\ t.step = "process" /\ lock = None
    /\ graph' = Generate(graph, t.node)
    /\ tasks' = [tasks EXCEPT !.completed[t.owner] = Append(@, [node |-> t.node, ok |-> TRUE])]
    /\ Advance(t, "dec")
    /\ UNCHANGED <<state, finished, notify, lock, worker, main, client, failed, race>>

\* async_process and completed_async_task, on the other runtime,
completed_async_task(t) ==
    /\ ~race /\ t.step = "process" /\ lock = None
    /\ \E ok \in (IF t.node \in CanFail THEN BOOLEAN ELSE {TRUE}) :
         /\ graph' = IF ok THEN Generate(graph, t.node) ELSE graph
         /\ tasks' = [tasks EXCEPT !.size = @ + 1,
                        !.completed[t.owner] = Append(@, [node |-> t.node, ok |-> ok])]
    /\ Advance(t, "dec")
    /\ UNCHANGED <<state, finished, notify, lock, worker, main, client, failed, race>>

\* then dec_active_async_worker,
dec_active_async_worker(t) ==
    /\ ~race /\ t.step = "dec"
    /\ notify' = [notify EXCEPT !.async = @ - 1]
    /\ Advance(t, "wakeup")
    /\ UNCHANGED <<pipeline, finished, tasks, lock, worker, main, client, failed, race>>

\* then wakeup of the worker that spawned it.
async_wakeup(t) ==
    /\ ~race /\ t.step = "wakeup"
    /\ notify' = woken(t.owner)
    /\ inflight' = inflight \ {t}
    /\ UNCHANGED <<pipeline, finished, tasks, lock, worker, main, client, failed, race>>

-----------------------------------------------------------------------------
(* ExecutingGraph::schedule_queue and ScheduleQueue::schedule *)

\* A thread reads or writes the UpdateList of n while another one, which has
\* left the guard of n, is about to trigger it.
AtList(w, n) == \E u \in Workers \ {w} : PC(u) = "trigger" /\ worker[u].node = n

NextState(event) ==
    CASE event = "Finished" -> "Finished"
      [] event \in {"Sync", "Async"} -> "Processing"
      [] OTHER -> "Idle"

\* event() of n in the guard of n; the guard ends before the trigger.
Event(w, n, edges) ==
    LET a == ProcessorEvent(graph, n)
    IN  /\ graph' = a.graph
        /\ state' = [state EXCEPT ![n] = NextState(a.event)]
        /\ race' = AtList(w, n)
        /\ Become(w, [worker[w] EXCEPT
             !.pc = "trigger", !.node = n, !.edges = edges,
             !.sync = IF a.event = "Sync" THEN Append(@, n) ELSE @,
             !.async = IF a.event = "Async" THEN Append(@, n) ELSE @])
        /\ UNCHANGED <<finished, tasks, notify, lock, inflight, main, client, failed>>

schedule_executed(w) ==
    PC(w) = "again" /\ Event(w, worker[w].node, <<>>)

\* Mutant: a node is scheduled whatever its state.
ScheduleAnyEdge(w) ==
    /\ PC(w) = "edges" /\ worker[w].edges # <<>>
    /\ Event(w, Head(worker[w].edges), Tail(worker[w].edges))

schedule_edge(w) ==
    /\ PC(w) = "edges" /\ worker[w].edges # <<>>
    /\ state[Head(worker[w].edges)] = "Idle"
    /\ Event(w, Head(worker[w].edges), Tail(worker[w].edges))

\* A node that is being processed, or is finished, is not scheduled.
skip_edge(w) ==
    /\ PC(w) = "edges" /\ worker[w].edges # <<>>
    /\ state[Head(worker[w].edges)] # "Idle"
    /\ worker' = [worker EXCEPT ![w].edges = Tail(@)]
    /\ UNCHANGED <<pipeline, finished, tasks, notify, lock, inflight, main, client, failed, race>>

\* Node::trigger: the touched edges go in front of the others.
trigger(w) ==
    /\ PC(w) = "trigger"
    /\ LET n == worker[w].node
       IN  /\ graph' = TakeList(graph, n)
           /\ Become(w, [worker[w] EXCEPT !.pc = "edges", !.node = None,
                                        !.edges = graph.list[n] \o @])
    /\ UNCHANGED <<state, finished, tasks, notify, lock, inflight, main, client, failed, race>>

\* ScheduleQueue::schedule: keep the first synchronous task, or else the first
\* asynchronous one, and give the rest away.
schedule(w) ==
    /\ PC(w) = "edges" /\ worker[w].edges = <<>>
    /\ LET r == worker[w]
           k == IF r.sync # <<>> THEN "sync" ELSE "async"
           kept == [r EXCEPT !.task = [kind |-> k, item |-> Head(r[k])], ![k] = Tail(@)]
           s == IF r[k] = <<>> THEN r ELSE kept
       IN  /\ notify' = [notify EXCEPT !.async =
                           @ + (IF k = "async" /\ r.async # <<>> THEN 1 ELSE 0)]
           /\ Become(w, IF s.sync # <<>> \/ s.async # <<>> THEN [s EXCEPT !.pc = "push"]
                        ELSE Onward(s))
    /\ UNCHANGED <<pipeline, finished, tasks, lock, inflight, main, client, failed, race>>

\* push_tasks: onto the worker's own queues.
push_tasks(w) ==
    /\ PC(w) = "push" /\ lock = None
    /\ LET r == worker[w]
           q == [tasks EXCEPT !.size = @ + Len(r.sync) + Len(r.async),
                              !.sync[w] = @ \o r.sync, !.async[w] = @ \o r.async]
       IN  /\ tasks' = q
           /\ Become(w, [r EXCEPT !.pc = "wakeup", !.sync = <<>>, !.async = <<>>,
                                  !.index = best_worker_id(q, w + 1)])
    /\ UNCHANGED <<pipeline, finished, notify, lock, inflight, main, client, failed, race>>

-----------------------------------------------------------------------------
(* PipelineExecutor::execute and PipelinePullingExecutor *)

\* The threads are joined from the last to the first, up to the first error.
join ==
    /\ main.pc = "join" /\ main.thread # 0 /\ PC(main.thread) = "exit"
    /\ main' = IF worker[main.thread].err THEN [main EXCEPT !.pc = "error"]
               ELSE [main EXCEPT !.thread = @ - 1]
    /\ UNCHANGED <<pipeline, finished, tasks, notify, lock, worker, inflight, client, failed, race>>

\* thread_function: the result of execute goes to the client, if there is one.
thread_function ==
    /\ ~race /\ (main.pc = "error" \/ (main.pc = "join" /\ main.thread = 0))
    /\ main' = [main EXCEPT !.pc = "done"]
    /\ IF Receiving
       THEN Len(chan) < Capacity
            /\ chan' = Append(chan, <<IF main.pc = "error" THEN "error" ELSE "none">>)
       ELSE UNCHANGED chan
    /\ UNCHANGED <<pipeline, finished, tasks, notify, lock, worker, inflight, received, saw,
                   failed, race>>

\* The client pulls until it sees the end or an error, then drops the executor.
pull_data ==
    /\ PC(Client) = "pull" /\ chan # <<>>
    /\ chan' = Tail(chan)
    /\ LET end == Head(chan)[1] # "block"
       IN  /\ received' = IF end THEN received ELSE Append(received, Head(chan)[2])
           /\ saw' = IF end THEN Head(chan)[1] ELSE saw
           /\ Goto(Client, IF end THEN "finish" ELSE "pull")
    /\ UNCHANGED <<pipeline, finished, tasks, notify, lock, inflight, main, failed, race>>

\* Or it drops the executor early.
drop ==
    /\ PC(Client) = "pull"
    /\ Goto(Client, "finish")
    /\ UNCHANGED <<pipeline, finished, tasks, notify, lock, inflight, main, client, failed, race>>

-----------------------------------------------------------------------------
Work(w) ==
    \/ loop(w) \/ steal(w) \/ no_task(w) \/ last_worker(w) \/ wait(w) \/ awake(w) \/ wakeup(w)
    \/ run_sync(w) \/ run_async(w) \/ run_completed(w)
    \/ schedule_executed(w) \/ schedule_edge(w) \/ skip_edge(w) \/ trigger(w)
    \/ schedule(w) \/ push_tasks(w)

Ending(a) == finish(a) \/ wakeup_all(a) \/ wakeup_each(a)

Completion(t) == completed_async_task(t) \/ dec_active_async_worker(t) \/ async_wakeup(t)

Next ==
    \/ \E w \in Workers : Work(w)
    \/ \E a \in Actors : Ending(a)
    \/ \E t \in inflight : Completion(t)
    \/ join \/ thread_function \/ pull_data \/ drop

Spec == Init /\ [][Next]_vars

-----------------------------------------------------------------------------
(* Properties *)

Items == {<<"block", b>> : b \in UNION {{Content[s][i] : i \in DOMAIN Content[s]} : s \in Sources}}
         \cup {<<"none">>, <<"error">>}

\* Every variable has its type; a worker is woken by a number that is one.
TypeOK ==
    /\ state \in [Nodes -> {"Idle", "Processing", "Finished"}]
    /\ {finished, race} \subseteq BOOLEAN
    /\ tasks.size \in Nat /\ notify.size \in 0 .. Threads /\ notify.async \in Nat
    /\ notify.waiting \subseteq Workers /\ notify.asleep \subseteq Workers
    /\ lock \in Workers \cup {None}
    /\ \A a \in Actors : worker[a].pc = "wakeup" => worker[a].index \in Workers
    /\ Len(chan) <= Capacity /\ \A i \in DOMAIN chan : chan[i] \in Items
    /\ saw \in {"nothing", "none", "error"} /\ failed \subseteq Nodes

TaskNode(task) == IF task.kind = "completed" THEN task.item.node ELSE task.item

\* Where the task of a node can be: in a queue, with a worker, spawned, or in
\* the schedule queue a worker is filling.
Places(n) ==
    UNION {{<<"sync", w, i>> : i \in {j \in DOMAIN tasks.sync[w] : tasks.sync[w][j] = n}}
           \cup {<<"async", w, i>> : i \in {j \in DOMAIN tasks.async[w] : tasks.async[w][j] = n}}
           \cup {<<"completed", w, i>> :
                   i \in {j \in DOMAIN tasks.completed[w] : tasks.completed[w][j].node = n}}
           \cup {<<"next", w, i>> : i \in {j \in DOMAIN worker[w].sync : worker[w].sync[j] = n}}
           \cup {<<"later", w, i>> : i \in {j \in DOMAIN worker[w].async : worker[w].async[j] = n}}
           : w \in Workers}
    \cup {<<"task", w>> : w \in {v \in Workers : worker[v].task # None
                                                 /\ TaskNode(worker[v].task) = n}}
    \cup {<<"again", w>> : w \in {v \in Workers : worker[v].pc = "again" /\ worker[v].node = n}}
    \cup {<<"spawned", t>> : t \in {x \in inflight : x.node = n /\ x.step = "process"}}

\* A processor is run by at most one thread at a time, and a processor that is
\* due to run is never forgotten: the task of a node that is Processing is in
\* exactly one place, until its error is thrown, and an idle or finished node
\* has none.  This is what lets processors be UnsafeCells without a lock of
\* their own (executor_graph.rs, executor_tasks.rs).
OneOwner ==
    \A n \in Nodes :
        Cardinality(Places(n)) = (IF state[n] = "Processing" /\ n \notin failed THEN 1 ELSE 0)

\* The counters the workers decide by are exact: tasks_size is the number of
\* queued tasks, waiting_async_task the number of asynchronous tasks taken and
\* not yet given back, and, until the executor is finished, waiting_size the
\* number of workers asleep (executor_tasks.rs, executor_notify.rs).
Accounting ==
    LET queued(k) == FoldFunctionOnSet(LAMBDA q, n : n + Len(q), 0, tasks[k], Workers)
    IN  /\ tasks.size = queued("sync") + queued("async") + queued("completed")
        /\ notify.async = Cardinality({w \in Workers : worker[w].task # None
                                                       /\ worker[w].task.kind = "async"})
                          + Cardinality({t \in inflight : t.step \in {"process", "dec"}})
        /\ notify.size = Cardinality(notify.waiting)
        /\ ~finished => notify.waiting = notify.asleep

\* The executor finishes by itself only when there is nothing left to run: the
\* last worker awake, finding no task and no asynchronous task, is right that
\* "no new tasks will be generated" (executor_tasks.rs:76).
FinishedIsComplete ==
    finished /\ failed = {} /\ PC(Client) = "pull" =>
        \A n \in Nodes : state[n] = "Finished"

Rows(q, s) == SelectSeq(q, LAMBDA b : b # Empty /\ b[1] = s)

\* A client told that the result is complete has all of it: every block with
\* rows of every source, once and in the order of its source, and no
\* processor has failed (pipeline_pulling_executor.rs, pull_data).
NoneMeansAll ==
    saw = "none" => /\ \A s \in Sources : Rows(received, s) = Rows(Content[s], s)
                    /\ failed = {}

\* A worker is blocked only "when there are not enough tasks"
\* (pipeline_executor.rs:117): the workers do not all sleep while a task is
\* queued and no asynchronous task is left that would wake one of them.
BlockedForWantOfTasks ==
    notify.asleep = Workers /\ inflight = {} /\ ~finished /\ ~race => tasks.size = 0
=============================================================================
