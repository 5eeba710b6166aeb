----------------------------- MODULE HttpQuery ------------------------------
(***************************************************************************)
(* One query of the HTTP handler (query/src/servers/http/v1): the task     *)
(* that executes it and sends its blocks through a bounded channel, the    *)
(* handlers that collect pages from the channel, the client that follows   *)
(* next_uri and asks again when an answer does not come, and what may end  *)
(* the query: its cancellation, its expiry, and a KILL from another        *)
(* session.  A step is what runs between two awaits, or under one lock.    *)
(*                                                                         *)
(* The query exists in the initial states: it has been planned, registered *)
(* (add_query) and its first page is being asked for (query_handler).      *)
(***************************************************************************)
EXTENDS Integers, Sequences, Functions

CONSTANTS
    Rows,           \* sequence: the rows of each block of the result
    Target,         \* TARGET_ROWS_PER_PAGE
    ChannelSize,    \* of the channel of blocks
    WaitTypes,      \* the pagination: "Async", "Sync", "Deadline"
    Requests,       \* the page requests the server may hold at a time
    CanFail,        \* whether the execution may fail
    MaxEvents,      \* bound, by kind of query: repeated requests, closed connections,
                    \* cancellations and KILLs
    None

Blocks == DOMAIN Rows

ASSUME QueryAssumption ==
    /\ Rows \in Seq(Nat) /\ Target \in Nat \ {0} /\ ChannelSize \in Nat
    /\ WaitTypes \subseteq {"Async", "Sync", "Deadline"} /\ Requests # {}
    /\ None \notin Requests \cup Nat \cup Seq(Blocks)
    /\ None \notin {"Running", "Succeeded", "Failed", "NotFound", "later", "past"}

VARIABLES
    wait,           \* get_wait_type of the query
    exec,           \* Executor.state: "Running", "Succeeded" or "Failed"
    task,           \* the spawned execute task
    context,        \* what QueryContextShared::kill reaches
    chan, tx_open, rx_open,   \* the channel; its two ends
    data, holder,   \* ResultDataManager and who has locked it
    req,            \* [request -> its handler]
    registered,     \* in HttpQueryManager.queries
    expire_at,      \* None, "later" or "past"
    ender,          \* [who ends the query -> its step]
    client,         \* what it has got, asks for next and was told last
    dropped, events \* blocks lost with a dropped handler; the count of MaxEvents

vars == <<wait, exec, task, context, chan, tx_open, rx_open, data, holder, req,
          registered, expire_at, ender, client, dropped, events>>
channel == <<chan, tx_open, rx_open>>
executor == <<exec, task, context>>
pages == <<data, holder>>
fate == <<registered, expire_at, ender>>
customer == <<client, dropped, events>>

NoPage == [data |-> <<>>, rows |-> 0, next |-> None, state |-> None]
Quiet == [pc |-> "idle", page_no |-> 0, page |-> NoPage]

Init ==
    /\ wait \in WaitTypes
    /\ exec = "Running"
    /\ task = [pc |-> "start", left |-> [b \in Blocks |-> b], aborted |-> FALSE, error |-> FALSE]
    /\ context = [killed |-> FALSE, abort |-> FALSE, missed |-> FALSE]
    /\ chan = <<>> /\ tx_open = TRUE /\ rx_open = TRUE
    /\ data = [total_pages |-> 0, last_page |-> None, end |-> FALSE] /\ holder = None
    /\ LET r == CHOOSE q \in Requests : TRUE
       IN  /\ req = [q \in Requests |-> IF q = r THEN [Quiet EXCEPT !.pc = "lock"] ELSE Quiet]
           /\ client = [live |-> r, next |-> 0, got |-> <<>>, told |-> None]
    /\ registered = TRUE /\ expire_at = None
    /\ ender = [expiry |-> IF wait = "Async" THEN "check" ELSE "done", cancel |-> "get"]
    /\ dropped = {} /\ events = 0

-----------------------------------------------------------------------------
(* execute, on the runtime of the query                                    *)

\* execute returns, with an error or without.
Return(err) == [task EXCEPT !.pc = "stop", !.error = err, !.aborted = FALSE, !.left = <<>>]

\* interpreter.execute, then try_create_abortable: only from here on can the
\* stream be aborted.
execute ==
    /\ task.pc = "start"
    /\ \/ task' = [task EXCEPT !.pc = "poll"]
       \/ CanFail /\ task' = Return(TRUE)
    /\ UNCHANGED <<wait, exec, context, channel, pages, req, fate, customer>>

\* AbortStream::poll_next asks first whether the stream is aborted,
is_aborted ==
    /\ task.pc = "poll"
    /\ task' = [task EXCEPT !.pc = "next", !.aborted = context.abort]
    /\ UNCHANGED <<wait, exec, context, channel, pages, req, fate, customer>>

\* and then polls it: an aborted stream ends, and the end is an error if the
\* stream was known to be aborted before.
poll_next ==
    /\ task.pc = "next"
    /\ \/ /\ context.abort
          /\ task' = Return(task.aborted)
          /\ context' = [context EXCEPT !.missed = ~task.aborted]
       \/ /\ ~context.abort /\ UNCHANGED context
          /\ task' = IF task.left = <<>> THEN Return(FALSE) ELSE [task EXCEPT !.pc = "send"]
       \/ /\ ~context.abort /\ CanFail /\ UNCHANGED context
          /\ task' = Return(TRUE)
    /\ UNCHANGED <<wait, exec, channel, pages, req, fate, customer>>

\* Mutant: a block that cannot be sent is sent again.
SendAgain ==
    /\ task.pc = "send"
    /\ rx_open /\ Len(chan) < ChannelSize
    /\ chan' = Append(chan, Head(task.left))
    /\ task' = [task EXCEPT !.pc = "poll", !.left = Tail(@)]
    /\ UNCHANGED <<wait, exec, context, tx_open, rx_open, pages, req, fate, customer>>

\* select: the block is sent, or refused by a closed channel, or the query is
\* aborted.
send ==
    /\ task.pc = "send"
    /\ \/ /\ rx_open /\ Len(chan) < ChannelSize
          /\ chan' = Append(chan, Head(task.left))
          /\ task' = [task EXCEPT !.pc = "poll", !.left = Tail(@)]
       \/ /\ ~rx_open /\ UNCHANGED chan
          /\ task' = [task EXCEPT !.pc = "poll", !.left = Tail(@)]
       \/ /\ context.killed /\ UNCHANGED chan
          /\ task' = Return(TRUE)
    /\ UNCHANGED <<wait, exec, context, tx_open, rx_open, pages, req, fate, customer>>

\* force_kill_query: the context is taken and killed once.  The message of
\* HttpQueryHandle::abort is there, the stream is aborted if it exists.
Killed == IF context.killed THEN context
          ELSE [context EXCEPT !.killed = TRUE, !.abort = task.pc # "start"]

\* Mutant: the outcome of execute replaces the state of a killed query.
StopAnyway ==
    /\ task.pc = "stop"
    /\ exec' = IF task.error THEN "Failed" ELSE "Succeeded"
    /\ task' = [task EXCEPT !.pc = "drop", !.error = FALSE]
    /\ UNCHANGED <<wait, context, channel, pages, req, fate, customer>>

\* Executor::stop with the outcome of execute, unless the query is stopped.
stop ==
    /\ task.pc = "stop"
    /\ exec' = IF exec # "Running" THEN exec ELSE IF task.error THEN "Failed" ELSE "Succeeded"
    /\ task' = [task EXCEPT !.pc = "drop", !.error = FALSE]
    /\ UNCHANGED <<wait, context, channel, pages, req, fate, customer>>

\* Mutant: the sender may be dropped before Executor::stop.
DropEarly ==
    /\ \/ task.pc = "stop" /\ tx_open /\ UNCHANGED task
       \/ task.pc = "drop" /\ task' = [task EXCEPT !.pc = "done"]
    /\ tx_open' = FALSE
    /\ UNCHANGED <<wait, exec, context, chan, rx_open, pages, req, fate, customer>>

\* Mutant: the sender outlives the task.
KeepSender ==
    /\ task.pc = "drop"
    /\ task' = [task EXCEPT !.pc = "done"]
    /\ UNCHANGED <<wait, exec, context, channel, pages, req, fate, customer>>

\* "drop/close block_tx after calling Executor::stop".
drop_tx ==
    /\ task.pc = "drop"
    /\ tx_open' = FALSE
    /\ task' = [task EXCEPT !.pc = "done"]
    /\ UNCHANGED <<wait, exec, context, chan, rx_open, pages, req, fate, customer>>

Task == execute \/ is_aborted \/ poll_next \/ send \/ stop \/ drop_tx

-----------------------------------------------------------------------------
(* query_page_handler; the request of query_handler begins at "lock"       *)

Step(r, l) == req' = [req EXCEPT ![r].pc = l]
Respond(r, l, page) == req' = [req EXCEPT ![r].pc = l, ![r].page = page]

Done == client.told # None

\* The client looks at the answer to its newest request only; an answer that
\* is lost or late is one it has given up on.
Deliver(r, page) ==
    client' = IF client.live # r THEN client
              ELSE [client EXCEPT !.live = None, !.got = @ \o page.data, !.next = page.next,
                                  !.told = IF page.next = None THEN page.state ELSE None]

\* An error is answered at once, without update_expire_time.
NotFound(r) ==
    /\ Deliver(r, [NoPage EXCEPT !.state = "NotFound"])
    /\ req' = [req EXCEPT ![r] = Quiet]

\* get_query and clear_expire_time.
get_query(r) ==
    /\ req[r].pc = "get"
    /\ \/ registered /\ expire_at' = None /\ Step(r, "lock") /\ UNCHANGED client
       \/ ~registered /\ UNCHANGED expire_at /\ NotFound(r)
    /\ UNCHANGED <<wait, executor, channel, pages, registered, ender, dropped, events>>

next_page_no(d) == IF d.end THEN None ELSE d.total_pages

\* get_a_page: a new page, the last one again, or a wrong number.  With no page
\* at all next_no - 1 wraps around and is no number a client asks for.
get_a_page(r) ==
    /\ req[r].pc = "lock" /\ holder = None
    /\ LET n == req[r].page_no
       IN  \/ /\ n = data.total_pages /\ ~data.end
              /\ holder' = r /\ Respond(r, "collect", NoPage) /\ UNCHANGED client
           \/ /\ n + 1 = data.total_pages /\ UNCHANGED <<holder, client>>
              /\ Respond(r, "state", [NoPage EXCEPT !.data = data.last_page,
                                                    !.next = next_page_no(data)])
           \/ /\ ~(n = data.total_pages /\ ~data.end) /\ n + 1 # data.total_pages
              /\ UNCHANGED holder /\ NotFound(r)
    /\ UNCHANGED <<wait, executor, channel, data, fate, dropped, events>>

\* Mutant: a page without rows is counted too.
CountEmptyPages(r, results, rows, end) ==
    LET d == [total_pages |-> data.total_pages + 1, end |-> end,
              last_page |-> IF rows > 0 THEN results ELSE data.last_page]
    IN  /\ data' = d /\ holder' = None
        /\ Respond(r, "state", [NoPage EXCEPT !.data = results, !.next = next_page_no(d)])

\* Mutant: the page is handed out and not kept for another request.
PageNotKept(r, results, rows, end) ==
    LET more == rows > 0
        d == [total_pages |-> data.total_pages + (IF more THEN 1 ELSE 0),
              last_page |-> <<>>, end |-> end]
    IN  /\ data' = d /\ holder' = None
        /\ Respond(r, "state", [NoPage EXCEPT !.data = results, !.next = next_page_no(d)])

\* The end of collect_new_page: a page with rows is counted and kept.
new_page(r, results, rows, end) ==
    LET more == rows > 0
        d == [total_pages |-> data.total_pages + (IF more THEN 1 ELSE 0),
              last_page |-> IF more THEN results ELSE data.last_page,
              end |-> end]
    IN  /\ data' = d /\ holder' = None
        /\ Respond(r, "state", [NoPage EXCEPT !.data = results, !.next = next_page_no(d)])

\* try_recv sees the end when the sender is gone, recv also when the channel
\* was closed.
Disconnected == ~tx_open \/ (~rx_open /\ wait # "Async")

\* collect_new_page, one receive: a block, the end, or nothing yet.
receive(r) ==
    /\ req[r].pc = "collect"
    /\ \/ /\ chan # <<>>
          /\ chan' = Tail(chan)
          /\ LET results == Append(req[r].page.data, Head(chan))
                 rows == req[r].page.rows + Rows[Head(chan)]
             IN  IF rows >= Target THEN new_page(r, results, rows, FALSE)
                 ELSE Respond(r, "collect", [NoPage EXCEPT !.data = results, !.rows = rows])
                      /\ UNCHANGED pages
       \/ /\ chan = <<>> /\ Disconnected /\ UNCHANGED chan
          /\ new_page(r, req[r].page.data, req[r].page.rows, TRUE)
       \/ /\ chan = <<>> /\ ~Disconnected /\ wait # "Sync" /\ UNCHANGED chan
          /\ new_page(r, req[r].page.data, req[r].page.rows, FALSE)
    /\ UNCHANGED <<wait, executor, tx_open, rx_open, fate, customer>>

\* get_state and update_expire_time, and the response goes out.
respond(r) ==
    /\ req[r].pc = "state"
    /\ expire_at' = "later"
    /\ Deliver(r, [req[r].page EXCEPT !.state = exec])
    /\ req' = [req EXCEPT ![r] = Quiet]
    /\ UNCHANGED <<wait, executor, channel, pages, registered, ender, dropped, events>>

Handler(r) == get_query(r) \/ get_a_page(r) \/ receive(r) \/ respond(r)

-----------------------------------------------------------------------------
(* The client and the network                                              *)

Free == {r \in Requests : req[r].pc = "idle"}

\* Ask for the page of the last next_uri, or ask for it again: the earlier
\* request is given up on, and the server may still be working on it.
ask(r) ==
    /\ ~Done /\ r \in Free /\ r = CHOOSE q \in Free : TRUE
    /\ \/ client.live = None /\ UNCHANGED events
       \/ client.live # None /\ events < MaxEvents[wait] /\ events' = events + 1
    /\ req' = [req EXCEPT ![r] = [Quiet EXCEPT !.pc = "get", !.page_no = client.next]]
    /\ client' = [client EXCEPT !.live = r]
    /\ UNCHANGED <<wait, executor, channel, pages, fate, dropped>>

\* The connection is closed and the handler dropped at an await, with what it
\* has received and not made a page of; an "Async" one does not await then.
disconnect(r) ==
    /\ events < MaxEvents[wait]
    /\ req[r].pc \in {"get", "lock", "collect", "state"}
    /\ req[r].pc = "collect" => wait # "Async"
    /\ events' = events + 1
    /\ dropped' = dropped \cup (IF req[r].pc = "collect" THEN Range(req[r].page.data) ELSE {})
    /\ holder' = IF holder = r THEN None ELSE holder
    /\ req' = [req EXCEPT ![r] = Quiet]
    /\ client' = [client EXCEPT !.live = IF @ = r THEN None ELSE @]
    /\ UNCHANGED <<wait, executor, channel, data, fate>>

-----------------------------------------------------------------------------
(* The end of a query                                                      *)

Ender(e, l) == ender' = [ender EXCEPT ![e] = l]

\* Time passes, which only the task of add_query sees.
expire ==
    /\ ender.expiry = "check"
    /\ expire_at = "later" /\ expire_at' = "past"
    /\ UNCHANGED <<wait, executor, channel, pages, req, registered, ender, customer>>

\* The task add_query spawns for an asynchronous query.
check_expire ==
    /\ ender.expiry = "check" /\ expire_at = "past"
    /\ Ender("expiry", "remove")
    /\ UNCHANGED <<wait, executor, channel, pages, req, registered, expire_at, customer>>

\* query_cancel_handler, with delete or without.
cancel ==
    /\ ender.cancel = "get" /\ events < MaxEvents[wait]
    /\ Ender("cancel", IF registered THEN "kill" ELSE "done")
    /\ events' = events + 1
    /\ UNCHANGED <<wait, executor, channel, pages, req, registered, expire_at, client, dropped>>

\* Mutant: the query is killed when it had been removed before.
KillIfGone(e) ==
    /\ ender[e] = "remove"
    /\ registered' = FALSE
    /\ Ender(e, IF e = "expiry" /\ ~registered THEN "kill" ELSE "done")
    /\ UNCHANGED <<wait, executor, channel, pages, req, expire_at, customer>>

\* The expired query is removed first and killed if it was there; a cancelled
\* one was killed before.
remove_query(e) ==
    /\ ender[e] = "remove"
    /\ registered' = FALSE
    /\ Ender(e, IF e = "expiry" /\ registered THEN "kill" ELSE "done")
    /\ UNCHANGED <<wait, executor, channel, pages, req, expire_at, customer>>

\* HttpQuery::kill: Executor::stop with kill,
kill(e) ==
    /\ ender[e] = "kill"
    /\ exec' = IF exec = "Running" THEN "Failed" ELSE exec
    /\ context' = IF exec = "Running" THEN Killed ELSE context
    /\ Ender(e, "close")
    /\ UNCHANGED <<wait, task, channel, pages, req, registered, expire_at, customer>>

\* then the receiver is closed.
close(e) ==
    /\ ender[e] = "close" /\ holder = None
    /\ rx_open' = FALSE
    /\ \E delete \in BOOLEAN : Ender(e, IF e = "cancel" /\ delete THEN "remove" ELSE "done")
    /\ UNCHANGED <<wait, executor, chan, tx_open, pages, req, registered, expire_at, customer>>

\* KILL QUERY or KILL CONNECTION of another session.
force_kill_query ==
    /\ ~context.killed /\ events < MaxEvents[wait]
    /\ context' = Killed
    /\ events' = events + 1
    /\ UNCHANGED <<wait, exec, task, channel, pages, req, fate, client, dropped>>

End(e) == remove_query(e) \/ kill(e) \/ close(e)

Next ==
    \/ Task
    \/ \E r \in Requests : Handler(r) \/ ask(r) \/ disconnect(r)
    \/ \E e \in {"expiry", "cancel"} : End(e)
    \/ expire \/ check_expire \/ cancel \/ force_kill_query

\* The runtime runs every task that can run, the lock of the data is given in
\* the order it was asked for, time passes and the timer is looked at.
Fairness ==
    /\ WF_vars(Task) /\ WF_vars(expire) /\ WF_vars(check_expire)
    /\ \A r \in Requests : WF_vars(Handler(r)) /\ SF_vars(get_a_page(r))
    /\ \A e \in {"expiry", "cancel"} : WF_vars(End(e)) /\ SF_vars(close(e))

Spec == Init /\ [][Next]_vars /\ Fairness

-----------------------------------------------------------------------------
(* Properties *)

\* Every variable has its type, and the lock is held by a handler that collects.
TypeOK ==
    /\ wait \in WaitTypes /\ exec \in {"Running", "Succeeded", "Failed"}
    /\ chan \in Seq(Blocks) /\ Len(chan) <= ChannelSize
    /\ data.total_pages \in 0 .. Len(Rows) /\ data.end \in BOOLEAN
    /\ data.last_page = None <=> data.total_pages = 0
    /\ \A r \in Requests : req[r].pc = "collect" <=> holder = r
    /\ expire_at \in {None, "later", "past"} /\ client.got \in Seq(Blocks)

HasRows(b) == Rows[b] > 0

\* The blocks of q that have rows are those after the first lo and up to hi, in
\* order and once, except the ones that are lost.
Holds(q, lo, hi, lost) ==
    /\ \A i, j \in DOMAIN q : i < j /\ HasRows(q[i]) /\ HasRows(q[j]) => q[i] < q[j]
    /\ {b \in Range(q) : HasRows(b)} = {b \in lo + 1 .. hi : HasRows(b) /\ b \notin lost}

\* What a client that follows next_uri has got is a prefix of the result, in
\* order, with nothing twice and nothing left out, however often it had to ask
\* for a page again: get_a_page hands out the last page once more.  The blocks
\* a dropped handler had received are the only ones missing.
PagesInOrder ==
    \E k \in 0 .. Len(Rows) : Holds(client.got, 0, k, dropped)

\* The client is told a final state with the last page: "drop/close block_tx
\* after calling Executor::stop so handler task can get newest state before
\* return" (execute_state.rs:187).
LastPageTellsOutcome ==
    Done => client.told # "Running"

Missing == {b \in DOMAIN Rows : HasRows(b) /\ b \notin Range(client.got)}

\* Only two things can have gone wrong when rows are missing although the client
\* is told that the query succeeded and gets no next_uri ("because all data is
\* returned", 00-rest.md:90): the rows had been received by a handler that was
\* dropped with its connection (collect_new_page keeps them in a local variable,
\* result_data_manager.rs:140), or the stream was aborted by KILL between
\* is_aborted and poll_next (stream_abort.rs:52-54) and its end passed for the
\* end of the result.  An error, a kill over HTTP, an expiry, a page asked for
\* twice or a closed channel never shorten a result that is called a success.
OnlyTheseAreMissing ==
    client.told = "Succeeded" => Missing \subseteq dropped \/ context.missed

\* No handler waits for ever: not for a block, not for the data that another
\* handler has locked, not while the query is being killed.
HandlersReturn ==
    \A r \in Requests : req[r].pc # "idle" ~> req[r].pc = "idle"

\* An asynchronous query that nobody asks for any more is removed when its time
\* is over, and its execution ends, even one that waits for room in the
\* channel (add_query in http_query_manager.rs).  This needs the time to be
\* set: the last handler has to get to update_expire_time.
SilentQueriesEnd ==
    <>[](wait = "Async" /\ expire_at # None /\ \A r \in Requests : req[r].pc = "idle")
        => <>(~registered /\ task.pc = "done")

\* A query that was killed stops executing, whatever it was waiting for
\* (HttpQuery::kill in http_query.rs).
KilledQueriesEnd == ender.cancel = "close" ~> task.pc = "done"

-----------------------------------------------------------------------------
(* The inductive invariant *)

\* The blocks after the first lo up to hi.
Between(lo, hi) == [i \in 1 .. hi - lo |-> lo + i]

\* What the execution has done so far decides what the others may find: the end
\* of the stream comes with the state it ended in, a closed channel after a kill.
ExecOK ==
    /\ task.pc \in {"start", "poll", "next", "send", "stop", "drop", "done"}
    /\ exec \in {"Running", "Succeeded", "Failed"}
    /\ ~tx_open => task.pc = "done"
    /\ exec = "Succeeded" => task.pc \in {"drop", "done"}
    /\ task.pc \in {"drop", "done"} => exec # "Running"
    /\ \A x \in {"expiry", "cancel"} : ender[x] = "close" => exec # "Running"
    /\ ~rx_open => exec # "Running"
    /\ data.end => chan = <<>> /\ (~tx_open \/ ~rx_open)

ShapeOK ==
    /\ wait \in WaitTypes /\ expire_at \in {None, "later", "past"} /\ data.end \in BOOLEAN
    /\ DOMAIN ender = {"expiry", "cancel"} /\ DOMAIN req = Requests
    /\ holder \in Requests \cup {None}
    /\ DOMAIN task = {"pc", "left", "aborted", "error"} /\ {task.aborted, task.error} \subseteq BOOLEAN
    /\ context \in [killed : BOOLEAN, abort : BOOLEAN, missed : BOOLEAN]
    /\ DOMAIN client = {"live", "next", "got", "told"}
    /\ \A r \in Requests : DOMAIN req[r] = DOMAIN Quiet /\ DOMAIN req[r].page = DOMAIN NoPage

\* The handlers and the lock.
ReqOK(r) ==
    /\ req[r].pc \in {"idle", "get", "lock", "collect", "state"}
    /\ req[r].pc = "collect" <=> holder = r
    /\ req[r].pc # "idle" => req[r].page_no \in Nat /\ (~Done => req[r].page_no <= client.next)
    /\ req[r].pc = "collect" => req[r].page_no = data.total_pages /\ ~data.end

\* Blocks 1..h are in pages or lost, h+1..c are collected, c+1..e in the channel,
ChanOK(c, e) ==
    c <= e /\ chan = Between(c, e) /\ Len(chan) <= ChannelSize

CollectOK(h, c) ==
    /\ h <= c /\ dropped \subseteq 1 .. h /\ (holder = None => h = c)
    /\ \A r \in Requests : req[r].pc = "collect" =>
         /\ req[r].page.data = Between(h, c) /\ req[r].page.rows \in Nat
         /\ req[r].page.rows > 0 <=> \E b \in h + 1 .. c : HasRows(b)

\* the others are still to come, unless the channel is closed,
TaskOK(e) ==
    /\ task.pc \in {"start", "poll", "next", "send"} =>
         \E s \in e .. Len(Rows) :
           task.left = Between(s, Len(Rows)) /\ (rx_open => s = e) /\ (task.pc = "send" => s < Len(Rows))
    /\ task.pc = "stop" /\ ~task.error /\ ~context.missed /\ exec = "Running" => e = Len(Rows)
    /\ exec = "Succeeded" /\ ~context.missed => e = Len(Rows)

\* and the last page begins after block l.
DataOK(l, h) ==
    /\ l <= h /\ data.total_pages \in 0 .. h
    /\ data.total_pages = 0 => data.last_page = None
    /\ data.total_pages # 0 => data.last_page \in Seq(Blocks) /\ Holds(data.last_page, l, h, dropped)

\* The client has all pages, or all but the last one.
GotOK(l, h) ==
    /\ client.got \in Seq(Blocks)
    /\ ~Done => /\ client.next \in Nat
                /\ \/ client.next = data.total_pages /\ Holds(client.got, 0, h, dropped)
                   \/ client.next + 1 = data.total_pages /\ Holds(client.got, 0, l, dropped)

ToldOK(h) ==
    Done => /\ client.live = None /\ client.told # "Running"
            /\ \E k \in 0 .. h : Holds(client.got, 0, k, dropped)
            /\ client.told = "Succeeded" =>
                 /\ data.end /\ exec = "Succeeded"
                 /\ ~context.missed => h = Len(Rows) /\ Holds(client.got, 0, h, dropped)

\* What an answer on its way tells the client: nothing new, the end, or the last page.
AnswerOK(page, l, h) ==
    /\ page.data \in Seq(Blocks)
    /\ \/ Holds(page.data, 0, 0, dropped) /\ page.next = client.next
       \/ Holds(page.data, 0, 0, dropped) /\ page.next = None /\ data.end /\ client.next = data.total_pages
       \/ /\ Holds(page.data, l, h, dropped) /\ client.next + 1 = data.total_pages
          /\ page.next = data.total_pages \/ (page.next = None /\ data.end)

LiveOK(l, h) ==
    \A r \in Requests : client.live = r =>
      /\ ~Done
      /\ req[r].pc \in {"get", "lock", "collect"} => req[r].page_no = client.next
      /\ req[r].pc = "state" => AnswerOK(req[r].page, l, h)

Cursors(l, h, c, e) ==
    /\ ChanOK(c, e) /\ CollectOK(h, c) /\ TaskOK(e) /\ DataOK(l, h)
    /\ GotOK(l, h) /\ ToldOK(h) /\ LiveOK(l, h)

HttpInv ==
    /\ TypeOK /\ ShapeOK /\ ExecOK /\ \A r \in Requests : ReqOK(r)
    /\ \E l, h, c, e \in 0 .. Len(Rows) : Cursors(l, h, c, e)
=============================================================================
