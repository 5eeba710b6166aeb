-------------------------- MODULE MetaReplication ---------------------------
(***************************************************************************)
(* The meta service as a replicated state machine: clients send requests,  *)
(* raft (the openraft library) puts them into one committed log, and every *)
(* meta node applies the log in order, each at its own pace and by its own *)
(* clock, or replaces its state by the snapshot of a node that is ahead.   *)
(*                                                                         *)
(* A client that numbers its requests (LogEntry.txid) waits for the reply  *)
(* to one before it sends the next.  When it waits too long it sends the   *)
(* request once more, so copies of a request may be under way.             *)
(***************************************************************************)
EXTENDS StateMachine, Functions

CONSTANTS Nodes,       \* the meta nodes
          Cmds,        \* the commands that clients send
          Others,      \* entries without a client: membership, nodes, blank
          MaxLog,      \* bound: the length of the log
          MaxFlight,   \* bound: the copies of one client under way
          MaxTime      \* bound: the clocks

ASSUME ReplicationAssumption ==
  /\ MaxLog \in Nat /\ MaxFlight \in Nat /\ MaxTime \in Nat
  /\ Never \in Nat /\ MaxTime <= Never
  /\ NoTx \notin [client : Clients, serial : Nat]

\* The commands of common/meta/types/src/cmd.rs.
IsCommand(cmd) ==
  \/ cmd.kind = "IncrSeq" /\ cmd.name \in SeqNames
  \/ cmd.kind \in {"Add", "Remove"} /\ cmd.space \in {"nodes", "addrs"}
  \/ cmd.kind = "UpsertKV" /\ cmd.key \in Keys
  \/ /\ cmd.kind = "Transaction"
     /\ \A ops \in {cmd.if_then, cmd.else_then} :
          ops \in Seq(Range(ops)) /\ \A i \in DOMAIN ops : ops[i].key \in Keys

ASSUME CommandsAssumption ==
  /\ \A cmd \in Cmds : IsCommand(cmd)
  /\ \A e \in Others :
       /\ e.txid = NoTx /\ e.payload \in {"Blank", "Membership", "Normal"}
       /\ e.payload = "Normal" => IsCommand(e.cmd)

VARIABLES log,       \* the committed entries
          sm,        \* node -> its state machine
          clock,     \* node -> its wall clock
          flight,    \* client -> its requests under way, oldest first
          serial,    \* client -> the number of its last request
          waiting,   \* client -> whether the reply is outstanding
          ran,       \* history: node -> the indexes of the logs it executed
          replies    \* history: node -> the replies to the logs it applied

vars == <<log, sm, clock, flight, serial, waiting, ran, replies>>

Init ==
  /\ log = <<>>
  /\ sm = [n \in Nodes |-> Empty]
  /\ clock = [n \in Nodes |-> 0]
  /\ flight = [c \in Clients |-> <<>>]
  /\ serial = [c \in Clients |-> 0]
  /\ waiting = [c \in Clients |-> FALSE]
  /\ ran = [n \in Nodes |-> {}]
  /\ replies = [n \in Nodes |-> <<>>]

-----------------------------------------------------------------------------
Request(c, cmd, number) ==
  [payload |-> "Normal", txid |-> [client |-> c, serial |-> number], cmd |-> cmd]

Send(c, cmd) ==
  /\ ~waiting[c] /\ Len(flight[c]) < MaxFlight
  /\ serial' = [serial EXCEPT ![c] = @ + 1]
  /\ flight' = [flight EXCEPT ![c] = Append(@, Request(c, cmd, serial[c] + 1))]
  /\ waiting' = [waiting EXCEPT ![c] = TRUE]
  /\ UNCHANGED <<log, sm, clock, ran, replies>>

\* The reply is late: the newest request is sent once more.
Resend(c) ==
  /\ waiting[c] /\ flight[c] # <<>> /\ Len(flight[c]) < MaxFlight
  /\ flight[c][Len(flight[c])].txid.serial = serial[c]
  /\ flight' = [flight EXCEPT ![c] = Append(@, @[Len(@)])]
  /\ UNCHANGED <<log, sm, clock, serial, waiting, ran, replies>>

\* The sequence q without its i-th element.
Without(q, i) == [j \in 1..Len(q) - 1 |-> IF j < i THEN q[j] ELSE q[j + 1]]

\* Raft commits a request that is under way; a late copy may be overtaken.
Commit(c) ==
  /\ Len(log) < MaxLog
  /\ \E i \in DOMAIN flight[c] :
       /\ log' = Append(log, flight[c][i])
       /\ flight' = [flight EXCEPT ![c] = Without(@, i)]
  /\ UNCHANGED <<sm, clock, serial, waiting, ran, replies>>

\* Raft commits an entry of its own or one that an administrator caused.
CommitOther(e) ==
  /\ Len(log) < MaxLog
  /\ log' = Append(log, e)
  /\ UNCHANGED <<sm, clock, flight, serial, waiting, ran, replies>>

\* The next entry is applied: a sled transaction, with LastApplied.
Apply(n) ==
  LET index == sm[n].applied + 1
      entry == log[index]
      done  == apply(sm[n], index, entry, clock[n])
  IN  /\ index <= Len(log)
      /\ sm' = [sm EXCEPT ![n] = done.s]
      /\ replies' = [replies EXCEPT ![n] = Append(@, done.reply)]
      /\ ran' = [ran EXCEPT ![n] =
                   IF Repeated(sm[n], entry) THEN @ ELSE @ \cup {index}]
      /\ UNCHANGED <<log, clock, flight, serial, waiting>>

\* A snapshot without the last replies of the clients.
SnapshotWithoutReplies(n, m) ==
  /\ sm[m].applied > sm[n].applied
  /\ sm' = [sm EXCEPT ![n] = [sm[m] EXCEPT !.last = sm[n].last]]
  /\ ran' = [ran EXCEPT ![n] = ran[m]]
  /\ replies' = [replies EXCEPT ![n] = replies[m]]
  /\ UNCHANGED <<log, clock, flight, serial, waiting>>

\* A node that is behind takes over the state of a node that is ahead.
InstallSnapshot(n, m) ==
  /\ sm[m].applied > sm[n].applied
  /\ sm' = [sm EXCEPT ![n] = sm[m]]
  /\ ran' = [ran EXCEPT ![n] = ran[m]]
  /\ replies' = [replies EXCEPT ![n] = replies[m]]
  /\ UNCHANGED <<log, clock, flight, serial, waiting>>

\* A node that applied the newest request of c sends the reply.
Answer(c, n) ==
  /\ waiting[c]
  /\ \E i \in 1..sm[n].applied : log[i].txid = [client |-> c, serial |-> serial[c]]
  /\ waiting' = [waiting EXCEPT ![c] = FALSE]
  /\ UNCHANGED <<log, sm, clock, flight, serial, ran, replies>>

Tick(n) ==
  /\ clock[n] < MaxTime
  /\ clock' = [clock EXCEPT ![n] = @ + 1]
  /\ UNCHANGED <<log, sm, flight, serial, waiting, ran, replies>>

Next ==
  \/ \E c \in Clients, cmd \in Cmds : Send(c, cmd)
  \/ \E c \in Clients : Resend(c) \/ Commit(c)
  \/ \E e \in Others : CommitOther(e)
  \/ \E n \in Nodes : Apply(n) \/ Tick(n)
  \/ \E n, m \in Nodes : InstallSnapshot(n, m)
  \/ \E c \in Clients, n \in Nodes : Answer(c, n)

Spec == Init /\ [][Next]_vars

-----------------------------------------------------------------------------
\* Whether an entry gives a record an expiry time.
Expires(e) == e.payload = "Normal" /\ e.cmd.kind = "UpsertKV" /\ e.cmd.expire # Never

\* Nodes that have applied the same logs hold the same state, whether it came
\* from the log or from a snapshot of another node, at whatever pace and with
\* requests repeated, as long as no record with an expiry time is among them.
ReplicasAgree ==
  \A n, m \in Nodes :
    /\ sm[n].applied = sm[m].applied
    /\ \A i \in 1..sm[n].applied : ~Expires(log[i])
    => sm[n] = sm[m]

\* Logs i and j hold copies of one request, and no other request of the client
\* was executed between them.
Copies(n, i, j) ==
  /\ i < j /\ log[i].txid # NoTx /\ log[i].txid = log[j].txid
  /\ \A k \in ran[n] : i < k /\ k < j /\ log[k].txid # NoTx =>
       log[k].txid.client # log[i].txid.client \/ log[k].txid = log[i].txid

\* "Logs with the same RaftTxId are considered the same and only the first of
\* them will be applied" (raft_txid.rs): a request that was sent several times
\* is executed once, until the next request of the client is executed.
OnlyFirstApplied ==
  \A n \in Nodes : \A i \in 1..sm[n].applied, j \in ran[n] : ~Copies(n, i, j)

\* The client gets the reply of the execution, whichever copy is answered
\* ("no update will be made and the previous resp is returned").
CopiesGetTheSameReply ==
  \A n \in Nodes : \A i, j \in 1..sm[n].applied :
    Copies(n, i, j) => replies[n][i] = replies[n][j]

\* "The sequence number is guaranteed to increment everytime the record
\* changes" (kvs): applying a log that changes a record gives it a seq that no
\* record of the node ever had, or removes it, also when the old one expired.
SeqGrows ==
  [][\A n \in Nodes, k \in Keys : Apply(n) =>
       \/ sm'[n].kv[k] = sm[n].kv[k]
       \/ sm'[n].kv[k] = Absent
       \/ sm'[n].kv[k].seq > sm[n].seqs[GenericKV]]_vars

-----------------------------------------------------------------------------
(* The inductive invariant *)

\* What the log may contain.
Requests ==
  [payload : {"Normal"}, txid : [client : Clients, serial : Nat \ {0}], cmd : Cmds]
Entries == Others \cup Requests

\* The parts of a state machine that tell one request or record from another.
StateOK(s) ==
  /\ DOMAIN s = DOMAIN Empty
  /\ DOMAIN s.kv = Keys /\ \A k \in Keys : s.kv[k].seq \in Nat
  /\ s.seqs \in [SeqNames -> Nat] /\ DOMAIN s.last = Clients

NodeOK(n) ==
  /\ StateOK(sm[n]) /\ sm[n].applied \in 0..Len(log)
  /\ clock[n] \in 0..MaxTime
  /\ ran[n] \subseteq 1..sm[n].applied
  /\ replies[n] \in Seq(Range(replies[n])) /\ Len(replies[n]) = sm[n].applied

TypeOK ==
  /\ log \in Seq(Entries)
  /\ flight \in [Clients -> Seq(Requests)] /\ serial \in [Clients -> Nat]
  /\ waiting \in [Clients -> BOOLEAN]
  /\ DOMAIN sm = Nodes /\ DOMAIN clock = Nodes /\ DOMAIN ran = Nodes /\ DOMAIN replies = Nodes
  /\ \A n \in Nodes : NodeOK(n)

\* Whether log i is a request of client c.
By(c, i) == log[i].txid # NoTx /\ log[i].txid.client = c

\* The last request of c that n executed is the one n has noted, with its reply.
LastOK(n, c) ==
  \/ sm[n].last[c].serial = 0 /\ \A k \in ran[n] : ~By(c, k)
  \/ \E k \in ran[n] :
       /\ By(c, k) /\ \A j \in ran[n] : k < j => ~By(c, j)
       /\ sm[n].last[c] = [serial |-> log[k].txid.serial, reply |-> replies[n][k]]

\* Between two executions of one request n has executed another one of its client.
RanOK(n) ==
  \A k, j \in ran[n] : k < j /\ log[k].txid # NoTx /\ log[k].txid = log[j].txid =>
    \E i \in ran[n] : k < i /\ i < j /\ By(log[j].txid.client, i) /\ log[i].txid # log[j].txid

\* A log that was not executed repeats the one that its client had executed last.
SkippedOK(n) ==
  \A j \in (1..sm[n].applied) \ ran[n] :
    /\ log[j].txid # NoTx
    /\ \E k \in ran[n] :
         /\ k < j /\ log[k].txid = log[j].txid /\ replies[n][k] = replies[n][j]
         /\ \A i \in ran[n] : k < i /\ i < j => ~By(log[j].txid.client, i)

ReplicationInv ==
  /\ TypeOK
  /\ \A n \in Nodes : (\A c \in Clients : LastOK(n, c)) /\ RanOK(n) /\ SkippedOK(n)
=============================================================================
