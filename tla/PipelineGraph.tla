---------------------------- MODULE PipelineGraph ---------------------------
(***************************************************************************)
(* The processors of a query pipeline and the ports that join them         *)
(* (query/src/pipelines/new/processors).  A value g of the graph is a      *)
(* record:                                                                 *)
(*   port[e]    the SharedStatus of edge e: the block in it (HAS_DATA),    *)
(*              NEED_DATA and IS_FINISHED;                                 *)
(*   proc[n]    the fields of the processor of node n;                     *)
(*   list[n]    updated_edges of node n's UpdateList, each edge written as *)
(*              the node DirectedEdge::get_target gives for it;            *)
(*   touched    the <<n, e>> whose trigger has version # prev_version.     *)
(* The operators are the methods of ports and processors as functions of g.*)
(* A port's flags and pointer are one atomic word and a processor's event  *)
(* runs under the lock of its node, so event is one step.                  *)
(***************************************************************************)
EXTENDS Naturals, Sequences, SequencesExt

CONSTANTS
    Edges,      \* sequence of <<source node, target node>>, in add_edge order
    Kind,       \* [node -> "source", "async_source", "transform", "resize", "sink"]
    Content,    \* [source -> the sequence of blocks its generate() returns]
    Empty,      \* a block with no rows
    NoBlock     \* None

Nodes == DOMAIN Kind
EdgeIds == DOMAIN Edges
Sources == {n \in Nodes : Kind[n] \in {"source", "async_source"}}
Sinks == {n \in Nodes : Kind[n] = "sink"}

(* The edges into and out of a node, in the order of its ports.            *)
Inputs == [n \in Nodes |-> SetToSortSeq({e \in EdgeIds : Edges[e][2] = n}, <)]
Outputs == [n \in Nodes |-> SetToSortSeq({e \in EdgeIds : Edges[e][1] = n}, <)]
Input(n) == Inputs[n][1]
Output(n) == Outputs[n][1]
Peer(n, e) == IF Edges[e][1] = n THEN Edges[e][2] ELSE Edges[e][1]

Fresh(n) ==
    CASE n \in Sources -> [is_finish |-> FALSE, generated |-> NoBlock, left |-> Content[n]]
      [] Kind[n] = "transform" -> [input_data |-> NoBlock, output_data |-> NoBlock]
      [] Kind[n] = "resize" -> [cur_input |-> 1, cur_output |-> 1]
      [] OTHER -> [input_data |-> NoBlock, on_start |-> FALSE, on_finish |-> FALSE]

NewGraph ==
    [port |-> [e \in EdgeIds |-> [data |-> NoBlock, need |-> FALSE, finished |-> FALSE]],
     proc |-> [n \in Nodes |-> Fresh(n)],
     list |-> [n \in Nodes |-> <<>>],
     touched |-> {}]

-----------------------------------------------------------------------------
(* Ports                                                                   *)

(* update_input, update_output: once per scheduling cycle of the trigger.  *)
Touch(g, n, e) ==
    IF <<n, e>> \in g.touched THEN g
    ELSE [g EXCEPT !.touched = @ \cup {<<n, e>>}, !.list[n] = Append(@, Peer(n, e))]

FinishPort(g, n, e) ==
    IF g.port[e].finished THEN g ELSE Touch([g EXCEPT !.port[e].finished = TRUE], n, e)

SetNeedData(g, n, e) ==
    IF g.port[e].need THEN g ELSE Touch([g EXCEPT !.port[e].need = TRUE], n, e)

SetNotNeedData(g, e) == [g EXCEPT !.port[e].need = FALSE]
HasData(g, e) == g.port[e].data # NoBlock

(* Mutant: a port that asked for data is pushed to, even when it has some. *)
PushIfNeeded(g, e) == g.port[e].need

CanPush(g, e) == g.port[e].need /\ ~HasData(g, e)

PullData(g, n, e) ==
    LET t == Touch(g, n, e) IN [t EXCEPT !.port[e].data = NoBlock, !.port[e].need = FALSE]

PushData(g, n, e, b) ==
    LET t == Touch(g, n, e) IN [t EXCEPT !.port[e].data = b]

OnAll(Op(_, _, _), g, n, es) == FoldLeft(LAMBDA h, e : Op(h, n, e), g, es)

-----------------------------------------------------------------------------
(* Processor::event: the event returned and the graph after it             *)

Answer(event, g) == [event |-> event, graph |-> g]

SourceEvent(g, n) ==
    LET p == g.proc[n]
        e == Output(n)
    IN  CASE p.is_finish -> Answer("Finished", FinishPort(g, n, e))
          [] ~p.is_finish /\ g.port[e].finished -> Answer("Finished", g)
          [] ~p.is_finish /\ ~g.port[e].finished /\ ~CanPush(g, e) -> Answer("NeedConsume", g)
          [] OTHER ->
               IF p.generated = NoBlock
               THEN Answer(IF Kind[n] = "source" THEN "Sync" ELSE "Async", g)
               ELSE Answer("NeedConsume",
                           PushData([g EXCEPT !.proc[n].generated = NoBlock],
                                    n, e, p.generated))

TransformPull(g, n) ==
    LET e == Input(n)
    IN  CASE HasData(g, e) ->
               Answer("Sync", [PullData(g, n, e) EXCEPT !.proc[n].input_data = g.port[e].data])
          [] ~HasData(g, e) /\ g.port[e].finished ->
               Answer("Finished", FinishPort(g, n, Output(n)))
          [] OTHER -> Answer("NeedData", SetNeedData(g, n, e))

TransformEvent(g, n) ==
    LET p == g.proc[n]
        e == Output(n)
    IN  CASE g.port[e].finished -> Answer("Finished", FinishPort(g, n, Input(n)))
          [] ~g.port[e].finished /\ ~CanPush(g, e) ->
               Answer("NeedConsume", SetNotNeedData(g, Input(n)))
          [] OTHER ->
               CASE p.output_data # NoBlock ->
                      Answer("NeedConsume",
                             PushData([g EXCEPT !.proc[n].output_data = NoBlock],
                                      n, e, p.output_data))
                 [] p.output_data = NoBlock /\ p.input_data # NoBlock -> Answer("Sync", g)
                 [] OTHER -> TransformPull(g, n)

SinkEvent(g, n) ==
    LET p == g.proc[n]
        e == Input(n)
    IN  CASE ~p.on_start \/ p.input_data # NoBlock -> Answer("Sync", g)
          [] p.on_start /\ p.input_data = NoBlock /\ g.port[e].finished ->
               Answer(IF p.on_finish THEN "Finished" ELSE "Sync", g)
          [] OTHER ->
               IF HasData(g, e)
               THEN Answer("Sync",
                           [PullData(g, n, e) EXCEPT !.proc[n].input_data = g.port[e].data])
               ELSE Answer("NeedData", SetNeedData(g, n, e))

(* The positions of a port list from a cursor on, once round.              *)
Round(cur, len) == [i \in 1..len |-> 1 + ((cur + i - 2) % len)]

(* get_current_input, get_current_output: the first unfinished port, from  *)
(* the cursor on, that can be used; 0 when there is none.                  *)
CurrentInput(g, n) ==
    LET es == Inputs[n]
        usable(i) == ~g.port[es[i]].finished /\ HasData(g, es[i])
        found == SelectSeq(Round(g.proc[n].cur_input, Len(es)), usable)
    IN  IF found = <<>> THEN 0 ELSE found[1]

CurrentOutput(g, n) ==
    LET es == Outputs[n]
        usable(i) == ~g.port[es[i]].finished /\ CanPush(g, es[i])
        found == SelectSeq(Round(g.proc[n].cur_output, Len(es)), usable)
    IN  IF found = <<>> THEN 0 ELSE found[1]

AllFinished(g, es) == \A i \in DOMAIN es : g.port[es[i]].finished

ResizeMove(g, n, i, o) ==
    LET from == Inputs[n][i]
        into == Outputs[n][o]
        h == [g EXCEPT !.proc[n] = [cur_input |-> i, cur_output |-> o]]
    IN  PushData(PullData(h, n, from), n, into, g.port[from].data)

ResizeEvent(g, n) ==
    LET i == CurrentInput(g, n)
        o == CurrentOutput(g, n)
        h == [g EXCEPT !.proc[n].cur_output = o]
        notneed(k, e) == SetNotNeedData(k, e)
    IN  CASE AllFinished(g, Outputs[n]) ->
               Answer("Finished", OnAll(FinishPort, g, n, Inputs[n]))
          [] ~AllFinished(g, Outputs[n]) /\ o = 0 ->
               Answer("NeedConsume", FoldLeft(notneed, g, Inputs[n]))
          [] o # 0 /\ i # 0 -> Answer("NeedConsume", ResizeMove(g, n, i, o))
          [] o # 0 /\ i = 0 /\ AllFinished(g, Inputs[n]) ->
               Answer("Finished", OnAll(FinishPort, h, n, Outputs[n]))
          [] OTHER -> Answer("NeedData", OnAll(SetNeedData, h, n, Inputs[n]))

ProcessorEvent(g, n) ==
    CASE n \in Sources -> SourceEvent(g, n)
      [] Kind[n] = "transform" -> TransformEvent(g, n)
      [] Kind[n] = "resize" -> ResizeEvent(g, n)
      [] OTHER -> SinkEvent(g, n)

-----------------------------------------------------------------------------
(* Processor::process and async_process, when they succeed                 *)

(* The asynchronous source forgets a block with no rows; the synchronous   *)
(* one passes it on.                                                       *)
Generate(g, n) ==
    LET left == g.proc[n].left
        keep == Kind[n] = "source" \/ Head(left) # Empty
    IN  IF left = <<>> THEN [g EXCEPT !.proc[n].is_finish = TRUE]
        ELSE [g EXCEPT !.proc[n].left = Tail(@),
                       !.proc[n].generated = IF keep THEN Head(left) ELSE @]

(* T::transform is the identity on the blocks told apart here, and skips   *)
(* empty blocks (SKIP_EMPTY_DATA_BLOCK).                                   *)
Transform(g, n) ==
    LET b == g.proc[n].input_data
    IN  [g EXCEPT !.proc[n].input_data = NoBlock,
                  !.proc[n].output_data = IF b \in {Empty, NoBlock} THEN @ ELSE b]

(* What the next process() of a sink is: on_start, consume or on_finish.   *)
SinkStep(p) ==
    CASE ~p.on_start -> "on_start"
      [] p.on_start /\ p.input_data # NoBlock -> "consume"
      [] p.on_start /\ p.input_data = NoBlock /\ ~p.on_finish -> "on_finish"
      [] OTHER -> "nothing"

AfterSinkStep(g, n) ==
    LET step == SinkStep(g.proc[n])
    IN  [g EXCEPT !.proc[n].on_start = @ \/ step = "on_start",
                  !.proc[n].input_data = IF step = "consume" THEN NoBlock ELSE @,
                  !.proc[n].on_finish = @ \/ step = "on_finish"]

(* UpdateList::trigger: the edges to schedule, and the graph without them. *)
TakeList(g, n) ==
    [g EXCEPT !.list[n] = <<>>, !.touched = {t \in @ : t[1] # n}]
=============================================================================
