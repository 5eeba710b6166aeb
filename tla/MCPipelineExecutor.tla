------------------------ MODULE MCPipelineExecutor --------------------------
(***************************************************************************)
(* Two sources, a synchronous one with two blocks of rows and an           *)
(* asynchronous one with an empty block, that meet in a resize processor,  *)
(* followed by a transform and the pulling sink.  The channel to the       *)
(* client holds one of the two blocks.                                     *)
(***************************************************************************)
EXTENDS PipelineExecutor

MCEdges == <<<<1, 3>>, <<2, 3>>, <<3, 4>>, <<4, 5>>>>
MCKind == <<"source", "async_source", "resize", "transform", "sink">>
MCContent == 1 :> <<<<1, 1>>, <<1, 2>>>> @@ 2 :> <<Empty>>
=============================================================================
