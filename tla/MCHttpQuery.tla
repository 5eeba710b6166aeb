----------------------------- MODULE MCHttpQuery ----------------------------
(* A query of two blocks of a row and pages of two rows, two requests.     *)
EXTENDS HttpQuery

MCRows == <<1, 1>>
MCMaxEvents == [Async |-> 1, Sync |-> 2, Deadline |-> 1]
=============================================================================
