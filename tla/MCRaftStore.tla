----------------------------- MODULE MCRaftStore ----------------------------
(***************************************************************************)
(* RaftStore with two keys: the second is written and deleted again, so    *)
(* that a tree filled on top of an older one would show it.                *)
(***************************************************************************)
EXTENDS RaftStore

MCEntries == <<[key |-> "a", put |-> TRUE], [key |-> "b", put |-> TRUE],
               [key |-> "b", put |-> FALSE]>>
=============================================================================
