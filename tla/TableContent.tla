---------------------------- MODULE TableContent ----------------------------
(***************************************************************************)
(* What a Fuse table promises to the statements that write it, with no     *)
(* snapshots, segments or retries: the table is a set of rows, and every   *)
(* statement takes effect at most once, in one atomic step.  A row is      *)
(* named by the statement that inserted it.                                *)
(***************************************************************************)
CONSTANT Statement

VARIABLES kind,     \* what each statement is
          dropped,  \* whether the table is gone
          content,  \* the rows of the table
          seen,     \* what a compaction has read and not yet written back
          effective \* the statements that have taken effect

vars == <<kind, dropped, content, seen, effective>>

Kinds == {"append", "overwrite", "compact", "all", "purge", "truncate", "truncate_purge", "drop"}

Init ==
    /\ kind \in [Statement -> Kinds] /\ dropped = FALSE
    /\ content = {} /\ seen = [s \in Statement |-> {}] /\ effective = {}

\* Statement s takes effect and leaves the table with rows c.
Effect(s, c) ==
    /\ s \notin effective /\ ~dropped
    /\ effective' = effective \cup {s}
    /\ content' = c
    /\ seen' = [seen EXCEPT ![s] = {}]
    /\ UNCHANGED <<kind, dropped>>

\* INSERT INTO adds its rows to what the table holds at that moment: the row
\* named by the statement, or nothing when its source was empty.
Insert(s) == kind[s] = "append" /\ \E c \in {content, content \cup {s}} : Effect(s, c)

\* INSERT OVERWRITE replaces all rows by its own.
Overwrite(s) == kind[s] = "overwrite" /\ \E c \in {{}, {s}} : Effect(s, c)

\* TRUNCATE removes all rows.
Truncate(s) == kind[s] \in {"truncate", "truncate_purge"} /\ Effect(s, {})

\* OPTIMIZE COMPACT reads all rows when it starts and makes them the content of
\* the table when it takes effect.  What other statements do in between is
\* undone: that much the code does not promise.
Select(s) ==
    /\ kind[s] \in {"compact", "all"} /\ s \notin effective /\ ~dropped
    /\ seen[s] = {} /\ seen' = [seen EXCEPT ![s] = {content}]
    /\ UNCHANGED <<kind, dropped, content, effective>>

Compact(s) == \E c \in seen[s] : Effect(s, c)

\* It ends without an effect.
Fail(s) ==
    /\ seen[s] # {} /\ seen' = [seen EXCEPT ![s] = {}]
    /\ UNCHANGED <<kind, dropped, content, effective>>

\* DROP ends the table: nothing takes effect afterwards.
Drop(s) ==
    /\ kind[s] = "drop"
    /\ dropped' = TRUE /\ content' = {}
    /\ UNCHANGED <<kind, seen, effective>>

Next ==
    \E s \in Statement :
        \/ Insert(s) \/ Overwrite(s) \/ Truncate(s)
        \/ Select(s) \/ Compact(s) \/ Fail(s) \/ Drop(s)

Spec == Init /\ [][Next]_vars
=============================================================================
