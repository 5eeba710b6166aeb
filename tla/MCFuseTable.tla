----------------------------- MODULE MCFuseTable -----------------------------
(* Instances of FuseTable for TLC. *)
EXTENDS FuseTable, TLC

CONSTANTS s1, s2, s3

Three == {s1, s2, s3}
Symmetry == Permutations(Three)

\* Any three statements.
AnyPlan == [Three -> Ops]

\* Any two statements.
Two == {s1, s2}
SymmetryOfTwo == Permutations(Two)
AnyTwo == [Two -> Ops]

InsertPlans == [Three -> {"append", "overwrite"}]

NoFault == {}
LostReply == {"lost"}
=============================================================================
