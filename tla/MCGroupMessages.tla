--------------------------- MODULE MCGroupMessages ---------------------------
(* The instance of GroupMessages that TLC checks. *)
EXTENDS GroupMessages, TLC

\* Slots are interchangeable.
Symmetry == Permutations(Fetch)
=============================================================================
