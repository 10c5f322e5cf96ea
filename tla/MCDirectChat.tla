---------------------------- MODULE MCDirectChat ----------------------------
(* Instances of DirectChat for TLC. *)
EXTENDS DirectChat, TLC

\* Messages are interchangeable; users are not, since a room has a first one.
Symmetry == Permutations(Msg)
=============================================================================
