------------------------ MODULE MCVehicleVerification ------------------------
(* Instances of VehicleVerification for TLC. *)
EXTENDS VehicleVerification, TLC

\* Documents, and slots, are interchangeable.
Symmetry == Permutations(Doc) \cup Permutations(Req)
=============================================================================
