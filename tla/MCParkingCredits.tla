-------------------------- MODULE MCParkingCredits --------------------------
(* Instances of ParkingCredits for TLC. *)
EXTENDS ParkingCredits, TLC
=============================================================================
