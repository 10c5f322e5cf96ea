--------------------------- MODULE MCAccountRecords --------------------------
(* The instance of AccountRecords that TLC checks. *)
EXTENDS AccountRecords, TLC

\* Users are not: only some of them are in Active.
Symmetry == Permutations(Req) \cup Permutations(Name) \cup Permutations(File)
              \cup Permutations(Spelling)
=============================================================================
