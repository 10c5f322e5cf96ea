--------------------------- MODULE MCAccountAccess ---------------------------
(* The instance of AccountAccess that TLC checks. *)
EXTENDS AccountAccess, TLC

Symmetry == Permutations(Password) \cup Permutations(Req)

\* What no step reads, and no property beyond its type, is left out: the device,
\* the flips once toggles have crossed, and a password once it was compared.
Seen == <<password, otp, fresh, token, blocked, deleted, codes, tokens, inbox,
          handed, over, spent, crossed, ~crossed /\ flips,
          [r \in Req |-> IF req[r].pc \in Trusted /\ req[r].right
                           THEN [req[r] EXCEPT !.given = None] ELSE req[r]]>>
=============================================================================
