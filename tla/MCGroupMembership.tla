------------------------- MODULE MCGroupMembership -------------------------
(* Instances of GroupMembership for TLC. *)
EXTENDS GroupMembershipHistory, GroupMembershipRoster, TLC

\* Users, and request slots, are interchangeable.
Symmetry == Permutations(User) \cup Permutations(Req)

\* Members, admins and their number do not depend on the socket room.
RowsAndCount == <<room, joined, admins, count, clock, req, drift,
                  lapsed, forsaken, counted>>
=============================================================================
