------------------------ MODULE GroupMembershipRoster ------------------------
(***************************************************************************)
(* GroupMembership implements Roster: however the handlers interleave and   *)
(* fail, rows and counter together behave like a roster that is changed in  *)
(* one step.                                                                *)
(***************************************************************************)
EXTENDS GroupMembership

\* The members are those with a row, while there is a room; rows inserted for
\* a room that is gone are nobody's.
RosterMembers == IF room = "open" THEN Members ELSE {}
RosterAdmins  == IF room = "open" THEN admins ELSE {}

\* The size shows in the counter once what requests owe it, and what rejected
\* calls made it err by, is settled.
RosterSize ==
  IF room = "open"
    THEN count + Cardinality(PendingIncrements)
               - Cardinality(PendingDecrements) - drift
    ELSE 0

R == INSTANCE Roster WITH state   <- room,
                          members <- RosterMembers,
                          admins  <- RosterAdmins,
                          size    <- RosterSize

\* Every step of a handler changes the roster as one step of Roster does, or
\* not at all: nobody is admitted twice or parts twice, members part with their
\* role, only members are appointed, and the size follows.
ImplementsRoster == R!Spec
=============================================================================
