------------------------------- MODULE Roster --------------------------------
(***************************************************************************)
(* What the group chat promises about a group, whatever handlers, rows and  *)
(* counters it is made of: a roster of members, some of them admins, whose  *)
(* size is known at every moment.  Every change is one step.                *)
(***************************************************************************)
EXTENDS Integers, FiniteSets

CONSTANT User

VARIABLES
  state,    \* "absent", "open" or "deleted"
  members,
  admins,
  size      \* how many members the group shows

vars == <<state, members, admins, size>>

Init == state = "absent" /\ members = {} /\ admins = {} /\ size = 0

Create(u, invited) ==
  /\ state = "absent" /\ state' = "open"
  /\ members' = {u} \cup invited
  /\ admins' = {u}
  /\ size' = Cardinality({u} \cup invited)

\* Nobody is admitted twice.
Admit(users) ==
  /\ state = "open"
  /\ members' = members \cup users
  /\ size' = size + Cardinality(users)
  /\ UNCHANGED <<state, admins>>

\* A member goes, of its own will or not; the role goes with it.
Part(u) ==
  /\ state = "open" /\ u \in members
  /\ members' = members \ {u}
  /\ admins' = admins \ {u}
  /\ size' = size - 1
  /\ UNCHANGED state

Appoint(u) ==
  /\ state = "open" /\ u \in members
  /\ admins' = admins \cup {u}
  /\ UNCHANGED <<state, members, size>>

Disband ==
  /\ state = "open" /\ state' = "deleted"
  /\ members' = {} /\ admins' = {} /\ size' = 0

Next == \/ \E users \in SUBSET (User \ members) : Admit(users)
        \/ \E u \in User, invited \in SUBSET User : Create(u, invited)
        \/ \E u \in User : Part(u) \/ Appoint(u)
        \/ Disband

Spec == Init /\ [][Next]_vars
=============================================================================
