----------------------- MODULE GroupMembershipHistory ------------------------
(***************************************************************************)
(* History variables beside GroupMembership: why a group may have lost its  *)
(* last admin, why one without members may stay, when a leave counted those *)
(* that remain, and why somebody without a membership row may sit in the    *)
(* socket room.  They are computed from each step's state before and after, *)
(* and no step depends on them.                                             *)
(***************************************************************************)
EXTENDS GroupMembership

VARIABLES
  lapsed,     \* what a request relied on to leave an admin behind was taken
              \* from it by another request, at least once
  forsaken,   \* the group has no members, and nobody is about to delete it
  counted,    \* per leave that is about to delete the group: the instant of
              \* the last insert when it counted the members that remain
  outrun,     \* room fetches whose user's row went after the rooms were read
  strays      \* users in the socket room whom no request will take out of it

historyVars == <<vars, lapsed, forsaken, counted, outrun, strays>>

HistoryInit ==
  /\ Init
  /\ lapsed = FALSE
  /\ forsaken = FALSE
  /\ counted = [s \in Req |-> 0]
  /\ outrun = {}
  /\ strays = {}

-----------------------------------------------------------------------------
\* An admin's leave that has looked for the admin it leaves behind.
LeavesAsAdmin(s) ==
  req[s].pc \in {"earliest", "promote", "quit"} /\ req[s].actor \in admins

\* An add or removal that was granted to an admin who is none any more.
ActsAfterRole(s) ==
  req[s].pc \in {"create", "delete"} /\ req[s].actor \notin admins

Acts(s) == req'[s] # req[s]

AdminGoes   == \E u \in admins : joined[u] # 0 /\ joined'[u] = 0
MemberComes == \E u \in User : joined[u] = 0 /\ joined'[u] # 0

\* An admin goes, or a member comes, beside a leave that has looked already or
\* by a request whose own admin has gone.
Lapses ==
  /\ room = "open"
  /\ AdminGoes \/ MemberComes
  /\ \E s \in Req : \/ LeavesAsAdmin(s) /\ ~Acts(s)
                    \/ ActsAfterRole(s) /\ Acts(s)

-----------------------------------------------------------------------------
\* A leave that will delete the group, or will if it finds no members.
WillDrop(s) == req[s].pc = "remaining" \/ req[s].last

\* A removal takes the last member away, or the leave that was to delete the
\* group is rejected.
Forsakes ==
  \E s \in Req :
    /\ Acts(s)
    /\ \/ req[s].pc = "delete" /\ Members # {}
       \/ WillDrop(s) /\ req'[s].pc = "idle" /\ room' = "open"

Counts ==
  [s \in Req |-> IF ~req'[s].last THEN 0
                 ELSE IF req[s].last THEN counted[s] ELSE clock]

-----------------------------------------------------------------------------
\* The user whose sockets request s has yet to take out of the room.
Evicted(s) == CASE req[s].pc \in {"decrement", "evict"}  -> {req[s].subject}
                [] req[s].pc \in {"remaining", "vacate"} -> {req[s].actor}
                [] OTHER -> {}

Outruns ==
  {s \in Req : /\ req[s].pc = "join" /\ ~Acts(s)
               /\ \/ s \in outrun
                  \/ joined[req[s].actor] # 0 /\ joined'[req[s].actor] = 0}

\* Who comes to sit in the socket room with nobody to take them out: one who
\* asked for it and is no member, one whose fetch was outrun, one whose
\* eviction was lost with a call that threw, and those whose rows went with the
\* room.
Strays ==
  inRoom' \cap
    ( strays
      \cup (IF req' = req THEN inRoom' \ (inRoom \cup Members') ELSE {})
      \cup {req[s].actor : s \in {t \in outrun : Acts(t)}}
      \cup (UNION {Evicted(s) : s \in {t \in Req :
                      /\ req[t].pc \in {"decrement", "remaining"}
                      /\ req'[t].pc = "idle"}})
      \cup (IF room = "open" /\ room' = "deleted" THEN Members ELSE {}) )

Record ==
  /\ lapsed' = (lapsed \/ Lapses)
  /\ forsaken' = (Members' = {} /\ (forsaken \/ Forsakes))
  /\ counted' = Counts
  /\ outrun' = Outruns
  /\ strays' = Strays

HistoryNext == Next /\ Record

HistorySpec == HistoryInit /\ [][HistoryNext]_historyVars

-----------------------------------------------------------------------------
\* A group that has members has an admin, whoever leaves, adds and removes at
\* once and whatever call is rejected, unless requests ran into each other:
\* an admin went or a member came while another admin's leave had already
\* looked for the one it would leave behind, or a request was carried out for
\* an admin who had gone.  One leave alone never leaves a group without.
AdminlessByRaceOnly ==
  room = "open" /\ Members # {} /\ admins = {} => lapsed

\* "If no members left, delete the group": a group without members is about to
\* be deleted by a leave in flight, however leaves, adds and removals overlap.
\* It stays only when that leave was rejected, or when the last member was
\* removed, by an admin who had gone in the meantime: a removal deletes no
\* group, and the admin's own leave had counted before it.
EmptyGroupEnds ==
  room = "open" /\ Members = {} => forsaken \/ \E s \in Req : WillDrop(s)

\* Deleting the group deletes the rows of whoever is a member then.  Those are
\* only users who were added after the leave had counted the members that
\* remain: nobody who was a member at that moment is thrown out.
DropsNewcomersOnly ==
  \A s \in Req : req[s].last => \A u \in Members : joined[u] > counted[s]

\* Nobody without a membership row sits in the socket room of the group, and
\* reads along, unless a request in flight is about to take the sockets out or
\* one of four things happened: the client asked for the room itself, which
\* nothing checks; its fetch of the rooms was overtaken by the loss of the row;
\* the handler that owed the eviction threw before; or the room was deleted.
SeatsAccounted ==
  inRoom \subseteq Members \cup strays \cup UNION {Evicted(s) : s \in Req}
=============================================================================
