-------------------------- MODULE GroupMembership --------------------------
(***************************************************************************)
(* The life of one group chat room: GroupChatService (create, add, remove,  *)
(* leave) and the socket room that SocketGateway and SocketRoomService keep *)
(* beside it.  Every handler is a chain of awaited Prisma calls with no     *)
(* transaction around them, so each call is a step of its own and the steps *)
(* of concurrent requests interleave.  A request is a slot of Req; its      *)
(* field pc names the call it will make next.                               *)
(*                                                                          *)
(* A membership row is identified by its user and the instant it was        *)
(* created: joined[u] is that instant, 0 when u has no row.  Rows of one    *)
(* createMany share their instant.                                          *)
(***************************************************************************)
EXTENDS Integers, FiniteSets

CONSTANTS
  User,       \* users of the application
  Req,        \* request slots: how many handlers may be in flight together
  NoUser,     \* "no user" in a request
  MaxJoins,   \* bound: no add request starts once this many inserts were made
  Faults      \* TRUE iff a database call may be rejected

ASSUME ConstantsAssumption ==
  /\ IsFiniteSet(User)
  /\ IsFiniteSet(Req)
  /\ NoUser \notin User
  /\ MaxJoins \in Nat
  /\ Faults \in BOOLEAN

VARIABLES
  room,       \* the GroupChatRoom document: "absent", "open" or "deleted"
  joined,     \* membership rows: creation instant of each user's row, or 0
  admins,     \* users whose row has group_role GROUP_ADMIN
  count,      \* group_members_count of the room
  clock,      \* instant of the last insert
  inRoom,     \* users with a socket in the socket.io room of the group
  req,        \* the requests in flight
  drift       \* auxiliary: what rejected calls made count err by

vars == <<room, joined, admins, count, clock, inRoom, req, drift>>

-----------------------------------------------------------------------------
AddPoints    == {"existing", "create", "increment"}
RemovePoints == {"find", "delete", "decrement", "evict", "reevict"}
LeavePoints  == {"admins", "earliest", "promote", "quit", "remaining",
                 "vacate", "drop", "settle"}
FetchPoints  == {"join"}
Points == {"idle"} \cup AddPoints \cup RemovePoints \cup LeavePoints
                   \cup FetchPoints

\* Steps that are socket.io calls and cannot be rejected by the database.
SocketPoints == {"evict", "reevict", "vacate", "join"}

Request ==
  [pc      : Points,
   actor   : User \cup {NoUser},   \* the requesting user
   subject : User \cup {NoUser},   \* member to remove, or heir of the leaver
   who     : SUBSET User,          \* users to add
   row     : Nat,                  \* instant of the row read for deletion
   heirRow : Nat,                  \* instant of the row read for promotion
   last    : BOOLEAN]              \* remainingMembersCount === 0

NoRequest == [pc |-> "idle", actor |-> NoUser, subject |-> NoUser,
              who |-> {}, row |-> 0, heirRow |-> 0, last |-> FALSE]

Members == {u \in User : joined[u] # 0}

-----------------------------------------------------------------------------
Init ==
  /\ room = "absent"
  /\ joined = [u \in User |-> 0]
  /\ admins = {}
  /\ count = 0
  /\ clock = 0
  /\ inRoom = {}
  /\ req = [r \in Req |-> NoRequest]
  /\ drift = 0

\* Request r ends, normally or by throwing.
Finish(r) == req' = [req EXCEPT ![r] = NoRequest]

\* Request r starts for user u at point p.
Start(r, p, u) ==
  /\ req[r].pc = "idle"
  /\ req' = [req EXCEPT ![r] = [NoRequest EXCEPT !.pc = p, !.actor = u]]

Go(r, p) == req' = [req EXCEPT ![r].pc = p]

At(r, p) == req[r].pc = p

-----------------------------------------------------------------------------
\* handleCreateGroupChat: over the socket the creator joins the socket room.
CreatorJoins(u, viaSocket) ==
  inRoom' = IF viaSocket THEN inRoom \cup {u} ELSE inRoom

\* createGroupChatRoom: the room, its members and their number in one nested
\* write.
CreateGroup(u, invited, viaSocket) ==
  /\ room = "absent"
  /\ room' = "open"
  /\ clock' = clock + 1
  /\ joined' = [v \in User |-> IF v \in {u} \cup invited THEN clock + 1 ELSE 0]
  /\ admins' = {u}
  /\ count' = Cardinality({u} \cup invited)
  /\ CreatorJoins(u, viaSocket)
  /\ UNCHANGED <<req, drift>>

-----------------------------------------------------------------------------
\* addGroupMembers, and addGroupMember for a single user.
\* The requester's own row says GROUP_ADMIN.
AddBegin(r, u, users) ==
  /\ clock < MaxJoins
  /\ u \in admins
  /\ req[r].pc = "idle"
  /\ req' = [req EXCEPT ![r] = [NoRequest EXCEPT !.pc = "existing",
                                                 !.actor = u, !.who = users]]
  /\ UNCHANGED <<room, joined, admins, count, clock, inRoom, drift>>

\* Keep the users that are not members yet; throw when none is left.
AddExisting(r) ==
  /\ At(r, "existing")
  /\ LET newMembersToAdd == req[r].who \ Members
     IN  IF newMembersToAdd = {}
           THEN Finish(r)
           ELSE req' = [req EXCEPT ![r].pc = "create",
                                   ![r].who = newMembersToAdd]
  /\ UNCHANGED <<room, joined, admins, count, clock, inRoom, drift>>

\* Variant: the insert skips the users that became members meanwhile, but the
\* number of users asked for is what will be added to the count.
AddCreateSkippingDuplicates(r) ==
  /\ At(r, "create")
  /\ clock' = clock + 1
  /\ joined' = [u \in User |-> IF u \in req[r].who \ Members THEN clock + 1
                                                              ELSE joined[u]]
  /\ Go(r, "increment")
  /\ UNCHANGED <<room, admins, count, inRoom, drift>>

\* The unique index on (room, user) rejects the insert when one of the users
\* became a member meanwhile.  MongoDB does not check that the room exists.
AddCreate(r) ==
  /\ At(r, "create")
  /\ IF req[r].who \cap Members = {}
       THEN /\ clock' = clock + 1
            /\ joined' = [u \in User |-> IF u \in req[r].who THEN clock + 1
                                                             ELSE joined[u]]
            /\ Go(r, "increment")
       ELSE /\ Finish(r)
            /\ UNCHANGED <<joined, clock>>
  /\ UNCHANGED <<room, admins, count, inRoom, drift>>

\* Variant: the count grows by one for the request, not for each user.
AddIncrementByOne(r) ==
  /\ At(r, "increment")
  /\ count' = IF room = "open" THEN count + 1 ELSE count
  /\ Finish(r)
  /\ UNCHANGED <<room, joined, admins, clock, inRoom, drift>>

AddIncrement(r) ==
  /\ At(r, "increment")
  /\ count' = IF room = "open" THEN count + Cardinality(req[r].who) ELSE count
  /\ Finish(r)
  /\ UNCHANGED <<room, joined, admins, clock, inRoom, drift>>

-----------------------------------------------------------------------------
\* removeGroupMember: an admin removes another member.
RemoveBegin(r, u, target) ==
  /\ target # u
  /\ u \in admins
  /\ req[r].pc = "idle"
  /\ req' = [req EXCEPT ![r] = [NoRequest EXCEPT !.pc = "find",
                                                 !.actor = u,
                                                 !.subject = target]]
  /\ UNCHANGED <<room, joined, admins, count, clock, inRoom, drift>>

RemoveFind(r) ==
  /\ At(r, "find")
  /\ IF req[r].subject \in Members
       THEN req' = [req EXCEPT ![r].pc = "delete",
                               ![r].row = joined[req[r].subject]]
       ELSE Finish(r)
  /\ UNCHANGED <<room, joined, admins, count, clock, inRoom, drift>>

\* The membership row of u created at instant i, if it is still there.
DeleteRow(u, i) ==
  /\ u \in Members
  /\ joined[u] = i
  /\ joined' = [joined EXCEPT ![u] = 0]
  /\ admins' = admins \ {u}

\* delete by row id throws when the row is gone.
RemoveDelete(r) ==
  /\ At(r, "delete")
  /\ \/ /\ DeleteRow(req[r].subject, req[r].row)
        /\ Go(r, "decrement")
     \/ /\ \/ req[r].subject \notin Members
           \/ joined[req[r].subject] # req[r].row
        /\ Finish(r)
        /\ UNCHANGED <<joined, admins>>
  /\ UNCHANGED <<room, count, clock, inRoom, drift>>

\* The update throws when the room is gone, and nothing after it runs.
RemoveDecrement(r) ==
  /\ At(r, "decrement")
  /\ \/ /\ room = "open"
        /\ count' = count - 1
        /\ Go(r, "evict")
     \/ /\ room # "open"
        /\ Finish(r)
        /\ UNCHANGED count
  /\ UNCHANGED <<room, joined, admins, clock, inRoom, drift>>

\* Variant: the requester's sockets are taken out, not the removed member's.
RemoveEvictActor(r) ==
  /\ \/ At(r, "evict") /\ Go(r, "reevict")
     \/ req[r].pc \in {"evict", "reevict"} /\ Finish(r)
  /\ inRoom' = inRoom \ {req[r].actor}
  /\ UNCHANGED <<room, joined, admins, count, clock, drift>>

\* The service takes the member's sockets out of the room; a request that came
\* over the socket does it again in the gateway.
RemoveEvict(r) ==
  /\ \/ At(r, "evict") /\ Go(r, "reevict")
     \/ req[r].pc \in {"evict", "reevict"} /\ Finish(r)
  /\ inRoom' = inRoom \ {req[r].subject}
  /\ UNCHANGED <<room, joined, admins, count, clock, drift>>

-----------------------------------------------------------------------------
\* leaveGroup: the leaver's row and role are read first.
LeaveBegin(r, u) ==
  /\ u \in Members
  /\ req[r].pc = "idle"
  /\ req' = [req EXCEPT ![r] =
               [NoRequest EXCEPT !.pc = IF u \in admins THEN "admins" ELSE "quit",
                                 !.actor = u, !.row = joined[u]]]
  /\ UNCHANGED <<room, joined, admins, count, clock, inRoom, drift>>

\* Variant: the leaver is counted among the admins.
LeaveCountAllAdmins(r) ==
  /\ At(r, "admins")
  /\ Go(r, IF admins = {} THEN "earliest" ELSE "quit")
  /\ UNCHANGED <<room, joined, admins, count, clock, inRoom, drift>>

\* Another admin makes a promotion unnecessary.
LeaveCountAdmins(r) ==
  /\ At(r, "admins")
  /\ Go(r, IF admins \ {req[r].actor} = {} THEN "earliest" ELSE "quit")
  /\ UNCHANGED <<room, joined, admins, count, clock, inRoom, drift>>

\* The other members that joined first.
Earliest(u) ==
  {v \in Members \ {u} : \A w \in Members \ {u} : joined[v] <= joined[w]}

LeaveFindEarliest(r) ==
  /\ At(r, "earliest")
  /\ \/ /\ Members \subseteq {req[r].actor}
        /\ Go(r, "quit")
     \/ \E heir \in Earliest(req[r].actor) :
          req' = [req EXCEPT ![r].pc = "promote",
                             ![r].subject = heir,
                             ![r].heirRow = joined[heir]]
  /\ UNCHANGED <<room, joined, admins, count, clock, inRoom, drift>>

\* Variant: the promotion goes by user id and ignores that the row is gone.
LeavePromoteByUser(r) ==
  /\ At(r, "promote")
  /\ admins' = admins \cup {req[r].subject}
  /\ Go(r, "quit")
  /\ UNCHANGED <<room, joined, count, clock, inRoom, drift>>

\* update by row id throws when the heir's row is gone.
LeavePromote(r) ==
  /\ At(r, "promote")
  /\ \/ /\ req[r].subject \in Members
        /\ joined[req[r].subject] = req[r].heirRow
        /\ admins' = admins \cup {req[r].subject}
        /\ Go(r, "quit")
     \/ /\ \/ req[r].subject \notin Members
           \/ joined[req[r].subject] # req[r].heirRow
        /\ Finish(r)
        /\ UNCHANGED admins
  /\ UNCHANGED <<room, joined, count, clock, inRoom, drift>>

LeaveDelete(r) ==
  /\ At(r, "quit")
  /\ \/ /\ DeleteRow(req[r].actor, req[r].row)
        /\ Go(r, "remaining")
     \/ /\ \/ req[r].actor \notin Members
           \/ joined[req[r].actor] # req[r].row
        /\ Finish(r)
        /\ UNCHANGED <<joined, admins>>
  /\ UNCHANGED <<room, count, clock, inRoom, drift>>

\* Variant: the count of the room, which still includes the leaver, is read.
LeaveReadCount(r) ==
  /\ At(r, "remaining")
  /\ req' = [req EXCEPT ![r].pc = "vacate", ![r].last = (count = 0)]
  /\ UNCHANGED <<room, joined, admins, count, clock, inRoom, drift>>

\* Variant: what is counted is the admins that are left.
LeaveCountRemainingAdmins(r) ==
  /\ At(r, "remaining")
  /\ req' = [req EXCEPT ![r].pc = "vacate", ![r].last = (admins = {})]
  /\ UNCHANGED <<room, joined, admins, count, clock, inRoom, drift>>

LeaveCountRemaining(r) ==
  /\ At(r, "remaining")
  /\ req' = [req EXCEPT ![r].pc = "vacate", ![r].last = (Members = {})]
  /\ UNCHANGED <<room, joined, admins, count, clock, inRoom, drift>>

LeaveVacate(r) ==
  /\ At(r, "vacate")
  /\ inRoom' = inRoom \ {req[r].actor}
  /\ Go(r, IF req[r].last THEN "drop" ELSE "settle")
  /\ UNCHANGED <<room, joined, admins, count, clock, drift>>

\* The gateway's own client.leave after the service has returned; an HTTP
\* request has none.
LeaveSocket(r) ==
  \/ inRoom' = inRoom \ {req[r].actor}
  \/ UNCHANGED inRoom

\* Deleting the room deletes its membership rows (onDelete: Cascade).
LeaveDropRoom(r) ==
  /\ At(r, "drop")
  /\ \/ /\ room = "open"
        /\ room' = "deleted"
        /\ joined' = [u \in User |-> 0]
        /\ admins' = {}
        /\ LeaveSocket(r)
     \/ /\ room # "open"
        /\ UNCHANGED <<room, joined, admins, inRoom>>
  /\ Finish(r)
  /\ UNCHANGED <<count, clock, drift>>

LeaveDecrement(r) ==
  /\ At(r, "settle")
  /\ \/ /\ room = "open"
        /\ count' = count - 1
        /\ LeaveSocket(r)
     \/ /\ room # "open"
        /\ UNCHANGED <<count, inRoom>>
  /\ Finish(r)
  /\ UNCHANGED <<room, joined, admins, clock, drift>>

-----------------------------------------------------------------------------
\* handleFetchGroupChatRooms: the rooms are read, and joined when they arrive.
FetchRooms(r, u) ==
  /\ room = "open"
  /\ u \in Members
  /\ Start(r, "join", u)
  /\ UNCHANGED <<room, joined, admins, count, clock, inRoom, drift>>

FetchJoin(r) ==
  /\ At(r, "join")
  /\ inRoom' = inRoom \cup {req[r].actor}
  /\ Finish(r)
  /\ UNCHANGED <<room, joined, admins, count, clock, drift>>

\* handleJoinGroupChat: the client asks for the socket room by id.
JoinRoom(u) ==
  /\ inRoom' = inRoom \cup {u}
  /\ UNCHANGED <<room, joined, admins, count, clock, req, drift>>

\* socket.io takes a disconnected socket out of its rooms.
Disconnect(u) ==
  /\ inRoom' = inRoom \ {u}
  /\ UNCHANGED <<room, joined, admins, count, clock, req, drift>>

-----------------------------------------------------------------------------
\* Requests whose row is gone while the count still includes it, and users
\* whose row exists while the count does not include it yet.
OwesDecrement == {"decrement", "remaining", "vacate", "drop", "settle"}
PendingDecrements == {r \in Req : req[r].pc \in OwesDecrement}
PendingIncrements ==
  {p \in Req \X User : req[p[1]].pc = "increment" /\ p[2] \in req[p[1]].who}

\* The awaited database call of request r is rejected: the handler throws and
\* what it still owed the count is lost.
Fail(r) ==
  /\ Faults
  /\ req[r].pc \notin {"idle"} \cup SocketPoints
  /\ drift' = drift + (IF req[r].pc \in OwesDecrement THEN 1 ELSE 0)
                    - (IF req[r].pc = "increment" THEN Cardinality(req[r].who)
                                                  ELSE 0)
  /\ Finish(r)
  /\ UNCHANGED <<room, joined, admins, count, clock, inRoom>>

-----------------------------------------------------------------------------
AddStep(r)    == AddExisting(r) \/ AddCreate(r) \/ AddIncrement(r)
RemoveStep(r) == \/ RemoveFind(r) \/ RemoveDelete(r)
                 \/ RemoveDecrement(r) \/ RemoveEvict(r)
LeaveStep(r)  == \/ LeaveCountAdmins(r) \/ LeaveFindEarliest(r)
                 \/ LeavePromote(r) \/ LeaveDelete(r)
                 \/ LeaveCountRemaining(r) \/ LeaveVacate(r)
                 \/ LeaveDropRoom(r) \/ LeaveDecrement(r)

\* What the runtime does for a request in flight, unasked.
Progress(r) == AddStep(r) \/ RemoveStep(r) \/ LeaveStep(r) \/ FetchJoin(r)

\* What clients ask for.
Arrive(r) ==
  \E u \in User :
    \/ \E users \in SUBSET User \ {{}} : AddBegin(r, u, users)
    \/ \E target \in User : RemoveBegin(r, u, target)
    \/ LeaveBegin(r, u)
    \/ FetchRooms(r, u)

Next ==
  \/ \E u \in User, invited \in SUBSET User, viaSocket \in BOOLEAN :
       CreateGroup(u, invited, viaSocket)
  \/ \E u \in User : JoinRoom(u) \/ Disconnect(u)
  \/ \E r \in Req : Arrive(r) \/ Progress(r) \/ Fail(r)

Spec == Init /\ [][Next]_vars

-----------------------------------------------------------------------------
\* The types of the variables.
TypeOK ==
  /\ room \in {"absent", "open", "deleted"}
  /\ joined \in [User -> Nat]
  /\ admins \subseteq Members
  /\ count \in Int
  /\ clock \in Nat
  /\ inRoom \subseteq User
  /\ req \in [Req -> Request]
  /\ \A r \in Req : req[r].pc # "idle" => req[r].actor \in User
  /\ drift \in Int

\* group_members_count is right up to what is under way: however adds,
\* removals and leaves interleave, the count of an open room differs from the
\* number of membership rows only by the updates that requests in flight still
\* owe it and by those lost with rejected database calls.  Duplicate adds of a
\* user, double removals and a leave racing a removal are counted once.
CountAccounted ==
  room = "open" =>
    count + Cardinality(PendingIncrements)
      = Cardinality(Members) + Cardinality(PendingDecrements) + drift

\* "If no other admins exist, promote the earliest joined member": a group that
\* has members has an admin.
HasAdmin == room = "open" /\ Members # {} => admins # {}
=============================================================================
