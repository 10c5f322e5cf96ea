--------------------------- MODULE GroupMessages -----------------------------
(***************************************************************************)
(* The messages of one group: sending over the socket (text) and over HTTP  *)
(* (files), the live copies, the detached notification loop, and the pages  *)
(* members load.  Rows and socket room of GroupMembership appear here as    *)
(* single steps: a row is inserted, a row is deleted, a socket leaves.      *)
(***************************************************************************)
EXTENDS Integers, FiniteSets

CONSTANTS
  User,     \* users
  Wants,    \* those with a push token and group notifications on
  Active,   \* bound: users who come, go and load pages
  Message,  \* bound: messages that are sent
  Old,      \* the one of them that was sent before
  Fetch,    \* slots: how many page loads run together
  Pages,    \* bound: pages that are loaded, of one message each
  None,     \* no user, or no message
  Faults    \* TRUE iff a database call may be rejected

ASSUME ConstantsAssumption ==
  /\ Wants \subseteq User /\ Active \subseteq User
  /\ IsFiniteSet(Message) /\ Old \in Message
  /\ None \notin User \cup Message
  /\ Pages \in Nat
  /\ Faults \in BOOLEAN

VARIABLES
  members,   \* users with a membership row
  online,    \* users with a socket, which is in the room of their own
  room,      \* users with a socket in the room of the group
  msg,       \* the request that sends a message
  createdAt, \* creation instant of a message, 0 before
  loop,      \* the notification loop of a message
  heard,     \* users a live copy of a message was emitted to
  events,    \* notification events: message and user
  fetch,     \* page loads in flight
  lastRead,  \* last_read_message_id of a membership row
  steady,    \* auxiliary: members all through the sending and its loop
  during,    \* auxiliary: members at some moment of them
  moved,     \* auxiliary: who connected or disconnected since the loop began
  aside      \* auxiliary: who was online outside the room at the emission

sockets == <<online, room>>
aux     == <<steady, during, moved, aside>>
vars    == <<members, sockets, msg, createdAt, loop, heard, events, fetch,
             lastRead, aux>>

-----------------------------------------------------------------------------
Sending == [pc     : {"unsent", "membership", "store", "touch", "fanout", "done"},
            sender : User \cup {None},
            kind   : {"text", "file"}]
Loop    == [pc   : {"none", "members", "next", "event", "done"},
            todo : SUBSET User,            \* members the loop has yet to visit
            user : User \cup {None},       \* the one it visits
            failed : SUBSET User]          \* auxiliary: those a rejected call cost it
Load    == [pc    : {"idle", "page", "mark"},
            user  : User \cup {None},
            skip  : 0..Pages,               \* (page - 1) * limit
            first : Message \cup {None},    \* the newest message of the page
            gone  : BOOLEAN,                \* the row that was read is deleted
            late  : BOOLEAN]  \* auxiliary: another load marked since the page
NoLoop == [pc |-> "none", todo |-> {}, user |-> None, failed |-> {}]
NoLoad == [pc |-> "idle", user |-> None, skip |-> 0, first |-> None,
           gone |-> FALSE, late |-> FALSE]

Init ==
  /\ members \in SUBSET User
  /\ online \in SUBSET User /\ room = {}
  /\ \E u \in User : msg = [m \in Message |->
       IF m = Old THEN [pc |-> "done", sender |-> u, kind |-> "text"]
                  ELSE [pc |-> "unsent", sender |-> None, kind |-> "text"]]
  /\ createdAt = [m \in Message |-> IF m = Old THEN 1 ELSE 0]
  /\ loop = [m \in Message |-> NoLoop]
  /\ heard = [m \in Message |-> {}] /\ events = {}
  /\ fetch = [f \in Fetch |-> NoLoad]
  /\ lastRead = [u \in User |-> None]
  /\ steady = [m \in Message |-> {}]
  /\ during = [m \in Message |-> IF m = Old THEN {msg[m].sender} ELSE {}]
  /\ moved = [m \in Message |-> {}] /\ aside = [m \in Message |-> {}]

Stored     == {m \in Message : createdAt[m] > 0}
Later(m, n) == createdAt[m] > createdAt[n]
At(m, p)   == msg[m].pc = p
LoopAt(m, p) == loop[m].pc = p
Go(m, p)   == msg' = [msg EXCEPT ![m].pc = p]
Over(m)    == At(m, "done") /\ loop[m].pc \in {"none", "done"}
Underway(m) == ~At(m, "unsent") /\ ~Over(m)

-----------------------------------------------------------------------------
\* addGroupMember and its kin: the row of a user is inserted.
Join(u) ==
  /\ u \notin members
  /\ members' = members \cup {u}
  /\ during' = [m \in Message |-> IF Underway(m) THEN during[m] \cup {u}
                                                 ELSE during[m]]
  /\ UNCHANGED <<sockets, msg, createdAt, loop, heard, events, fetch,
                 lastRead, steady, moved, aside>>

\* removeGroupMember or leaveGroup: the row of a user is deleted, and with it
\* the pointer it holds.
Depart(u) ==
  /\ u \in members
  /\ members' = members \ {u}
  /\ lastRead' = [lastRead EXCEPT ![u] = None]
  /\ fetch' = [f \in Fetch |-> IF fetch[f].user = u
                               THEN [fetch[f] EXCEPT !.gone = TRUE] ELSE fetch[f]]
  /\ steady' = [m \in Message |-> IF Underway(m) THEN steady[m] \ {u}
                                                 ELSE steady[m]]
  /\ UNCHANGED <<sockets, msg, createdAt, loop, heard, events, during,
                 moved, aside>>

\* The sockets of a user who is no member leave the room.
Evict(u) ==
  /\ u \in room \ members
  /\ room' = room \ {u}
  /\ UNCHANGED <<members, online, msg, createdAt, loop, heard, events, fetch,
                 lastRead, aux>>

\* A client joins the room by itself, whoever it is, or by fetching its groups.
Subscribe(u) ==
  /\ u \in online \ room
  /\ room' = room \cup {u}
  /\ UNCHANGED <<members, online, msg, createdAt, loop, heard, events, fetch,
                 lastRead, aux>>

Move(u) == moved' = [m \in Message |->
  IF Underway(m) /\ ~LoopAt(m, "none") THEN moved[m] \cup {u} ELSE moved[m]]

Connect(u) ==
  /\ u \notin online
  /\ online' = online \cup {u}
  /\ Move(u)
  /\ UNCHANGED <<members, room, msg, createdAt, loop, heard, events, fetch,
                 lastRead, steady, during, aside>>

Disconnect(u) ==
  /\ u \in online
  /\ online' = online \ {u} /\ room' = room \ {u}
  /\ Move(u)
  /\ UNCHANGED <<members, msg, createdAt, loop, heard, events, fetch,
                 lastRead, steady, during, aside>>

-----------------------------------------------------------------------------
\* sendGroupMessage over the socket of its sender, sendGroupFileMessage over
\* HTTP.
SendBegin(m, u, kind) ==
  /\ At(m, "unsent")
  /\ kind = "text" => u \in online
  /\ msg' = [msg EXCEPT ![m] = [pc |-> "membership", sender |-> u, kind |-> kind]]
  /\ steady' = [steady EXCEPT ![m] = members]
  /\ during' = [during EXCEPT ![m] = members]
  /\ UNCHANGED <<members, sockets, createdAt, loop, heard, events, fetch,
                 lastRead, moved, aside>>

\* Variant: that somebody is a member is enough.
SendCheckAnyone(m) ==
  /\ At(m, "membership")
  /\ Go(m, IF members # {} THEN "store" ELSE "done")
  /\ UNCHANGED <<members, sockets, createdAt, loop, heard, events, fetch,
                 lastRead, aux>>

SendCheckMember(m) ==
  /\ At(m, "membership")
  /\ Go(m, IF msg[m].sender \in members THEN "store" ELSE "done")
  /\ UNCHANGED <<members, sockets, createdAt, loop, heard, events, fetch,
                 lastRead, aux>>

SendStore(m) ==
  /\ At(m, "store")
  /\ createdAt' = [createdAt EXCEPT ![m] = Cardinality(Stored) + 1]
  /\ Go(m, "touch")
  /\ UNCHANGED <<members, sockets, loop, heard, events, fetch, lastRead, aux>>

\* The room is touched, the loop launched; a text goes at once to the sockets
\* in the room of the group, a file waits for the list of members.
SendTouch(m) ==
  /\ At(m, "touch")
  /\ loop' = [loop EXCEPT ![m].pc = "members"]
  /\ IF msg[m].kind = "text"
       THEN /\ heard' = [heard EXCEPT ![m] = room]
            /\ aside' = [aside EXCEPT ![m] = online \ room]
            /\ Go(m, "done")
       ELSE /\ Go(m, "fanout")
            /\ UNCHANGED <<heard, aside>>
  /\ UNCHANGED <<members, sockets, createdAt, events, fetch, lastRead, steady,
                 during, moved>>

\* Variant: a file goes to those members only who sit in the room of the group.
SendFanoutRoom(m) ==
  /\ At(m, "fanout")
  /\ heard' = [heard EXCEPT ![m] = members \cap room]
  /\ Go(m, "done")
  /\ UNCHANGED <<members, sockets, createdAt, loop, events, fetch, lastRead,
                 aux>>

\* A file goes to the rooms of its own of every member.
SendFanout(m) ==
  /\ At(m, "fanout")
  /\ heard' = [heard EXCEPT ![m] = members \cap online]
  /\ Go(m, "done")
  /\ UNCHANGED <<members, sockets, createdAt, loop, events, fetch, lastRead,
                 aux>>

\* A rejected call ends the request; the message may be stored already.
SendFail(m) ==
  /\ Faults
  /\ ~At(m, "unsent") /\ ~At(m, "done")
  /\ Go(m, "done")
  /\ loop' = [loop EXCEPT ![m].failed =
               @ \cup IF At(m, "fanout") THEN online ELSE User]
  /\ UNCHANGED <<members, sockets, createdAt, heard, events, fetch, lastRead,
                 aux>>

-----------------------------------------------------------------------------
\* dispatchGroupChatNotification lists the members but the sender.
LoopMembers(m) ==
  /\ LoopAt(m, "members")
  /\ loop' = [loop EXCEPT ![m].pc = "next",
                          ![m].todo = members \ {msg[m].sender}]
  /\ UNCHANGED <<members, sockets, msg, createdAt, heard, events, fetch,
                 lastRead, aux>>

\* The next member: without token or with notifications off, or online, it is
\* passed over.  Preferences do not change here, so their read is not a step.
LoopNext(m, u) ==
  /\ LoopAt(m, "next")
  /\ u \in loop[m].todo
  /\ loop' = [loop EXCEPT
       ![m].todo = @ \ {u},
       ![m].pc   = IF u \in Wants \ online THEN "event" ELSE "next",
       ![m].user = IF u \in Wants \ online THEN u ELSE None]
  /\ UNCHANGED <<members, sockets, msg, createdAt, heard, events, fetch,
                 lastRead, aux>>

LoopEvent(m) ==
  /\ LoopAt(m, "event")
  /\ events' = events \cup {<<m, loop[m].user>>}
  /\ loop' = [loop EXCEPT ![m].pc = "next", ![m].user = None]
  /\ UNCHANGED <<members, sockets, msg, createdAt, heard, fetch, lastRead, aux>>

LoopEnd(m) ==
  /\ LoopAt(m, "next")
  /\ loop[m].todo = {}
  /\ loop' = [loop EXCEPT ![m].pc = "done"]
  /\ UNCHANGED <<members, sockets, msg, createdAt, heard, events, fetch,
                 lastRead, aux>>

\* A rejected list ends the loop; a rejected call for one member is caught and
\* the loop goes on.
LoopFail(m) ==
  /\ Faults
  /\ \/ /\ LoopAt(m, "members")
        /\ loop' = [loop EXCEPT ![m].pc = "done", ![m].failed = User]
     \/ /\ LoopAt(m, "event")
        /\ loop' = [loop EXCEPT ![m].pc = "next", ![m].user = None,
                                ![m].failed = @ \cup {loop[m].user}]
  /\ UNCHANGED <<members, sockets, msg, createdAt, heard, events, fetch,
                 lastRead, aux>>

-----------------------------------------------------------------------------
\* getGroupChatMessages: the membership row, the page, the pointer.
FetchBegin(f, u, skip) ==
  /\ fetch[f].pc = "idle"
  /\ u \in members
  /\ fetch' = [fetch EXCEPT ![f] = [NoLoad EXCEPT !.pc = "page", !.user = u,
                                                  !.skip = skip]]
  /\ UNCHANGED <<members, sockets, msg, createdAt, loop, heard, events,
                 lastRead, aux>>

\* Messages are ordered newest first: the first of the page has as many later
\* ones as are skipped; a page beyond the last message is empty.
First(skip) ==
  LET page == {m \in Stored :
                 Cardinality({n \in Stored : Later(n, m)}) = skip}
  IN IF page = {} THEN None ELSE CHOOSE m \in page : TRUE

FetchPage(f) ==
  /\ fetch[f].pc = "page"
  /\ fetch' = [fetch EXCEPT ![f].pc = "mark",
                            ![f].first = First(fetch[f].skip)]
  /\ UNCHANGED <<members, sockets, msg, createdAt, loop, heard, events,
                 lastRead, aux>>

\* Loads of the same user that have their page already are late from now on.
Marked(f) == [g \in Fetch |->
  IF g = f THEN NoLoad
  ELSE [fetch[g] EXCEPT !.late = @ \/ (fetch[g].user = fetch[f].user
                                       /\ fetch[g].pc = "mark")]]

\* Variant: the pointer is set to the newest message of somebody else.
FetchMarkOthers(f) ==
  /\ fetch[f].pc = "mark"
  /\ fetch' = Marked(f)
  /\ LET m == fetch[f].first IN
       lastRead' = IF fetch[f].gone THEN lastRead
                   ELSE [lastRead EXCEPT ![fetch[f].user] =
                           IF m # None /\ msg[m].sender = fetch[f].user
                           THEN None ELSE m]
  /\ UNCHANGED <<members, sockets, msg, createdAt, loop, heard, events, aux>>

\* Variant: the row is created again when it is gone.
FetchMarkUpsert(f) ==
  /\ fetch[f].pc = "mark"
  /\ fetch' = Marked(f)
  /\ lastRead' = [lastRead EXCEPT ![fetch[f].user] = fetch[f].first]
  /\ UNCHANGED <<members, sockets, msg, createdAt, loop, heard, events, aux>>

\* The update of a row that is gone is rejected.
FetchMark(f) ==
  /\ fetch[f].pc = "mark"
  /\ fetch' = Marked(f)
  /\ lastRead' = IF fetch[f].gone THEN lastRead
                 ELSE [lastRead EXCEPT ![fetch[f].user] = fetch[f].first]
  /\ UNCHANGED <<members, sockets, msg, createdAt, loop, heard, events, aux>>

FetchFail(f) ==
  /\ Faults
  /\ fetch[f].pc # "idle"
  /\ fetch' = [fetch EXCEPT ![f] = NoLoad]
  /\ UNCHANGED <<members, sockets, msg, createdAt, loop, heard, events,
                 lastRead, aux>>

-----------------------------------------------------------------------------
Client(u) == Join(u) \/ Depart(u) \/ Evict(u) \/ Subscribe(u) \/ Connect(u)
             \/ Disconnect(u)

Send(m) == \/ \E u \in User, kind \in {"text", "file"} : SendBegin(m, u, kind)
           \/ SendCheckMember(m) \/ SendStore(m) \/ SendTouch(m)
           \/ SendFanout(m) \/ SendFail(m)

Dispatch(m) == \/ LoopMembers(m) \/ LoopEvent(m) \/ LoopEnd(m) \/ LoopFail(m)
               \/ \E u \in User : LoopNext(m, u)

Read(f) == \/ \E u \in Active, skip \in 0..Pages : FetchBegin(f, u, skip)
           \/ FetchPage(f) \/ FetchMark(f) \/ FetchFail(f)

Next == \/ \E u \in Active : Client(u)
        \/ \E m \in Message : Send(m) \/ Dispatch(m)
        \/ \E f \in Fetch : Read(f)

Spec == Init /\ [][Next]_vars

-----------------------------------------------------------------------------
\* The types of the variables; pointers and events name stored messages, and
\* only connected sockets are in the room.
TypeOK ==
  /\ members \subseteq User /\ online \subseteq User /\ room \subseteq online
  /\ msg \in [Message -> Sending]
  /\ createdAt \in [Message -> 0..Cardinality(Message)]
  /\ loop \in [Message -> Loop]
  /\ heard \in [Message -> SUBSET User]
  /\ events \subseteq Stored \X User
  /\ fetch \in [Fetch -> Load]
  /\ lastRead \in [User -> Stored \cup {None}]
  /\ \A u \in User \ members : lastRead[u] = None
  /\ steady \in [Message -> SUBSET User] /\ during \in [Message -> SUBSET User]
  /\ moved \in [Message -> SUBSET User] /\ aside \in [Message -> SUBSET User]

\* A stored message comes from a user who was a member at some moment of the
\* sending, although the row may be deleted between the check and the insert.
SenderBelonged == \A m \in Stored : msg[m].sender \in during[m]

\* Nobody is notified of a message who was not a member at some moment since
\* its sending began: the list of the loop may be out of date, never foreign.
NotifiedBelonged == \A e \in events : e[2] \in during[e[1]]

\* A file goes to the sockets of members alone, whoever sits in the room of the
\* group; texts are another matter, see OnlyMembersHear.
FilesBelonged ==
  \A m \in Message : msg[m].kind = "file" => heard[m] \subseteq during[m]

\* Only members send, are notified and receive files, judged by the rows that
\* stood at some moment of the sending, while rows come and go.
OnlyMembers == SenderBelonged /\ NotifiedBelonged /\ FilesBelonged

\* "Broadcast to all group members": nobody hears a message live who was not a
\* member at some moment of its sending.
\* The code does not keep this: anybody may join the room of the group.
OnlyMembersHear == \A m \in Message : heard[m] \subseteq during[m]

\* When sending and loop are over, whoever was a member throughout and wants
\* notifications has heard the message live or has an event, unless the loop
\* failed for the user or the user came or went meanwhile, or was connected
\* without having joined the room of the group when a text was emitted.
Missed(m)  == {u \in (steady[m] \cap Wants) \ {msg[m].sender} :
                 u \notin heard[m] \cup loop[m].failed \cup moved[m]
                 /\ <<m, u>> \notin events}
ReachesMember == \A m \in Stored \ {Old} : Over(m) => Missed(m) \subseteq aside[m]

\* The pointer of a row moves back, to an older message or to none, only by a
\* load of an older page or by one that another load of the user overtook.
MovesBack(u) ==
  /\ lastRead[u] # None /\ u \in members'
  /\ lastRead'[u] # lastRead[u]
  /\ lastRead'[u] = None \/ Later(lastRead[u], lastRead'[u])
PointerForward ==
  [][\A u \in User : MovesBack(u) =>
       \E f \in Fetch : /\ fetch[f].pc = "mark" /\ fetch[f].user = u
                        /\ fetch'[f].pc = "idle"
                        /\ fetch[f].skip > 0 \/ fetch[f].late]_vars
=============================================================================
