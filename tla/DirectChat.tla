----------------------------- MODULE DirectChat -----------------------------
(***************************************************************************)
(* Messages between two users: the block check, the chat room that is       *)
(* found or created, the message, its live delivery to the receiver's       *)
(* sockets, the notification of a receiver who is not connected, and the    *)
(* read and delivery marks.  Text messages (over the socket) and file       *)
(* messages (over HTTP) make the same calls in the same order.              *)
(*                                                                          *)
(* A message stands for the request that sends it and for the dispatch of   *)
(* its notification, which nobody awaits; stage names the call made next.   *)
(***************************************************************************)
EXTENDS Integers, FiniteSets

CONSTANTS
  User,       \* users of the application
  Msg,        \* bound: the messages that are sent
  Nobody,     \* sender and receiver of a message not sent yet
  Limit,      \* messages on a page
  Active,     \* bound: the users who connect, fetch, block and unblock
  Newcomers,  \* users without notification preferences at the start
  Faults      \* TRUE iff a database call may be rejected

ASSUME ConstantsAssumption ==
  /\ IsFiniteSet(User)
  /\ IsFiniteSet(Msg)
  /\ Nobody \notin User
  /\ Limit \in Nat \ {0}
  /\ Active \subseteq User
  /\ Newcomers \subseteq User
  /\ Faults \in BOOLEAN

VARIABLES
  rooms,      \* the ChatRooms, as pairs <<user1_id, user2_id>>
  blocks,     \* the BlockList, as pairs <<user_id, blocked_user_id>>
  online,     \* users with a socket in their room
  prefs,      \* users with a NotificationPreference document
  notify,     \* users with a push token who want chat notifications
  msg,        \* the messages: stage of their sending, sender, receiver
  createdAt,  \* instant at which the Chat document was created, 0 for none
  read,       \* messages with is_read
  delivered,  \* messages with is_delivered
  events,     \* messages with a notification event
  fetch,      \* per user: a getRoomMessages in flight
  live,       \* auxiliary: messages that a socket of the receiver was sent
  shown,      \* auxiliary: messages the receiver was shown on a page
  met,        \* auxiliary: the receiver connected after the live delivery
  known,      \* auxiliary: messages whose sending began with a room
  barred,     \* auxiliary: the users have been blocked since sending began
  overtaken   \* auxiliary: another dispatch created the preferences first

mail   == <<rooms, createdAt, known>>
marks  == <<read, delivered, fetch, shown>>
notice == <<prefs, notify, events, overtaken>>
access == <<blocks, barred>>
socket == <<online, live, met>>
vars   == <<mail, marks, notice, access, socket, msg>>

-----------------------------------------------------------------------------
SendStages     == {"block", "room", "create", "store", "touch"}
DispatchStages == {"prefs", "newprefs", "presence", "event"}
FinalStages    == {"blocked", "clash", "failed", "done"}
Message == [stage : {"unsent"} \cup SendStages \cup DispatchStages \cup FinalStages,
            from  : User \cup {Nobody},
            to    : User \cup {Nobody}]

Fetch   == [on   : BOOLEAN,
            with : User \cup {Nobody},   \* the other user of the room
            page : SUBSET Msg]           \* the messages found, once found
NoFetch == [on |-> FALSE, with |-> Nobody, page |-> {}]

Init ==
  /\ rooms = {} /\ blocks = {} /\ online = {} /\ read = {} /\ delivered = {}
  /\ events = {} /\ live = {} /\ shown = {} /\ met = {} /\ known = {}
  /\ barred = {} /\ overtaken = {}
  /\ prefs = User \ Newcomers
  /\ notify \in SUBSET User
  /\ msg = [m \in Msg |-> [stage |-> "unsent", from |-> Nobody, to |-> Nobody]]
  /\ createdAt = [m \in Msg |-> 0]
  /\ fetch = [u \in User |-> NoFetch]

Stored  == {m \in Msg : createdAt[m] > 0}
At(m, s) == msg[m].stage = s
Go(m, s) == msg' = [msg EXCEPT ![m].stage = s]

\* createChatRoomIfNotExists sorts the two ids, so both users name one pair.
Sorted(u, v) == CHOOSE pair \in {<<u, v>>, <<v, u>>} : TRUE
HasRoom(u, v) == <<u, v>> \in rooms \/ <<v, u>> \in rooms

\* createMessage looks for a block of either user by the other.
Blocked(u, v) == <<u, v>> \in blocks \/ <<v, u>> \in blocks

\* The messages of the room of u and v, and page p of them, newest first.
Between(u, v) == {m \in Stored : {msg[m].from, msg[m].to} = {u, v}}
Page(u, v, p) ==
  {m \in Between(u, v) :
     Cardinality({n \in Between(u, v) : createdAt[n] > createdAt[m]})
       \in (p - 1) * Limit .. p * Limit - 1}

-----------------------------------------------------------------------------
\* createMessage and sendFileMessage: the receiver exists and is not u.
SendBegin(m, u, v) ==
  /\ At(m, "unsent")
  /\ u # v
  /\ msg' = [msg EXCEPT ![m] = [stage |-> "block", from |-> u, to |-> v]]
  /\ known' = IF HasRoom(u, v) THEN known \cup {m} ELSE known
  /\ barred' = IF Blocked(u, v) THEN barred \cup {m} ELSE barred
  /\ UNCHANGED <<rooms, createdAt, blocks, marks, notice, socket>>

\* Variant: only a block by the sender is looked for.
SendCheckOwnBlocks(m) ==
  /\ At(m, "block")
  /\ Go(m, IF <<msg[m].from, msg[m].to>> \in blocks THEN "blocked" ELSE "room")
  /\ UNCHANGED <<mail, marks, notice, access, socket>>

SendCheckBlock(m) ==
  /\ At(m, "block")
  /\ Go(m, IF Blocked(msg[m].from, msg[m].to) THEN "blocked" ELSE "room")
  /\ UNCHANGED <<mail, marks, notice, access, socket>>

\* Variant: the room is looked for with the sender as its first user.
SendFindOwnRoom(m) ==
  /\ At(m, "room")
  /\ Go(m, IF <<msg[m].from, msg[m].to>> \in rooms THEN "store" ELSE "create")
  /\ UNCHANGED <<mail, marks, notice, access, socket>>

SendFindRoom(m) ==
  /\ At(m, "room")
  /\ Go(m, IF HasRoom(msg[m].from, msg[m].to) THEN "store" ELSE "create")
  /\ UNCHANGED <<mail, marks, notice, access, socket>>

\* The unique index on the pair rejects a second room, and with it the message.
SendCreateRoom(m) ==
  /\ At(m, "create")
  /\ LET pair == Sorted(msg[m].from, msg[m].to) IN
       /\ Go(m, IF pair \in rooms THEN "clash" ELSE "store")
       /\ rooms' = rooms \cup {pair}
  /\ UNCHANGED <<createdAt, known, marks, notice, access, socket>>

SendStore(m) ==
  /\ At(m, "store")
  /\ createdAt' = [createdAt EXCEPT ![m] = Cardinality(Stored) + 1]
  /\ Go(m, "touch")
  /\ UNCHANGED <<rooms, known, marks, notice, access, socket>>

\* The room's updatedAt is written; then, without another await, the dispatch
\* is launched and the message is emitted to the receiver's sockets.
SendTouch(m) ==
  /\ At(m, "touch")
  /\ live' = IF msg[m].to \in online THEN live \cup {m} ELSE live
  /\ Go(m, "prefs")
  /\ UNCHANGED <<online, met, mail, marks, notice, access>>

-----------------------------------------------------------------------------
\* dispatchChatNotification: getPreferences of the receiver.
DispatchPrefs(m) ==
  /\ At(m, "prefs")
  /\ Go(m, IF msg[m].to \notin prefs THEN "newprefs"
           ELSE IF msg[m].to \in notify THEN "presence" ELSE "done")
  /\ UNCHANGED <<mail, marks, notice, access, socket>>

\* createDefaultPreferences: chat is on by default.  If another dispatch has
\* created them meanwhile, the unique index rejects these: the dispatch ends.
DispatchNewPrefs(m) ==
  /\ At(m, "newprefs")
  /\ LET u == msg[m].to IN
       /\ prefs' = prefs \cup {u}
       /\ overtaken' = IF u \in prefs THEN overtaken \cup {m} ELSE overtaken
       /\ Go(m, IF u \in notify \ prefs THEN "presence" ELSE "done")
  /\ UNCHANGED <<notify, events, mail, marks, access, socket>>

\* Variant: the sender is asked for instead of the receiver.
DispatchSenderPresence(m) ==
  /\ At(m, "presence")
  /\ Go(m, IF msg[m].from \in online THEN "done" ELSE "event")
  /\ UNCHANGED <<mail, marks, notice, access, socket>>

\* isUserOnline: a receiver with a socket needs no notification.
DispatchPresence(m) ==
  /\ At(m, "presence")
  /\ Go(m, IF msg[m].to \in online THEN "done" ELSE "event")
  /\ UNCHANGED <<mail, marks, notice, access, socket>>

DispatchEvent(m) ==
  /\ At(m, "event")
  /\ events' = events \cup {m}
  /\ Go(m, "done")
  /\ UNCHANGED <<prefs, notify, overtaken, mail, marks, access, socket>>

\* A rejected call: the sender gets an error, or the dispatch gives up.
Fail(m) ==
  /\ Faults
  /\ msg[m].stage \in SendStages \cup DispatchStages
  /\ Go(m, "failed")
  /\ UNCHANGED <<mail, marks, notice, access, socket>>

-----------------------------------------------------------------------------
\* getRoomMessages by u, who belongs to the room, for page p.
FetchPage(u, v, p) ==
  /\ ~fetch[u].on
  /\ u # v
  /\ HasRoom(u, v)
  /\ fetch' = [fetch EXCEPT ![u] =
                 [on |-> TRUE, with |-> v, page |-> Page(u, v, p)]]
  /\ UNCHANGED <<read, delivered, shown, mail, notice, access, socket, msg>>

\* Whatever u received in the room is marked as read, and the page returned.
FetchMark(u) ==
  /\ fetch[u].on
  /\ read' = read \cup {m \in Between(u, fetch[u].with) : msg[m].to = u}
  /\ shown' = shown \cup {m \in fetch[u].page : msg[m].to = u}
  /\ fetch' = [fetch EXCEPT ![u] = NoFetch]
  /\ UNCHANGED <<delivered, mail, notice, access, socket, msg>>

\* Variant: an acknowledgement does not mark the message as read.
AcknowledgeDelivered(m) ==
  /\ m \in Stored
  /\ delivered' = delivered \cup {m}
  /\ UNCHANGED <<read, fetch, shown, mail, notice, access, socket, msg>>

\* acknowledgeMessageDelivery: the update finds any message that is stored,
\* whoever asks.  Both users can fetch its id from the room from then on, and
\* the sender is told it (message-sent) whether or not anybody received it.
Acknowledge(m) ==
  /\ m \in Stored
  /\ delivered' = delivered \cup {m}
  /\ read' = read \cup {m}
  /\ UNCHANGED <<fetch, shown, mail, notice, access, socket, msg>>

-----------------------------------------------------------------------------
\* handleConnection: the user's socket joins the user's room.
Connect(u) ==
  /\ u \notin online
  /\ online' = online \cup {u}
  /\ met' = met \cup {m \in Msg : msg[m].to = u /\ msg[m].stage \in DispatchStages}
  /\ UNCHANGED <<live, mail, marks, notice, access, msg>>

Disconnect(u) ==
  /\ u \in online
  /\ online' = online \ {u}
  /\ UNCHANGED <<live, met, mail, marks, notice, access, msg>>

\* blockUser and unblockUser; the unique index makes a second block fail.
Block(u, v) ==
  /\ u # v
  /\ <<u, v>> \notin blocks
  /\ blocks' = blocks \cup {<<u, v>>}
  /\ UNCHANGED <<barred, mail, marks, notice, socket, msg>>

Unblock(u, v) ==
  /\ <<u, v>> \in blocks
  /\ blocks' = blocks \ {<<u, v>>}
  /\ barred' = {m \in barred : \/ {msg[m].from, msg[m].to} # {u, v}
                               \/ <<v, u>> \in blocks}
  /\ UNCHANGED <<mail, marks, notice, socket, msg>>

-----------------------------------------------------------------------------
Send(m) == \/ SendCheckBlock(m) \/ SendFindRoom(m) \/ SendCreateRoom(m)
           \/ SendStore(m) \/ SendTouch(m)

DispatchChat(m) == \/ DispatchPrefs(m) \/ DispatchNewPrefs(m)
                   \/ DispatchPresence(m) \/ DispatchEvent(m)

Next ==
  \/ \E m \in Msg : \/ \E u, v \in User : SendBegin(m, u, v)
                    \/ Send(m) \/ DispatchChat(m) \/ Fail(m) \/ Acknowledge(m)
  \/ \E u \in Active : FetchMark(u) \/ Connect(u) \/ Disconnect(u)
  \/ \E u \in Active, v \in User :
                        \/ \E p \in 1..Cardinality(Msg) : FetchPage(u, v, p)
                        \/ Block(u, v) \/ Unblock(u, v)

Spec == Init /\ [][Next]_vars

-----------------------------------------------------------------------------
\* The types of the variables; marks and events are those of messages that
\* exist, and acknowledgeMessageDelivery leaves none delivered and unread.
TypeOK ==
  /\ rooms \subseteq User \X User
  /\ blocks \subseteq User \X User
  /\ online \subseteq User /\ prefs \subseteq User /\ notify \subseteq User
  /\ msg \in [Msg -> Message]
  /\ createdAt \in [Msg -> Nat]
  /\ fetch \in [User -> Fetch]
  /\ known \subseteq Msg /\ barred \subseteq Msg /\ met \subseteq Msg
  /\ overtaken \subseteq Msg
  /\ read \cup events \cup live \cup shown \subseteq Stored
  /\ delivered \subseteq read

\* Users who were blocked, one by the other, when a message was sent, and have
\* been so ever since, exchange no message, whatever else is in flight.
BlockHolds == barred \cap Stored = {}

\* Only the first messages of two users can clash over their room: a send
\* that began when the room was there is never rejected for it.
ClashOnlyAtFirst == \A m \in Msg : At(m, "clash") => m \notin known

\* Once its dispatch has ended, a message was emitted to a socket of its
\* receiver, or the receiver has an event for it, or connected meanwhile and
\* finds it in the room, or wants no notification, or the dispatch was ended
\* by another one's creation of the preferences.
Reached(m) == \/ m \in live \cup events \cup met
              \/ msg[m].to \notin notify
ReachesReceiver ==
  \A m \in Msg : At(m, "done") => Reached(m) \/ m \in overtaken

\* "Notify sender that message was delivered": what is marked as delivered was
\* emitted to a socket of the receiver or shown to the receiver on a page.
\* The code does not keep this: anybody may acknowledge any message.
DeliveredWasReceived == delivered \subseteq live \cup shown
=============================================================================
