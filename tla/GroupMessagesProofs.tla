------------------------- MODULE GroupMessagesProofs -------------------------
(***************************************************************************)
(* Proofs about GroupMessages, for any number of users, messages and loads: *)
(* types, who a message reaches and who it must not, and the read pointers. *)
(* The strengthening says how the request of a message, its loop and its    *)
(* row go together, and what a load that is about to mark has seen.         *)
(***************************************************************************)
EXTENDS GroupMessages, FiniteSetTheorems, TLAPS

-----------------------------------------------------------------------------
(* Types, in three parts.                                                   *)
RowsTyped ==
  /\ members \subseteq User /\ online \subseteq User /\ room \subseteq online

SendTyped ==
  /\ msg \in [Message -> Sending]
  /\ createdAt \in [Message -> Nat]
  /\ loop \in [Message -> Loop]
  /\ heard \in [Message -> SUBSET User]
  /\ steady \in [Message -> SUBSET User] /\ during \in [Message -> SUBSET User]
  /\ moved \in [Message -> SUBSET User] /\ aside \in [Message -> SUBSET User]

ReadTyped ==
  /\ fetch \in [Fetch -> Load]
  /\ lastRead \in [User -> Message \cup {None}]

\* How far the request and the loop of a message are, and its row.
Unstored == {"unsent", "membership", "store"}
Phase(m) ==
  /\ msg[m].pc \in Unstored => createdAt[m] = 0
  /\ msg[m].pc \in {"touch", "fanout"} => createdAt[m] > 0
  /\ msg[m].pc \in Unstored \cup {"touch"} => loop[m].pc = "none"
  /\ msg[m].pc # "unsent" => msg[m].sender \in User
  /\ loop[m].pc # "none" => createdAt[m] > 0
  /\ loop[m].pc = "event" => loop[m].user \in User
  /\ loop[m].pc = "none" => loop[m].todo = {}
  /\ msg[m].pc = "fanout" => loop[m].pc # "none"

SInv == RowsTyped /\ SendTyped /\ \A m \in Message : Phase(m)

LEMMA SlotTyped ==
  ASSUME SendTyped, NEW m \in Message
  PROVE  msg[m] \in Sending /\ loop[m] \in Loop /\ createdAt[m] \in Nat
BY DEF SendTyped

LEMMA NoLoopTyped == NoLoop \in Loop
BY DEF NoLoop, Loop

LEMMA StoredFinite ==
  /\ IsFiniteSet(Stored) /\ Cardinality(Stored) \in Nat
  /\ Cardinality(Stored) <= Cardinality(Message) /\ Cardinality(Message) \in Nat
<1>1. Stored \subseteq Message /\ IsFiniteSet(Message)
  BY ConstantsAssumption DEF Stored
<1>2. QED
  BY <1>1, FS_Subset, FS_CardinalityType

LEMMA SInit == Init => SInv
<1> SUFFICES ASSUME Init PROVE SInv
  OBVIOUS
<1>1. RowsTyped
  BY DEF Init, RowsTyped
<1>2. PICK u \in User : msg = [m \in Message |->
        IF m = Old THEN [pc |-> "done", sender |-> u, kind |-> "text"]
                   ELSE [pc |-> "unsent", sender |-> None, kind |-> "text"]]
  BY DEF Init
<1>3. msg \in [Message -> Sending]
  BY <1>2 DEF Sending
<1>4. msg[Old].sender \in User
  BY <1>2, ConstantsAssumption
<1>5. SendTyped
  BY <1>3, <1>4, NoLoopTyped DEF Init, SendTyped
<1>6. \A m \in Message : Phase(m)
  BY <1>2 DEF Init, Phase, NoLoop, Unstored
<1>7. QED
  BY <1>1, <1>5, <1>6 DEF SInv

\* Users come and go: messages and loops stay as they are.
LEMMA SClient == ASSUME SInv, NEW u \in User, Client(u) PROVE SInv'
<1>1. RowsTyped'
  BY DEF SInv, RowsTyped, Client, Join, Depart, Evict, Subscribe, Connect,
     Disconnect, sockets
<1>2. UNCHANGED <<msg, createdAt, loop, heard>>
  BY DEF Client, Join, Depart, Evict, Subscribe, Connect, Disconnect
<1>3. /\ during' \in [Message -> SUBSET User] /\ steady' \in [Message -> SUBSET User]
      /\ moved' \in [Message -> SUBSET User] /\ aside' \in [Message -> SUBSET User]
  BY DEF SInv, SendTyped, Client, Join, Depart, Evict, Subscribe, Connect,
     Disconnect, Move, aux
<1>4. QED
  BY <1>1, <1>2, <1>3 DEF SInv, SendTyped, Phase

\* A step of one message.
LEMMA SOne ==
  ASSUME SInv, NEW m \in Message, NEW s \in Sending, NEW l \in Loop, NEW c \in Nat,
         msg' = [msg EXCEPT ![m] = s], loop' = [loop EXCEPT ![m] = l],
         createdAt' = [createdAt EXCEPT ![m] = c],
         /\ s.pc \in Unstored => c = 0
         /\ s.pc \in {"touch", "fanout"} => c > 0
         /\ s.pc \in Unstored \cup {"touch"} => l.pc = "none"
         /\ s.pc # "unsent" => s.sender \in User
         /\ l.pc # "none" => c > 0
         /\ l.pc = "event" => l.user \in User
         /\ l.pc = "none" => l.todo = {}
         /\ s.pc = "fanout" => l.pc # "none",
         /\ heard' \in [Message -> SUBSET User]
         /\ steady' \in [Message -> SUBSET User] /\ during' \in [Message -> SUBSET User]
         /\ moved' \in [Message -> SUBSET User] /\ aside' \in [Message -> SUBSET User],
         UNCHANGED <<members, online, room>>
  PROVE  SInv'
<1>1. RowsTyped'
  BY DEF SInv, RowsTyped
<1>2. SendTyped'
  BY DEF SInv, SendTyped
<1>3. ASSUME NEW n \in Message PROVE Phase(n)'
  <2>1. CASE n = m
    BY <2>1 DEF SInv, SendTyped, Phase
  <2>2. CASE n # m
    BY <2>2 DEF SInv, SendTyped, Phase
  <2>3. QED
    BY <2>1, <2>2
<1>4. QED
  BY <1>1, <1>2, <1>3 DEF SInv

LEMMA SSend == ASSUME SInv, NEW m \in Message, Send(m) PROVE SInv'
<1>1. /\ msg[m] \in Sending /\ loop[m] \in Loop /\ createdAt[m] \in Nat /\ Phase(m)
      /\ msg = [msg EXCEPT ![m] = msg[m]] /\ loop = [loop EXCEPT ![m] = loop[m]]
      /\ createdAt = [createdAt EXCEPT ![m] = createdAt[m]]
      /\ heard \in [Message -> SUBSET User]
      /\ steady \in [Message -> SUBSET User] /\ during \in [Message -> SUBSET User]
      /\ moved \in [Message -> SUBSET User] /\ aside \in [Message -> SUBSET User]
  BY DEF SInv, SendTyped
<1>2. ASSUME NEW u \in User, NEW kind \in {"text", "file"}, SendBegin(m, u, kind)
      PROVE  SInv'
  <2> DEFINE s == [pc |-> "membership", sender |-> u, kind |-> kind]
  <2>1. s \in Sending /\ s.pc = "membership" /\ s.sender = u
    BY DEF Sending
  <2>2. /\ steady' \in [Message -> SUBSET User] /\ during' \in [Message -> SUBSET User]
        /\ createdAt[m] = 0 /\ loop[m].pc = "none" /\ loop[m].todo = {}
        /\ msg' = [msg EXCEPT ![m] = s]
        /\ UNCHANGED <<createdAt, loop, heard, moved, aside, members, online, room>>
    BY <1>1, <1>2 DEF SendBegin, SInv, RowsTyped, Phase, At, Unstored, sockets
  <2> HIDE DEF s
  <2>3. QED
    BY <1>1, <2>1, <2>2, SOne DEF Unstored
<1>3. ASSUME NEW p \in {"store", "touch", "fanout", "done"}, Go(m, p),
             msg[m].pc # "unsent", NEW c \in Nat, NEW l \in Loop,
             loop' = [loop EXCEPT ![m] = l], createdAt' = [createdAt EXCEPT ![m] = c],
             /\ p \in Unstored => c = 0
             /\ p \in {"touch", "fanout"} => c > 0
             /\ p \in Unstored \cup {"touch"} => l.pc = "none"
             /\ l.pc # "none" => c > 0
             /\ l.pc = "event" => l.user \in User
             /\ l.pc = "none" => l.todo = {}
             /\ p = "fanout" => l.pc # "none",
             heard' \in [Message -> SUBSET User], aside' \in [Message -> SUBSET User],
             UNCHANGED <<members, online, room, steady, during, moved>>
      PROVE  SInv'
  <2> DEFINE s == [msg[m] EXCEPT !.pc = p]
  <2>1. s \in Sending /\ s.pc = p /\ s.sender = msg[m].sender
    BY <1>1 DEF Sending
  <2>2. msg' = [msg EXCEPT ![m] = s]
    BY <1>1, <1>3 DEF Go
  <2>3. s.sender \in User
    BY <1>1, <1>3, <2>1 DEF Phase
  <2> HIDE DEF s
  <2>4. QED
    BY <1>1, <1>3, <2>1, <2>2, <2>3, SOne
<1>4. CASE SendCheckMember(m)
  <2>1. PICK p \in {"store", "done"} : Go(m, p)
    BY <1>4 DEF SendCheckMember
  <2>2. /\ msg[m].pc = "membership" /\ createdAt[m] = 0 /\ loop[m].pc = "none" /\ loop[m].todo = {}
        /\ UNCHANGED <<createdAt, loop, heard, moved, aside, steady, during,
                       members, online, room>>
    BY <1>1, <1>4 DEF SendCheckMember, At, Phase, Unstored, sockets, aux
  <2>3. QED
    BY <1>1, <1>3, <2>1, <2>2 DEF Unstored
<1>5. CASE SendStore(m)
  <2>1. /\ msg[m].pc = "store" /\ loop[m].pc = "none" /\ loop[m].todo = {} /\ Go(m, "touch")
        /\ createdAt' = [createdAt EXCEPT ![m] = Cardinality(Stored) + 1]
        /\ UNCHANGED <<loop, heard, moved, aside, steady, during, members, online, room>>
    BY <1>1, <1>5 DEF SendStore, At, Phase, Unstored, sockets, aux
  <2>2. Cardinality(Stored) + 1 \in Nat /\ Cardinality(Stored) + 1 > 0
    BY StoredFinite
  <2>3. QED
    BY <1>1, <1>3, <2>1, <2>2 DEF Unstored
<1>6. CASE SendTouch(m)
  <2> DEFINE l == [loop[m] EXCEPT !.pc = "members"]
  <2>1. l \in Loop /\ l.pc = "members" /\ loop' = [loop EXCEPT ![m] = l]
    BY <1>1, <1>6 DEF SendTouch, Loop
  <2>2. PICK p \in {"fanout", "done"} : Go(m, p)
    BY <1>6 DEF SendTouch
  <2>3. /\ msg[m].pc = "touch" /\ createdAt[m] > 0
        /\ UNCHANGED <<createdAt, moved, steady, during, members, online, room>>
    BY <1>1, <1>6 DEF SendTouch, At, Phase, sockets
  <2>4. heard' \in [Message -> SUBSET User] /\ aside' \in [Message -> SUBSET User]
    BY <1>1, <1>6 DEF SendTouch, SInv, RowsTyped
  <2> HIDE DEF l
  <2>5. QED
    BY <1>1, <1>3, <2>1, <2>2, <2>3, <2>4 DEF Unstored
<1>7. CASE SendFanout(m)
  <2>1. /\ msg[m].pc = "fanout" /\ createdAt[m] > 0 /\ Go(m, "done")
        /\ UNCHANGED <<createdAt, loop, moved, aside, steady, during, members,
                       online, room>>
    BY <1>1, <1>7 DEF SendFanout, At, Phase, sockets, aux
  <2>2. heard' \in [Message -> SUBSET User]
    BY <1>1, <1>7 DEF SendFanout, SInv, RowsTyped
  <2>3. QED
    BY <1>1, <1>3, <2>1, <2>2 DEF Unstored, Phase
<1>8. CASE SendFail(m)
  <2> DEFINE l == [loop[m] EXCEPT !.failed = @ \cup IF At(m, "fanout") THEN online ELSE User]
  <2>1. /\ l \in Loop /\ l.pc = loop[m].pc /\ l.user = loop[m].user
        /\ l.todo = loop[m].todo
        /\ loop' = [loop EXCEPT ![m] = l]
    BY <1>1, <1>8 DEF SendFail, Loop, SInv, RowsTyped
  <2>2. /\ msg[m].pc # "unsent" /\ Go(m, "done")
        /\ UNCHANGED <<createdAt, heard, moved, aside, steady, during, members,
                       online, room>>
    BY <1>8 DEF SendFail, At, sockets, aux
  <2> HIDE DEF l
  <2>3. QED
    BY <1>1, <1>3, <2>1, <2>2 DEF Unstored, Phase
<1>9. QED
  BY <1>2, <1>4, <1>5, <1>6, <1>7, <1>8 DEF Send

\* What a step of a loop leaves in its slot, beside the events.
LoopStep(m, l) ==
  /\ l \in Loop /\ loop' = [loop EXCEPT ![m] = l]
  /\ loop[m].pc # "none" /\ l.pc # "none"
  /\ l.pc = "event" => l.user \in User

LEMMA LoopOthers ==
  ASSUME SInv, NEW m \in Message, NEW l, LoopStep(m, l)
  PROVE  loop'[m] = l /\ \A n \in Message : n # m => loop'[n] = loop[n]
BY DEF LoopStep, SInv, SendTyped

LEMMA LoopSlots ==
  ASSUME SInv, NEW m \in Message, Dispatch(m)
  PROVE  \E l : /\ LoopStep(m, l)
                /\ \/ /\ LoopMembers(m) /\ l.pc = "next"
                      /\ l.todo = members \ {msg[m].sender}
                      /\ l.user = loop[m].user /\ l.failed = loop[m].failed
                   \/ /\ LoopAt(m, "next") /\ l.failed = loop[m].failed
                      /\ events' = events
                      /\ \E u \in loop[m].todo :
                           /\ l.todo = loop[m].todo \ {u}
                           /\ l.pc = IF u \in Wants \ online THEN "event" ELSE "next"
                           /\ l.user = IF u \in Wants \ online THEN u ELSE None
                   \/ /\ LoopEvent(m) /\ l.pc = "next" /\ l.user = None
                      /\ l.todo = loop[m].todo /\ l.failed = loop[m].failed
                   \/ /\ LoopEnd(m) /\ l.pc = "done" /\ l.user = loop[m].user
                      /\ l.todo = loop[m].todo /\ l.failed = loop[m].failed
                   \/ /\ LoopFail(m) /\ l.pc = "done" /\ l.failed = User
                      /\ l.todo = loop[m].todo /\ l.user = loop[m].user
                   \/ /\ LoopFail(m) /\ LoopAt(m, "event") /\ l.pc = "next"
                      /\ l.user = None /\ l.todo = loop[m].todo
                      /\ l.failed = loop[m].failed \cup {loop[m].user}
<1>1. loop[m] \in Loop /\ members \subseteq User /\ Wants \subseteq User
  BY ConstantsAssumption DEF SInv, SendTyped, RowsTyped
<1>2. CASE LoopMembers(m)
  <2> DEFINE l == [loop[m] EXCEPT !.pc = "next", !.todo = members \ {msg[m].sender}]
  <2>1. /\ l \in Loop /\ l.pc = "next" /\ l.todo = members \ {msg[m].sender}
        /\ l.user = loop[m].user /\ l.failed = loop[m].failed
    BY <1>1 DEF Loop
  <2>2. loop' = [loop EXCEPT ![m] = l] /\ loop[m].pc # "none"
    BY <1>1, <1>2 DEF LoopMembers, LoopAt
  <2> HIDE DEF l
  <2>3. QED
    BY <1>2, <2>1, <2>2 DEF LoopStep
<1>3. ASSUME NEW u \in User, LoopNext(m, u)
      PROVE  \E l : /\ LoopStep(m, l)
                    /\ LoopAt(m, "next") /\ l.failed = loop[m].failed
                    /\ events' = events
                    /\ u \in loop[m].todo
                    /\ l.todo = loop[m].todo \ {u}
                    /\ l.pc = IF u \in Wants \ online THEN "event" ELSE "next"
                    /\ l.user = IF u \in Wants \ online THEN u ELSE None
  <2> DEFINE p == IF u \in Wants \ online THEN "event" ELSE "next"
             v == IF u \in Wants \ online THEN u ELSE None
             l == [loop[m] EXCEPT !.todo = @ \ {u}, !.pc = p, !.user = v]
  <2>1. /\ l \in Loop /\ l.todo = loop[m].todo \ {u} /\ l.pc = p /\ l.user = v
        /\ l.failed = loop[m].failed
    BY <1>1 DEF Loop
  <2>2. loop' = [loop EXCEPT ![m] = l]
    BY <1>1, <1>3 DEF LoopNext
  <2>3. /\ LoopAt(m, "next") /\ u \in loop[m].todo /\ events' = events
        /\ loop[m].pc # "none"
    BY <1>3 DEF LoopNext, LoopAt
  <2>4. l.pc # "none" /\ (l.pc = "event" => l.user \in User)
    BY <2>1
  <2> HIDE DEF l
  <2>5. LoopStep(m, l)
    BY <2>1, <2>2, <2>3, <2>4 DEF LoopStep
  <2>6. QED
    BY <2>1, <2>3, <2>5
<1>4. CASE LoopEvent(m)
  <2> DEFINE l == [loop[m] EXCEPT !.pc = "next", !.user = None]
  <2>1. /\ l \in Loop /\ l.pc = "next" /\ l.todo = loop[m].todo /\ l.user = None
        /\ l.failed = loop[m].failed
    BY <1>1 DEF Loop
  <2>2. loop' = [loop EXCEPT ![m] = l] /\ loop[m].pc # "none"
    BY <1>1, <1>4 DEF LoopEvent, LoopAt
  <2> HIDE DEF l
  <2>3. QED
    BY <1>4, <2>1, <2>2 DEF LoopStep
<1>5. CASE LoopEnd(m)
  <2> DEFINE l == [loop[m] EXCEPT !.pc = "done"]
  <2>1. /\ l \in Loop /\ l.pc = "done" /\ l.todo = loop[m].todo
        /\ l.user = loop[m].user /\ l.failed = loop[m].failed
    BY <1>1 DEF Loop
  <2>2. loop' = [loop EXCEPT ![m] = l] /\ loop[m].pc # "none"
    BY <1>1, <1>5 DEF LoopEnd, LoopAt
  <2> HIDE DEF l
  <2>3. QED
    BY <1>5, <2>1, <2>2 DEF LoopStep
<1>6. CASE LoopFail(m) /\ LoopAt(m, "members")
  <2> DEFINE l == [loop[m] EXCEPT !.pc = "done", !.failed = User]
  <2>1. /\ l \in Loop /\ l.pc = "done" /\ l.todo = loop[m].todo
        /\ l.user = loop[m].user /\ l.failed = User
    BY <1>1 DEF Loop
  <2>2. loop' = [loop EXCEPT ![m] = l] /\ loop[m].pc # "none"
    BY <1>1, <1>6 DEF LoopFail, LoopAt
  <2> HIDE DEF l
  <2>3. QED
    BY <1>6, <2>1, <2>2 DEF LoopStep
<1>7. CASE LoopFail(m) /\ LoopAt(m, "event")
  <2> DEFINE l == [loop[m] EXCEPT !.pc = "next", !.user = None,
                                  !.failed = @ \cup {loop[m].user}]
  <2>1. loop[m].user \in User
    BY <1>7 DEF SInv, Phase, LoopAt
  <2>2. /\ l \in Loop /\ l.pc = "next" /\ l.todo = loop[m].todo /\ l.user = None
        /\ l.failed = loop[m].failed \cup {loop[m].user}
    BY <1>1, <2>1 DEF Loop
  <2>3. loop' = [loop EXCEPT ![m] = l] /\ loop[m].pc # "none"
    BY <1>1, <1>7 DEF LoopFail, LoopAt
  <2> HIDE DEF l
  <2>4. QED
    BY <1>7, <2>2, <2>3 DEF LoopStep
<1>8. CASE \E u \in User : LoopNext(m, u)
  BY <1>3, <1>8
<1>9. LoopFail(m) => LoopAt(m, "members") \/ LoopAt(m, "event")
  BY DEF LoopFail
<1>10. QED
  BY <1>2, <1>4, <1>5, <1>6, <1>7, <1>8, <1>9 DEF Dispatch

\* A loop changes its slot and the events only.
LEMMA LoopFrame ==
  ASSUME NEW m \in Message, Dispatch(m)
  PROVE  UNCHANGED <<members, online, room, msg, createdAt, heard, fetch, lastRead,
                     steady, during, moved, aside>>
BY DEF Dispatch, LoopMembers, LoopNext, LoopEvent, LoopEnd, LoopFail, sockets, aux

LEMMA SDispatch == ASSUME SInv, NEW m \in Message, Dispatch(m) PROVE SInv'
<1>1. PICK l : LoopStep(m, l)
  BY LoopSlots
<1>2. UNCHANGED <<members, online, room, msg, createdAt, heard, fetch, lastRead,
                  steady, during, moved, aside>>
  BY LoopFrame
<1>3. /\ msg[m] \in Sending /\ createdAt[m] \in Nat /\ Phase(m)
      /\ msg' = [msg EXCEPT ![m] = msg[m]]
      /\ createdAt' = [createdAt EXCEPT ![m] = createdAt[m]]
      /\ heard' \in [Message -> SUBSET User]
      /\ steady' \in [Message -> SUBSET User] /\ during' \in [Message -> SUBSET User]
      /\ moved' \in [Message -> SUBSET User] /\ aside' \in [Message -> SUBSET User]
  BY <1>2 DEF SInv, SendTyped
<1>4. QED
  BY <1>1, <1>2, <1>3, SOne DEF LoopStep, Phase

LEMMA ReadFrame ==
  ASSUME NEW f \in Fetch, Read(f)
  PROVE  UNCHANGED <<members, online, room, msg, createdAt, loop, heard, events,
                     steady, during, moved, aside>>
BY DEF Read, FetchBegin, FetchPage, FetchMark, FetchFail, sockets, aux

LEMMA SRead ==
  ASSUME SInv, NEW f \in Fetch, Read(f)
  PROVE  SInv'
BY ReadFrame DEF SInv, RowsTyped, SendTyped, Phase

LEMMA Still ==
  ASSUME UNCHANGED vars
  PROVE  UNCHANGED <<members, online, room, msg, createdAt, loop, heard, events,
                     fetch, lastRead, steady, during, moved, aside>>
BY DEF vars, sockets, aux

LEMMA SNext == SInv /\ [Next]_vars => SInv'
<1> SUFFICES ASSUME SInv, [Next]_vars PROVE SInv'
  OBVIOUS
<1>1. CASE UNCHANGED vars
  BY <1>1, Still DEF SInv, RowsTyped, SendTyped, Phase
<1>2. ASSUME NEW u \in Active, Client(u) PROVE SInv'
  BY <1>2, SClient, ConstantsAssumption
<1>3. QED
  BY <1>1, <1>2, SSend, SDispatch, SRead DEF Next

-----------------------------------------------------------------------------
(* Only members.  While a message is under way all members are among those   *)
(* who were members during it, and those steadily members are members.  A    *)
(* file is heard by nobody before its request ends.                          *)
Within(m) ==
  /\ Underway(m) => members \subseteq during[m] /\ steady[m] \subseteq members
  /\ createdAt[m] > 0 \/ msg[m].pc = "store" => msg[m].sender \in during[m]
  /\ loop[m].todo \subseteq during[m]
  /\ loop[m].pc = "event" => loop[m].user \in during[m]
  /\ msg[m].pc # "done" => heard[m] = {}
  /\ msg[m].kind = "file" => heard[m] \subseteq during[m]

OInv ==
  /\ \A m \in Message : Within(m)
  /\ \A e \in events : /\ e \in Message \X User /\ createdAt[e[1]] > 0
                       /\ e[2] \in during[e[1]]

LEMMA OInit == Init => OInv
<1> SUFFICES ASSUME Init PROVE OInv
  OBVIOUS
<1>1. \A m \in Message : msg[m].pc = IF m = Old THEN "done" ELSE "unsent"
  BY DEF Init
<1>2. ASSUME NEW m \in Message PROVE Within(m)
  <2>1. ~Underway(m)
    BY <1>1 DEF Init, Underway, Over, At, NoLoop
  <2>2. createdAt[m] > 0 => m = Old
    BY DEF Init
  <2>3. msg[Old].sender \in during[Old]
    BY ConstantsAssumption DEF Init
  <2>4. loop[m].todo = {} /\ loop[m].pc # "event" /\ msg[m].pc # "store"
    BY <1>1 DEF Init, NoLoop
  <2>5. heard[m] = {}
    BY DEF Init
  <2>6. QED
    BY <2>1, <2>2, <2>3, <2>4, <2>5 DEF Within
<1>3. QED
  BY <1>2 DEF Init, OInv

\* Who was a member during a message stays in the account of it.
LEMMA OClient == ASSUME SInv, OInv, NEW u \in User, Client(u) PROVE OInv'
<1>1. UNCHANGED <<msg, createdAt, loop, heard, events>>
  BY DEF Client, Join, Depart, Evict, Subscribe, Connect, Disconnect
<1>2. \A m \in Message : during[m] \subseteq during'[m]
  BY DEF Client, Join, Depart, Evict, Subscribe, Connect, Disconnect, aux
<1>3. ASSUME NEW m \in Message, Underway(m)
      PROVE  members' \subseteq during'[m] /\ steady'[m] \subseteq members'
  <2>1. members \subseteq during[m] /\ steady[m] \subseteq members
    BY <1>3 DEF OInv, Within
  <2>2. CASE Join(u)
    BY <1>3, <2>1, <2>2 DEF Join
  <2>3. CASE Depart(u)
    BY <1>3, <2>1, <2>3 DEF Depart, SInv, SendTyped
  <2>4. CASE Evict(u) \/ Subscribe(u) \/ Connect(u) \/ Disconnect(u)
    BY <2>1, <2>4 DEF Evict, Subscribe, Connect, Disconnect, aux
  <2>5. QED
    BY <2>2, <2>3, <2>4 DEF Client
<1>4. ASSUME NEW m \in Message PROVE Within(m)'
  <2>1. Underway(m)' <=> Underway(m)
    BY <1>1 DEF Underway, Over, At
  <2>2. QED
    BY <1>1, <1>2, <1>3, <2>1 DEF OInv, Within
<1>5. QED
  BY <1>1, <1>2, <1>4 DEF OInv

LEMMA OSend == ASSUME SInv, OInv, NEW m \in Message, Send(m) PROVE OInv'
<1>1. events' = events /\ members' = members
  BY DEF Send, SendBegin, SendCheckMember, SendStore, SendTouch, SendFanout, SendFail
<1>2. ASSUME NEW n \in Message, n # m PROVE Within(n)'
  <2>1. msg'[n] = msg[n] /\ createdAt'[n] = createdAt[n] /\ loop'[n] = loop[n]
        /\ during'[n] = during[n] /\ steady'[n] = steady[n]
        /\ heard'[n] = heard[n]
    BY <1>2 DEF Send, SendBegin, SendCheckMember, SendStore, SendTouch, SendFanout,
       SendFail, Go, SInv, SendTyped, aux
  <2>2. QED
    BY <1>1, <2>1 DEF OInv, Within, Underway, Over, At
<1>3. /\ \A e \in events : e \in Message \X User /\ createdAt'[e[1]] > 0
      /\ during[m] \subseteq during'[m] \/ createdAt[m] = 0
  <2>1. createdAt[m] > 0 => createdAt'[m] > 0
    BY StoredFinite DEF Send, SendBegin, SendCheckMember, SendStore, SendTouch,
       SendFanout, SendFail, SInv, SendTyped
  <2>2. \A n \in Message : n # m => createdAt'[n] = createdAt[n]
    BY DEF Send, SendBegin, SendCheckMember, SendStore, SendTouch, SendFanout,
       SendFail, SInv, SendTyped
  <2>3. during'[m] = during[m] \/ createdAt[m] = 0
    BY DEF Send, SendBegin, SendCheckMember, SendStore, SendTouch, SendFanout,
       SendFail, SInv, SendTyped, Phase, At, Unstored, aux
  <2>4. QED
    BY <2>1, <2>2, <2>3 DEF OInv
<1>4. \A n \in Message : n # m => during'[n] = during[n]
  BY DEF Send, SendBegin, SendCheckMember, SendStore, SendTouch, SendFanout,
     SendFail, SInv, SendTyped, aux
<1>5. ASSUME NEW p \in {"store", "touch", "fanout", "done"}, Go(m, p),
             msg[m].pc \notin {"unsent", "done"}, during' = during, steady' = steady,
             p = "store" => msg[m].sender \in members,
             createdAt'[m] > 0 => createdAt[m] > 0 \/ msg[m].pc = "store",
             loop'[m].todo = loop[m].todo, loop'[m].user = loop[m].user,
             loop'[m].pc = "event" => loop[m].pc = "event",
             p # "done" => heard'[m] = heard[m],
             \/ heard'[m] = heard[m]
             \/ heard'[m] \subseteq members \/ msg[m].kind = "text"
      PROVE  Within(m)'
  <2>1. Underway(m)
    BY <1>5 DEF Underway, Over, At
  <2>2. members \subseteq during[m] /\ steady[m] \subseteq members /\ Within(m)
    BY <2>1 DEF OInv, Within
  <2>3. /\ msg'[m].sender = msg[m].sender /\ msg'[m].pc = p
        /\ msg'[m].kind = msg[m].kind
    BY <1>5 DEF Go, SInv, SendTyped, Sending
  <2>4. QED
    BY <1>1, <1>5, <2>2, <2>3 DEF Within
<1>6. loop[m] \in Loop
  BY DEF SInv, SendTyped
<1>7. Within(m)'
  <2>1. ASSUME NEW u \in User, NEW kind \in {"text", "file"}, SendBegin(m, u, kind)
        PROVE  Within(m)'
    <3>1. /\ msg'[m].pc = "membership" /\ loop'[m] = loop[m] /\ createdAt'[m] = 0
          /\ during'[m] = members /\ steady'[m] = members
          /\ heard'[m] = heard[m] /\ msg[m].pc = "unsent"
      BY <2>1 DEF SendBegin, SInv, SendTyped, Phase, At, Unstored
    <3>2. loop[m].pc = "none" /\ loop[m].todo = {}
      BY <2>1 DEF SendBegin, SInv, Phase, At, Unstored
    <3>3. heard[m] = {}
      BY <3>1 DEF OInv, Within
    <3>4. QED
      BY <1>1, <3>1, <3>2, <3>3 DEF Within
  <2>2. CASE SendCheckMember(m)
    BY <1>5, <2>2 DEF SendCheckMember, At, aux
  <2>3. CASE SendStore(m)
    BY <1>5, <2>3 DEF SendStore, At, aux
  <2>4. CASE SendTouch(m)
    <3>1. /\ msg[m].pc = "touch" /\ createdAt' = createdAt /\ during' = during
          /\ steady' = steady
      BY <2>4 DEF SendTouch, At
    <3>2. /\ loop'[m].todo = loop[m].todo /\ loop'[m].user = loop[m].user
          /\ loop'[m].pc = "members"
      BY <1>6, <2>4 DEF SendTouch, Loop, SInv, SendTyped
    <3>3. PICK p \in {"fanout", "done"} :
            /\ Go(m, p)
            /\ p = "fanout" => heard' = heard
            /\ heard' = heard \/ msg[m].kind = "text"
      BY <2>4 DEF SendTouch
    <3>4. /\ p # "done" => heard'[m] = heard[m]
          /\ heard'[m] = heard[m] \/ msg[m].kind = "text"
      BY <3>3
    <3>5. p \in {"store", "touch", "fanout", "done"} /\ p # "store"
      BY <3>3
    <3>6. createdAt'[m] = createdAt[m]
      BY <3>1
    <3>7. QED
      BY <1>5, <3>1, <3>2, <3>3, <3>4, <3>5, <3>6
  <2>5. CASE SendFanout(m)
    <3>1. heard'[m] \subseteq members
      BY <2>5 DEF SendFanout, SInv, SendTyped
    <3>2. QED
      BY <1>5, <2>5, <3>1 DEF SendFanout, At, aux
  <2>6. CASE SendFail(m)
    <3>1. /\ loop'[m].todo = loop[m].todo /\ loop'[m].user = loop[m].user
          /\ loop'[m].pc = loop[m].pc
      BY <1>6, <2>6 DEF SendFail, Loop, SInv, SendTyped
    <3>2. QED
      BY <1>5, <2>6, <3>1 DEF SendFail, At, aux
  <2>7. QED
    BY <2>1, <2>2, <2>3, <2>4, <2>5, <2>6 DEF Send
<1>8. \A n \in Message : Within(n)'
  BY <1>2, <1>7
<1>9. ASSUME NEW e \in events PROVE e[2] \in during'[e[1]]
  <2>1. e[1] \in Message /\ createdAt[e[1]] > 0 /\ e[2] \in during[e[1]]
    BY DEF OInv
  <2>2. CASE e[1] = m
    BY <1>3, <2>1, <2>2
  <2>3. CASE e[1] # m
    BY <1>4, <2>1, <2>3
  <2>4. QED
    BY <2>2, <2>3
<1>10. QED
  BY <1>1, <1>3, <1>8, <1>9 DEF OInv

LEMMA ODispatch == ASSUME SInv, OInv, NEW m \in Message, Dispatch(m) PROVE OInv'
<1>1. UNCHANGED <<members, online, room, msg, createdAt, heard, fetch, lastRead,
                  steady, during, moved, aside>>
  BY LoopFrame
<1>2. Within(m) /\ members \subseteq User /\ loop[m] \in Loop /\ createdAt[m] > 0
  BY DEF OInv, SInv, RowsTyped, SendTyped, Phase, Dispatch, LoopMembers, LoopNext,
     LoopEvent, LoopEnd, LoopFail, LoopAt
<1>3. PICK l : /\ LoopStep(m, l)
               /\ \/ LoopMembers(m) /\ l.pc = "next" /\ l.todo = members \ {msg[m].sender}
                  \/ /\ l.todo \subseteq loop[m].todo
                     /\ l.pc = "event" => l.user \in loop[m].todo
               /\ events' = events \/ LoopEvent(m)
  <2>1. LoopMembers(m) \/ LoopEnd(m) \/ LoopFail(m) => events' = events
    BY DEF LoopMembers, LoopEnd, LoopFail
  <2>2. QED
    BY <2>1, LoopSlots
<1>4. LoopMembers(m) => Underway(m)
  BY DEF LoopMembers, LoopAt, Underway, Over, At, SInv, Phase, Unstored
<1>5. Within(m)'
  <2>1. loop'[m] = l
    BY <1>3, LoopOthers
  <2>2. members \subseteq during[m] \/ ~Underway(m)
    BY <1>2 DEF Within
  <2>3. Underway(m)' => Underway(m)
    BY <1>1, <1>2 DEF Underway, Over, At, Dispatch, LoopMembers, LoopNext, LoopEvent,
       LoopEnd, LoopFail, LoopAt
  <2>4. QED
    BY <1>1, <1>2, <1>3, <1>4, <2>1, <2>2, <2>3 DEF Within
<1>6. ASSUME NEW n \in Message, n # m PROVE Within(n)'
  BY <1>1, <1>3, <1>6, LoopOthers DEF OInv, Within, Underway, Over, At
<1>7. ASSUME NEW e \in events' PROVE e \in Message \X User /\ createdAt[e[1]] > 0
                                     /\ e[2] \in during[e[1]]
  <2>1. CASE e \in events
    BY <2>1 DEF OInv
  <2>2. CASE e = <<m, loop[m].user>> /\ LoopAt(m, "event")
    BY <1>2, <2>2 DEF SInv, Phase, Within, LoopAt
  <2>3. LoopEvent(m) => LoopAt(m, "event") /\ events' = events \cup {<<m, loop[m].user>>}
    BY DEF LoopEvent
  <2>4. QED
    BY <1>3, <2>1, <2>2, <2>3
<1>8. QED
  BY <1>1, <1>5, <1>6, <1>7 DEF OInv

LEMMA ONext == SInv /\ OInv /\ [Next]_vars => OInv'
<1> SUFFICES ASSUME SInv, OInv, [Next]_vars PROVE OInv'
  OBVIOUS
<1>1. CASE UNCHANGED vars
  BY <1>1, Still DEF OInv, Within, Underway, Over, At
<1>2. ASSUME NEW u \in Active, Client(u) PROVE OInv'
  BY <1>2, OClient, ConstantsAssumption
<1>3. ASSUME NEW f \in Fetch, Read(f) PROVE OInv'
  BY <1>3, ReadFrame DEF OInv, Within, Underway, Over, At
<1>4. QED
  BY <1>1, <1>2, <1>3, OSend, ODispatch DEF Next

\* Only those who were members meanwhile send, are notified and receive files,
\* for any number of members, messages and loops.
THEOREM OnlyMembersCorrect == Spec => []OnlyMembers
<1>1. OInv => OnlyMembers
  BY DEF OInv, Within, OnlyMembers, SenderBelonged, NotifiedBelonged,
     FilesBelonged, Stored
<1>2. QED
  BY <1>1, SInit, SNext, OInit, ONext, PTL DEF Spec

-----------------------------------------------------------------------------
(* Pages.  The newest message bears the number of those stored, so the first *)
(* page is never empty and starts with a message that none is later than.   *)
Newest ==
  /\ \A m \in Message : createdAt[m] <= Cardinality(Stored)
  /\ \E m \in Stored : createdAt[m] = Cardinality(Stored)

LEMMA NewestInit == Init => Newest
<1> SUFFICES ASSUME Init PROVE Newest
  OBVIOUS
<1>1. \A m \in Message : createdAt[m] = IF m = Old THEN 1 ELSE 0
  BY DEF Init
<1>2. Stored = {Old}
  BY <1>1, ConstantsAssumption DEF Stored
<1>3. Cardinality(Stored) = 1
  BY <1>2, FS_Singleton
<1>4. \A m \in Message : createdAt[m] <= 1
  BY <1>1
<1>5. Old \in Stored /\ createdAt[Old] = 1
  BY <1>1, <1>2, ConstantsAssumption
<1>6. QED
  BY <1>3, <1>4, <1>5 DEF Newest

LEMMA StoredSame ==
  ASSUME createdAt' = createdAt
  PROVE  Stored' = Stored /\ Cardinality(Stored)' = Cardinality(Stored)
BY DEF Stored

LEMMA NewestStore ==
  ASSUME SInv, Newest, NEW m \in Message, SendStore(m)
  PROVE  /\ Newest' /\ Stored' = Stored \cup {m} /\ m \notin Stored
         /\ \A n \in Message : n # m => createdAt'[n] = createdAt[n]
<1>1. /\ createdAt[m] = 0 /\ createdAt \in [Message -> Nat]
      /\ createdAt' = [createdAt EXCEPT ![m] = Cardinality(Stored) + 1]
  BY DEF SendStore, SInv, SendTyped, Phase, At, Unstored
<1>2. Cardinality(Stored) \in Nat /\ IsFiniteSet(Stored)
  BY StoredFinite
<1>3. m \notin Stored /\ Stored' = Stored \cup {m}
  BY <1>1, <1>2 DEF Stored
<1>4. Cardinality(Stored \cup {m}) = Cardinality(Stored) + 1
  BY <1>2, <1>3, FS_AddElement
<1>5. Cardinality(Stored)' = Cardinality(Stored) + 1
  BY <1>3, <1>4
<1>6. \A n \in Message : createdAt'[n] <= Cardinality(Stored) + 1
  BY <1>1, <1>2 DEF Newest
<1>7. m \in Stored' /\ createdAt'[m] = Cardinality(Stored) + 1
  BY <1>1, <1>3
<1>8. QED
  BY <1>1, <1>3, <1>5, <1>6, <1>7 DEF Newest

\* Messages are created by one step only.
LEMMA CreatedSame ==
  ASSUME [Next]_vars, ~\E m \in Message : SendStore(m)
  PROVE  createdAt' = createdAt
<1>1. ASSUME NEW u \in Active, Client(u) PROVE createdAt' = createdAt
  BY <1>1 DEF Client, Join, Depart, Evict, Subscribe, Connect, Disconnect
<1>2. ASSUME NEW m \in Message, Send(m) PROVE createdAt' = createdAt
  BY <1>2 DEF Send, SendBegin, SendCheckMember, SendTouch, SendFanout, SendFail
<1>3. QED
  BY <1>1, <1>2, LoopFrame, ReadFrame, Still DEF Next

LEMMA NewestNext == SInv /\ Newest /\ [Next]_vars => Newest'
<1> SUFFICES ASSUME SInv, Newest, [Next]_vars PROVE Newest'
  OBVIOUS
<1>1. CASE \E m \in Message : SendStore(m)
  BY <1>1, NewestStore
<1>2. CASE ~\E m \in Message : SendStore(m)
  <2>1. createdAt' = createdAt
    BY <1>2, CreatedSame
  <2>2. QED
    BY <2>1, StoredSame DEF Newest
<1>3. QED
  BY <1>1, <1>2

LEMMA FirstStored == \A skip : First(skip) \in Stored \cup {None}
BY DEF First

\* The first page is not empty and none is later than what it starts with.
LEMMA FirstIsNewest ==
  ASSUME SInv, Newest
  PROVE  First(0) \in Stored /\ \A n \in Stored : ~Later(n, First(0))
<1> DEFINE later(m) == {n \in Stored : Later(n, m)}
           page == {m \in Stored : Cardinality(later(m)) = 0}
<1>1. createdAt \in [Message -> Nat] /\ Cardinality(Stored) \in Nat /\ IsFiniteSet(Stored)
      /\ Stored \subseteq Message
  BY StoredFinite DEF SInv, SendTyped, Stored
<1>2. PICK m \in Stored : createdAt[m] = Cardinality(Stored)
  BY DEF Newest
<1>3. later(m) = {}
  <2>1. \A n \in Stored : createdAt[n] <= createdAt[m] /\ createdAt[n] \in Nat
                          /\ createdAt[m] \in Nat
    BY <1>1, <1>2 DEF Newest
  <2>2. \A n \in Stored : ~(createdAt[n] > createdAt[m])
    BY <2>1
  <2>3. QED
    BY <2>2 DEF Later
<1>4. page # {}
  BY <1>3, FS_EmptySet
<1>5. First(0) = CHOOSE n \in page : TRUE
  BY <1>4 DEF First
<1>6. First(0) \in page
  BY <1>4, <1>5
<1>7. later(First(0)) = {}
  <2>1. IsFiniteSet(later(First(0)))
    BY <1>1, FS_Subset
  <2>2. Cardinality(later(First(0))) = 0
    BY <1>6
  <2>3. QED
    BY <2>1, <2>2, FS_EmptySet
<1>8. QED
  BY <1>6, <1>7

\* A load in flight has a user, who has the row unless it is gone, and a load
\* of the first page that nothing overtook holds a message that the pointer is
\* not later than.
Loading(f) ==
  /\ fetch[f].pc # "idle" => fetch[f].user \in User
  /\ fetch[f].pc # "idle" /\ ~fetch[f].gone => fetch[f].user \in members
  /\ fetch[f].first \in Stored \cup {None}
  /\ fetch[f].pc = "mark" /\ fetch[f].skip = 0 /\ ~fetch[f].late /\ ~fetch[f].gone =>
       /\ fetch[f].first \in Stored
       /\ lastRead[fetch[f].user] # None =>
            ~Later(lastRead[fetch[f].user], fetch[f].first)

RInv ==
  /\ fetch \in [Fetch -> Load]
  /\ lastRead \in [User -> Stored \cup {None}]
  /\ \A u \in User \ members : lastRead[u] = None
  /\ \A f \in Fetch : Loading(f)

LEMMA NoLoadTyped == NoLoad \in Load
BY ConstantsAssumption DEF NoLoad, Load

LEMMA RInit == Init => RInv
<1> SUFFICES ASSUME Init PROVE RInv
  OBVIOUS
<1>1. fetch \in [Fetch -> Load] /\ \A f \in Fetch : fetch[f] = NoLoad
  BY NoLoadTyped DEF Init
<1>2. \A f \in Fetch : Loading(f)
  BY <1>1 DEF Loading, NoLoad
<1>3. QED
  BY <1>1, <1>2 DEF Init, RInv

\* The row of a user is deleted.
LEMMA RDepart == ASSUME SInv, RInv, NEW u \in User, Depart(u) PROVE RInv'
<1>1. /\ Stored' = Stored /\ createdAt' = createdAt /\ members' = members \ {u}
      /\ lastRead' = [lastRead EXCEPT ![u] = None]
      /\ fetch' = [f \in Fetch |-> IF fetch[f].user = u
                     THEN [fetch[f] EXCEPT !.gone = TRUE] ELSE fetch[f]]
  BY StoredSame DEF Depart
<1>2. ASSUME NEW f \in Fetch
      PROVE  /\ fetch'[f] \in Load
             /\ fetch'[f].pc = fetch[f].pc /\ fetch'[f].user = fetch[f].user
             /\ fetch'[f].skip = fetch[f].skip /\ fetch'[f].first = fetch[f].first
             /\ fetch'[f].late = fetch[f].late
             /\ fetch'[f].gone = (fetch[f].gone \/ fetch[f].user = u)
  <2>1. fetch[f] \in Load
    BY DEF RInv
  <2>2. QED
    BY <1>1, <2>1 DEF Load
<1>3. fetch' \in [Fetch -> Load]
  BY <1>1, <1>2
<1>4. lastRead' \in [User -> Stored' \cup {None}]
      /\ \A v \in User \ members' : lastRead'[v] = None
  BY <1>1 DEF RInv
<1>5. ASSUME NEW f \in Fetch PROVE Loading(f)'
  <2>1. Loading(f)
    BY DEF RInv
  <2>2. fetch[f].user # u /\ fetch[f].user \in User
          => lastRead'[fetch[f].user] = lastRead[fetch[f].user]
    BY <1>1 DEF RInv
  <2>3. QED
    BY <1>1, <1>2, <2>1, <2>2 DEF Loading, Later
<1>6. QED
  BY <1>3, <1>4, <1>5 DEF RInv

LEMMA RClient == ASSUME SInv, RInv, NEW u \in User, Client(u) PROVE RInv'
<1>1. CASE Depart(u)
  BY <1>1, RDepart
<1>2. CASE ~Depart(u)
  <2>1. /\ createdAt' = createdAt /\ fetch' = fetch /\ lastRead' = lastRead
        /\ members \subseteq members'
    BY <1>2 DEF Client, Join, Evict, Subscribe, Connect, Disconnect
  <2>2. Stored' = Stored
    BY <2>1, StoredSame
  <2>3. \A f \in Fetch : Loading(f)'
    BY <2>1, <2>2 DEF RInv, Loading, Later
  <2>4. QED
    BY <2>1, <2>2, <2>3 DEF RInv
<1>3. QED
  BY <1>1, <1>2

\* A message is stored: what was stored stays, with its instant.
LEMMA RGrow ==
  ASSUME RInv, UNCHANGED <<members, fetch, lastRead>>, Stored \subseteq Stored',
         \A n \in Stored : createdAt'[n] = createdAt[n]
  PROVE  RInv'
<1>1. ASSUME NEW f \in Fetch PROVE Loading(f)'
  <2>1. Loading(f)
    BY DEF RInv
  <2>2. fetch[f].user \in User => lastRead[fetch[f].user] \in Stored \cup {None}
    BY DEF RInv
  <2>3. QED
    BY <2>1, <2>2 DEF Loading, Later
<1>2. QED
  BY <1>1 DEF RInv

LEMMA RSend == ASSUME SInv, Newest, RInv, NEW m \in Message, Send(m) PROVE RInv'
<1>1. UNCHANGED <<members, fetch, lastRead>>
  BY DEF Send, SendBegin, SendCheckMember, SendStore, SendTouch, SendFanout, SendFail
<1>2. CASE SendStore(m)
  <2>1. Stored \subseteq Stored' /\ \A n \in Stored : createdAt'[n] = createdAt[n]
    BY <1>2, NewestStore DEF Stored
  <2>2. QED
    BY <1>1, <2>1, RGrow
<1>3. CASE ~SendStore(m)
  <2>1. createdAt' = createdAt
    BY <1>3 DEF Send, SendBegin, SendCheckMember, SendTouch, SendFanout, SendFail
  <2>2. QED
    BY <1>1, <2>1, StoredSame, RGrow
<1>4. QED
  BY <1>2, <1>3

\* A step of one load that leaves the pointers alone.
LEMMA ROne ==
  ASSUME RInv, NEW f \in Fetch, NEW q \in Load, fetch' = [fetch EXCEPT ![f] = q],
         UNCHANGED <<members, createdAt, lastRead>>,
         /\ q.pc # "idle" => q.user \in User
         /\ q.pc # "idle" /\ ~q.gone => q.user \in members
         /\ q.first \in Stored \cup {None}
         /\ q.pc = "mark" /\ q.skip = 0 =>
              q.first \in Stored /\ \A n \in Stored : ~Later(n, q.first)
  PROVE  RInv'
<1>1. Stored' = Stored
  BY StoredSame
<1>2. fetch' \in [Fetch -> Load]
  BY DEF RInv
<1>3. ASSUME NEW g \in Fetch PROVE Loading(g)'
  <2>1. CASE g = f
    <3>1. fetch'[g] = q
      BY <2>1 DEF RInv
    <3>2. q.pc # "idle" => lastRead[q.user] \in Stored \cup {None}
      BY DEF RInv
    <3>3. QED
      BY <1>1, <3>1, <3>2 DEF Loading, Later
  <2>2. CASE g # f
    <3>1. fetch'[g] = fetch[g] /\ Loading(g)
      BY <2>2 DEF RInv
    <3>2. QED
      BY <1>1, <3>1 DEF Loading, Later
  <2>3. QED
    BY <2>1, <2>2
<1>4. QED
  BY <1>1, <1>2, <1>3 DEF RInv

\* The pointer is written: other loads of the user that have their page are
\* late from now on.
LEMMA RMark == ASSUME SInv, RInv, NEW f \in Fetch, FetchMark(f) PROVE RInv'
<1>1. /\ Stored' = Stored /\ createdAt' = createdAt /\ members' = members
      /\ fetch' = Marked(f)
      /\ lastRead' = IF fetch[f].gone THEN lastRead
                     ELSE [lastRead EXCEPT ![fetch[f].user] = fetch[f].first]
  BY StoredSame DEF FetchMark
<1>2. /\ fetch[f].user \in User /\ fetch[f].first \in Stored \cup {None}
      /\ ~fetch[f].gone => fetch[f].user \in members
  BY DEF FetchMark, RInv, Loading
<1>3. ASSUME NEW g \in Fetch, g # f
      PROVE  /\ fetch'[g] \in Load
             /\ fetch'[g].pc = fetch[g].pc /\ fetch'[g].user = fetch[g].user
             /\ fetch'[g].skip = fetch[g].skip /\ fetch'[g].first = fetch[g].first
             /\ fetch'[g].gone = fetch[g].gone
             /\ fetch'[g].late = (fetch[g].late \/ (fetch[g].user = fetch[f].user
                                                    /\ fetch[g].pc = "mark"))
  <2>1. fetch[g] \in Load
    BY DEF RInv
  <2>2. fetch'[g] = [fetch[g] EXCEPT !.late = @ \/ (fetch[g].user = fetch[f].user
                                                   /\ fetch[g].pc = "mark")]
    BY <1>1, <1>3 DEF Marked
  <2>3. QED
    BY <2>1, <2>2 DEF Load
<1>4. fetch'[f] = NoLoad
  BY <1>1 DEF Marked
<1>5. fetch' \in [Fetch -> Load]
  <2>1. \A g \in Fetch : fetch'[g] \in Load
    BY <1>3, <1>4, NoLoadTyped
  <2>2. fetch' = [g \in Fetch |-> fetch'[g]]
    BY <1>1 DEF Marked
  <2>3. QED
    BY <2>1, <2>2
<1>6. lastRead' \in [User -> Stored' \cup {None}]
      /\ \A v \in User \ members' : lastRead'[v] = None
  BY <1>1, <1>2 DEF RInv
<1>7. ASSUME NEW g \in Fetch PROVE Loading(g)'
  <2>1. CASE g = f
    BY <1>4, <2>1 DEF Loading, NoLoad
  <2>2. CASE g # f
    <3>1. Loading(g)
      BY DEF RInv
    <3>2. fetch[g].user # fetch[f].user /\ fetch[g].user \in User
            => lastRead'[fetch[g].user] = lastRead[fetch[g].user]
      BY <1>1, <1>2 DEF RInv
    <3>3. QED
      BY <1>1, <1>3, <2>2, <3>1, <3>2 DEF Loading, Later
  <2>3. QED
    BY <2>1, <2>2
<1>8. QED
  BY <1>5, <1>6, <1>7 DEF RInv

LEMMA RRead == ASSUME SInv, Newest, RInv, NEW f \in Fetch, Read(f) PROVE RInv'
<1>1. members' = members /\ createdAt' = createdAt
  BY ReadFrame
<1>2. ASSUME NEW u \in Active, NEW skip \in 0..Pages, FetchBegin(f, u, skip) PROVE RInv'
  <2> DEFINE q == [NoLoad EXCEPT !.pc = "page", !.user = u, !.skip = skip]
  <2>1. u \in User /\ u \in members
    BY <1>2, ConstantsAssumption DEF FetchBegin
  <2>2. /\ q \in Load /\ q.pc = "page" /\ q.user = u /\ q.first = None
    BY <2>1 DEF NoLoad, Load
  <2>3. fetch' = [fetch EXCEPT ![f] = q] /\ lastRead' = lastRead
    BY <1>2 DEF FetchBegin
  <2> HIDE DEF q
  <2>4. QED
    BY <1>1, <2>1, <2>2, <2>3, ROne
<1>3. CASE FetchPage(f)
  <2> DEFINE q == [fetch[f] EXCEPT !.pc = "mark", !.first = First(fetch[f].skip)]
  <2>1. fetch[f] \in Load /\ Loading(f) /\ First(fetch[f].skip) \in Stored \cup {None}
    BY FirstStored DEF RInv
  <2>2. /\ q \in Load /\ q.pc = "mark" /\ q.user = fetch[f].user
        /\ q.skip = fetch[f].skip /\ q.first = First(fetch[f].skip)
        /\ q.gone = fetch[f].gone
    BY <2>1 DEF Load, Stored
  <2>3. fetch' = [fetch EXCEPT ![f] = q] /\ lastRead' = lastRead /\ fetch[f].pc = "page"
    BY <1>3, <2>1 DEF FetchPage
  <2>4. q.skip = 0 => q.first \in Stored /\ \A n \in Stored : ~Later(n, q.first)
    BY <2>2, FirstIsNewest
  <2> HIDE DEF q
  <2>5. QED
    BY <1>1, <2>1, <2>2, <2>3, <2>4, ROne DEF Loading
<1>4. CASE FetchFail(f)
  <2>1. fetch' = [fetch EXCEPT ![f] = NoLoad] /\ lastRead' = lastRead
    BY <1>4 DEF FetchFail
  <2>2. NoLoad.pc = "idle" /\ NoLoad.first = None
    BY DEF NoLoad
  <2>3. QED
    BY <1>1, <2>1, <2>2, NoLoadTyped, ROne
<1>5. CASE FetchMark(f)
  BY <1>5, RMark
<1>6. QED
  BY <1>2, <1>3, <1>4, <1>5 DEF Read

LEMMA RNext == SInv /\ Newest /\ RInv /\ [Next]_vars => RInv'
<1> SUFFICES ASSUME SInv, Newest, RInv, [Next]_vars PROVE RInv'
  OBVIOUS
<1>1. CASE UNCHANGED vars
  BY <1>1, Still, StoredSame, RGrow
<1>2. ASSUME NEW u \in Active, Client(u) PROVE RInv'
  BY <1>2, RClient, ConstantsAssumption
<1>3. ASSUME NEW m \in Message, Dispatch(m) PROVE RInv'
  BY <1>3, LoopFrame, StoredSame, RGrow
<1>4. QED
  BY <1>1, <1>2, <1>3, RSend, RRead DEF Next

\* The types hold, pointers and events name stored messages, and there are no
\* more instants than messages.
THEOREM TypeCorrect == Spec => []TypeOK
<1>1. SInv /\ OInv /\ Newest /\ RInv => TypeOK
  <2> SUFFICES ASSUME SInv, OInv, Newest, RInv PROVE TypeOK
    OBVIOUS
  <2>1. createdAt \in [Message -> 0..Cardinality(Message)]
    <3>1. \A m \in Message : createdAt[m] \in 0..Cardinality(Message)
      <4>1. ASSUME NEW m \in Message PROVE createdAt[m] \in 0..Cardinality(Message)
        <5>1. createdAt[m] \in Nat /\ createdAt[m] <= Cardinality(Stored)
          BY DEF SInv, SendTyped, Newest
        <5>2. QED
          BY <5>1, StoredFinite
      <4>2. QED
        BY <4>1
    <3>2. QED
      BY <3>1 DEF SInv, SendTyped
  <2>2. events \subseteq Stored \X User
    BY DEF OInv, Stored
  <2>3. QED
    BY <2>1, <2>2 DEF SInv, RowsTyped, SendTyped, RInv, TypeOK
<1>2. QED
  BY <1>1, SInit, SNext, OInit, ONext, NewestInit, NewestNext, RInit, RNext, PTL
     DEF Spec

\* A pointer that moves back is written by a load of an older page, or by one
\* that another load of the same user overtook.
LEMMA BackStep ==
  ASSUME SInv, Newest, RInv, [Next]_vars, NEW u \in User, MovesBack(u)
  PROVE  \E f \in Fetch : /\ fetch[f].pc = "mark" /\ fetch[f].user = u
                          /\ fetch'[f].pc = "idle"
                          /\ fetch[f].skip > 0 \/ fetch[f].late
<1>1. PICK f \in Fetch : FetchMark(f)
  <2>1. \A v \in Active : ~Client(v)
    <3>1. ASSUME NEW v \in Active, Client(v) PROVE FALSE
      <4>1. lastRead' = lastRead \/ Depart(v)
        BY <3>1 DEF Client, Join, Evict, Subscribe, Connect, Disconnect
      <4>2. Depart(v) => (u = v => u \notin members') /\ (u # v => lastRead'[u] = lastRead[u])
        BY DEF Depart, RInv
      <4>3. QED
        BY <4>1, <4>2 DEF MovesBack
    <3>2. QED
      BY <3>1
  <2>2. \A m \in Message : Send(m) \/ Dispatch(m) => lastRead' = lastRead
    BY LoopFrame DEF Send, SendBegin, SendCheckMember, SendStore, SendTouch,
       SendFanout, SendFail
  <2>3. \A f \in Fetch : Read(f) => lastRead' = lastRead \/ FetchMark(f)
    BY DEF Read, FetchBegin, FetchPage, FetchFail
  <2>4. lastRead' # lastRead
    BY DEF MovesBack
  <2>5. QED
    BY <2>1, <2>2, <2>3, <2>4, Still DEF Next
<1>2. /\ fetch[f].pc = "mark" /\ fetch[f].user \in User /\ fetch[f].skip \in Nat
      /\ fetch[f].late \in BOOLEAN /\ Loading(f) /\ createdAt' = createdAt
  BY <1>1, ConstantsAssumption DEF FetchMark, RInv, Loading, Load
<1>3. ~fetch[f].gone /\ lastRead' = [lastRead EXCEPT ![fetch[f].user] = fetch[f].first]
  BY <1>1 DEF FetchMark, MovesBack
<1>4. fetch[f].user = u /\ lastRead'[u] = fetch[f].first
  BY <1>2, <1>3 DEF MovesBack, RInv
<1>5. fetch'[f].pc = "idle"
  BY <1>1 DEF FetchMark, Marked, NoLoad
<1>6. fetch[f].skip > 0 \/ fetch[f].late
  <2>1. SUFFICES ASSUME fetch[f].skip = 0, ~fetch[f].late PROVE FALSE
    BY <1>2
  <2>2. fetch[f].first \in Stored /\ ~Later(lastRead[u], fetch[f].first)
    BY <1>2, <1>3, <1>4, <2>1 DEF Loading, MovesBack
  <2>3. None \notin Stored
    BY ConstantsAssumption DEF Stored
  <2>4. QED
    BY <1>4, <2>2, <2>3 DEF MovesBack
<1>7. QED
  BY <1>2, <1>4, <1>5, <1>6

\* Read pointers move back in the two ways named and in no other, however many
\* loads of however many users run together.
THEOREM PointerForwardCorrect == Spec => PointerForward
<1> DEFINE Held == \A u \in User : MovesBack(u) =>
              \E f \in Fetch : /\ fetch[f].pc = "mark" /\ fetch[f].user = u
                               /\ fetch'[f].pc = "idle"
                               /\ fetch[f].skip > 0 \/ fetch[f].late
<1>1. SInv /\ Newest /\ RInv /\ [Next]_vars => Held
  BY BackStep
<1>2. SInv /\ Newest /\ RInv /\ [Next]_vars => [Held]_vars
  BY <1>1
<1>3. QED
  BY <1>2, SInit, SNext, NewestInit, NewestNext, RInit, RNext, PTL
     DEF Spec, PointerForward

-----------------------------------------------------------------------------
(* Every member is reached.  A member who stays, wants to be told, and        *)
(* neither came nor went nor met a rejected call has been connected or not    *)
(* ever since the loop began: connected, and then the live copy was for it,   *)
(* or not, and then the loop records an event.                                *)
Hoped(m) == ((steady[m] \cap Wants) \ {msg[m].sender}) \ (loop[m].failed \cup moved[m])

Emitted(m) == \A u \in Hoped(m) : u \in heard[m] \cup aside[m] \/ u \notin online
Looped(m) ==
  \A u \in Hoped(m) : \/ loop[m].pc # "done" /\ u \in loop[m].todo
                      \/ loop[m].pc = "event" /\ u = loop[m].user
                      \/ <<m, u>> \in events
                      \/ u \in online

Half(m) ==
  loop[m].pc # "none" => /\ msg[m].pc = "done" => Emitted(m)
                         /\ loop[m].pc # "members" => Looped(m)

Reached(m) ==
  /\ Over(m) /\ createdAt[m] > 0 => Missed(m) \subseteq aside[m]
  /\ ~Over(m) => Half(m)

MInv == \A m \in Message \ {Old} : Reached(m)

LEMMA MInit == Init => MInv
<1> SUFFICES ASSUME Init, NEW m \in Message \ {Old} PROVE Reached(m)
  BY DEF MInv
<1>1. createdAt[m] = 0 /\ msg[m].pc = "unsent" /\ loop[m].pc = "none"
  BY DEF Init, NoLoop
<1>2. QED
  BY <1>1 DEF Reached, Half, Over, At

\* The two halves together, when both are over.
LEMMA Ending ==
  \A m : Half(m) /\ Over(m) /\ (loop[m].pc # "none" \/ loop[m].failed = User)
           /\ steady[m] \subseteq User
         => Missed(m) \subseteq aside[m]
<1> SUFFICES ASSUME NEW m, Half(m), Over(m), steady[m] \subseteq User,
                    loop[m].pc # "none" \/ loop[m].failed = User, NEW u \in Missed(m)
             PROVE  u \in aside[m]
  OBVIOUS
<1>1. u \in steady[m] /\ u \notin loop[m].failed /\ u \in Hoped(m) /\ u \notin heard[m]
      /\ <<m, u>> \notin events
  BY DEF Missed, Hoped
<1>2. loop[m].pc = "done" /\ msg[m].pc = "done"
  BY <1>1 DEF Over, At
<1>3. QED
  BY <1>1, <1>2 DEF Half, Emitted, Looped

LEMMA EndingNext ==
  \A m : Half(m)' /\ Over(m)' /\ (loop'[m].pc # "none" \/ loop'[m].failed = User)
           /\ steady'[m] \subseteq User
         => Missed(m)' \subseteq aside'[m]
<1>1. (\A m : Half(m) /\ Over(m) /\ (loop[m].pc # "none" \/ loop[m].failed = User)
                /\ steady[m] \subseteq User
              => Missed(m) \subseteq aside[m])'
  BY Ending, PTL
<1>2. QED
  BY <1>1

\* A message that is over, and one that others' steps leave alone.
LEMMA MSame ==
  ASSUME NEW m \in Message, Reached(m),
         msg'[m] = msg[m], loop'[m] = loop[m], createdAt'[m] = createdAt[m],
         heard'[m] = heard[m], aside'[m] = aside[m], events \subseteq events',
         steady'[m] = steady[m], moved'[m] = moved[m],
         Over(m) \/ online' = online
  PROVE  Reached(m)'
<1>1. CASE Over(m)
  BY <1>1 DEF Reached, Over, At, Missed
<1>2. CASE ~Over(m) /\ online' = online
  BY <1>2 DEF Reached, Over, At, Half, Emitted, Looped, Hoped
<1>3. QED
  BY <1>1, <1>2

\* Users come and go.
LEMMA MClient ==
  ASSUME SInv, NEW u \in User, Client(u), NEW m \in Message, Reached(m)
  PROVE  Reached(m)'
<1>1. UNCHANGED <<msg, createdAt, loop, heard, events>> /\ aside' = aside
  BY DEF Client, Join, Depart, Evict, Subscribe, Connect, Disconnect, aux
<1>2. /\ steady'[m] \subseteq steady[m] /\ moved[m] \subseteq moved'[m]
      /\ ~Underway(m) => steady'[m] = steady[m] /\ moved'[m] = moved[m]
  BY DEF Client, Join, Depart, Evict, Subscribe, Connect, Disconnect, Move, aux,
     SInv, SendTyped
<1>3. CASE Over(m)
  BY <1>1, <1>2, <1>3, MSame DEF Underway
<1>4. CASE ~Over(m)
  <2>1. Over(m)' <=> Over(m)
    BY <1>1 DEF Over, At
  <2>2. loop[m].pc # "none" => Underway(m)
    BY <1>4 DEF Underway, At, SInv, Phase, Unstored
  <2>3. loop[m].pc # "none" => \A v : v \notin moved'[m] => (v \in online' <=> v \in online)
    <3>1. CASE Connect(u) \/ Disconnect(u)
      BY <2>2, <3>1 DEF Connect, Disconnect, Move, LoopAt
    <3>2. CASE Join(u) \/ Depart(u) \/ Evict(u) \/ Subscribe(u)
      BY <3>2 DEF Join, Depart, Evict, Subscribe, sockets
    <3>3. QED
      BY <3>1, <3>2 DEF Client
  <2>4. Hoped(m)' \subseteq Hoped(m) /\ \A v \in Hoped(m)' : v \notin moved'[m]
    BY <1>1, <1>2 DEF Hoped
  <2>5. Half(m)
    BY <1>4 DEF Reached
  <2>6. Half(m)'
    BY <1>1, <2>3, <2>4, <2>5 DEF Half, Emitted, Looped
  <2>7. QED
    BY <1>4, <2>1, <2>6 DEF Reached
<1>5. QED
  BY <1>3, <1>4

\* A step of the request of a message.
LEMMA MSend ==
  ASSUME SInv, OInv, NEW m \in Message, Send(m), Reached(m)
  PROVE  Reached(m)'
<1>1. /\ ~Over(m) /\ Half(m) /\ Phase(m) /\ loop[m] \in Loop /\ msg[m] \in Sending
  <2>1. ~Over(m)
    BY DEF Send, SendBegin, SendCheckMember, SendStore, SendTouch, SendFanout,
       SendFail, Over, At
  <2>2. QED
    BY <2>1 DEF Reached, SInv, SendTyped
<1>2. UNCHANGED <<members, online, room, events>>
  BY DEF Send, SendBegin, SendCheckMember, SendStore, SendTouch, SendFanout,
     SendFail, sockets
<1>3. steady'[m] \subseteq User
  <2>1. SInv'
    BY SSend
  <2>2. QED
    BY <2>1 DEF SInv, SendTyped
\* Before the loop there is nothing to show of a request that goes on.
<1>4. CASE loop'[m].pc = "none" /\ (createdAt'[m] = 0 \/ msg'[m].pc # "done")
  BY <1>4 DEF Reached, Half, Over, At
<1>5. ASSUME Half(m)', loop'[m].pc # "none" \/ loop'[m].failed = User PROVE Reached(m)'
  BY <1>3, <1>5, EndingNext DEF Reached
<1>6. CASE \E u \in User, kind \in {"text", "file"} : SendBegin(m, u, kind)
  BY <1>1, <1>4, <1>6 DEF SendBegin, SInv, SendTyped, Phase, At, Unstored
<1>7. CASE SendCheckMember(m)
  BY <1>1, <1>4, <1>7 DEF SendCheckMember, SInv, SendTyped, Phase, At, Unstored
<1>8. CASE SendStore(m)
  BY <1>1, <1>4, <1>8 DEF SendStore, Go, SInv, SendTyped, Sending, Phase, At, Unstored
<1>9. CASE SendTouch(m)
  <2>1. loop'[m].pc = "members" /\ loop'[m].failed = loop[m].failed
    BY <1>1, <1>9 DEF SendTouch, Loop, SInv, SendTyped
  <2>2. msg'[m].pc = "done" => heard'[m] = room /\ aside'[m] = online \ room
    BY <1>1, <1>9 DEF SendTouch, Go, SInv, SendTyped, Sending
  <2>3. Half(m)'
    BY <1>2, <2>1, <2>2 DEF Half, Emitted
  <2>4. QED
    BY <1>5, <2>1, <2>3
<1>10. CASE SendFanout(m)
  <2>1. /\ loop'[m] = loop[m] /\ heard'[m] = members \cap online
        /\ msg[m].pc = "fanout" /\ msg'[m].pc = "done" /\ msg'[m].sender = msg[m].sender
        /\ UNCHANGED <<steady, moved, aside>>
    BY <1>1, <1>10 DEF SendFanout, Go, SInv, SendTyped, Sending, At, aux
  <2>2. steady[m] \subseteq members
    BY <2>1 DEF OInv, Within, Underway, Over, At
  <2>3. Emitted(m)'
    BY <1>2, <2>1, <2>2 DEF Emitted, Hoped
  <2>4. Looped(m) => Looped(m)'
    BY <1>2, <2>1 DEF Looped, Hoped
  <2>5. Half(m)'
    BY <1>1, <2>1, <2>3, <2>4 DEF Half
  <2>6. loop[m].pc # "none"
    BY <1>1, <2>1 DEF Phase
  <2>7. QED
    BY <1>5, <2>1, <2>5, <2>6
<1>11. CASE SendFail(m)
  <2>1. /\ loop'[m].pc = loop[m].pc /\ loop'[m].todo = loop[m].todo
        /\ loop'[m].user = loop[m].user
        /\ loop'[m].failed = loop[m].failed \cup IF At(m, "fanout") THEN online ELSE User
        /\ msg'[m].pc = "done" /\ msg'[m].sender = msg[m].sender
        /\ msg[m].pc \notin {"unsent", "done"}
        /\ UNCHANGED <<steady, moved, aside, heard, createdAt>>
    BY <1>1, <1>11 DEF SendFail, Go, SInv, SendTyped, Sending, Loop, At, aux
  <2>2. Hoped(m)' \subseteq Hoped(m) \ online
    <3>1. Hoped(m)' \subseteq steady[m] /\ steady[m] \subseteq User
      BY <2>1 DEF Hoped, SInv, SendTyped
    <3>2. QED
      BY <2>1, <3>1 DEF Hoped
  <2>3. Emitted(m)'
    BY <1>2, <2>2 DEF Emitted
  <2>4. Looped(m) => Looped(m)'
    BY <1>2, <2>1, <2>2 DEF Looped
  <2>5. Half(m)'
    BY <1>1, <2>1, <2>3, <2>4 DEF Half
  <2>6. CASE loop[m].pc # "none"
    BY <1>5, <2>1, <2>5, <2>6
  <2>7. CASE loop[m].pc = "none"
    <3>1. ~At(m, "fanout")
      BY <1>1, <2>7 DEF Phase, At
    <3>2. loop'[m].failed = User
      BY <1>1, <2>1, <3>1 DEF Loop
    <3>3. QED
      BY <1>5, <2>5, <3>2
  <2>8. QED
    BY <2>6, <2>7
<1>12. QED
  BY <1>6, <1>7, <1>8, <1>9, <1>10, <1>11 DEF Send

\* A step of the loop of a message.
LEMMA MDispatch ==
  ASSUME SInv, OInv, NEW m \in Message, Dispatch(m), Reached(m)
  PROVE  Reached(m)'
<1>1. UNCHANGED <<members, online, room, msg, createdAt, heard, fetch, lastRead,
                  steady, during, moved, aside>>
  BY LoopFrame
<1>2. ~Over(m) /\ Half(m) /\ loop[m].pc \in {"members", "next", "event"}
  <2>1. loop[m].pc \in {"members", "next", "event"}
    BY DEF Dispatch, LoopMembers, LoopNext, LoopEvent, LoopEnd, LoopFail, LoopAt
  <2>2. QED
    BY <2>1 DEF Reached, Over
<1>3. PICK l : /\ LoopStep(m, l)
                /\ \/ /\ LoopMembers(m) /\ l.pc = "next"
                      /\ l.todo = members \ {msg[m].sender}
                      /\ l.user = loop[m].user /\ l.failed = loop[m].failed
                   \/ /\ LoopAt(m, "next") /\ l.failed = loop[m].failed
                      /\ events' = events
                      /\ \E u \in loop[m].todo :
                           /\ l.todo = loop[m].todo \ {u}
                           /\ l.pc = IF u \in Wants \ online THEN "event" ELSE "next"
                           /\ l.user = IF u \in Wants \ online THEN u ELSE None
                   \/ /\ LoopEvent(m) /\ l.pc = "next" /\ l.user = None
                      /\ l.todo = loop[m].todo /\ l.failed = loop[m].failed
                   \/ /\ LoopEnd(m) /\ l.pc = "done" /\ l.user = loop[m].user
                      /\ l.todo = loop[m].todo /\ l.failed = loop[m].failed
                   \/ /\ LoopFail(m) /\ l.pc = "done" /\ l.failed = User
                      /\ l.todo = loop[m].todo /\ l.user = loop[m].user
                   \/ /\ LoopFail(m) /\ LoopAt(m, "event") /\ l.pc = "next"
                      /\ l.user = None /\ l.todo = loop[m].todo
                      /\ l.failed = loop[m].failed \cup {loop[m].user}
  BY LoopSlots
<1>4. loop'[m] = l /\ l.pc # "none"
  BY <1>3, LoopOthers DEF LoopStep
<1>5. events \subseteq events'
  BY DEF Dispatch, LoopMembers, LoopNext, LoopEvent, LoopEnd, LoopFail
<1>6. Hoped(m)' \subseteq Hoped(m)
  <2>1. loop[m].failed \subseteq l.failed
    BY <1>3 DEF SInv, SendTyped, Loop
  <2>2. QED
    BY <1>1, <1>4, <2>1 DEF Hoped
<1>7. Emitted(m) => Emitted(m)'
  BY <1>1, <1>6 DEF Emitted
<1>8. l.pc # "members" => Looped(m)'
  <2>1. CASE /\ LoopMembers(m) /\ l.pc = "next" /\ l.todo = members \ {msg[m].sender}
    <3>1. steady[m] \subseteq members
      BY <1>2, <2>1 DEF LoopMembers, LoopAt, OInv, Within, Underway, At, SInv, Phase,
         Unstored
    <3>2. QED
      BY <1>1, <1>4, <2>1, <3>1 DEF Looped, Hoped
  <2>2. CASE /\ LoopAt(m, "next") /\ events' = events
             /\ \E u \in loop[m].todo :
                  /\ l.todo = loop[m].todo \ {u}
                  /\ l.pc = IF u \in Wants \ online THEN "event" ELSE "next"
                  /\ l.user = IF u \in Wants \ online THEN u ELSE None
    <3>1. PICK u \in loop[m].todo :
                  /\ l.todo = loop[m].todo \ {u}
                  /\ l.pc = IF u \in Wants \ online THEN "event" ELSE "next"
                  /\ l.user = IF u \in Wants \ online THEN u ELSE None
      BY <2>2
    <3>2. Looped(m) /\ loop[m].pc = "next"
      BY <1>2, <2>2 DEF Half, LoopAt
    <3>3. Hoped(m)' \subseteq Wants
      BY DEF Hoped
    <3>4. QED
      BY <1>1, <1>4, <1>6, <2>2, <3>1, <3>2, <3>3 DEF Looped
  <2>3. CASE /\ LoopEvent(m) /\ l.pc = "next" /\ l.todo = loop[m].todo
    <3>1. /\ Looped(m) /\ loop[m].pc = "event" /\ <<m, loop[m].user>> \in events'
      BY <1>2, <2>3 DEF Half, LoopEvent, LoopAt
    <3>2. QED
      BY <1>1, <1>4, <1>5, <1>6, <2>3, <3>1 DEF Looped
  <2>4. CASE LoopEnd(m)
    <3>1. /\ Looped(m) /\ loop[m].pc = "next" /\ loop[m].todo = {}
      BY <1>2, <2>4 DEF Half, LoopEnd, LoopAt
    <3>2. QED
      BY <1>1, <1>5, <1>6, <3>1 DEF Looped
  <2>5. CASE l.failed = User
    <3>1. Hoped(m)' = {}
      BY <1>1, <1>4, <2>5 DEF Hoped, SInv, SendTyped
    <3>2. QED
      BY <3>1 DEF Looped
  <2>6. CASE /\ LoopAt(m, "event") /\ l.pc = "next" /\ l.todo = loop[m].todo
             /\ l.failed = loop[m].failed \cup {loop[m].user}
    <3>1. Looped(m) /\ loop[m].pc = "event"
      BY <1>2, <2>6 DEF Half, LoopAt
    <3>2. loop[m].user \notin Hoped(m)'
      BY <1>4, <2>6 DEF Hoped
    <3>3. QED
      BY <1>1, <1>4, <1>5, <1>6, <2>6, <3>1, <3>2 DEF Looped
  <2>7. QED
    BY <1>3, <2>1, <2>2, <2>3, <2>4, <2>5, <2>6
<1>9. Half(m)'
  BY <1>1, <1>2, <1>4, <1>7, <1>8 DEF Half
<1>10. QED
  BY <1>1, <1>4, <1>9, EndingNext DEF Reached, SInv, SendTyped

LEMMA MNext == SInv /\ OInv /\ MInv /\ [Next]_vars => MInv'
<1> SUFFICES ASSUME SInv, OInv, MInv, [Next]_vars, NEW m \in Message \ {Old}
             PROVE  Reached(m)'
  BY DEF MInv
<1>1. Reached(m)
  BY DEF MInv
<1>2. CASE UNCHANGED vars
  BY <1>1, <1>2, Still, MSame
<1>3. ASSUME NEW u \in Active, Client(u) PROVE Reached(m)'
  BY <1>1, <1>3, MClient, ConstantsAssumption
<1>4. ASSUME NEW f \in Fetch, Read(f) PROVE Reached(m)'
  BY <1>1, <1>4, ReadFrame, MSame
<1>5. ASSUME NEW n \in Message, Send(n) PROVE Reached(m)'
  <2>1. CASE n = m
    BY <1>1, <1>5, <2>1, MSend
  <2>2. CASE n # m
    <3>1. /\ msg'[m] = msg[m] /\ createdAt'[m] = createdAt[m] /\ loop'[m] = loop[m]
          /\ heard'[m] = heard[m] /\ aside'[m] = aside[m] /\ steady'[m] = steady[m]
          /\ moved'[m] = moved[m] /\ events' = events /\ online' = online
      BY <1>5, <2>2 DEF Send, SendBegin, SendCheckMember, SendStore, SendTouch,
         SendFanout, SendFail, Go, SInv, SendTyped, aux, sockets
    <3>2. QED
      BY <1>1, <3>1, MSame
  <2>3. QED
    BY <2>1, <2>2
<1>6. ASSUME NEW n \in Message, Dispatch(n) PROVE Reached(m)'
  <2>1. CASE n = m
    BY <1>1, <1>6, <2>1, MDispatch
  <2>2. CASE n # m
    <3>1. PICK l : LoopStep(n, l)
      BY <1>6, LoopSlots
    <3>2. loop'[m] = loop[m]
      BY <2>2, <3>1, LoopOthers
    <3>3. events \subseteq events'
      BY <1>6 DEF Dispatch, LoopMembers, LoopNext, LoopEvent, LoopEnd, LoopFail
    <3>4. QED
      BY <1>1, <1>6, <3>2, <3>3, LoopFrame, MSame
  <2>3. QED
    BY <2>1, <2>2
<1>7. QED
  BY <1>2, <1>3, <1>4, <1>5, <1>6 DEF Next

\* No member falls between the live copy and the loop, for any number of them,
\* of messages and of comings and goings.
THEOREM ReachesMemberCorrect == Spec => []ReachesMember
<1>1. MInv => ReachesMember
  BY DEF MInv, Reached, ReachesMember, Stored
<1>2. QED
  BY <1>1, SInit, SNext, OInit, ONext, MInit, MNext, PTL DEF Spec
=============================================================================
