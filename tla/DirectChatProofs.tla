-------------------------- MODULE DirectChatProofs --------------------------
(***************************************************************************)
(* Theorems about DirectChat: type correctness, the effect of a block, the  *)
(* clash over a new room, and that messages reach their receivers.          *)
(***************************************************************************)
EXTENDS DirectChat, FiniteSetTheorems, TLAPS

Stages == {"unsent"} \cup SendStages \cup DispatchStages \cup FinalStages
AllStages == /\ Stages = {"unsent", "block", "room", "create", "store", "touch",
                          "prefs", "newprefs", "presence", "event", "blocked",
                          "clash", "failed", "done"}
             /\ SendStages = {"block", "room", "create", "store", "touch"}
             /\ DispatchStages = {"prefs", "newprefs", "presence", "event"}

LEMMA StageNames == AllStages
  BY DEF AllStages, Stages, SendStages, DispatchStages, FinalStages

\* What a change of stage does to the messages.
LEMMA Moved ==
  ASSUME TypeOK, NEW m \in Msg, NEW s \in Stages, Go(m, s)
  PROVE  /\ msg' \in [Msg -> Message]
         /\ msg'[m].stage = s
         /\ msg'[m].from = msg[m].from /\ msg'[m].to = msg[m].to
         /\ \A n \in Msg \ {m} : msg'[n] = msg[n]
<1> DEFINE q == [msg[m] EXCEPT !.stage = s]
<1>1. msg \in [Msg -> Message] /\ msg[m] \in Message
  BY DEF TypeOK
<1>2. /\ q \in Message
      /\ q.stage = s /\ q.from = msg[m].from /\ q.to = msg[m].to
  BY <1>1 DEF Message, Stages
<1>3. msg' = [msg EXCEPT ![m] = q]
  BY DEF Go
<1> HIDE DEF q
<1>4. QED
  BY <1>1, <1>2, <1>3

\* What the request that sends a message puts down.
LEMMA Begun ==
  ASSUME TypeOK, NEW m \in Msg, NEW u \in User, NEW v \in User, SendBegin(m, u, v)
  PROVE  /\ msg' \in [Msg -> Message]
         /\ msg'[m].stage = "block" /\ msg'[m].from = u /\ msg'[m].to = v
         /\ \A n \in Msg \ {m} : msg'[n] = msg[n]
<1> DEFINE q == [stage |-> "block", from |-> u, to |-> v]
<1>1. q \in Message
  BY StageNames DEF Message, AllStages
<1>2. q.stage = "block" /\ q.from = u /\ q.to = v
  OBVIOUS
<1>3. msg' = [msg EXCEPT ![m] = q]
  BY DEF SendBegin
<1> HIDE DEF q
<1>4. QED
  BY <1>1, <1>2, <1>3 DEF TypeOK

\* The two ids in either order give the same pair, and no other users.
LEMMA SortedPair ==
  ASSUME NEW u \in User, NEW v \in User
  PROVE  /\ Sorted(u, v) = <<u, v>> \/ Sorted(u, v) = <<v, u>>
         /\ Sorted(u, v) = Sorted(v, u)
<1> DEFINE S == {<<u, v>>, <<v, u>>}
<1>1. S = {<<v, u>>, <<u, v>>}
  OBVIOUS
<1>2. \E pair \in S : TRUE
  OBVIOUS
<1>3. (CHOOSE pair \in S : TRUE) \in S
  <2> HIDE DEF S
  <2>1. QED
    BY <1>2
<1>4. Sorted(u, v) = CHOOSE pair \in S : TRUE
  BY DEF Sorted
<1>5. Sorted(v, u) = CHOOSE pair \in S : TRUE
  BY <1>1 DEF Sorted
<1>6. QED
  BY <1>3, <1>4, <1>5

-----------------------------------------------------------------------------
\* A message has its users once its sending began, its Chat document from the
\* store on and not before; a page shows documents that exist.
PlacedAt(m) ==
  /\ ~At(m, "unsent") => msg[m].from \in User /\ msg[m].to \in User
  /\ msg[m].stage \in {"unsent", "block"} => createdAt[m] = 0
  /\ msg[m].stage \in {"touch"} \cup DispatchStages => createdAt[m] > 0
Placed ==
  /\ \A m \in Msg : PlacedAt(m)
  /\ \A u \in User : fetch[u].page \subseteq Stored

Typed == TypeOK /\ Placed

LEMMA TypedInit == Init => Typed
<1> SUFFICES ASSUME Init PROVE Typed
  OBVIOUS
<1>1. [stage |-> "unsent", from |-> Nobody, to |-> Nobody] \in Message
  BY DEF Message
<1>2. NoFetch \in Fetch /\ NoFetch.page = {}
  BY DEF NoFetch, Fetch
<1>3. TypeOK
  BY <1>1, <1>2, ConstantsAssumption DEF Init, TypeOK
<1>4. \A m \in Msg : msg[m].stage = "unsent" /\ createdAt[m] = 0
  BY DEF Init
<1>5. Placed
  BY <1>2, <1>4, StageNames DEF Init, Placed, PlacedAt, At, AllStages
<1>6. QED
  BY <1>3, <1>5 DEF Typed

\* A message that moves on without being stored stays well placed.
LEMMA PlacedGo ==
  ASSUME Typed, NEW m \in Msg, NEW s \in Stages \ {"unsent", "block"}, Go(m, s),
         ~At(m, "unsent"), createdAt' = createdAt,
         s \in {"touch"} \cup DispatchStages => createdAt[m] > 0
  PROVE  msg' \in [Msg -> Message] /\ \A n \in Msg : PlacedAt(n)'
<1>1. TypeOK /\ \A n \in Msg : PlacedAt(n)
  BY DEF Typed, Placed
<1>2. /\ msg' \in [Msg -> Message]
      /\ msg'[m].stage = s
      /\ msg'[m].from = msg[m].from /\ msg'[m].to = msg[m].to
      /\ \A n \in Msg \ {m} : msg'[n] = msg[n]
  BY <1>1, Moved
<1>3. PlacedAt(m)'
  BY <1>1, <1>2 DEF PlacedAt, At
<1>4. \A n \in Msg \ {m} : PlacedAt(n)'
  BY <1>1, <1>2 DEF PlacedAt, At
<1>5. QED
  BY <1>2, <1>3, <1>4

LEMMA StoredStays ==
  ASSUME createdAt' = createdAt PROVE Stored' = Stored
  BY DEF Stored

LEMMA TypedStep == Typed /\ [Next]_vars => Typed'
<1> SUFFICES ASSUME Typed, [Next]_vars PROVE Typed'
  OBVIOUS
<1> USE StageNames DEF AllStages
<1>a. TypeOK /\ (\A m \in Msg : PlacedAt(m)) /\ \A u \in User : fetch[u].page \subseteq Stored
  BY DEF Typed, Placed
<1>1. CASE UNCHANGED vars
  BY <1>1, <1>a DEF vars, mail, marks, notice, access, socket, TypeOK, Typed,
     Placed, PlacedAt, At, Stored
<1>2. ASSUME NEW m \in Msg, NEW u \in User, NEW v \in User, SendBegin(m, u, v)
      PROVE  Typed'
  <2>1. At(m, "unsent") /\ Stored' = Stored
    BY <1>2, StoredStays DEF SendBegin
  <2>2. TypeOK'
    BY <1>a, <1>2, <2>1, Begun DEF SendBegin, TypeOK, marks, notice, socket
  <2>3. PlacedAt(m)'
    BY <1>a, <1>2, <2>1, Begun DEF SendBegin, PlacedAt, At
  <2>4. \A n \in Msg \ {m} : PlacedAt(n)'
    BY <1>a, <1>2, Begun DEF SendBegin, PlacedAt, At
  <2>5. QED
    BY <1>a, <1>2, <2>1, <2>2, <2>3, <2>4 DEF SendBegin, marks, Typed, Placed
<1>3. ASSUME NEW m \in Msg, SendCheckBlock(m)
      PROVE  Typed'
  <2>1. PICK s \in {"blocked", "room"} : Go(m, s)
    BY <1>3 DEF SendCheckBlock
  <2>2. /\ ~At(m, "unsent") /\ createdAt' = createdAt /\ fetch' = fetch
        /\ s \in {"touch"} \cup DispatchStages => createdAt[m] > 0
    BY <1>a, <1>3, <2>1 DEF SendCheckBlock, At, PlacedAt, mail, marks
  <2>3. s \in Stages \ {"unsent", "block"} /\ Stored' = Stored
    BY <2>1, <2>2, StoredStays
  <2>4. msg' \in [Msg -> Message] /\ \A n \in Msg : PlacedAt(n)'
    BY <2>1, <2>2, <2>3, PlacedGo
  <2>5. TypeOK'
    BY <1>a, <1>3, <2>3, <2>4 DEF SendCheckBlock, TypeOK, mail, marks, notice, access, socket
  <2>6. QED
    BY <1>a, <2>2, <2>3, <2>4, <2>5 DEF Typed, Placed
<1>4. ASSUME NEW m \in Msg, SendFindRoom(m)
      PROVE  Typed'
  <2>1. PICK s \in {"store", "create"} : Go(m, s)
    BY <1>4 DEF SendFindRoom
  <2>2. /\ ~At(m, "unsent") /\ createdAt' = createdAt /\ fetch' = fetch
        /\ s \in {"touch"} \cup DispatchStages => createdAt[m] > 0
    BY <1>a, <1>4, <2>1 DEF SendFindRoom, At, PlacedAt, mail, marks
  <2>3. s \in Stages \ {"unsent", "block"} /\ Stored' = Stored
    BY <2>1, <2>2, StoredStays
  <2>4. msg' \in [Msg -> Message] /\ \A n \in Msg : PlacedAt(n)'
    BY <2>1, <2>2, <2>3, PlacedGo
  <2>5. TypeOK'
    BY <1>a, <1>4, <2>3, <2>4 DEF SendFindRoom, TypeOK, mail, marks, notice, access, socket
  <2>6. QED
    BY <1>a, <2>2, <2>3, <2>4, <2>5 DEF Typed, Placed
<1>5. ASSUME NEW m \in Msg, SendCreateRoom(m)
      PROVE  Typed'
  <2> DEFINE pair == Sorted(msg[m].from, msg[m].to)
  <2>1. PICK s \in {"clash", "store"} : Go(m, s)
    BY <1>5 DEF SendCreateRoom
  <2>2. /\ ~At(m, "unsent") /\ createdAt' = createdAt /\ fetch' = fetch
        /\ msg[m].from \in User /\ msg[m].to \in User
    BY <1>a, <1>5 DEF SendCreateRoom, At, PlacedAt, marks
  <2>3. s \in Stages \ {"unsent", "block"} /\ Stored' = Stored
    BY <2>1, <2>2, StoredStays
  <2>4. msg' \in [Msg -> Message] /\ \A n \in Msg : PlacedAt(n)'
    BY <2>1, <2>2, <2>3, PlacedGo
  <2>5. pair \in User \X User
    BY <2>2, SortedPair
  <2>6. rooms' = rooms \cup {pair}
    BY <1>5 DEF SendCreateRoom
  <2>7. TypeOK'
    BY <1>a, <1>5, <2>3, <2>4, <2>5, <2>6 DEF SendCreateRoom, TypeOK, marks,
       notice, access, socket
  <2>8. QED
    BY <1>a, <2>2, <2>3, <2>4, <2>7 DEF Typed, Placed
<1>6. ASSUME NEW m \in Msg, SendStore(m)
      PROVE  Typed'
  <2>1. /\ msg' \in [Msg -> Message]
        /\ msg'[m].stage = "touch"
        /\ msg'[m].from = msg[m].from /\ msg'[m].to = msg[m].to
        /\ \A n \in Msg \ {m} : msg'[n] = msg[n]
    BY <1>a, <1>6, Moved DEF SendStore
  <2>2. Cardinality(Stored) \in Nat
    BY FS_Subset, FS_CardinalityType, ConstantsAssumption DEF Stored
  <2>3. /\ createdAt' \in [Msg -> Nat] /\ createdAt'[m] > 0
        /\ \A n \in Msg \ {m} : createdAt'[n] = createdAt[n]
    BY <1>a, <1>6, <2>2 DEF SendStore, TypeOK
  <2>4. Stored \subseteq Stored'
    BY <2>3 DEF Stored
  <2>5. TypeOK'
    BY <1>a, <1>6, <2>1, <2>3, <2>4 DEF SendStore, TypeOK, marks, notice, access, socket
  <2>6. PlacedAt(m)' /\ \A n \in Msg \ {m} : PlacedAt(n)'
    BY <1>a, <1>6, <2>1, <2>3 DEF SendStore, PlacedAt, At
  <2>7. QED
    BY <1>a, <1>6, <2>4, <2>5, <2>6 DEF SendStore, marks, Typed, Placed
<1>7. ASSUME NEW m \in Msg, SendTouch(m)
      PROVE  Typed'
  <2>1. Go(m, "prefs") /\ ~At(m, "unsent") /\ createdAt' = createdAt /\ fetch' = fetch
    BY <1>7 DEF SendTouch, At, mail, marks
  <2>2. createdAt[m] > 0 /\ Stored' = Stored
    BY <1>a, <1>7, <2>1, StoredStays DEF SendTouch, At, PlacedAt
  <2>3. msg' \in [Msg -> Message] /\ \A n \in Msg : PlacedAt(n)'
    BY <2>1, <2>2, PlacedGo
  <2>4. live' \subseteq Stored
    BY <1>a, <1>7, <2>2 DEF SendTouch, TypeOK, Stored
  <2>5. TypeOK'
    BY <1>a, <1>7, <2>2, <2>3, <2>4 DEF SendTouch, TypeOK, mail, marks, notice, access
  <2>6. QED
    BY <1>a, <2>1, <2>2, <2>3, <2>5 DEF Typed, Placed
<1>8. ASSUME NEW m \in Msg, DispatchPrefs(m)
      PROVE  Typed'
  <2>1. PICK s \in {"newprefs", "presence", "done"} : Go(m, s)
    BY <1>8 DEF DispatchPrefs
  <2>2. /\ ~At(m, "unsent") /\ createdAt' = createdAt /\ fetch' = fetch
        /\ s \in {"touch"} \cup DispatchStages => createdAt[m] > 0
    BY <1>a, <1>8, <2>1 DEF DispatchPrefs, At, PlacedAt, mail, marks
  <2>3. s \in Stages \ {"unsent", "block"} /\ Stored' = Stored
    BY <2>1, <2>2, StoredStays
  <2>4. msg' \in [Msg -> Message] /\ \A n \in Msg : PlacedAt(n)'
    BY <2>1, <2>2, <2>3, PlacedGo
  <2>5. TypeOK'
    BY <1>a, <1>8, <2>3, <2>4 DEF DispatchPrefs, TypeOK, mail, marks, notice, access, socket
  <2>6. QED
    BY <1>a, <2>2, <2>3, <2>4, <2>5 DEF Typed, Placed
<1>9. ASSUME NEW m \in Msg, DispatchNewPrefs(m)
      PROVE  Typed'
  <2>1. PICK s \in {"presence", "done"} : Go(m, s)
    BY <1>9 DEF DispatchNewPrefs
  <2>2. /\ ~At(m, "unsent") /\ createdAt' = createdAt /\ fetch' = fetch
        /\ createdAt[m] > 0 /\ msg[m].to \in User
    BY <1>a, <1>9 DEF DispatchNewPrefs, At, PlacedAt, mail, marks
  <2>3. s \in Stages \ {"unsent", "block"} /\ Stored' = Stored
    BY <2>1, <2>2, StoredStays
  <2>4. msg' \in [Msg -> Message] /\ \A n \in Msg : PlacedAt(n)'
    BY <2>1, <2>2, <2>3, PlacedGo
  <2>5. prefs' \subseteq User /\ overtaken' \subseteq Msg
    BY <1>a, <1>9, <2>2 DEF DispatchNewPrefs, TypeOK
  <2>6. TypeOK'
    BY <1>a, <1>9, <2>3, <2>4, <2>5 DEF DispatchNewPrefs, TypeOK, mail, marks, access, socket
  <2>7. QED
    BY <1>a, <2>2, <2>3, <2>4, <2>6 DEF Typed, Placed
<1>10. ASSUME NEW m \in Msg, DispatchPresence(m)
      PROVE  Typed'
  <2>1. PICK s \in {"done", "event"} : Go(m, s)
    BY <1>10 DEF DispatchPresence
  <2>2. /\ ~At(m, "unsent") /\ createdAt' = createdAt /\ fetch' = fetch
        /\ s \in {"touch"} \cup DispatchStages => createdAt[m] > 0
    BY <1>a, <1>10, <2>1 DEF DispatchPresence, At, PlacedAt, mail, marks
  <2>3. s \in Stages \ {"unsent", "block"} /\ Stored' = Stored
    BY <2>1, <2>2, StoredStays
  <2>4. msg' \in [Msg -> Message] /\ \A n \in Msg : PlacedAt(n)'
    BY <2>1, <2>2, <2>3, PlacedGo
  <2>5. TypeOK'
    BY <1>a, <1>10, <2>3, <2>4 DEF DispatchPresence, TypeOK, mail, marks, notice, access, socket
  <2>6. QED
    BY <1>a, <2>2, <2>3, <2>4, <2>5 DEF Typed, Placed
<1>11. ASSUME NEW m \in Msg, DispatchEvent(m)
       PROVE  Typed'
  <2>1. /\ Go(m, "done") /\ ~At(m, "unsent") /\ createdAt' = createdAt /\ fetch' = fetch
        /\ createdAt[m] > 0
    BY <1>a, <1>11 DEF DispatchEvent, At, PlacedAt, mail, marks
  <2>2. Stored' = Stored /\ m \in Stored
    BY <2>1, StoredStays DEF Stored
  <2>3. msg' \in [Msg -> Message] /\ \A n \in Msg : PlacedAt(n)'
    BY <2>1, PlacedGo
  <2>4. TypeOK'
    BY <1>a, <1>11, <2>2, <2>3 DEF DispatchEvent, TypeOK, mail, marks, access, socket
  <2>5. QED
    BY <1>a, <2>1, <2>2, <2>3, <2>4 DEF Typed, Placed
<1>12. ASSUME NEW m \in Msg, Fail(m)
      PROVE  Typed'
  <2>1. PICK s \in {"failed"} : Go(m, s)
    BY <1>12 DEF Fail
  <2>2. /\ ~At(m, "unsent") /\ createdAt' = createdAt /\ fetch' = fetch
        /\ s \in {"touch"} \cup DispatchStages => createdAt[m] > 0
    BY <1>a, <1>12, <2>1 DEF Fail, At, PlacedAt, mail, marks
  <2>3. s \in Stages \ {"unsent", "block"} /\ Stored' = Stored
    BY <2>1, <2>2, StoredStays
  <2>4. msg' \in [Msg -> Message] /\ \A n \in Msg : PlacedAt(n)'
    BY <2>1, <2>2, <2>3, PlacedGo
  <2>5. TypeOK'
    BY <1>a, <1>12, <2>3, <2>4 DEF Fail, TypeOK, mail, marks, notice, access, socket
  <2>6. QED
    BY <1>a, <2>2, <2>3, <2>4, <2>5 DEF Typed, Placed
<1>13. ASSUME NEW m \in Msg, Acknowledge(m)
       PROVE  Typed'
  BY <1>a, <1>13 DEF Acknowledge, mail, notice, access, socket, TypeOK, Typed,
     Placed, PlacedAt, At, Stored
<1>14. ASSUME NEW u \in User, FetchMark(u)
       PROVE  Typed'
  <2>1. createdAt' = createdAt /\ msg' = msg /\ Stored' = Stored
    BY <1>14, StoredStays DEF FetchMark, mail
  <2>2. NoFetch \in Fetch /\ NoFetch.page = {}
    BY DEF NoFetch, Fetch
  <2>3. /\ fetch' \in [User -> Fetch]
        /\ \A w \in User : fetch'[w] = fetch[w] \/ fetch'[w] = NoFetch
    BY <1>a, <1>14, <2>2 DEF FetchMark, TypeOK
  <2>4. \A w \in User : fetch'[w].page \subseteq Stored
    BY <1>a, <2>2, <2>3
  <2>5. read \subseteq read' /\ read' \cup shown' \subseteq Stored
    BY <1>a, <1>14 DEF FetchMark, Between, TypeOK
  <2>6. TypeOK'
    BY <1>a, <1>14, <2>1, <2>3, <2>5 DEF FetchMark, TypeOK, mail, notice, access, socket
  <2>7. \A m \in Msg : PlacedAt(m)'
    BY <1>a, <2>1 DEF PlacedAt, At
  <2>8. QED
    BY <2>1, <2>4, <2>6, <2>7 DEF Typed, Placed
<1>15. ASSUME NEW u \in User, NEW v \in User, NEW p, FetchPage(u, v, p)
       PROVE  Typed'
  <2> DEFINE q == [on |-> TRUE, with |-> v, page |-> Page(u, v, p)]
  <2>1. createdAt' = createdAt /\ msg' = msg /\ Stored' = Stored
    BY <1>15, StoredStays DEF FetchPage, mail
  <2>2. q.page \subseteq Stored /\ q \in Fetch
    BY DEF Page, Between, Stored, Fetch
  <2>3. fetch' = [fetch EXCEPT ![u] = q]
    BY <1>15 DEF FetchPage
  <2> HIDE DEF q
  <2>4. /\ fetch' \in [User -> Fetch]
        /\ \A w \in User : fetch'[w] = fetch[w] \/ fetch'[w] = q
    BY <1>a, <2>2, <2>3 DEF TypeOK
  <2>5. \A w \in User : fetch'[w].page \subseteq Stored
    BY <1>a, <2>2, <2>4
  <2>6. TypeOK'
    BY <1>a, <1>15, <2>1, <2>4 DEF FetchPage, TypeOK, mail, notice, access, socket
  <2>7. \A m \in Msg : PlacedAt(m)'
    BY <1>a, <2>1 DEF PlacedAt, At
  <2>8. QED
    BY <2>1, <2>5, <2>6, <2>7 DEF Typed, Placed
<1>16. ASSUME NEW u \in User,
              \/ Connect(u) \/ Disconnect(u)
              \/ \E v \in User : Block(u, v) \/ Unblock(u, v)
       PROVE  Typed'
  <2>1. createdAt' = createdAt /\ msg' = msg /\ fetch' = fetch /\ Stored' = Stored
    BY <1>16, StoredStays DEF Connect, Disconnect, Block, Unblock, mail, marks
  <2>2. CASE Connect(u) \/ Disconnect(u)
    BY <1>a, <2>1, <2>2 DEF Connect, Disconnect, TypeOK, Typed, Placed, PlacedAt,
       At, mail, marks, notice, access
  <2>3. ASSUME NEW v \in User, Block(u, v) \/ Unblock(u, v)
        PROVE  Typed'
    BY <1>a, <2>1, <2>3 DEF Block, Unblock, TypeOK, Typed, Placed, PlacedAt, At,
       mail, marks, notice, socket
  <2>4. QED
    BY <1>16, <2>2, <2>3
<1>17. QED
  BY <1>1, <1>2, <1>3, <1>4, <1>5, <1>6, <1>7, <1>8, <1>9, <1>10, <1>11, <1>12,
     <1>13, <1>14, <1>15, <1>16, ConstantsAssumption DEF Next, Send, DispatchChat

\* Rooms, blocks, messages, marks and events are well typed in every reachable
\* state: what is read, shown or notified of is a message that exists, and a
\* delivered message is a read one.
THEOREM TypeCorrect == Spec => []TypeOK
<1>1. Typed => TypeOK
  BY DEF Typed
<1>2. QED
  BY TypedInit, TypedStep, <1>1, PTL DEF Spec

-----------------------------------------------------------------------------
\* Lemmas for the invariants below: the stage of each message after a step.
\* Only the action that starts a sending touches the users of a message.
OnlyMoves(m, from, to) ==
  /\ msg[m].stage \in from
  /\ msg'[m].stage \in to
  /\ msg'[m].from = msg[m].from /\ msg'[m].to = msg[m].to
  /\ \A n \in Msg \ {m} : msg'[n] = msg[n]

LEMMA Moves ==
  ASSUME Typed, NEW m \in Msg
  PROVE  /\ SendCheckBlock(m) => OnlyMoves(m, {"block"}, {"blocked", "room"})
         /\ SendFindRoom(m) => OnlyMoves(m, {"room"}, {"store", "create"})
         /\ SendCreateRoom(m) => OnlyMoves(m, {"create"}, {"clash", "store"})
         /\ SendStore(m) => OnlyMoves(m, {"store"}, {"touch"})
         /\ SendTouch(m) => OnlyMoves(m, {"touch"}, {"prefs"})
         /\ DispatchPrefs(m) => OnlyMoves(m, {"prefs"}, {"newprefs", "presence", "done"})
         /\ DispatchNewPrefs(m) => OnlyMoves(m, {"newprefs"}, {"presence", "done"})
         /\ DispatchPresence(m) => OnlyMoves(m, {"presence"}, {"event", "done"})
         /\ DispatchEvent(m) => OnlyMoves(m, {"event"}, {"done"})
         /\ Fail(m) => OnlyMoves(m, SendStages \cup DispatchStages, {"failed"})
<1> USE StageNames, Moved DEF AllStages, OnlyMoves, At, Typed
<1>1. SendCheckBlock(m) => OnlyMoves(m, {"block"}, {"blocked", "room"})
  BY DEF SendCheckBlock
<1>2. SendFindRoom(m) => OnlyMoves(m, {"room"}, {"store", "create"})
  BY DEF SendFindRoom
<1>3. SendCreateRoom(m) => OnlyMoves(m, {"create"}, {"clash", "store"})
  BY DEF SendCreateRoom
<1>4. SendStore(m) => OnlyMoves(m, {"store"}, {"touch"})
  BY DEF SendStore
<1>5. SendTouch(m) => OnlyMoves(m, {"touch"}, {"prefs"})
  BY DEF SendTouch
<1>6. DispatchPrefs(m) => OnlyMoves(m, {"prefs"}, {"newprefs", "presence", "done"})
  BY DEF DispatchPrefs
<1>7. DispatchNewPrefs(m) => OnlyMoves(m, {"newprefs"}, {"presence", "done"})
  BY DEF DispatchNewPrefs
<1>8. DispatchPresence(m) => OnlyMoves(m, {"presence"}, {"event", "done"})
  BY DEF DispatchPresence
<1>9. DispatchEvent(m) => OnlyMoves(m, {"event"}, {"done"})
  BY DEF DispatchEvent
<1>10. Fail(m) => OnlyMoves(m, SendStages \cup DispatchStages, {"failed"})
  BY DEF Fail
<1>11. QED
  BY <1>1, <1>2, <1>3, <1>4, <1>5, <1>6, <1>7, <1>8, <1>9, <1>10

-----------------------------------------------------------------------------
\* A message that was sent under a block which lasts waits for the check of
\* the block, or has been refused; nobody blocks oneself.
Refused(m) == /\ msg[m].stage \in {"block", "blocked", "failed"}
              /\ createdAt[m] = 0
              /\ Blocked(msg[m].from, msg[m].to)
BlockInv == /\ \A m \in barred : Refused(m)
            /\ \A u \in User : <<u, u>> \notin blocks

LEMMA BlockStep == Typed /\ BlockInv /\ [Next]_vars => BlockInv'
<1> SUFFICES ASSUME Typed, BlockInv, [Next]_vars PROVE BlockInv'
  OBVIOUS
<1> USE StageNames DEF AllStages
<1>a. barred \subseteq Msg
  BY DEF Typed, TypeOK
<1>1. CASE UNCHANGED vars
  BY <1>1 DEF vars, mail, access, BlockInv, Refused, Blocked
<1>2. ASSUME NEW m \in Msg, NEW u \in User, NEW v \in User, SendBegin(m, u, v)
      PROVE  BlockInv'
  <2>1. /\ msg'[m].stage = "block" /\ msg'[m].from = u /\ msg'[m].to = v
        /\ \A n \in Msg \ {m} : msg'[n] = msg[n]
    BY <1>2, Begun DEF Typed
  <2>2. createdAt[m] = 0 /\ createdAt' = createdAt /\ blocks' = blocks
    BY <1>2 DEF SendBegin, At, Typed, Placed, PlacedAt
  <2>3. m \notin barred
    BY <1>2 DEF SendBegin, At, BlockInv, Refused
  <2>4. m \in barred' => Refused(m)'
    BY <1>2, <2>1, <2>2, <2>3 DEF SendBegin, Refused, Blocked
  <2>5. \A n \in barred' \ {m} : Refused(n)'
    BY <1>2, <1>a, <2>1, <2>2 DEF SendBegin, BlockInv, Refused, Blocked
  <2>6. QED
    BY <2>2, <2>4, <2>5 DEF BlockInv
<1>3. ASSUME NEW m \in Msg, SendCheckBlock(m)
      PROVE  BlockInv'
  <2>1. createdAt' = createdAt /\ blocks' = blocks /\ barred' = barred
    BY <1>3 DEF SendCheckBlock, mail, access
  <2>2. OnlyMoves(m, {"block"}, {"blocked", "room"})
    BY <1>3, Moves
  <2>3. m \in barred => Refused(m)'
    <3>1. msg'[m].stage = "blocked" \/ ~Blocked(msg[m].from, msg[m].to)
      BY <1>3, Moved DEF SendCheckBlock, Typed
    <3>2. QED
      BY <2>1, <2>2, <3>1 DEF OnlyMoves, BlockInv, Refused, Blocked
  <2>4. \A n \in barred \ {m} : Refused(n)'
    BY <1>a, <2>1, <2>2 DEF OnlyMoves, BlockInv, Refused, Blocked
  <2>5. QED
    BY <2>1, <2>3, <2>4 DEF BlockInv
<1>4. ASSUME NEW m \in Msg,
             \/ SendFindRoom(m) \/ SendCreateRoom(m) \/ SendStore(m) \/ SendTouch(m)
             \/ DispatchChat(m)
      PROVE  BlockInv'
  <2>1. blocks' = blocks /\ barred' = barred
    BY <1>4 DEF SendFindRoom, SendCreateRoom, SendStore, SendTouch, DispatchChat,
       DispatchPrefs, DispatchNewPrefs, DispatchPresence, DispatchEvent, access
  <2>2. m \notin barred
    BY <1>4 DEF SendFindRoom, SendCreateRoom, SendStore, SendTouch, DispatchChat,
       DispatchPrefs, DispatchNewPrefs, DispatchPresence, DispatchEvent, At,
       BlockInv, Refused
  <2>3. \A n \in Msg \ {m} : msg'[n] = msg[n]
    BY <1>4, Moves DEF DispatchChat, OnlyMoves
  <2>4. \A n \in Msg \ {m} : createdAt'[n] = createdAt[n]
    BY <1>4 DEF SendFindRoom, SendCreateRoom, SendStore, SendTouch, DispatchChat,
       DispatchPrefs, DispatchNewPrefs, DispatchPresence, DispatchEvent, mail,
       Typed, TypeOK
  <2>5. \A n \in barred : Refused(n)'
    BY <1>a, <2>1, <2>2, <2>3, <2>4 DEF BlockInv, Refused, Blocked
  <2>6. QED
    BY <2>1, <2>5 DEF BlockInv
<1>5. ASSUME NEW m \in Msg, Fail(m)
      PROVE  BlockInv'
  <2>1. createdAt' = createdAt /\ blocks' = blocks /\ barred' = barred
    BY <1>5 DEF Fail, mail, access
  <2>2. OnlyMoves(m, SendStages \cup DispatchStages, {"failed"})
    BY <1>5, Moves
  <2>3. \A n \in barred : Refused(n)'
    BY <1>a, <2>1, <2>2 DEF OnlyMoves, BlockInv, Refused, Blocked
  <2>4. QED
    BY <2>1, <2>3 DEF BlockInv
<1>6. ASSUME NEW u \in User,
             \/ FetchMark(u) \/ Connect(u) \/ Disconnect(u)
             \/ \E v \in User, p \in 1..Cardinality(Msg) : FetchPage(u, v, p)
      PROVE  BlockInv'
  <2>1. msg' = msg /\ createdAt' = createdAt /\ blocks' = blocks /\ barred' = barred
    BY <1>6 DEF FetchMark, Connect, Disconnect, FetchPage, mail, access
  <2>2. QED
    BY <2>1 DEF BlockInv, Refused, Blocked
<1>7. ASSUME NEW u \in User, NEW v \in User, Block(u, v)
      PROVE  BlockInv'
  BY <1>7 DEF Block, mail, BlockInv, Refused, Blocked
<1>8. ASSUME NEW u \in User, NEW v \in User, Unblock(u, v)
      PROVE  BlockInv'
  <2>1. /\ msg' = msg /\ createdAt' = createdAt /\ blocks' = blocks \ {<<u, v>>}
        /\ barred' \subseteq barred
        /\ u # v
    BY <1>8 DEF Unblock, mail, BlockInv
  <2>2. ASSUME NEW m \in barred'
        PROVE  Refused(m)'
    <3>1. Refused(m)
      BY <2>1, <2>2 DEF BlockInv
    <3>2. CASE {msg[m].from, msg[m].to} # {u, v}
      <4>1. <<msg[m].from, msg[m].to>> # <<u, v>> /\ <<msg[m].to, msg[m].from>> # <<u, v>>
        BY <3>2
      <4>2. QED
        BY <2>1, <3>1, <4>1 DEF Refused, Blocked
    <3>3. CASE {msg[m].from, msg[m].to} = {u, v} /\ <<v, u>> \in blocks
      <4>1. \/ msg[m].from = v /\ msg[m].to = u
            \/ msg[m].from = u /\ msg[m].to = v
        BY <2>1, <3>3
      <4>2. <<v, u>> \in blocks'
        BY <2>1, <3>3
      <4>3. QED
        BY <2>1, <3>1, <4>1, <4>2 DEF Refused, Blocked
    <3>4. QED
      BY <1>8, <2>2, <3>2, <3>3 DEF Unblock
  <2>3. QED
    BY <2>1, <2>2 DEF BlockInv
<1>9. QED
  <2>1. Active \subseteq User
    BY ConstantsAssumption
  <2>2. \A m \in Msg : Acknowledge(m) => BlockInv'
    BY DEF Acknowledge, mail, access, BlockInv, Refused, Blocked
  <2>3. QED
    BY <1>1, <1>2, <1>3, <1>4, <1>5, <1>6, <1>7, <1>8, <2>1, <2>2 DEF Next, Send

\* A block is obeyed whatever else is in flight: no message is stored that was
\* sent after the block was made and while it lasted, by either user.
THEOREM BlockCorrect == Spec => []BlockHolds
<1>1. Init => BlockInv
  BY DEF Init, BlockInv
<1>2. Typed /\ BlockInv => BlockHolds
  BY DEF Typed, TypeOK, BlockInv, Refused, BlockHolds, Stored
<1>3. QED
  BY TypedInit, TypedStep, BlockStep, <1>1, <1>2, PTL DEF Spec

-----------------------------------------------------------------------------
\* A message whose sending began with a room finds that room, since rooms are
\* not deleted, and so never comes to create one.
Housed(m) == /\ HasRoom(msg[m].from, msg[m].to)
             /\ msg[m].stage \notin {"unsent", "create", "clash"}
ClashInv == \A m \in known : Housed(m)

LEMMA ClashStep == Typed /\ ClashInv /\ [Next]_vars => ClashInv'
<1> SUFFICES ASSUME Typed, ClashInv, [Next]_vars PROVE ClashInv'
  OBVIOUS
<1> USE StageNames DEF AllStages
<1>a. known \subseteq Msg
  BY DEF Typed, TypeOK
<1>1. ASSUME msg' = msg, rooms' = rooms, known' = known
      PROVE  ClashInv'
  BY <1>1 DEF ClashInv, Housed, HasRoom
<1>2. ASSUME NEW m \in Msg, NEW u \in User, NEW v \in User, SendBegin(m, u, v)
      PROVE  ClashInv'
  <2>1. /\ msg'[m].stage = "block" /\ msg'[m].from = u /\ msg'[m].to = v
        /\ \A n \in Msg \ {m} : msg'[n] = msg[n]
    BY <1>2, Begun DEF Typed
  <2>2. m \notin known /\ rooms' = rooms
    BY <1>2 DEF SendBegin, At, ClashInv, Housed
  <2>3. m \in known' => Housed(m)'
    BY <1>2, <2>1, <2>2 DEF SendBegin, Housed, HasRoom
  <2>4. \A n \in known' \ {m} : Housed(n)'
    BY <1>2, <1>a, <2>1, <2>2 DEF SendBegin, ClashInv, Housed, HasRoom
  <2>5. QED
    BY <2>3, <2>4 DEF ClashInv
<1>3. ASSUME NEW m \in Msg, NEW from, NEW to, OnlyMoves(m, from, to),
             known' = known, rooms \subseteq rooms',
             m \in known => to \cap {"unsent", "create", "clash"} = {}
      PROVE  ClashInv'
  <2>1. m \in known => Housed(m)'
    BY <1>3 DEF OnlyMoves, ClashInv, Housed, HasRoom
  <2>2. \A n \in known \ {m} : Housed(n)'
    BY <1>3, <1>a DEF OnlyMoves, ClashInv, Housed, HasRoom
  <2>3. QED
    BY <1>3, <2>1, <2>2 DEF ClashInv
<1>4. ASSUME NEW m \in Msg, SendFindRoom(m)
      PROVE  ClashInv'
  <2>1. known' = known /\ rooms' = rooms
    BY <1>4 DEF SendFindRoom, mail
  <2>2. OnlyMoves(m, {"room"}, {"store", "create"})
    BY <1>4, Moves
  <2>3. msg'[m].stage = "store" \/ m \notin known
    BY <1>4, Moved DEF SendFindRoom, Typed, ClashInv, Housed
  <2>4. m \in known => OnlyMoves(m, {"room"}, {"store"})
    BY <2>2, <2>3 DEF OnlyMoves
  <2>5. QED
    BY <1>3, <2>1, <2>2, <2>4
<1>5. ASSUME NEW m \in Msg, SendCreateRoom(m)
      PROVE  ClashInv'
  <2>1. known' = known /\ rooms \subseteq rooms' /\ m \notin known
    BY <1>5 DEF SendCreateRoom, At, ClashInv, Housed
  <2>2. QED
    BY <1>3, <1>5, <2>1, Moves
<1>6. ASSUME NEW m \in Msg,
             \/ SendCheckBlock(m) \/ SendStore(m) \/ SendTouch(m)
             \/ DispatchChat(m) \/ Fail(m)
      PROVE  ClashInv'
  <2>1. known' = known /\ rooms' = rooms
    BY <1>6 DEF SendCheckBlock, SendStore, SendTouch, DispatchChat, Fail,
       DispatchPrefs, DispatchNewPrefs, DispatchPresence, DispatchEvent, mail
  <2>2. \E from : OnlyMoves(m, from, {"blocked", "room", "touch", "prefs", "newprefs",
                                      "presence", "event", "done", "failed"})
    BY <1>6, Moves DEF DispatchChat, OnlyMoves
  <2>3. QED
    BY <1>3, <2>1, <2>2
<1>7. ASSUME NEW u \in User, NEW v \in User,
             \/ FetchMark(u) \/ Connect(u) \/ Disconnect(u)
             \/ Block(u, v) \/ Unblock(u, v)
             \/ \E p \in 1..Cardinality(Msg) : FetchPage(u, v, p)
      PROVE  ClashInv'
  BY <1>1, <1>7 DEF FetchMark, Connect, Disconnect, Block, Unblock, FetchPage, mail
<1>8. QED
  <2>1. Active \subseteq User
    BY ConstantsAssumption
  <2>2. \A m \in Msg : Acknowledge(m) => ClashInv'
    BY <1>1 DEF Acknowledge, mail
  <2>3. UNCHANGED vars => ClashInv'
    BY <1>1 DEF vars, mail
  <2>4. QED
    BY <1>2, <1>4, <1>5, <1>6, <1>7, <2>1, <2>2, <2>3 DEF Next, Send

\* createChatRoomIfNotExists loses messages to the unique index only before the
\* two users have a room: a message sent after that is never rejected for it.
THEOREM ClashCorrect == Spec => []ClashOnlyAtFirst
<1>1. Init => ClashInv
  BY DEF Init, ClashInv
<1>2. ClashInv => ClashOnlyAtFirst
  BY DEF ClashInv, Housed, ClashOnlyAtFirst, At
<1>3. QED
  BY TypedInit, TypedStep, ClashStep, <1>1, <1>2, PTL DEF Spec

-----------------------------------------------------------------------------
\* While a dispatch is under way, a receiver who is connected was so when the
\* message was emitted, or connected later; so a dispatch that ends because
\* its receiver is connected leaves nobody out.
SeenAt(m) ==
  /\ msg[m].stage \in DispatchStages /\ msg[m].to \in online => m \in live \cup met
  /\ msg[m].stage = "done" => Reached(m) \/ m \in overtaken
ReachInv == \A m \in Msg : SeenAt(m)

LEMMA ReachStep == Typed /\ ReachInv /\ [Next]_vars => ReachInv'
<1> SUFFICES ASSUME Typed, ReachInv, [Next]_vars PROVE ReachInv'
  OBVIOUS
<1> USE StageNames DEF AllStages
<1>1. ASSUME NEW m \in Msg, \A n \in Msg \ {m} : msg'[n] = msg[n], SeenAt(m)',
             online' = online, met' = met, notify' = notify,
             live \subseteq live', events \subseteq events',
             overtaken \subseteq overtaken'
      PROVE  ReachInv'
  <2>1. ASSUME NEW n \in Msg \ {m}
        PROVE  SeenAt(n)'
    BY <1>1, <2>1 DEF ReachInv, SeenAt, Reached
  <2>2. QED
    BY <1>1, <2>1 DEF ReachInv
<1>2. ASSUME msg' = msg, live' = live, events' = events, notify' = notify,
             overtaken' = overtaken, online' = online, met' = met
      PROVE  ReachInv'
  BY <1>2 DEF ReachInv, SeenAt, Reached
<1>3. ASSUME NEW m \in Msg, NEW u \in User, NEW v \in User, SendBegin(m, u, v)
      PROVE  ReachInv'
  <2>1. msg'[m].stage = "block" /\ \A n \in Msg \ {m} : msg'[n] = msg[n]
    BY <1>3, Begun DEF Typed
  <2>2. SeenAt(m)'
    BY <2>1 DEF SeenAt
  <2>3. QED
    BY <1>1, <1>3, <2>1, <2>2 DEF SendBegin, notice, socket
<1>4. ASSUME NEW m \in Msg,
             \/ SendCheckBlock(m) \/ SendFindRoom(m) \/ SendCreateRoom(m)
             \/ SendStore(m) \/ Fail(m)
      PROVE  ReachInv'
  <2>1. UNCHANGED <<notice, socket>>
    BY <1>4 DEF SendCheckBlock, SendFindRoom, SendCreateRoom, SendStore, Fail
  <2>2. /\ msg'[m].stage \notin DispatchStages \cup {"done"}
        /\ \A n \in Msg \ {m} : msg'[n] = msg[n]
    BY <1>4, Moves DEF OnlyMoves
  <2>3. SeenAt(m)'
    BY <2>2 DEF SeenAt
  <2>4. QED
    BY <1>1, <2>1, <2>2, <2>3 DEF notice, socket
<1>5. ASSUME NEW m \in Msg, SendTouch(m)
      PROVE  ReachInv'
  <2>1. OnlyMoves(m, {"touch"}, {"prefs"})
    BY <1>5, Moves
  <2>2. /\ UNCHANGED <<online, met, notice>>
        /\ live' = IF msg[m].to \in online THEN live \cup {m} ELSE live
    BY <1>5 DEF SendTouch
  <2>3. SeenAt(m)'
    BY <2>1, <2>2 DEF SeenAt, OnlyMoves
  <2>4. QED
    BY <1>1, <2>1, <2>2, <2>3 DEF OnlyMoves, notice
<1>6. ASSUME NEW m \in Msg, DispatchPrefs(m)
      PROVE  ReachInv'
  <2>1. OnlyMoves(m, {"prefs"}, {"newprefs", "presence", "done"})
    BY <1>6, Moves
  <2>2. UNCHANGED <<notice, socket>>
    BY <1>6 DEF DispatchPrefs
  <2>3. msg'[m].stage = "done" => msg[m].to \notin notify
    BY <1>6, Moved DEF DispatchPrefs, Typed
  <2>4. SeenAt(m)'
    BY <2>1, <2>2, <2>3 DEF SeenAt, ReachInv, Reached, OnlyMoves, notice, socket
  <2>5. QED
    BY <1>1, <2>1, <2>2, <2>4 DEF OnlyMoves, notice, socket
<1>7. ASSUME NEW m \in Msg, DispatchNewPrefs(m)
      PROVE  ReachInv'
  <2>1. OnlyMoves(m, {"newprefs"}, {"presence", "done"})
    BY <1>7, Moves
  <2>2. /\ UNCHANGED <<notify, events, socket>>
        /\ overtaken' = IF msg[m].to \in prefs THEN overtaken \cup {m} ELSE overtaken
    BY <1>7 DEF DispatchNewPrefs
  <2>3. msg'[m].stage = "done" => msg[m].to \notin notify \/ m \in overtaken'
    BY <1>7, <2>2, Moved DEF DispatchNewPrefs, Typed
  <2>4. SeenAt(m)'
    BY <2>1, <2>2, <2>3 DEF SeenAt, ReachInv, Reached, OnlyMoves, socket
  <2>5. QED
    BY <1>1, <2>1, <2>2, <2>4 DEF OnlyMoves, socket
<1>8. ASSUME NEW m \in Msg, DispatchPresence(m)
      PROVE  ReachInv'
  <2>1. OnlyMoves(m, {"presence"}, {"event", "done"})
    BY <1>8, Moves
  <2>2. UNCHANGED <<notice, socket>>
    BY <1>8 DEF DispatchPresence
  <2>3. msg'[m].stage = "done" => msg[m].to \in online
    BY <1>8, Moved DEF DispatchPresence, Typed
  <2>4. SeenAt(m)'
    BY <2>1, <2>2, <2>3 DEF SeenAt, ReachInv, Reached, OnlyMoves, notice, socket
  <2>5. QED
    BY <1>1, <2>1, <2>2, <2>4 DEF OnlyMoves, notice, socket
<1>9. ASSUME NEW m \in Msg, DispatchEvent(m)
      PROVE  ReachInv'
  <2>1. OnlyMoves(m, {"event"}, {"done"})
    BY <1>9, Moves
  <2>2. UNCHANGED <<notify, overtaken, socket>> /\ events' = events \cup {m}
    BY <1>9 DEF DispatchEvent
  <2>3. SeenAt(m)'
    BY <2>1, <2>2 DEF SeenAt, Reached, OnlyMoves
  <2>4. QED
    BY <1>1, <2>1, <2>2, <2>3 DEF OnlyMoves, socket
<1>10. ASSUME NEW u \in User, Connect(u) \/ Disconnect(u)
       PROVE  ReachInv'
  <2>1. /\ msg' = msg /\ live' = live /\ UNCHANGED notice
        /\ met \subseteq met'
        /\ \A m \in Msg : /\ msg[m].stage \in DispatchStages
                          /\ msg[m].to \in online' \ online
                          => m \in met'
    BY <1>10 DEF Connect, Disconnect
  <2>2. ASSUME NEW m \in Msg
        PROVE  SeenAt(m)'
    BY <2>1, <2>2 DEF ReachInv, SeenAt, Reached, notice
  <2>3. QED
    BY <2>2 DEF ReachInv
<1>11. ASSUME NEW u \in User, NEW v \in User,
              \/ FetchMark(u) \/ Block(u, v) \/ Unblock(u, v)
              \/ \E p \in 1..Cardinality(Msg) : FetchPage(u, v, p)
       PROVE  ReachInv'
  BY <1>2, <1>11 DEF FetchMark, Block, Unblock, FetchPage, notice, socket
<1>12. QED
  <2>1. Active \subseteq User
    BY ConstantsAssumption
  <2>2. \A m \in Msg : Acknowledge(m) => ReachInv'
    BY <1>2 DEF Acknowledge, notice, socket
  <2>3. UNCHANGED vars => ReachInv'
    BY <1>2 DEF vars, notice, socket
  <2>4. QED
    BY <1>3, <1>4, <1>5, <1>6, <1>7, <1>8, <1>9, <1>10, <1>11, <2>1, <2>2, <2>3
       DEF Next, Send, DispatchChat

\* The emission to the receiver's sockets and the presence test of the detached
\* dispatch are two moments: whatever connects, disconnects or is sent between
\* them, a dispatch that ends has left no receiver out but for the creation of
\* the same preferences by another.
THEOREM ReachesCorrect == Spec => []ReachesReceiver
<1>1. Init => ReachInv
  BY StageNames DEF Init, ReachInv, SeenAt, AllStages
<1>2. ReachInv => ReachesReceiver
  BY DEF ReachInv, SeenAt, ReachesReceiver, At
<1>3. QED
  BY TypedInit, TypedStep, ReachStep, <1>1, <1>2, PTL DEF Spec
=============================================================================
