------------------------ MODULE ParkingCreditsProofs ------------------------
(***************************************************************************)
(* Type correctness of ParkingCredits, the bound on overdrafts, the         *)
(* accounting of notifications and credits, and what a window of ten        *)
(* minutes holds, for every set of users, every number of concurrent        *)
(* dispatch loops and with or without faults.                               *)
(***************************************************************************)
EXTENDS ParkingCreditsHistory, FiniteSetTheorems, TLAPS

USE DEF Points, HandlerPoints, DispatchPoints

-----------------------------------------------------------------------------
LEMMA NoRequestType == NoRequest \in Request
BY DEF NoRequest, Request

\* What TypeOK says of one slot.
SlotOK(q) == /\ q \in Request
             /\ q.pc # "idle" => q.user \in User
             /\ q.pc \in {"consume", "charge", "event"} => q.cur \in User

LEMMA SlotsOK ==
  ASSUME NEW f, f \in [Req -> Request]
  PROVE  (\A r \in Req : SlotOK(f[r])) <=>
            /\ \A r \in Req : f[r].pc # "idle" => f[r].user \in User
            /\ \A r \in Req : f[r].pc \in {"consume", "charge", "event"} =>
                                f[r].cur \in User
BY DEF SlotOK

LEMMA InitTypeOK == Init => TypeOK
BY NoRequestType DEF Init, TypeOK, NoRequest

LEMMA AddType ==
  ASSUME NEW u \in User
  PROVE  /\ \A f \in [User -> Int], n \in Int : Add(f, u, n) \in [User -> Int]
         /\ \A f \in [User -> Nat], n \in Nat : Add(f, u, n) \in [User -> Nat]
BY DEF Add

LEMMA DispatchType ==
  ASSUME TypeOK, NEW r \in Req, NEW u \in User, Dispatch(r, u)
  PROVE  /\ req' \in [Req -> Request]
         /\ \A s \in Req : SlotOK(req'[s])
<1>1. PICK users \in SUBSET (User \ {u}) :
        req' = [req EXCEPT ![r] =
                  IF users = {} THEN NoRequest
                  ELSE [NoRequest EXCEPT !.pc = "next", !.user = u,
                                         !.todo = users]]
  BY DEF Dispatch
<1> DEFINE q == IF users = {} THEN NoRequest
                ELSE [NoRequest EXCEPT !.pc = "next", !.user = u, !.todo = users]
<1>2. SlotOK(q)
  BY NoRequestType DEF SlotOK, NoRequest, Request
<1> HIDE DEF q
<1>3. req' = [req EXCEPT ![r] = q]
  BY <1>1 DEF q
<1>4. QED
  BY <1>2, <1>3 DEF TypeOK, SlotOK

LEMMA ContinueType ==
  ASSUME TypeOK, NEW r \in Req, NEW rest \in SUBSET User,
         req[r].pc \in DispatchPoints, Continue(r, rest)
  PROVE  /\ req' \in [Req -> Request]
         /\ \A s \in Req : SlotOK(req'[s])
<1> DEFINE q == IF rest = {} THEN NoRequest
                ELSE [req[r] EXCEPT !.pc = "next", !.cur = NoUser, !.todo = rest]
<1>1. SlotOK(q)
  BY NoRequestType DEF SlotOK, NoRequest, Request, TypeOK
<1>2. req' = [req EXCEPT ![r] = q]
  BY DEF Continue, TypeOK
<1> HIDE DEF q
<1>3. QED
  BY <1>1, <1>2 DEF TypeOK, SlotOK

LEMMA GoType ==
  ASSUME TypeOK, NEW r \in Req, NEW p \in Points, req[r].pc # "idle", Go(r, p),
         p \in {"consume", "charge", "event"} => req[r].cur \in User
  PROVE  /\ req' \in [Req -> Request]
         /\ \A s \in Req : SlotOK(req'[s])
<1> DEFINE q == [req[r] EXCEPT !.pc = p]
<1>1. SlotOK(q)
  BY DEF SlotOK, Request, TypeOK
<1>2. req' = [req EXCEPT ![r] = q]
  BY DEF Go, TypeOK
<1> HIDE DEF q
<1>3. QED
  BY <1>1, <1>2 DEF TypeOK, SlotOK

LEMMA FinishType ==
  ASSUME TypeOK, NEW r \in Req, Finish(r)
  PROVE  /\ req' \in [Req -> Request]
         /\ \A s \in Req : SlotOK(req'[s])
<1>1. SlotOK(NoRequest)
  BY NoRequestType DEF SlotOK, NoRequest
<1>2. QED
  BY <1>1 DEF Finish, TypeOK, SlotOK

LEMMA StartType ==
  ASSUME TypeOK, NEW r \in Req, NEW u \in User,
         NEW p \in {"recent", "existing"}, Start(r, p, u)
  PROVE  /\ req' \in [Req -> Request]
         /\ \A s \in Req : SlotOK(req'[s])
<1> DEFINE q == [NoRequest EXCEPT !.pc = p, !.user = u]
<1>1. SlotOK(q)
  BY DEF SlotOK, Request, NoRequest
<1>2. req' = [req EXCEPT ![r] = q]
  BY DEF Start
<1> HIDE DEF q
<1>3. QED
  BY <1>1, <1>2 DEF TypeOK, SlotOK

LEMMA ArriveTypeOK ==
  ASSUME TypeOK, NEW r \in Req, NEW u \in User, Arrive(r, u)
  PROVE  TypeOK'
<1>1. CASE LeaveBegin(r, u)
  BY <1>1, StartType DEF LeaveBegin, TypeOK, SlotOK
<1>2. CASE ReportBegin(r, u)
  BY <1>2, StartType DEF ReportBegin, TypeOK, SlotOK
<1>3. CASE ReportElsewhere(r, u)
  BY <1>3, DispatchType DEF ReportElsewhere, TypeOK, SlotOK
<1>4. QED
  BY <1>1, <1>2, <1>3 DEF Arrive

LEMMA HandleTypeOK ==
  ASSUME TypeOK, NEW r \in Req, Handle(r)
  PROVE  TypeOK'
<1>1. CASE LeaveRecent(r)
  BY <1>1, GoType, FinishType DEF LeaveRecent, At, TypeOK, SlotOK
<1>2. CASE LeaveFile(r)
  BY <1>2, GoType, AddType DEF LeaveFile, At, TypeOK, SlotOK
<1>3. CASE LeaveFree(r)
  BY <1>3, GoType DEF LeaveFree, At, TypeOK, SlotOK
<1>4. CASE LeaveAward(r)
  <2>1. req[r].user \in User
    BY <1>4 DEF LeaveAward, At, TypeOK
  <2>2. /\ credit' \in [User -> Int]
        /\ submitted' \in [User -> Nat]
        /\ paid' \in [User -> Nat]
    BY <1>4, <2>1 DEF LeaveAward, Add, TypeOK
  <2>3. QED
    BY <1>4, <2>2, GoType DEF LeaveAward, At, TypeOK, SlotOK
<1>5. CASE LeaveEarn(r)
  <2>1. req[r].user \in User
    BY <1>5 DEF LeaveEarn, At, TypeOK
  <2>2. ledger' \in [User -> Int]
    BY <1>5, <2>1 DEF LeaveEarn, Add, TypeOK
  <2>3. QED
    BY <1>5, <2>1, <2>2, DispatchType DEF LeaveEarn, TypeOK, SlotOK
<1>6. CASE ReportExisting(r)
  BY <1>6, GoType, FinishType DEF ReportExisting, At, TypeOK, SlotOK
<1>7. CASE ReportPublish(r)
  BY <1>7, DispatchType, AddType DEF ReportPublish, At, TypeOK, SlotOK
<1>8. QED
  BY <1>1, <1>2, <1>3, <1>4, <1>5, <1>6, <1>7 DEF Handle

LEMMA CheckType ==
  ASSUME TypeOK, NEW r \in Req, DispatchCheck(r)
  PROVE  /\ req' \in [Req -> Request]
         /\ \A s \in Req : SlotOK(req'[s])
<1>1. PICK u \in req[r].todo :
        \/ Continue(r, req[r].todo \ {u})
        \/ /\ credit[u] > 0
           /\ req' = [req EXCEPT ![r].pc = "consume", ![r].cur = u,
                                 ![r].todo = @ \ {u}]
  BY DEF DispatchCheck
<1>2. u \in User /\ req[r].todo \ {u} \in SUBSET User
  BY DEF TypeOK, Request
<1>3. CASE Continue(r, req[r].todo \ {u})
  BY <1>2, <1>3, ContinueType DEF DispatchCheck, At
<1>4. CASE req' = [req EXCEPT ![r].pc = "consume", ![r].cur = u,
                              ![r].todo = @ \ {u}]
  <2> DEFINE q == [req[r] EXCEPT !.pc = "consume", !.cur = u, !.todo = @ \ {u}]
  <2>1. SlotOK(q)
    BY <1>2 DEF SlotOK, Request, TypeOK, DispatchCheck, At
  <2>2. req' = [req EXCEPT ![r] = q]
    BY <1>4 DEF TypeOK
  <2> HIDE DEF q
  <2>3. QED
    BY <2>1, <2>2 DEF TypeOK, SlotOK
<1>5. QED
  BY <1>1, <1>3, <1>4

LEMMA LoopTypeOK ==
  ASSUME TypeOK, NEW r \in Req, Loop(r)
  PROVE  TypeOK'
<1>1. CASE DispatchCheck(r)
  BY <1>1, CheckType DEF DispatchCheck, TypeOK, SlotOK
<1>2. CASE DispatchConsume(r)
  <2>1. req[r].cur \in User /\ req[r].pc # "idle"
    BY <1>2 DEF DispatchConsume, At, TypeOK
  <2>2. credit' \in [User -> Int]
    BY <1>2, <2>1 DEF DispatchConsume, Add, TypeOK
  <2>3. QED
    BY <1>2, <2>1, <2>2, GoType DEF DispatchConsume, TypeOK, SlotOK
<1>3. CASE DispatchCharge(r)
  <2>1. req[r].cur \in User /\ req[r].pc # "idle"
    BY <1>3 DEF DispatchCharge, At, TypeOK
  <2>2. ledger' \in [User -> Int]
    BY <1>3, <2>1 DEF DispatchCharge, Add, TypeOK
  <2>3. QED
    BY <1>3, <2>1, <2>2, GoType DEF DispatchCharge, TypeOK, SlotOK
<1>4. CASE DispatchEvent(r)
  <2>1. req[r].todo \in SUBSET User /\ req[r].cur \in User
    BY <1>4 DEF DispatchEvent, At, TypeOK, Request
  <2>2. QED
    BY <1>4, <2>1, ContinueType, AddType DEF DispatchEvent, At, TypeOK, SlotOK
<1>5. QED
  BY <1>1, <1>2, <1>3, <1>4 DEF Loop

LEMMA FailTypeOK ==
  ASSUME TypeOK, NEW r \in Req, FailHandler(r) \/ FailDispatch(r)
  PROVE  TypeOK'
<1>1. CASE FailHandler(r)
  <2>1. req[r].user \in User
    BY <1>1 DEF FailHandler, TypeOK
  <2>2. unlogged' \in [User -> Int]
    BY <1>1, <2>1 DEF FailHandler, Add, TypeOK
  <2>3. QED
    BY <1>1, <2>2, FinishType DEF FailHandler, TypeOK, SlotOK
<1>2. CASE FailDispatch(r)
  <2>1. req[r].todo \in SUBSET User /\ req[r].cur \in User
    BY <1>2 DEF FailDispatch, At, TypeOK, Request
  <2>2. unlogged' \in [User -> Int] /\ lost' \in [User -> Nat]
    BY <1>2, <2>1 DEF FailDispatch, Add, TypeOK
  <2>3. QED
    BY <1>2, <2>1, <2>2, ContinueType DEF FailDispatch, TypeOK, SlotOK
<1>3. QED
  BY <1>1, <1>2

LEMMA NextTypeOK == TypeOK /\ [Next]_vars => TypeOK'
<1> SUFFICES ASSUME TypeOK, [Next]_vars PROVE TypeOK'
  OBVIOUS
<1>1. ASSUME NEW r \in Req, \/ \E u \in User : Arrive(r, u)
                            \/ Handle(r) \/ Loop(r)
                            \/ FailHandler(r) \/ FailDispatch(r)
      PROVE  TypeOK'
  BY <1>1, ArriveTypeOK, HandleTypeOK, LoopTypeOK, FailTypeOK
<1>2. ASSUME NEW u \in User, DeleteReport(u)
      PROVE  TypeOK'
  <2>1. rows' \in [User -> Nat]
    BY <1>2 DEF DeleteReport, Add, TypeOK
  <2>2. QED
    BY <1>2, <2>1 DEF DeleteReport, TypeOK
<1>3. ASSUME NEW u \in User, Age(u)
      PROVE  TypeOK'
  BY <1>3 DEF Age, TypeOK
<1>4. CASE Reserve
  BY <1>4 DEF Reserve, TypeOK
<1>5. CASE UNCHANGED vars
  BY <1>5 DEF vars, TypeOK
<1>6. QED
  BY <1>1, <1>2, <1>3, <1>4, <1>5 DEF Next

\* Balances, counters and slots stay well typed: a loop that charges or
\* notifies has an addressee, and no counter of events or leaves runs below 0.
THEOREM TypeCorrect == Spec => []TypeOK
BY InitTypeOK, NextTypeOK, PTL DEF Spec

-----------------------------------------------------------------------------
(***************************************************************************)
(* OverdraftBounded and ReceivedAccounted.  The balance that a user will    *)
(* have once the loops that found a credit have taken it (DueBounded) is    *)
(* what the check and the decrement together bound; both formulas change    *)
(* only with the slot that moves, whose share of the sets is Own.           *)
(***************************************************************************)
DueBounded ==
  \A u \in User :
    credit[u] - Cardinality(Notifying(u, {"consume"})) >= 1 - Cardinality(Req)

IInv == TypeOK /\ DueBounded /\ ReceivedAccounted

Own(q, u, ps) == IF q.cur = u /\ q.pc \in ps THEN 1 ELSE 0

\* The slots of a table f that notify u at one of ps.
Those(f, u, ps) == {s \in Req : f[s].cur = u /\ f[s].pc \in ps}

LEMMA NotifyingIsThose ==
  \A u, ps : /\ Notifying(u, ps) = Those(req, u, ps)
             /\ Notifying(u, ps)' = Those(req', u, ps)
BY DEF Notifying, Those

LEMMA SlotSets ==
  /\ Cardinality(Req) \in Nat
  /\ \A S \in SUBSET Req : /\ IsFiniteSet(S)
                           /\ Cardinality(S) \in Nat
                           /\ Cardinality(S) <= Cardinality(Req)
BY ConstantsAssumption, FS_Subset, FS_CardinalityType

\* Those is the share of the other slots and r's own.
LEMMA ThoseSplit ==
  ASSUME NEW f, NEW r \in Req, NEW u, NEW ps
  PROVE  LET others == {s \in Req \ {r} : f[s].cur = u /\ f[s].pc \in ps}
         IN  /\ Cardinality(others) \in Nat
             /\ Cardinality(Those(f, u, ps))
                  = Cardinality(others) + Own(f[r], u, ps)
<1> DEFINE others == {s \in Req \ {r} : f[s].cur = u /\ f[s].pc \in ps}
<1>1. IsFiniteSet(others) /\ Cardinality(others) \in Nat
  BY SlotSets, others \in SUBSET Req
<1>2. CASE f[r].cur = u /\ f[r].pc \in ps
  <2>1. Those(f, u, ps) = others \cup {r} /\ r \notin others
    BY <1>2 DEF Those
  <2>2. QED
    BY <1>1, <1>2, <2>1, FS_AddElement DEF Own
<1>3. CASE ~(f[r].cur = u /\ f[r].pc \in ps)
  <2>1. Those(f, u, ps) = others
    BY <1>3 DEF Those
  <2>2. QED
    BY <1>1, <1>3, <2>1 DEF Own
<1>4. QED
  BY <1>2, <1>3

\* A step of slot r changes the number of slots that notify u by r's share.
LEMMA NotifyingChange ==
  ASSUME NEW r \in Req, \A s \in Req \ {r} : req'[s] = req[s],
         NEW u \in User, NEW ps, NEW d \in Int,
         Own(req'[r], u, ps) = Own(req[r], u, ps) + d
  PROVE  /\ Cardinality(Notifying(u, ps)) \in Nat
         /\ Cardinality(Notifying(u, ps)') \in Nat
         /\ Cardinality(Notifying(u, ps)') = Cardinality(Notifying(u, ps)) + d
<1> DEFINE O(f) == {s \in Req \ {r} : f[s].cur = u /\ f[s].pc \in ps}
<1>1. O(req') = O(req)
  OBVIOUS
<1>2. /\ Cardinality(O(req)) \in Nat
      /\ Cardinality(Those(req, u, ps)) = Cardinality(O(req)) + Own(req[r], u, ps)
  BY ThoseSplit
<1>3. Cardinality(Those(req', u, ps)) = Cardinality(O(req')) + Own(req'[r], u, ps)
  BY ThoseSplit
<1>4. Own(req[r], u, ps) \in Int
  BY DEF Own
<1>5. Those(req, u, ps) \in SUBSET Req /\ Those(req', u, ps) \in SUBSET Req
  BY DEF Those
<1> HIDE DEF O
<1>6. QED
  BY <1>1, <1>2, <1>3, <1>4, <1>5, SlotSets, NotifyingIsThose

\* The amounts by which one step changes the numbers of user u.
LEMMA DueStep ==
  ASSUME IInv, TypeOK', NEW r \in Req, \A s \in Req \ {r} : req'[s] = req[s],
         NEW u \in User, NEW d \in Int,
         Own(req'[r], u, {"consume"}) = Own(req[r], u, {"consume"}) + d,
         NEW c \in Int, credit'[u] = credit[u] + c, c >= d
  PROVE  credit'[u] - Cardinality(Notifying(u, {"consume"})')
           >= 1 - Cardinality(Req)
<1>1. /\ Cardinality(Notifying(u, {"consume"})) \in Nat
      /\ Cardinality(Notifying(u, {"consume"})')
           = Cardinality(Notifying(u, {"consume"})) + d
  BY NotifyingChange
<1>2. credit[u] - Cardinality(Notifying(u, {"consume"})) >= 1 - Cardinality(Req)
  BY DEF IInv, DueBounded
<1>3. credit[u] \in Int
  BY DEF IInv, TypeOK
<1>4. QED
  BY <1>1, <1>2, <1>3, SlotSets

LEMMA ReceivedStep ==
  ASSUME IInv, TypeOK', NEW r \in Req, \A s \in Req \ {r} : req'[s] = req[s],
         NEW u \in User, NEW d \in Int,
         Own(req'[r], u, {"charge", "event"})
           = Own(req[r], u, {"charge", "event"}) + d,
         NEW c \in Int, credit'[u] = credit[u] + c,
         NEW m \in Int, submitted'[u] = submitted[u] + m,
         NEW e \in Int, received'[u] = received[u] + e,
         NEW l \in Int, lost'[u] = lost[u] + l,
         m - c = e + d + l
  PROVE  submitted'[u] - credit'[u] + 1
           = received'[u] + Cardinality(Notifying(u, {"charge", "event"})')
             + lost'[u]
<1>1. /\ Cardinality(Notifying(u, {"charge", "event"})) \in Nat
      /\ Cardinality(Notifying(u, {"charge", "event"})')
           = Cardinality(Notifying(u, {"charge", "event"})) + d
  BY NotifyingChange
<1>2. submitted[u] - credit[u] + 1
        = received[u] + Cardinality(Notifying(u, {"charge", "event"})) + lost[u]
  BY DEF IInv, ReceivedAccounted, NotificationsReceived
<1>3. /\ credit[u] \in Int /\ submitted[u] \in Int
      /\ received[u] \in Int /\ lost[u] \in Int
  BY DEF IInv, TypeOK
<1>4. QED
  BY <1>1, <1>2, <1>3

\* A step that touches no balance, of a slot outside the charging sequence.
LEMMA QuietStep ==
  ASSUME IInv, TypeOK', NEW r \in Req, \A s \in Req \ {r} : req'[s] = req[s],
         req[r].pc \notin {"consume", "charge", "event"},
         req'[r].pc \notin {"consume", "charge", "event"},
         UNCHANGED <<credit, submitted, received, lost>>
  PROVE  DueBounded' /\ ReceivedAccounted'
<1> SUFFICES ASSUME NEW u \in User
             PROVE  /\ credit'[u] - Cardinality(Notifying(u, {"consume"})')
                         >= 1 - Cardinality(Req)
                    /\ submitted'[u] - credit'[u] + 1
                         = received'[u]
                           + Cardinality(Notifying(u, {"charge", "event"})')
                           + lost'[u]
  BY DEF DueBounded, ReceivedAccounted, NotificationsReceived
<1>1. /\ credit'[u] = credit[u] + 0 /\ submitted'[u] = submitted[u] + 0
      /\ received'[u] = received[u] + 0 /\ lost'[u] = lost[u] + 0
  BY DEF IInv, TypeOK
<1>2. /\ Own(req'[r], u, {"consume"}) = Own(req[r], u, {"consume"}) + 0
      /\ Own(req'[r], u, {"charge", "event"})
           = Own(req[r], u, {"charge", "event"}) + 0
  BY DEF Own
<1>3. 0 \in Int /\ 0 >= 0 /\ 0 - 0 = 0 + 0 + 0
  OBVIOUS
<1>4. credit'[u] - Cardinality(Notifying(u, {"consume"})')
        >= 1 - Cardinality(Req)
  BY <1>1, <1>2, <1>3, DueStep
<1>5. submitted'[u] - credit'[u] + 1
        = received'[u] + Cardinality(Notifying(u, {"charge", "event"})')
          + lost'[u]
  BY <1>1, <1>2, <1>3, ReceivedStep
<1>6. QED
  BY <1>4, <1>5

\* Both formulas, for one user.
Fine(u) ==
  /\ credit[u] - Cardinality(Notifying(u, {"consume"})) >= 1 - Cardinality(Req)
  /\ submitted[u] - credit[u] + 1
       = received[u] + Cardinality(Notifying(u, {"charge", "event"})) + lost[u]

LEMMA FineForAll ==
  /\ DueBounded /\ ReceivedAccounted <=> \A u \in User : Fine(u)
  /\ (DueBounded /\ ReceivedAccounted)' <=> \A u \in User : Fine(u)'
BY DEF DueBounded, ReceivedAccounted, NotificationsReceived, Fine

\* A step of slot r whose changes of u's numbers cancel out.
LEMMA FineStep ==
  ASSUME IInv, TypeOK', NEW r \in Req, \A s \in Req \ {r} : req'[s] = req[s],
         NEW u \in User,
         NEW g \in Int,
         Own(req'[r], u, {"consume"}) = Own(req[r], u, {"consume"}) + g,
         NEW d \in Int,
         Own(req'[r], u, {"charge", "event"})
           = Own(req[r], u, {"charge", "event"}) + d,
         NEW c \in Int, credit'[u] = credit[u] + c,
         NEW m \in Int, submitted'[u] = submitted[u] + m,
         NEW e \in Int, received'[u] = received[u] + e,
         NEW l \in Int, lost'[u] = lost[u] + l,
         c >= g, m - c = e + d + l
  PROVE  Fine(u)'
<1>1. credit'[u] - Cardinality(Notifying(u, {"consume"})')
        >= 1 - Cardinality(Req)
  BY DueStep
<1>2. submitted'[u] - credit'[u] + 1
        = received'[u] + Cardinality(Notifying(u, {"charge", "event"})')
          + lost'[u]
  BY ReceivedStep
<1>3. QED
  BY <1>1, <1>2 DEF Fine

\* The numbers of a user whom the step of slot r does not concern.
LEMMA FineBystander ==
  ASSUME IInv, TypeOK', NEW r \in Req, \A s \in Req \ {r} : req'[s] = req[s],
         NEW u \in User, u # req[r].cur, u # req'[r].cur,
         credit'[u] = credit[u], submitted'[u] = submitted[u],
         received'[u] = received[u], lost'[u] = lost[u]
  PROVE  Fine(u)'
<1>1. /\ credit'[u] = credit[u] + 0 /\ submitted'[u] = submitted[u] + 0
      /\ received'[u] = received[u] + 0 /\ lost'[u] = lost[u] + 0
  BY DEF IInv, TypeOK
<1>2. /\ Own(req'[r], u, {"consume"}) = Own(req[r], u, {"consume"}) + 0
      /\ Own(req'[r], u, {"charge", "event"})
           = Own(req[r], u, {"charge", "event"}) + 0
  BY DEF Own
<1>3. 0 \in Int /\ 0 >= 0 /\ 0 - 0 = 0 + 0 + 0
  OBVIOUS
<1>4. QED
  BY <1>1, <1>2, <1>3, FineStep

\* Adding to one user's number.
LEMMA AddEffect ==
  ASSUME NEW f \in [User -> Int], NEW u \in User, NEW n \in Int
  PROVE  /\ Add(f, u, n)[u] = f[u] + n
         /\ \A v \in User \ {u} : Add(f, u, n)[v] = f[v]
BY DEF Add

\* A credit is earned: submitted and credit grow together.
LEMMA AwardFine ==
  ASSUME IInv, TypeOK', NEW r \in Req, LeaveAward(r)
  PROVE  DueBounded' /\ ReceivedAccounted'
<1> DEFINE w == req[r].user
<1>1. w \in User /\ req[r].pc = "award"
  BY DEF LeaveAward, At, IInv, TypeOK
<1>2. /\ \A s \in Req \ {r} : req'[s] = req[s]
      /\ req'[r].pc = "earn" /\ req'[r].cur = req[r].cur
  BY DEF LeaveAward, Go, IInv, TypeOK, Request
<1>3. credit \in [User -> Int] /\ submitted \in [User -> Int]
  BY DEF IInv, TypeOK
<1>4. ASSUME NEW u \in User PROVE Fine(u)'
  <2>1. /\ Own(req'[r], u, {"consume"}) = Own(req[r], u, {"consume"}) + 0
        /\ Own(req'[r], u, {"charge", "event"})
             = Own(req[r], u, {"charge", "event"}) + 0
    BY <1>1, <1>2 DEF Own
  <2>2. received'[u] = received[u] + 0 /\ lost'[u] = lost[u] + 0
    BY DEF LeaveAward, IInv, TypeOK
  <2>3. CASE u = w
    <3>1. credit'[u] = credit[u] + 1 /\ submitted'[u] = submitted[u] + 1
      BY <1>1, <1>3, <2>3, AddEffect DEF LeaveAward
    <3>2. 0 \in Int /\ 1 \in Int /\ 1 >= 0 /\ 1 - 1 = 0 + 0 + 0
      OBVIOUS
    <3>3. QED
      BY <1>2, <2>1, <2>2, <3>1, <3>2, FineStep
  <2>4. CASE u # w
    <3>1. credit'[u] = credit[u] + 0 /\ submitted'[u] = submitted[u] + 0
      BY <1>1, <1>3, <2>4 DEF LeaveAward, Add
    <3>2. 0 \in Int /\ 0 >= 0 /\ 0 - 0 = 0 + 0 + 0
      OBVIOUS
    <3>3. QED
      BY <1>2, <2>1, <2>2, <3>1, <3>2, FineStep
  <2>5. QED
    BY <2>3, <2>4
<1>5. QED
  BY <1>4, FineForAll

\* A loop finds a credit: no more loops than there are slots can be about to
\* take it, and it is there for one of them.
LEMMA CheckFine ==
  ASSUME IInv, TypeOK', NEW r \in Req, DispatchCheck(r)
  PROVE  DueBounded' /\ ReceivedAccounted'
<1>1. PICK w \in req[r].todo :
        \/ Continue(r, req[r].todo \ {w})
        \/ /\ credit[w] > 0
           /\ req' = [req EXCEPT ![r].pc = "consume", ![r].cur = w,
                                 ![r].todo = @ \ {w}]
  BY DEF DispatchCheck
<1>2. /\ req \in [Req -> Request] /\ req[r].pc = "next"
      /\ UNCHANGED <<credit, submitted, received, lost>>
  BY DEF DispatchCheck, At, IInv, TypeOK
<1>3. CASE Continue(r, req[r].todo \ {w})
  <2>1. /\ \A s \in Req \ {r} : req'[s] = req[s]
        /\ req'[r].pc \in {"idle", "next"}
    BY <1>2, <1>3 DEF Continue, NoRequest, Request
  <2>2. QED
    BY <1>2, <2>1, QuietStep
<1>4. CASE credit[w] > 0 /\ req' = [req EXCEPT ![r].pc = "consume", ![r].cur = w,
                                               ![r].todo = @ \ {w}]
  <2>1. /\ \A s \in Req \ {r} : req'[s] = req[s]
        /\ req'[r].pc = "consume" /\ req'[r].cur = w
    BY <1>2, <1>4 DEF Request
  <2>2. ASSUME NEW u \in User PROVE Fine(u)'
    <3>1. Own(req'[r], u, {"charge", "event"})
            = Own(req[r], u, {"charge", "event"}) + 0
      BY <1>2, <2>1 DEF Own
    <3>2. /\ credit'[u] = credit[u] + 0 /\ submitted'[u] = submitted[u] + 0
          /\ received'[u] = received[u] + 0 /\ lost'[u] = lost[u] + 0
      BY <1>2 DEF IInv, TypeOK
    <3>3. submitted'[u] - credit'[u] + 1
            = received'[u] + Cardinality(Notifying(u, {"charge", "event"})')
              + lost'[u]
      <4>1. 0 \in Int /\ 0 - 0 = 0 + 0 + 0
        OBVIOUS
      <4>2. QED
        BY <2>1, <3>1, <3>2, <4>1, ReceivedStep
    <3>4. credit'[u] - Cardinality(Notifying(u, {"consume"})')
            >= 1 - Cardinality(Req)
      <4>1. CASE u = w
        <5>1. credit'[u] \in Int /\ credit'[u] >= 1
          BY <1>2, <1>4, <4>1 DEF IInv, TypeOK
        <5>2. Notifying(u, {"consume"})' \in SUBSET Req
          BY DEF Notifying
        <5>3. QED
          BY <5>1, <5>2, SlotSets
      <4>2. CASE u # w
        <5>1. Own(req'[r], u, {"consume"}) = Own(req[r], u, {"consume"}) + 0
          BY <1>2, <2>1, <4>2 DEF Own
        <5>2. 0 \in Int /\ 0 >= 0
          OBVIOUS
        <5>3. QED
          BY <2>1, <3>2, <5>1, <5>2, DueStep
      <4>3. QED
        BY <4>1, <4>2
    <3>5. QED
      BY <3>3, <3>4 DEF Fine
  <2>3. QED
    BY <2>2, FineForAll
<1>5. QED
  BY <1>1, <1>3, <1>4

\* What Continue and Go make of slot r.
LEMMA ContinueEffect ==
  ASSUME TypeOK, NEW r \in Req, NEW rest, Continue(r, rest)
  PROVE  /\ \A s \in Req \ {r} : req'[s] = req[s]
         /\ req'[r].pc \in {"idle", "next"} /\ req'[r].cur = NoUser
<1>1. CASE rest = {}
  BY <1>1 DEF Continue, NoRequest, TypeOK
<1>2. CASE rest # {}
  BY <1>2 DEF Continue, TypeOK, Request
<1>3. QED
  BY <1>1, <1>2

LEMMA GoEffect ==
  ASSUME TypeOK, NEW r \in Req, NEW p \in Points, Go(r, p)
  PROVE  /\ \A s \in Req \ {r} : req'[s] = req[s]
         /\ req'[r].pc = p /\ req'[r].cur = req[r].cur
BY DEF Go, TypeOK, Request

\* The balance that was checked is taken; the slot owes an event for it.
LEMMA ConsumeFine ==
  ASSUME IInv, TypeOK', NEW r \in Req, DispatchConsume(r)
  PROVE  DueBounded' /\ ReceivedAccounted'
<1>1. /\ req[r].pc = "consume" /\ req[r].cur \in User
      /\ UNCHANGED <<submitted, received, lost>>
      /\ credit' = Add(credit, req[r].cur, -1)
  BY DEF DispatchConsume, At, IInv, TypeOK
<1>2. /\ \A s \in Req \ {r} : req'[s] = req[s]
      /\ req'[r].pc = "charge" /\ req'[r].cur = req[r].cur
  BY GoEffect DEF DispatchConsume, IInv
<1>3. ASSUME NEW u \in User PROVE Fine(u)'
  <2>1. /\ submitted'[u] = submitted[u] + 0
        /\ received'[u] = received[u] + 0 /\ lost'[u] = lost[u] + 0
    BY <1>1 DEF IInv, TypeOK
  <2>2. CASE u = req[r].cur
    <3>1. credit'[u] = credit[u] + (-1)
      BY <1>1, <2>2 DEF Add, IInv, TypeOK
    <3>2. /\ Own(req'[r], u, {"consume"}) = Own(req[r], u, {"consume"}) + (-1)
          /\ Own(req'[r], u, {"charge", "event"})
               = Own(req[r], u, {"charge", "event"}) + 1
      BY <1>1, <1>2, <2>2 DEF Own
    <3>3. 0 \in Int /\ 1 \in Int /\ -1 \in Int /\ -1 >= -1 /\ 0 - (-1) = 0 + 1 + 0
      OBVIOUS
    <3>4. QED
      BY <1>2, <2>1, <3>1, <3>2, <3>3, FineStep
  <2>3. CASE u # req[r].cur
    <3>1. credit'[u] = credit[u]
      BY <1>1, <2>3 DEF Add, IInv, TypeOK
    <3>2. QED
      BY <1>1, <1>2, <2>3, <3>1, FineBystander
  <2>4. QED
    BY <2>2, <2>3
<1>4. QED
  BY <1>3, FineForAll

\* Writing the ledger entry moves no balance; the event is still owed.
LEMMA ChargeFine ==
  ASSUME IInv, TypeOK', NEW r \in Req, DispatchCharge(r)
  PROVE  DueBounded' /\ ReceivedAccounted'
<1>1. /\ req[r].pc = "charge" /\ req[r].cur \in User
      /\ UNCHANGED <<credit, submitted, received, lost>>
  BY DEF DispatchCharge, At, IInv, TypeOK
<1>2. /\ \A s \in Req \ {r} : req'[s] = req[s]
      /\ req'[r].pc = "event" /\ req'[r].cur = req[r].cur
  BY GoEffect DEF DispatchCharge, IInv
<1>3. ASSUME NEW u \in User PROVE Fine(u)'
  <2>1. /\ submitted'[u] = submitted[u] + 0 /\ credit'[u] = credit[u] + 0
        /\ received'[u] = received[u] + 0 /\ lost'[u] = lost[u] + 0
    BY <1>1 DEF IInv, TypeOK
  <2>2. /\ Own(req'[r], u, {"consume"}) = Own(req[r], u, {"consume"}) + 0
        /\ Own(req'[r], u, {"charge", "event"})
             = Own(req[r], u, {"charge", "event"}) + 0
    BY <1>1, <1>2 DEF Own
  <2>3. 0 \in Int /\ 0 >= 0 /\ 0 - 0 = 0 + 0 + 0
    OBVIOUS
  <2>4. QED
    BY <1>2, <2>1, <2>2, <2>3, FineStep
<1>4. QED
  BY <1>3, FineForAll

\* The event is created: it is received instead of owed.
LEMMA EventFine ==
  ASSUME IInv, TypeOK', NEW r \in Req, DispatchEvent(r)
  PROVE  DueBounded' /\ ReceivedAccounted'
<1>1. /\ req[r].pc = "event" /\ req[r].cur \in User
      /\ UNCHANGED <<credit, submitted, lost>>
      /\ received' = Add(received, req[r].cur, 1)
  BY DEF DispatchEvent, At, IInv, TypeOK
<1>2. /\ \A s \in Req \ {r} : req'[s] = req[s]
      /\ req'[r].pc \in {"idle", "next"} /\ req'[r].cur = NoUser
  BY ContinueEffect DEF DispatchEvent, IInv
<1>3. ASSUME NEW u \in User PROVE Fine(u)'
  <2>1. /\ submitted'[u] = submitted[u] + 0 /\ credit'[u] = credit[u] + 0
        /\ lost'[u] = lost[u] + 0
    BY <1>1 DEF IInv, TypeOK
  <2>2. CASE u = req[r].cur
    <3>1. received'[u] = received[u] + 1
      BY <1>1, <2>2 DEF Add, IInv, TypeOK
    <3>2. /\ Own(req'[r], u, {"consume"}) = Own(req[r], u, {"consume"}) + 0
          /\ Own(req'[r], u, {"charge", "event"})
               = Own(req[r], u, {"charge", "event"}) + (-1)
      BY <1>1, <1>2, <2>2 DEF Own
    <3>3. 0 \in Int /\ 1 \in Int /\ -1 \in Int /\ 0 >= 0 /\ 0 - 0 = 1 + (-1) + 0
      OBVIOUS
    <3>4. QED
      BY <1>2, <2>1, <3>1, <3>2, <3>3, FineStep
  <2>3. CASE u # req[r].cur
    <3>1. received'[u] = received[u] /\ u # NoUser
      BY <1>1, <2>3, ConstantsAssumption DEF Add, IInv, TypeOK
    <3>2. QED
      BY <1>1, <1>2, <2>3, <3>1, FineBystander
  <2>4. QED
    BY <2>2, <2>3
<1>4. QED
  BY <1>3, FineForAll

\* A fault in the loop: before the decrement nothing was taken, after it the
\* charge is lost instead of owed.
LEMMA FailDispatchFine ==
  ASSUME IInv, TypeOK', NEW r \in Req, FailDispatch(r)
  PROVE  DueBounded' /\ ReceivedAccounted'
<1>1. /\ req[r].pc \in {"consume", "charge", "event"} /\ req[r].cur \in User
      /\ UNCHANGED <<credit, submitted, received>>
      /\ lost' = IF At(r, "consume") THEN lost ELSE Add(lost, req[r].cur, 1)
  BY DEF FailDispatch, IInv, TypeOK
<1>2. /\ \A s \in Req \ {r} : req'[s] = req[s]
      /\ req'[r].pc \in {"idle", "next"} /\ req'[r].cur = NoUser
  BY ContinueEffect DEF FailDispatch, IInv
<1>3. ASSUME NEW u \in User PROVE Fine(u)'
  <2>1. /\ submitted'[u] = submitted[u] + 0 /\ credit'[u] = credit[u] + 0
        /\ received'[u] = received[u] + 0
    BY <1>1 DEF IInv, TypeOK
  <2>2. CASE u = req[r].cur /\ req[r].pc = "consume"
    <3>1. lost'[u] = lost[u] + 0
      BY <1>1, <2>2 DEF At, IInv, TypeOK
    <3>2. /\ Own(req'[r], u, {"consume"}) = Own(req[r], u, {"consume"}) + (-1)
          /\ Own(req'[r], u, {"charge", "event"})
               = Own(req[r], u, {"charge", "event"}) + 0
      BY <1>1, <1>2, <2>2 DEF Own
    <3>3. 0 \in Int /\ -1 \in Int /\ 0 >= -1 /\ 0 - 0 = 0 + 0 + 0
      OBVIOUS
    <3>4. QED
      BY <1>2, <2>1, <3>1, <3>2, <3>3, FineStep
  <2>3. CASE u = req[r].cur /\ req[r].pc # "consume"
    <3>1. lost'[u] = lost[u] + 1
      BY <1>1, <2>3 DEF At, Add, IInv, TypeOK
    <3>2. /\ Own(req'[r], u, {"consume"}) = Own(req[r], u, {"consume"}) + 0
          /\ Own(req'[r], u, {"charge", "event"})
               = Own(req[r], u, {"charge", "event"}) + (-1)
      BY <1>1, <1>2, <2>3 DEF Own
    <3>3. 0 \in Int /\ 1 \in Int /\ -1 \in Int /\ 0 >= 0 /\ 0 - 0 = 0 + (-1) + 1
      OBVIOUS
    <3>4. QED
      BY <1>2, <2>1, <3>1, <3>2, <3>3, FineStep
  <2>4. CASE u # req[r].cur
    <3>1. lost'[u] = lost[u] /\ u # NoUser
      BY <1>1, <2>4, ConstantsAssumption DEF Add, IInv, TypeOK
    <3>2. QED
      BY <1>1, <1>2, <2>4, <3>1, FineBystander
  <2>5. QED
    BY <2>2, <2>3, <2>4
<1>4. QED
  BY <1>3, FineForAll

-----------------------------------------------------------------------------
LEMMA DispatchEffect ==
  ASSUME TypeOK, NEW r \in Req, NEW u, Dispatch(r, u)
  PROVE  /\ \A s \in Req \ {r} : req'[s] = req[s]
         /\ req'[r].pc \in {"idle", "next"}
<1>1. PICK users \in SUBSET (User \ {u}) :
        req' = [req EXCEPT ![r] =
                  IF users = {} THEN NoRequest
                  ELSE [NoRequest EXCEPT !.pc = "next", !.user = u,
                                         !.todo = users]]
  BY DEF Dispatch
<1>2. QED
  BY <1>1 DEF NoRequest, TypeOK

LEMMA FinishEffect ==
  ASSUME TypeOK, NEW r \in Req, Finish(r)
  PROVE  /\ \A s \in Req \ {r} : req'[s] = req[s]
         /\ req'[r].pc = "idle"
BY DEF Finish, NoRequest, TypeOK

LEMMA ArriveFine ==
  ASSUME IInv, TypeOK', NEW r \in Req, NEW u \in User, Arrive(r, u)
  PROVE  DueBounded' /\ ReceivedAccounted'
<1>1. CASE LeaveBegin(r, u) \/ ReportBegin(r, u)
  <2>1. /\ \A s \in Req \ {r} : req'[s] = req[s]
        /\ req[r].pc = "idle" /\ req'[r].pc \in {"recent", "existing"}
        /\ UNCHANGED <<credit, submitted, received, lost>>
    <3>1. PICK p \in {"recent", "existing"} : Start(r, p, u)
      BY <1>1 DEF LeaveBegin, ReportBegin
    <3>2. /\ \A s \in Req \ {r} : req'[s] = req[s]
          /\ req[r].pc = "idle" /\ req'[r].pc = p
      BY <3>1 DEF Start, At, NoRequest, IInv, TypeOK
    <3>3. UNCHANGED <<credit, submitted, received, lost>>
      BY <1>1 DEF LeaveBegin, ReportBegin
    <3>4. QED
      BY <3>2, <3>3
  <2>2. QED
    BY <2>1, QuietStep
<1>2. CASE ReportElsewhere(r, u)
  <2>1. /\ \A s \in Req \ {r} : req'[s] = req[s]
        /\ req[r].pc = "idle" /\ req'[r].pc \in {"idle", "next"}
        /\ UNCHANGED <<credit, submitted, received, lost>>
    BY <1>2, DispatchEffect DEF ReportElsewhere, At, IInv
  <2>2. QED
    BY <2>1, QuietStep
<1>3. QED
  BY <1>1, <1>2 DEF Arrive

LEMMA HandleFine ==
  ASSUME IInv, TypeOK', NEW r \in Req, Handle(r) \/ FailHandler(r)
  PROVE  DueBounded' /\ ReceivedAccounted'
<1>1. CASE LeaveAward(r)
  BY <1>1, AwardFine
<1>2. CASE \/ LeaveRecent(r) \/ LeaveFile(r) \/ LeaveFree(r)
           \/ ReportExisting(r) \/ FailHandler(r)
  <2>1. /\ req[r].pc \in HandlerPoints
        /\ UNCHANGED <<credit, submitted, received, lost>>
    BY <1>2 DEF LeaveRecent, LeaveFile, LeaveFree, ReportExisting, FailHandler, At
  <2>2. Finish(r) \/ \E p \in HandlerPoints : Go(r, p)
    <3>1. CASE LeaveRecent(r)
      BY <3>1, "file" \in HandlerPoints DEF LeaveRecent
    <3>2. CASE LeaveFile(r)
      BY <3>2, "free" \in HandlerPoints DEF LeaveFile
    <3>3. CASE LeaveFree(r)
      BY <3>3, "award" \in HandlerPoints DEF LeaveFree
    <3>4. CASE ReportExisting(r)
      BY <3>4, "publish" \in HandlerPoints DEF ReportExisting
    <3>5. CASE FailHandler(r)
      BY <3>5 DEF FailHandler
    <3>6. QED
      BY <1>2, <3>1, <3>2, <3>3, <3>4, <3>5
  <2>3. /\ \A s \in Req \ {r} : req'[s] = req[s]
        /\ req'[r].pc \in {"idle"} \cup HandlerPoints
    BY <2>2, GoEffect, FinishEffect DEF IInv
  <2>4. QED
    BY <2>1, <2>3, QuietStep
<1>3. CASE LeaveEarn(r) \/ ReportPublish(r)
  <2>1. /\ req[r].pc \in HandlerPoints
        /\ UNCHANGED <<credit, submitted, received, lost>>
    BY <1>3 DEF LeaveEarn, ReportPublish, At
  <2>2. /\ \A s \in Req \ {r} : req'[s] = req[s]
        /\ req'[r].pc \in {"idle", "next"}
    BY <1>3, DispatchEffect DEF LeaveEarn, ReportPublish, IInv
  <2>3. QED
    BY <2>1, <2>2, QuietStep
<1>4. QED
  BY <1>1, <1>2, <1>3 DEF Handle

LEMMA OtherStepsFine ==
  ASSUME IInv, UNCHANGED <<credit, submitted, received, lost, req>>
  PROVE  DueBounded' /\ ReceivedAccounted'
BY DEF IInv, DueBounded, ReceivedAccounted, NotificationsReceived, Notifying

LEMMA NextIInv == IInv /\ [Next]_vars => IInv'
<1> SUFFICES ASSUME IInv, [Next]_vars PROVE IInv'
  OBVIOUS
<1>1. TypeOK'
  BY NextTypeOK DEF IInv
<1>2. ASSUME NEW r \in Req, \/ \E u \in User : Arrive(r, u)
                            \/ Handle(r) \/ Loop(r)
                            \/ FailHandler(r) \/ FailDispatch(r)
      PROVE  DueBounded' /\ ReceivedAccounted'
  BY <1>1, <1>2, ArriveFine, HandleFine, CheckFine, ConsumeFine, ChargeFine,
     EventFine, FailDispatchFine DEF Loop
<1>3. ASSUME NEW u \in User, DeleteReport(u) \/ Age(u)
      PROVE  DueBounded' /\ ReceivedAccounted'
  BY <1>3, OtherStepsFine DEF DeleteReport, Age
<1>4. CASE Reserve \/ UNCHANGED vars
  BY <1>1, <1>4, OtherStepsFine DEF Reserve, vars, IInv
<1>5. QED
  BY <1>1, <1>2, <1>3, <1>4 DEF IInv, Next

LEMMA InitIInv == Init => IInv
<1> SUFFICES ASSUME Init PROVE IInv
  OBVIOUS
<1>1. \A u \in User, ps \in {{"consume"}, {"charge", "event"}} :
        Cardinality(Notifying(u, ps)) = 0
  <2>1. \A u \in User, ps \in {{"consume"}, {"charge", "event"}} :
          Notifying(u, ps) = {}
    BY DEF Init, Notifying, NoRequest
  <2>2. QED
    BY <2>1, FS_EmptySet
<1>2. DueBounded
  <2> SUFFICES ASSUME NEW u \in User
               PROVE  credit[u] - Cardinality(Notifying(u, {"consume"}))
                        >= 1 - Cardinality(Req)
    BY DEF DueBounded
  <2>1. credit[u] = 1 /\ Cardinality(Notifying(u, {"consume"})) = 0
    BY <1>1 DEF Init
  <2>2. QED
    BY <2>1, SlotSets
<1>3. ReceivedAccounted
  BY <1>1 DEF Init, ReceivedAccounted, NotificationsReceived
<1>4. QED
  BY <1>2, <1>3, InitTypeOK DEF IInv

LEMMA DueImpliesOverdraft == IInv => OverdraftBounded
<1> SUFFICES ASSUME IInv, NEW u \in User
             PROVE  credit[u] >= 1 - Cardinality(Req)
  BY DEF OverdraftBounded
<1>1. Cardinality(Notifying(u, {"consume"})) \in Nat
  BY SlotSets DEF Notifying
<1>2. credit[u] \in Int
  BY DEF IInv, TypeOK
<1>3. QED
  BY <1>1, <1>2, SlotSets DEF IInv, DueBounded

\* However many dispatch loops check and take credits of the same users at
\* once, n of them leave no balance below 1 - n.
THEOREM OverdraftCorrect == Spec => []OverdraftBounded
BY InitIInv, NextIInv, DueImpliesOverdraft, PTL DEF Spec

\* The number of received notifications that getUserParkingCredits computes
\* from the balance is the number of events, those owed and those lost.
THEOREM ReceivedCorrect == Spec => []ReceivedAccounted
<1>1. IInv => ReceivedAccounted
  BY DEF IInv
<1>2. QED
  BY <1>1, InitIInv, NextIInv, PTL DEF Spec

-----------------------------------------------------------------------------
(***************************************************************************)
(* LedgerAccounted.  Balance, ledger and what faults swallowed change with  *)
(* the slots that stand between a counter and its entry: those at "charge"  *)
(* by their addressee, those at "earn" by their user.                       *)
(***************************************************************************)
ByUser(q) == [cur |-> q.user, pc |-> q.pc]

\* Slots that stand at one of the points ps and work for u.
Working(u, ps) == {s \in Req : req[s].user = u /\ req[s].pc \in ps}

LEMMA WorkingIsThose ==
  \A u, ps : /\ Working(u, ps) = Those([s \in Req |-> ByUser(req[s])], u, ps)
             /\ Working(u, ps)' = Those([s \in Req |-> ByUser(req'[s])], u, ps)
BY DEF Working, Those, ByUser

\* A step of slot r changes the number of slots that work for u by r's share.
LEMMA WorkingChange ==
  ASSUME NEW r \in Req, \A s \in Req \ {r} : req'[s] = req[s],
         NEW u \in User, NEW ps, NEW d \in Int,
         Own(ByUser(req'[r]), u, ps) = Own(ByUser(req[r]), u, ps) + d
  PROVE  /\ Cardinality(Working(u, ps)) \in Nat
         /\ Cardinality(Working(u, ps)') = Cardinality(Working(u, ps)) + d
<1> DEFINE T == [s \in Req |-> ByUser(req[s])]
           U == [s \in Req |-> ByUser(req'[s])]
           O(f) == {s \in Req \ {r} : f[s].cur = u /\ f[s].pc \in ps}
<1>1. O(U) = O(T)
  BY DEF ByUser
<1>2. T[r] = ByUser(req[r]) /\ U[r] = ByUser(req'[r])
  OBVIOUS
<1>3. Working(u, ps) = Those(T, u, ps) /\ Working(u, ps)' = Those(U, u, ps)
  BY WorkingIsThose
<1> HIDE DEF T, U
<1>4. /\ Cardinality(O(T)) \in Nat
      /\ Cardinality(Those(T, u, ps)) = Cardinality(O(T)) + Own(T[r], u, ps)
  BY ThoseSplit
<1>5. Cardinality(Those(U, u, ps)) = Cardinality(O(U)) + Own(U[r], u, ps)
  BY ThoseSplit
<1>6. Own(T[r], u, ps) \in Int
  BY DEF Own
<1>7. Those(T, u, ps) \in SUBSET Req
  BY DEF Those
<1> HIDE DEF O
<1>8. QED
  BY <1>1, <1>2, <1>3, <1>4, <1>5, <1>6, <1>7, SlotSets

LEMMA EarningChange ==
  ASSUME NEW r \in Req, \A s \in Req \ {r} : req'[s] = req[s],
         NEW u \in User, NEW d \in Int,
         Own(ByUser(req'[r]), u, {"earn"}) = Own(ByUser(req[r]), u, {"earn"}) + d
  PROVE  /\ Cardinality(Earning(u)) \in Nat
         /\ Cardinality(Earning(u)') = Cardinality(Earning(u)) + d
<1>1. Earning(u) = Working(u, {"earn"}) /\ Earning(u)' = Working(u, {"earn"})'
  BY DEF Earning, Working
<1>2. QED
  BY <1>1, WorkingChange

\* The sum itself, apart from what its terms are.
LEMMA SumKept ==
  ASSUME NEW a \in Int, NEW b \in Int, NEW k \in Int, NEW x \in Int, NEW y \in Int,
         NEW c \in Int, NEW d \in Int, NEW l \in Int, NEW e \in Int, NEW n \in Int,
         a + b = 1 + k + x + y, c + d = l + e + n
  PROVE  (a + c) + (b + d) = 1 + (k + l) + (x + e) + (y + n)
OBVIOUS

LInv == TypeOK /\ LedgerAccounted

\* A step of slot r on behalf of w whose changes of w's numbers cancel out.
LEMMA LedgerStep ==
  ASSUME LInv, TypeOK', NEW r \in Req, \A s \in Req \ {r} : req'[s] = req[s],
         NEW w \in User,
         NEW c \in Int, credit'   = Add(credit, w, c),
         NEW l \in Int, ledger'   = Add(ledger, w, l),
         NEW n \in Int, unlogged' = Add(unlogged, w, n),
         NEW d \in Int,
         \A u \in User : Own(req'[r], u, {"charge"})
           = Own(req[r], u, {"charge"}) + (IF u = w THEN d ELSE 0),
         NEW e \in Int,
         \A u \in User : Own(ByUser(req'[r]), u, {"earn"})
           = Own(ByUser(req[r]), u, {"earn"}) + (IF u = w THEN e ELSE 0),
         c + d = l + e + n
  PROVE  LedgerAccounted'
<1> SUFFICES ASSUME NEW u \in User
             PROVE  credit'[u] + Cardinality(Notifying(u, {"charge"})')
                      = 1 + ledger'[u] + Cardinality(Earning(u)') + unlogged'[u]
  BY DEF LedgerAccounted
<1> DEFINE of(k) == IF u = w THEN k ELSE 0
<1>1. /\ of(c) \in Int /\ of(d) \in Int /\ of(l) \in Int /\ of(e) \in Int
      /\ of(n) \in Int /\ of(c) + of(d) = of(l) + of(e) + of(n)
  OBVIOUS
<1>2. /\ credit[u] \in Int /\ ledger[u] \in Int /\ unlogged[u] \in Int
      /\ credit'[u] = credit[u] + of(c) /\ ledger'[u] = ledger[u] + of(l)
      /\ unlogged'[u] = unlogged[u] + of(n)
  BY DEF Add, LInv, TypeOK
<1>3. /\ Own(req'[r], u, {"charge"}) = Own(req[r], u, {"charge"}) + of(d)
      /\ Own(ByUser(req'[r]), u, {"earn"})
           = Own(ByUser(req[r]), u, {"earn"}) + of(e)
  OBVIOUS
<1> HIDE DEF of
<1>4. /\ Cardinality(Notifying(u, {"charge"})) \in Nat
      /\ Cardinality(Notifying(u, {"charge"})')
           = Cardinality(Notifying(u, {"charge"})) + of(d)
  BY <1>1, <1>3, NotifyingChange
<1>5. /\ Cardinality(Earning(u)) \in Nat
      /\ Cardinality(Earning(u)') = Cardinality(Earning(u)) + of(e)
  BY <1>1, <1>3, EarningChange
<1>6. credit[u] + Cardinality(Notifying(u, {"charge"}))
        = 1 + ledger[u] + Cardinality(Earning(u)) + unlogged[u]
  BY DEF LInv, LedgerAccounted
<1>7. (credit[u] + of(c)) + (Cardinality(Notifying(u, {"charge"})) + of(d))
        = 1 + (ledger[u] + of(l)) + (Cardinality(Earning(u)) + of(e))
          + (unlogged[u] + of(n))
  BY <1>1, <1>2, <1>4, <1>5, <1>6, SumKept
<1>8. QED
  BY <1>2, <1>4, <1>5, <1>7

\* A step that touches neither balance nor ledger, of a slot that stands at no
\* entry before or after it.
LEMMA LedgerQuiet ==
  ASSUME LInv, TypeOK', NEW r \in Req, \A s \in Req \ {r} : req'[s] = req[s],
         req[r].pc \notin {"charge", "earn"},
         req'[r].pc \notin {"charge", "earn"},
         UNCHANGED <<credit, ledger, unlogged>>
  PROVE  LedgerAccounted'
<1> SUFFICES ASSUME NEW w \in User PROVE LedgerAccounted'
  BY DEF LedgerAccounted
<1>1. /\ credit' = Add(credit, w, 0) /\ ledger' = Add(ledger, w, 0)
      /\ unlogged' = Add(unlogged, w, 0)
  BY DEF Add, LInv, TypeOK
<1>2. \A u \in User :
        /\ Own(req'[r], u, {"charge"})
             = Own(req[r], u, {"charge"}) + (IF u = w THEN 0 ELSE 0)
        /\ Own(ByUser(req'[r]), u, {"earn"})
             = Own(ByUser(req[r]), u, {"earn"}) + (IF u = w THEN 0 ELSE 0)
  BY DEF Own, ByUser
<1>3. 0 \in Int /\ 0 + 0 = 0 + 0 + 0
  OBVIOUS
<1>4. QED
  BY <1>1, <1>2, <1>3, LedgerStep

\* A fault-free step that earns, takes or books a credit moves the numbers of
\* one user, and slot r with them.
LEMMA LedgerMoves ==
  ASSUME LInv, TypeOK', NEW r \in Req,
         \/ LeaveAward(r) \/ LeaveEarn(r) \/ DispatchConsume(r) \/ DispatchCharge(r)
  PROVE  LedgerAccounted'
<1>1. CASE LeaveAward(r)
  <2> DEFINE w == req[r].user
  <2>1. /\ w \in User /\ req[r].pc = "award"
        /\ \A s \in Req \ {r} : req'[s] = req[s]
        /\ req'[r].pc = "earn" /\ req'[r].user = w
    BY <1>1 DEF LeaveAward, At, Go, LInv, TypeOK, Request
  <2>2. /\ credit' = Add(credit, w, 1) /\ ledger' = Add(ledger, w, 0)
        /\ unlogged' = Add(unlogged, w, 0)
    BY <1>1, <2>1 DEF LeaveAward, Add, LInv, TypeOK
  <2>3. \A u \in User :
          /\ Own(req'[r], u, {"charge"})
               = Own(req[r], u, {"charge"}) + (IF u = w THEN 0 ELSE 0)
          /\ Own(ByUser(req'[r]), u, {"earn"})
               = Own(ByUser(req[r]), u, {"earn"}) + (IF u = w THEN 1 ELSE 0)
    BY <2>1 DEF Own, ByUser
  <2> HIDE DEF w
  <2>4. 0 \in Int /\ 1 \in Int /\ 1 + 0 = 0 + 1 + 0
    OBVIOUS
  <2>5. QED
    BY <2>1, <2>2, <2>3, <2>4, LedgerStep
<1>2. CASE LeaveEarn(r)
  <2> DEFINE w == req[r].user
  <2>1. /\ w \in User /\ req[r].pc = "earn"
    BY <1>2 DEF LeaveEarn, At, LInv, TypeOK
  <2>2. /\ \A s \in Req \ {r} : req'[s] = req[s]
        /\ req'[r].pc \in {"idle", "next"}
    BY <1>2, DispatchEffect DEF LeaveEarn, LInv
  <2>3. /\ credit' = Add(credit, w, 0) /\ ledger' = Add(ledger, w, 1)
        /\ unlogged' = Add(unlogged, w, 0)
    BY <1>2, <2>1 DEF LeaveEarn, Add, LInv, TypeOK
  <2>4. \A u \in User :
          /\ Own(req'[r], u, {"charge"})
               = Own(req[r], u, {"charge"}) + (IF u = w THEN 0 ELSE 0)
          /\ Own(ByUser(req'[r]), u, {"earn"})
               = Own(ByUser(req[r]), u, {"earn"}) + (IF u = w THEN -1 ELSE 0)
    BY <2>1, <2>2 DEF Own, ByUser
  <2> HIDE DEF w
  <2>5. 0 \in Int /\ 1 \in Int /\ -1 \in Int /\ 0 + 0 = 1 + (-1) + 0
    OBVIOUS
  <2>6. QED
    BY <2>1, <2>2, <2>3, <2>4, <2>5, LedgerStep
<1>3. CASE DispatchConsume(r)
  <2> DEFINE w == req[r].cur
  <2>1. /\ w \in User /\ req[r].pc = "consume"
        /\ \A s \in Req \ {r} : req'[s] = req[s]
        /\ req'[r].pc = "charge" /\ req'[r].cur = w
    BY <1>3 DEF DispatchConsume, At, Go, LInv, TypeOK, Request
  <2>2. /\ credit' = Add(credit, w, -1) /\ ledger' = Add(ledger, w, 0)
        /\ unlogged' = Add(unlogged, w, 0)
    BY <1>3, <2>1 DEF DispatchConsume, Add, LInv, TypeOK
  <2>3. \A u \in User :
          /\ Own(req'[r], u, {"charge"})
               = Own(req[r], u, {"charge"}) + (IF u = w THEN 1 ELSE 0)
          /\ Own(ByUser(req'[r]), u, {"earn"})
               = Own(ByUser(req[r]), u, {"earn"}) + (IF u = w THEN 0 ELSE 0)
    BY <2>1 DEF Own, ByUser
  <2> HIDE DEF w
  <2>4. 0 \in Int /\ 1 \in Int /\ -1 \in Int /\ (-1) + 1 = 0 + 0 + 0
    OBVIOUS
  <2>5. QED
    BY <2>1, <2>2, <2>3, <2>4, LedgerStep
<1>4. CASE DispatchCharge(r)
  <2> DEFINE w == req[r].cur
  <2>1. /\ w \in User /\ req[r].pc = "charge"
        /\ \A s \in Req \ {r} : req'[s] = req[s]
        /\ req'[r].pc = "event" /\ req'[r].cur = w
    BY <1>4 DEF DispatchCharge, At, Go, LInv, TypeOK, Request
  <2>2. /\ credit' = Add(credit, w, 0) /\ ledger' = Add(ledger, w, -1)
        /\ unlogged' = Add(unlogged, w, 0)
    BY <1>4, <2>1 DEF DispatchCharge, Add, LInv, TypeOK
  <2>3. \A u \in User :
          /\ Own(req'[r], u, {"charge"})
               = Own(req[r], u, {"charge"}) + (IF u = w THEN -1 ELSE 0)
          /\ Own(ByUser(req'[r]), u, {"earn"})
               = Own(ByUser(req[r]), u, {"earn"}) + (IF u = w THEN 0 ELSE 0)
    BY <2>1 DEF Own, ByUser
  <2> HIDE DEF w
  <2>4. 0 \in Int /\ -1 \in Int /\ 0 + (-1) = (-1) + 0 + 0
    OBVIOUS
  <2>5. QED
    BY <2>1, <2>2, <2>3, <2>4, LedgerStep
<1>5. QED
  BY <1>1, <1>2, <1>3, <1>4

\* A fault swallows the entry that its slot was about to write.
LEMMA LedgerFaults ==
  ASSUME LInv, TypeOK', NEW r \in Req, FailHandler(r) \/ FailDispatch(r)
  PROVE  LedgerAccounted'
<1>1. /\ \A s \in Req \ {r} : req'[s] = req[s]
      /\ req'[r].pc \in {"idle", "next"}
      /\ UNCHANGED <<credit, ledger>>
  BY FinishEffect, ContinueEffect DEF FailHandler, FailDispatch, LInv
<1>2. CASE FailHandler(r) /\ req[r].pc = "earn"
  <2> DEFINE w == req[r].user
  <2>1. w \in User /\ unlogged' = Add(unlogged, w, 1)
    BY <1>2 DEF FailHandler, At, LInv, TypeOK
  <2>2. credit' = Add(credit, w, 0) /\ ledger' = Add(ledger, w, 0)
    BY <1>1, <2>1 DEF Add, LInv, TypeOK
  <2>3. \A u \in User :
          /\ Own(req'[r], u, {"charge"})
               = Own(req[r], u, {"charge"}) + (IF u = w THEN 0 ELSE 0)
          /\ Own(ByUser(req'[r]), u, {"earn"})
               = Own(ByUser(req[r]), u, {"earn"}) + (IF u = w THEN -1 ELSE 0)
    BY <1>1, <1>2 DEF Own, ByUser
  <2> HIDE DEF w
  <2>4. 0 \in Int /\ 1 \in Int /\ -1 \in Int /\ 0 + 0 = 0 + (-1) + 1
    OBVIOUS
  <2>5. QED
    BY <1>1, <2>1, <2>2, <2>3, <2>4, LedgerStep
<1>3. CASE FailDispatch(r) /\ req[r].pc = "charge"
  <2> DEFINE w == req[r].cur
  <2>1. w \in User /\ unlogged' = Add(unlogged, w, -1)
    BY <1>3 DEF FailDispatch, At, LInv, TypeOK
  <2>2. credit' = Add(credit, w, 0) /\ ledger' = Add(ledger, w, 0)
    BY <1>1, <2>1 DEF Add, LInv, TypeOK
  <2>3. \A u \in User :
          /\ Own(req'[r], u, {"charge"})
               = Own(req[r], u, {"charge"}) + (IF u = w THEN -1 ELSE 0)
          /\ Own(ByUser(req'[r]), u, {"earn"})
               = Own(ByUser(req[r]), u, {"earn"}) + (IF u = w THEN 0 ELSE 0)
    BY <1>1, <1>3 DEF Own, ByUser
  <2> HIDE DEF w
  <2>4. 0 \in Int /\ -1 \in Int /\ 0 + (-1) = 0 + 0 + (-1)
    OBVIOUS
  <2>5. QED
    BY <1>1, <2>1, <2>2, <2>3, <2>4, LedgerStep
<1>4. CASE req[r].pc \notin {"earn", "charge"}
  <2>1. UNCHANGED unlogged
    BY <1>4 DEF FailHandler, FailDispatch, At
  <2>2. QED
    BY <1>1, <1>4, <2>1, LedgerQuiet
<1>5. QED
  BY <1>2, <1>3, <1>4 DEF FailHandler, FailDispatch, HandlerPoints

LEMMA LedgerElse ==
  ASSUME LInv, TypeOK', NEW r \in Req,
         \/ \E u \in User : Arrive(r, u)
         \/ LeaveRecent(r) \/ LeaveFile(r) \/ LeaveFree(r)
         \/ ReportExisting(r) \/ ReportPublish(r)
         \/ DispatchCheck(r) \/ DispatchEvent(r)
  PROVE  LedgerAccounted'
<1>1. /\ UNCHANGED <<credit, ledger, unlogged>>
      /\ req[r].pc \notin {"charge", "earn"}
  BY DEF Arrive, LeaveBegin, ReportBegin, ReportElsewhere, Start, At,
     LeaveRecent, LeaveFile, LeaveFree, ReportExisting, ReportPublish,
     DispatchCheck, DispatchEvent
<1>2. /\ \A s \in Req \ {r} : req'[s] = req[s]
      /\ req'[r].pc \notin {"charge", "earn"}
  <2>1. CASE \E u \in User : LeaveBegin(r, u) \/ ReportBegin(r, u)
    BY <2>1 DEF LeaveBegin, ReportBegin, Start, NoRequest, LInv, TypeOK
  <2>2. CASE (\E u \in User : ReportElsewhere(r, u)) \/ ReportPublish(r)
    BY <2>2, DispatchEffect DEF ReportElsewhere, ReportPublish, LInv
  <2>3. CASE LeaveRecent(r) \/ LeaveFile(r) \/ LeaveFree(r) \/ ReportExisting(r)
    BY <2>3 DEF LeaveRecent, LeaveFile, LeaveFree, ReportExisting, Go, Finish,
       NoRequest, LInv, TypeOK, Request
  <2>4. CASE DispatchCheck(r)
    <3>1. PICK w \in req[r].todo :
            \/ Continue(r, req[r].todo \ {w})
            \/ req' = [req EXCEPT ![r].pc = "consume", ![r].cur = w,
                                  ![r].todo = @ \ {w}]
      BY <2>4 DEF DispatchCheck
    <3>2. QED
      BY <3>1, ContinueEffect DEF LInv, TypeOK, Request
  <2>5. CASE DispatchEvent(r)
    BY <2>5, ContinueEffect DEF DispatchEvent, LInv
  <2>6. QED
    BY <2>1, <2>2, <2>3, <2>4, <2>5 DEF Arrive
<1>3. QED
  BY <1>1, <1>2, LedgerQuiet

LEMMA LedgerNext == LInv /\ [Next]_vars => LInv'
<1> SUFFICES ASSUME LInv, [Next]_vars PROVE LInv'
  OBVIOUS
<1>1. TypeOK'
  BY NextTypeOK DEF LInv
<1>2. ASSUME NEW r \in Req, \/ \E u \in User : Arrive(r, u)
                            \/ Handle(r) \/ Loop(r)
                            \/ FailHandler(r) \/ FailDispatch(r)
      PROVE  LedgerAccounted'
  BY <1>1, <1>2, LedgerMoves, LedgerFaults, LedgerElse DEF Handle, Loop
<1>3. CASE UNCHANGED <<credit, ledger, unlogged, req>>
  BY <1>1, <1>3 DEF LInv, LedgerAccounted, Notifying, Earning
<1>4. CASE Reserve \/ UNCHANGED vars \/ \E u \in User : DeleteReport(u) \/ Age(u)
  BY <1>3, <1>4 DEF Reserve, vars, DeleteReport, Age
<1>5. QED
  BY <1>1, <1>2, <1>4 DEF LInv, Next

LEMMA LedgerInit == Init => LInv
<1> SUFFICES ASSUME Init, NEW u \in User
             PROVE  credit[u] + Cardinality(Notifying(u, {"charge"}))
                      = 1 + ledger[u] + Cardinality(Earning(u)) + unlogged[u]
  BY InitTypeOK DEF LInv, LedgerAccounted
<1>1. Notifying(u, {"charge"}) = {} /\ Earning(u) = {}
  BY DEF Init, Notifying, Earning, NoRequest
<1>2. Cardinality(Notifying(u, {"charge"})) = 0 /\ Cardinality(Earning(u)) = 0
  BY <1>1, FS_EmptySet
<1>3. QED
  BY <1>2 DEF Init

\* The history of a user's credits adds up to the balance, whatever requests,
\* loops and faults meet, but for the entries about to be written or lost.
THEOREM LedgerCorrect == Spec => []LedgerAccounted
<1>1. LInv => LedgerAccounted
  BY DEF LInv
<1>2. QED
  BY <1>1, LedgerInit, LedgerNext, PTL DEF Spec

-----------------------------------------------------------------------------
(***************************************************************************)
(* What a window of ten minutes holds.  A slot at "file" or "publish" will  *)
(* add a report, and found none: so reports and such slots together are     *)
(* never more than there are slots (the bound of WInv).  One at "free" or   *)
(* "award" has added its report and is yet to be paid for it.  Earmarked is *)
(* what became of the reports that were not, and are not to be, paid.       *)
(***************************************************************************)
Filing(u) == Working(u, {"file", "publish"})

Earmarked(u) == published[u] + stranded[u] - deleted[u]

HTypeOK ==
  /\ TypeOK
  /\ deleted \in [User -> Nat]
  /\ published \in [User -> Nat]
  /\ stranded \in [User -> Nat]

WInv ==
  /\ HTypeOK
  /\ \A u \in User :
       /\ rows[u] + Cardinality(Filing(u)) <= Cardinality(Req)
       /\ rows[u] = paid[u] + Cardinality(Awarding(u)) + Earmarked(u)

\* WInv of one user, after the step.
Held(u) ==
  /\ rows'[u] + Cardinality(Filing(u))' <= Cardinality(Req)
  /\ rows'[u] = paid'[u] + Cardinality(Awarding(u))' + Earmarked(u)'

LEMMA AwardingIsWorking ==
  \A u : /\ Awarding(u) = Working(u, {"free", "award"})
         /\ Awarding(u)' = Working(u, {"free", "award"})'
BY DEF Awarding, Working

LEMMA SlotCount == Cardinality(Req) \in Nat
BY SlotSets, Req \in SUBSET Req

LEMMA HistoryTypes ==
  ASSUME WInv, HistoryNext
  PROVE  HTypeOK'
<1>1. TypeOK'
  BY NextTypeOK DEF HistoryNext, Runs, Throws, Deletes, Ages, Next, WInv, HTypeOK
<1>2. ASSUME NEW u \in User, NEW f \in [User -> Nat]
      PROVE  Add(f, u, 1) \in [User -> Nat] /\ Forget(f, u) \in [User -> Nat]
  BY DEF Add, Forget
<1>3. \A r \in Req : req[r].pc # "idle" => req[r].user \in User
  BY DEF WInv, HTypeOK, TypeOK
<1>4. ASSUME NEW r \in Req, Runs(r) PROVE HTypeOK'
  <2>1. At(r, "publish") => req[r].user \in User
    BY <1>3 DEF At
  <2>2. QED
    BY <1>1, <1>2, <1>4, <2>1 DEF Runs, WInv, HTypeOK
<1>5. ASSUME NEW r \in Req, Throws(r) PROVE HTypeOK'
  BY <1>1, <1>2, <1>3, <1>5 DEF Throws, WInv, HTypeOK
<1>6. ASSUME NEW u \in User, Deletes(u) \/ Ages(u) PROVE HTypeOK'
  BY <1>1, <1>2, <1>6 DEF Deletes, Ages, WInv, HTypeOK
<1>7. CASE Reserve /\ UNCHANGED <<deleted, published, stranded>>
  BY <1>1, <1>7 DEF WInv, HTypeOK
<1>8. QED
  BY <1>4, <1>5, <1>6, <1>7 DEF HistoryNext

\* How the numbers of user u follow the share of slot r: d reports more, m
\* credits, e slots about to file, g about to be paid, x reports earmarked.
LEMMA WindowStep ==
  ASSUME WInv, HTypeOK', NEW u \in User,
         NEW r \in Req, \A s \in Req \ {r} : req'[s] = req[s],
         NEW d \in Int, rows'[u] = rows[u] + d,
         NEW m \in Int, paid'[u] = paid[u] + m,
         NEW e \in Int, Own(ByUser(req'[r]), u, {"file", "publish"})
                          = Own(ByUser(req[r]), u, {"file", "publish"}) + e,
         NEW g \in Int, Own(ByUser(req'[r]), u, {"free", "award"})
                          = Own(ByUser(req[r]), u, {"free", "award"}) + g,
         NEW x \in Int, Earmarked(u)' = Earmarked(u) + x,
         d + e <= 0 \/ rows'[u] = 0,
         d = m + g + x
  PROVE  Held(u)
<1>1. TypeOK /\ TypeOK'
  BY DEF WInv, HTypeOK
<1>2. /\ Cardinality(Filing(u)) \in Nat
      /\ Cardinality(Filing(u))' = Cardinality(Filing(u)) + e
  BY <1>1, WorkingChange DEF Filing
<1>3. /\ Cardinality(Awarding(u)) \in Nat
      /\ Cardinality(Awarding(u))' = Cardinality(Awarding(u)) + g
  <2>1. /\ Cardinality(Working(u, {"free", "award"})) \in Nat
        /\ Cardinality(Working(u, {"free", "award"})')
             = Cardinality(Working(u, {"free", "award"})) + g
    BY WorkingChange
  <2>2. QED
    BY <2>1, AwardingIsWorking
<1>4. /\ rows[u] + Cardinality(Filing(u)) <= Cardinality(Req)
      /\ rows[u] = paid[u] + Cardinality(Awarding(u)) + Earmarked(u)
  BY DEF WInv
<1>5. rows[u] \in Nat /\ paid[u] \in Nat /\ Earmarked(u) \in Int
  BY DEF WInv, HTypeOK, TypeOK, Earmarked
<1>6. rows'[u] + Cardinality(Filing(u))' <= Cardinality(Req)
  <2>1. CASE d + e <= 0
    BY <1>2, <1>4, <1>5, <2>1, SlotCount
  <2>2. CASE rows'[u] = 0
    <3>1. Filing(u)' \in SUBSET Req
      BY DEF Filing, Working
    <3>2. Cardinality(Filing(u)') <= Cardinality(Req) /\ Cardinality(Filing(u)') \in Nat
      BY <3>1, SlotSets, ConstantsAssumption, FS_Subset
    <3>3. QED
      BY <2>2, <3>2, SlotCount
  <2>3. QED
    BY <2>1, <2>2
<1>7. rows'[u] = paid'[u] + Cardinality(Awarding(u))' + Earmarked(u)'
  BY <1>3, <1>4, <1>5
<1>8. QED
  BY <1>6, <1>7 DEF Held

\* A step of slot r that leaves user u's share alone.
LEMMA WindowElse ==
  ASSUME WInv, HTypeOK', NEW u \in User,
         NEW r \in Req, \A s \in Req \ {r} : req'[s] = req[s],
         rows'[u] = rows[u], paid'[u] = paid[u], Earmarked(u)' = Earmarked(u),
         Own(ByUser(req'[r]), u, {"free", "award"})
           = Own(ByUser(req[r]), u, {"free", "award"}),
         \/ Own(ByUser(req'[r]), u, {"file", "publish"})
              = Own(ByUser(req[r]), u, {"file", "publish"})
         \/ rows'[u] = 0
  PROVE  Held(u)
<1>1. /\ rows'[u] = rows[u] + 0 /\ paid'[u] = paid[u] + 0
      /\ Earmarked(u)' = Earmarked(u) + 0
  BY DEF WInv, HTypeOK, TypeOK, Earmarked
<1> DEFINE a == Own(ByUser(req[r]), u, {"file", "publish"})
           b == Own(ByUser(req'[r]), u, {"file", "publish"})
           c == Own(ByUser(req[r]), u, {"free", "award"})
<1>2. a \in Int /\ b \in Int /\ c \in Int
  BY DEF Own
<1> HIDE DEF a, b, c
<1> DEFINE e == b - a
<1>3. e \in Int /\ b = a + e /\ c = c + 0 /\ (b = a => 0 + e <= 0)
  BY <1>2
<1> HIDE DEF e
<1>4. 0 \in Int /\ 0 = 0 + 0 + 0
  OBVIOUS
<1>5. 0 + e <= 0 \/ rows'[u] = 0
  BY <1>3 DEF a, b
<1>6. /\ Own(ByUser(req'[r]), u, {"file", "publish"})
           = Own(ByUser(req[r]), u, {"file", "publish"}) + e
      /\ Own(ByUser(req'[r]), u, {"free", "award"})
           = Own(ByUser(req[r]), u, {"free", "award"}) + 0
  BY <1>3 DEF a, b, c
<1>7. QED
  BY <1>1, <1>3, <1>4, <1>5, <1>6, WindowStep

\* A step of slot r that stays away from the points between.
LEMMA WindowQuiet ==
  ASSUME WInv, HTypeOK', NEW u \in User,
         NEW r \in Req, \A s \in Req \ {r} : req'[s] = req[s],
         UNCHANGED <<rows, paid, deleted, published, stranded>>,
         \/ /\ req[r].pc \notin {"file", "publish", "free", "award"}
            /\ req'[r].pc \notin {"file", "publish", "free", "award"}
         \/ /\ req[r].pc = "free" /\ req'[r].pc = "award"
            /\ req'[r].user = req[r].user
  PROVE  Held(u)
<1>1. /\ Own(ByUser(req'[r]), u, {"file", "publish"})
           = Own(ByUser(req[r]), u, {"file", "publish"})
      /\ Own(ByUser(req'[r]), u, {"free", "award"})
           = Own(ByUser(req[r]), u, {"free", "award"})
  BY DEF Own, ByUser
<1>2. Earmarked(u)' = Earmarked(u)
  BY DEF Earmarked
<1>3. QED
  BY <1>1, <1>2, WindowElse

\* A handler that found no report in the window goes on to add one.
LEMMA WindowEnter ==
  ASSUME WInv, HTypeOK', NEW u \in User,
         NEW r \in Req, NEW p \in {"file", "publish"}, Go(r, p),
         req[r].pc \in {"recent", "existing"}, rows[req[r].user] = 0,
         UNCHANGED <<rows, paid, deleted, published, stranded>>
  PROVE  Held(u)
<1>1. \A s \in Req \ {r} : req'[s] = req[s]
  BY DEF Go, WInv, HTypeOK, TypeOK
<1>2. req'[r].pc = p /\ req'[r].user = req[r].user
  BY DEF Go, WInv, HTypeOK, TypeOK, Request
<1>3. Own(ByUser(req'[r]), u, {"free", "award"})
        = Own(ByUser(req[r]), u, {"free", "award"})
  BY <1>2 DEF Own, ByUser
<1>4. \/ Own(ByUser(req'[r]), u, {"file", "publish"})
           = Own(ByUser(req[r]), u, {"file", "publish"})
      \/ rows'[u] = 0
  BY <1>2 DEF Own, ByUser
<1>5. Earmarked(u)' = Earmarked(u) /\ rows'[u] = rows[u] /\ paid'[u] = paid[u]
  BY DEF Earmarked
<1>6. QED
  BY <1>1, <1>3, <1>4, <1>5, WindowElse

\* The report is added: a leave's is to be paid for, another is earmarked.
LEMMA WindowFile ==
  ASSUME WInv, HTypeOK', NEW u \in User, NEW r \in Req,
         \A s \in Req \ {r} : req'[s] = req[s],
         rows' = Add(rows, req[r].user, 1), paid' = paid,
         UNCHANGED <<deleted, stranded>>,
         \/ /\ req[r].pc = "file" /\ req'[r].pc = "free"
            /\ req'[r].user = req[r].user /\ published' = published
         \/ /\ req[r].pc = "publish" /\ req'[r].pc \in {"idle", "next"}
            /\ published' = Add(published, req[r].user, 1)
  PROVE  Held(u)
<1>1. /\ req[r].user \in User /\ rows \in [User -> Nat]
      /\ paid \in [User -> Nat] /\ deleted \in [User -> Nat]
      /\ stranded \in [User -> Nat] /\ published \in [User -> Nat]
  BY DEF WInv, HTypeOK, TypeOK
<1>2. 0 \in Int /\ 1 \in Int /\ -1 \in Int
  OBVIOUS
<1>3. paid'[u] = paid[u] + 0
  BY <1>1
<1>4. CASE u = req[r].user
  <2>1. rows'[u] = rows[u] + 1
    BY <1>1, <1>4 DEF Add
  <2>2. Own(ByUser(req'[r]), u, {"file", "publish"})
          = Own(ByUser(req[r]), u, {"file", "publish"}) + (-1)
    BY <1>4 DEF Own, ByUser
  <2>3. CASE req[r].pc = "file"
    <3>1. Own(ByUser(req'[r]), u, {"free", "award"})
            = Own(ByUser(req[r]), u, {"free", "award"}) + 1
      BY <1>4, <2>3 DEF Own, ByUser
    <3>2. Earmarked(u)' = Earmarked(u) + 0
      BY <1>1, <2>3 DEF Earmarked
    <3>3. 1 + (-1) <= 0 /\ 1 = 0 + 1 + 0
      OBVIOUS
    <3>4. QED
      BY <1>2, <1>3, <2>1, <2>2, <3>1, <3>2, <3>3, WindowStep
  <2>4. CASE req[r].pc = "publish"
    <3>1. Own(ByUser(req'[r]), u, {"free", "award"})
            = Own(ByUser(req[r]), u, {"free", "award"}) + 0
      BY <1>4, <2>4 DEF Own, ByUser
    <3>2. Earmarked(u)' = Earmarked(u) + 1
      BY <1>1, <1>4, <2>4 DEF Earmarked, Add
    <3>3. 1 + (-1) <= 0 /\ 1 = 0 + 0 + 1
      OBVIOUS
    <3>4. QED
      BY <1>2, <1>3, <2>1, <2>2, <3>1, <3>2, <3>3, WindowStep
  <2>5. QED
    BY <2>3, <2>4
<1>5. CASE u # req[r].user
  <2>1. rows'[u] = rows[u] /\ Earmarked(u)' = Earmarked(u) /\ paid'[u] = paid[u]
    BY <1>1, <1>5 DEF Add, Earmarked
  <2>2. /\ Own(ByUser(req'[r]), u, {"file", "publish"})
             = Own(ByUser(req[r]), u, {"file", "publish"})
        /\ Own(ByUser(req'[r]), u, {"free", "award"})
             = Own(ByUser(req[r]), u, {"free", "award"})
    BY <1>5, NoRequestType DEF Own, ByUser
  <2>3. QED
    BY <2>1, <2>2, WindowElse
<1>6. QED
  BY <1>4, <1>5

\* The leave is paid for.
LEMMA WindowAward ==
  ASSUME WInv, HTypeOK', NEW u \in User, NEW r \in Req, LeaveAward(r),
         UNCHANGED <<deleted, published, stranded>>
  PROVE  Held(u)
<1> DEFINE v == req[r].user
<1>1. /\ v \in User /\ rows \in [User -> Nat] /\ paid \in [User -> Nat]
      /\ req[r].pc = "award" /\ paid' = Add(paid, v, 1) /\ rows' = rows
  BY DEF LeaveAward, At, WInv, HTypeOK, TypeOK
<1>2. /\ \A s \in Req \ {r} : req'[s] = req[s]
      /\ req'[r].pc = "earn" /\ req'[r].user = v
  BY DEF LeaveAward, Go, WInv, HTypeOK, TypeOK, Request
<1>3. 0 \in Int /\ 1 \in Int /\ -1 \in Int /\ 0 + 0 <= 0
  OBVIOUS
<1>4. Earmarked(u)' = Earmarked(u) /\ Earmarked(u) \in Int
  BY DEF Earmarked, WInv, HTypeOK
<1>5. CASE u = v
  <2>1. /\ rows'[u] = rows[u] + 0 /\ paid'[u] = paid[u] + 1
        /\ Earmarked(u)' = Earmarked(u) + 0
    BY <1>1, <1>4, <1>5 DEF Add
  <2>2. /\ Own(ByUser(req'[r]), u, {"file", "publish"})
             = Own(ByUser(req[r]), u, {"file", "publish"}) + 0
        /\ Own(ByUser(req'[r]), u, {"free", "award"})
             = Own(ByUser(req[r]), u, {"free", "award"}) + (-1)
    BY <1>1, <1>2, <1>5 DEF Own, ByUser
  <2>3. 0 = 1 + (-1) + 0
    OBVIOUS
  <2>4. QED
    BY <1>2, <1>3, <2>1, <2>2, <2>3, WindowStep
<1>6. CASE u # v
  <2>1. rows'[u] = rows[u] /\ paid'[u] = paid[u]
    BY <1>1, <1>6 DEF Add
  <2>2. /\ Own(ByUser(req'[r]), u, {"file", "publish"})
             = Own(ByUser(req[r]), u, {"file", "publish"})
        /\ Own(ByUser(req'[r]), u, {"free", "award"})
             = Own(ByUser(req[r]), u, {"free", "award"})
    BY <1>2, <1>6 DEF Own, ByUser
  <2>3. QED
    BY <1>2, <1>4, <2>1, <2>2, WindowElse
<1>7. QED
  BY <1>5, <1>6

\* A handler that throws leaves its report stranded, if it had filed one.
LEMMA WindowThrow ==
  ASSUME WInv, HTypeOK', NEW u \in User, NEW r \in Req, Throws(r)
  PROVE  Held(u)
<1>1. /\ \A s \in Req \ {r} : req'[s] = req[s]
      /\ req'[r].pc = "idle" /\ UNCHANGED <<rows, paid, deleted, published>>
  BY FinishEffect DEF Throws, FailHandler, WInv, HTypeOK
<1> DEFINE e == Own(ByUser(req[r]), u, {"file", "publish"})
           g == Own(ByUser(req[r]), u, {"free", "award"})
<1>2. e \in {0, 1} /\ g \in {0, 1}
  BY DEF Own
<1>3. /\ Own(ByUser(req'[r]), u, {"file", "publish"}) = 0
      /\ Own(ByUser(req'[r]), u, {"free", "award"}) = 0
  BY <1>1 DEF Own, ByUser
<1>4. rows'[u] = rows[u] + 0 /\ paid'[u] = paid[u] + 0
  BY <1>1 DEF WInv, HTypeOK, TypeOK
<1>5. Earmarked(u)' = Earmarked(u) + g
  <2>1. CASE req[r].pc \in {"free", "award"}
    <3>1. stranded' = Add(stranded, req[r].user, 1)
      BY <2>1 DEF Throws
    <3>2. g = IF req[r].user = u THEN 1 ELSE 0
      BY <2>1 DEF Own, ByUser
    <3>3. stranded'[u] = stranded[u] + g
      BY <3>1, <3>2 DEF Add, WInv, HTypeOK
    <3>4. published[u] \in Nat /\ stranded[u] \in Nat /\ deleted[u] \in Nat
      BY DEF WInv, HTypeOK
    <3> HIDE DEF g
    <3>5. QED
      BY <1>1, <1>2, <3>3, <3>4 DEF Earmarked
  <2>2. CASE req[r].pc \notin {"free", "award"}
    <3>1. stranded' = stranded
      BY <2>2 DEF Throws
    <3>2. g = 0 /\ Earmarked(u) \in Int
      BY <2>2 DEF Own, ByUser, Earmarked, WInv, HTypeOK
    <3> HIDE DEF g
    <3>3. QED
      BY <1>1, <3>1, <3>2 DEF Earmarked
  <2>3. QED
    BY <2>1, <2>2
<1> HIDE DEF e, g
<1> DEFINE d == 0 - e
           h == 0 - g
<1>6. /\ d \in Int /\ h \in Int /\ g \in Int /\ 0 \in Int /\ 0 + d <= 0
      /\ 0 = 0 + h + g /\ 0 = e + d /\ 0 = g + h
  BY <1>2
<1> USE DEF e, g
<1>7. /\ Own(ByUser(req'[r]), u, {"file", "publish"})
           = Own(ByUser(req[r]), u, {"file", "publish"}) + d
      /\ Own(ByUser(req'[r]), u, {"free", "award"})
           = Own(ByUser(req[r]), u, {"free", "award"}) + h
  BY <1>3, <1>6
<1> HIDE DEF d, h, e, g
<1>8. \A s \in Req \ {r} : req'[s] = req[s]
  BY <1>1
<1>9. QED
  BY <1>4, <1>5, <1>6, <1>7, <1>8, WindowStep

\* The author deletes a report, or the window of a user closes, none of whose
\* handlers is under way.
LEMMA WindowClear ==
  ASSUME WInv, NEW u \in User, NEW v \in User, Deletes(v) \/ Ages(v)
  PROVE  Held(u)
<1>1. /\ rows \in [User -> Nat] /\ paid \in [User -> Nat]
      /\ deleted \in [User -> Nat] /\ published \in [User -> Nat]
      /\ stranded \in [User -> Nat]
  BY DEF WInv, HTypeOK, TypeOK
<1>2. req' = req
  BY DEF Deletes, DeleteReport, Ages, Age
<1>3. Filing(u)' = Filing(u) /\ Awarding(u)' = Awarding(u)
  BY <1>2 DEF Filing, Awarding, Working
<1>4. Filing(u) \in SUBSET Req /\ Awarding(u) \in SUBSET Req
  BY DEF Filing, Awarding, Working
<1>5. Cardinality(Filing(u)) \in Nat /\ Cardinality(Awarding(u)) \in Nat
  BY <1>4, SlotSets
<1>6. /\ rows[u] + Cardinality(Filing(u)) <= Cardinality(Req)
      /\ rows[u] = paid[u] + Cardinality(Awarding(u)) + Earmarked(u)
  BY DEF WInv
<1>7. CASE u # v
  <2>1. rows'[u] = rows[u] /\ paid'[u] = paid[u] /\ Earmarked(u)' = Earmarked(u)
    BY <1>1, <1>7 DEF Deletes, DeleteReport, Ages, Age, Add, Forget, Earmarked
  <2>2. QED
    BY <1>3, <1>6, <2>1 DEF Held
<1>8. CASE u = v /\ Deletes(v)
  <2>1. /\ rows'[u] = rows[u] - 1 /\ paid'[u] = paid[u]
        /\ Earmarked(u)' = Earmarked(u) - 1
    BY <1>1, <1>8 DEF Deletes, DeleteReport, Add, Earmarked
  <2>2. rows[u] \in Nat /\ paid[u] \in Nat /\ Earmarked(u) \in Int
    BY <1>1 DEF Earmarked
  <2>3. rows'[u] + Cardinality(Filing(u)) <= Cardinality(Req)
    BY <1>5, <1>6, <2>1, <2>2, SlotCount
  <2>4. rows'[u] = paid'[u] + Cardinality(Awarding(u)) + Earmarked(u)'
    BY <1>5, <1>6, <2>1, <2>2
  <2>5. QED
    BY <1>3, <2>3, <2>4 DEF Held
<1>9. CASE u = v /\ Ages(v)
  <2>1. Filing(u) = {} /\ Awarding(u) = {}
    BY <1>9 DEF Ages, Age, Filing, Awarding, Working
  <2>2. Cardinality(Filing(u)') = 0 /\ Cardinality(Awarding(u)') = 0
    BY <1>3, <2>1, FS_EmptySet
  <2>3. rows'[u] = 0 /\ paid'[u] = 0 /\ Earmarked(u)' = 0
    BY <1>1, <1>9 DEF Ages, Age, Forget, Earmarked
  <2>4. QED
    BY <2>2, <2>3, SlotCount DEF Held
<1>10. QED
  BY <1>7, <1>8, <1>9

\* The loops come by none of the points between, and neither does who arrives.
LEMMA WindowLoop ==
  ASSUME WInv, HTypeOK', NEW u \in User, NEW r \in Req,
         UNCHANGED <<deleted, published, stranded>>,
         Loop(r) \/ FailDispatch(r) \/ \E v \in User : Arrive(r, v)
  PROVE  Held(u)
<1>0. TypeOK
  BY DEF WInv, HTypeOK
<1>1. UNCHANGED <<rows, paid>>
  BY DEF Loop, DispatchCheck, DispatchConsume, DispatchCharge, DispatchEvent,
         FailDispatch, Arrive, LeaveBegin, ReportBegin, ReportElsewhere
<1>2. CASE DispatchCheck(r) \/ DispatchEvent(r) \/ FailDispatch(r)
  <2>1. /\ req[r].pc \in DispatchPoints
        /\ \/ \E rest : Continue(r, rest)
           \/ \E w : req' = [req EXCEPT ![r].pc = "consume", ![r].cur = w,
                                        ![r].todo = @ \ {w}]
    BY <1>2 DEF DispatchCheck, DispatchEvent, FailDispatch, At
  <2>2. ASSUME NEW w, req' = [req EXCEPT ![r].pc = "consume", ![r].cur = w,
                                         ![r].todo = @ \ {w}]
        PROVE  /\ \A s \in Req \ {r} : req'[s] = req[s]
               /\ req'[r].pc = "consume"
    BY <1>0, <2>2 DEF TypeOK, Request
  <2>3. /\ \A s \in Req \ {r} : req'[s] = req[s]
        /\ req'[r].pc \in {"idle", "next", "consume"}
    BY <1>0, <2>1, <2>2, ContinueEffect
  <2>4. QED
    BY <1>1, <2>1, <2>3, WindowQuiet
<1>3. CASE DispatchConsume(r) \/ DispatchCharge(r)
  <2>1. /\ req[r].pc \in DispatchPoints
        /\ \E p \in {"charge", "event"} : Go(r, p)
    BY <1>3 DEF DispatchConsume, DispatchCharge, At
  <2>2. /\ \A s \in Req \ {r} : req'[s] = req[s]
        /\ req'[r].pc \in {"charge", "event"}
    BY <1>0, <2>1, GoEffect
  <2>3. QED
    BY <1>1, <2>1, <2>2, WindowQuiet
<1>4. ASSUME NEW v \in User, LeaveBegin(r, v) \/ ReportBegin(r, v) PROVE Held(u)
  <2>1. PICK p \in {"recent", "existing"} : Start(r, p, v)
    BY <1>4 DEF LeaveBegin, ReportBegin
  <2>2. /\ \A s \in Req \ {r} : req'[s] = req[s]
        /\ req[r].pc = "idle" /\ req'[r].pc = p
    BY <1>0, <2>1 DEF Start, At, NoRequest, TypeOK
  <2>3. QED
    BY <1>1, <2>2, WindowQuiet
<1>5. ASSUME NEW v \in User, ReportElsewhere(r, v) PROVE Held(u)
  <2>1. /\ \A s \in Req \ {r} : req'[s] = req[s]
        /\ req[r].pc = "idle" /\ req'[r].pc \in {"idle", "next"}
    BY <1>0, <1>5, DispatchEffect DEF ReportElsewhere, At
  <2>2. QED
    BY <1>1, <2>1, WindowQuiet
<1>6. QED
  BY <1>2, <1>3, <1>4, <1>5 DEF Loop, Arrive

LEMMA WindowHandle ==
  ASSUME WInv, HTypeOK', NEW u \in User, NEW r \in Req, Handle(r), Runs(r)
  PROVE  Held(u)
<1>0. TypeOK
  BY DEF WInv, HTypeOK
<1>1. CASE LeaveRecent(r)
  <2>1. /\ UNCHANGED <<rows, paid, deleted, published, stranded>>
        /\ req[r].pc = "recent"
    BY <1>1 DEF LeaveRecent, At, Runs
  <2>2. CASE rows[req[r].user] > 0
    <3>1. /\ \A s \in Req \ {r} : req'[s] = req[s]
          /\ req'[r].pc = "idle"
      BY <1>0, <1>1, <2>2, FinishEffect DEF LeaveRecent
    <3>2. QED
      BY <2>1, <3>1, WindowQuiet
  <2>3. CASE ~(rows[req[r].user] > 0)
    <3>1. rows[req[r].user] = 0
      BY <1>0, <2>1, <2>3 DEF TypeOK
    <3>2. Go(r, "file")
      BY <1>1, <2>3 DEF LeaveRecent
    <3>3. QED
      BY <2>1, <3>1, <3>2, WindowEnter
  <2>4. QED
    BY <2>2, <2>3
<1>2. CASE ReportExisting(r)
  <2>1. /\ UNCHANGED <<rows, paid, deleted, published, stranded>>
        /\ req[r].pc = "existing"
    BY <1>2 DEF ReportExisting, At, Runs
  <2>2. CASE rows[req[r].user] = 0 /\ Go(r, "publish")
    BY <2>1, <2>2, WindowEnter
  <2>3. CASE Finish(r)
    <3>1. /\ \A s \in Req \ {r} : req'[s] = req[s]
          /\ req'[r].pc = "idle"
      BY <1>0, <2>3, FinishEffect
    <3>2. QED
      BY <2>1, <3>1, WindowQuiet
  <2>4. QED
    BY <1>2, <2>2, <2>3 DEF ReportExisting
<1>3. CASE LeaveFile(r)
  <2>1. /\ \A s \in Req \ {r} : req'[s] = req[s]
        /\ rows' = Add(rows, req[r].user, 1) /\ paid' = paid
        /\ req[r].pc = "file" /\ req'[r].pc = "free" /\ req'[r].user = req[r].user
    BY <1>0, <1>3 DEF LeaveFile, At, Go, TypeOK, Request
  <2>2. UNCHANGED <<deleted, published, stranded>>
    BY <2>1 DEF Runs, At
  <2>3. QED
    BY <2>1, <2>2, WindowFile
<1>4. CASE ReportPublish(r)
  <2>1. /\ \A s \in Req \ {r} : req'[s] = req[s]
        /\ rows' = Add(rows, req[r].user, 1) /\ paid' = paid
        /\ req[r].pc = "publish" /\ req'[r].pc \in {"idle", "next"}
    BY <1>0, <1>4, DispatchEffect DEF ReportPublish, At
  <2>2. /\ UNCHANGED <<deleted, stranded>>
        /\ published' = Add(published, req[r].user, 1)
    BY <2>1 DEF Runs, At
  <2>3. QED
    BY <2>1, <2>2, WindowFile
<1>5. CASE LeaveFree(r)
  <2>1. /\ \A s \in Req \ {r} : req'[s] = req[s]
        /\ UNCHANGED <<rows, paid>>
        /\ req[r].pc = "free" /\ req'[r].pc = "award" /\ req'[r].user = req[r].user
    BY <1>0, <1>5 DEF LeaveFree, At, Go, TypeOK, Request
  <2>2. UNCHANGED <<deleted, published, stranded>>
    BY <2>1 DEF Runs, At
  <2>3. QED
    BY <2>1, <2>2, WindowQuiet
<1>6. CASE LeaveAward(r)
  <2>1. UNCHANGED <<deleted, published, stranded>>
    BY <1>6 DEF Runs, At, LeaveAward
  <2>2. QED
    BY <1>6, <2>1, WindowAward
<1>7. CASE LeaveEarn(r)
  <2>1. /\ \A s \in Req \ {r} : req'[s] = req[s]
        /\ UNCHANGED <<rows, paid>>
        /\ req[r].pc = "earn" /\ req'[r].pc \in {"idle", "next"}
    BY <1>0, <1>7, DispatchEffect DEF LeaveEarn, At
  <2>2. UNCHANGED <<deleted, published, stranded>>
    BY <2>1 DEF Runs, At
  <2>3. QED
    BY <2>1, <2>2, WindowQuiet
<1>8. QED
  BY <1>1, <1>2, <1>3, <1>4, <1>5, <1>6, <1>7 DEF Handle

LEMMA WindowNext == WInv /\ [HistoryNext]_historyVars => WInv'
<1> SUFFICES ASSUME WInv, [HistoryNext]_historyVars PROVE WInv'
  OBVIOUS
<1>1. CASE HistoryNext
  <2>1. HTypeOK'
    BY <1>1, HistoryTypes
  <2>2. SUFFICES ASSUME NEW u \in User PROVE Held(u)
    BY <2>1 DEF WInv, Held
  <2>3. ASSUME NEW r \in Req, Runs(r) PROVE Held(u)
    <3>1. CASE Handle(r)
      BY <2>1, <2>3, <3>1, WindowHandle
    <3>2. CASE ~Handle(r)
      <4>1. Loop(r) \/ FailDispatch(r) \/ \E v \in User : Arrive(r, v)
        BY <2>3, <3>2 DEF Runs
      <4>2. ~At(r, "publish")
        BY <4>1 DEF Loop, DispatchCheck, DispatchConsume, DispatchCharge,
                    DispatchEvent, FailDispatch, Arrive, LeaveBegin,
                    ReportBegin, ReportElsewhere, Start, At
      <4>3. UNCHANGED <<deleted, published, stranded>>
        BY <2>3, <4>2 DEF Runs
      <4>4. QED
        BY <2>1, <4>1, <4>3, WindowLoop
    <3>3. QED
      BY <3>1, <3>2
  <2>4. ASSUME NEW r \in Req, Throws(r) PROVE Held(u)
    BY <2>1, <2>4, WindowThrow
  <2>5. ASSUME NEW v \in User, Deletes(v) \/ Ages(v) PROVE Held(u)
    BY <2>5, WindowClear
  <2>6. CASE Reserve /\ UNCHANGED <<deleted, published, stranded>>
    <3>1. UNCHANGED <<rows, paid, req, deleted, published, stranded>>
      BY <2>6 DEF Reserve
    <3>2. QED
      BY <3>1 DEF WInv, Held, Filing, Awarding, Working, Earmarked
  <2>7. QED
    BY <1>1, <2>3, <2>4, <2>5, <2>6 DEF HistoryNext
<1>2. CASE UNCHANGED historyVars
  <2>1. TypeOK'
    BY <1>2, NextTypeOK DEF historyVars, vars, WInv, HTypeOK
  <2>2. QED
    BY <1>2, <2>1 DEF historyVars, vars, WInv, HTypeOK, Filing, Awarding,
                      Working, Earmarked
<1>3. QED
  BY <1>1, <1>2

LEMMA WindowInit == HistoryInit => WInv
<1> SUFFICES ASSUME Init, HistoryInit PROVE WInv
  BY DEF HistoryInit
<1>1. \A r \in Req : req[r].pc = "idle"
  BY DEF Init, NoRequest
<1>2. ASSUME NEW u \in User
      PROVE  Cardinality(Filing(u)) = 0 /\ Cardinality(Awarding(u)) = 0
  <2>1. Filing(u) = {} /\ Awarding(u) = {}
    BY <1>1 DEF Filing, Awarding, Working
  <2>2. QED
    BY <2>1, FS_EmptySet
<1>3. HTypeOK
  BY InitTypeOK DEF HTypeOK, HistoryInit
<1>4. \A u \in User : rows[u] = 0 /\ paid[u] = 0 /\ Earmarked(u) = 0
  BY DEF Init, HistoryInit, Earmarked
<1>5. QED
  BY <1>2, <1>3, <1>4, SlotCount DEF WInv

\* What WInv says of the numbers of one user.
LEMMA WInvBounds == WInv => AwardsBounded /\ ReportsAccounted
<1> SUFFICES ASSUME WInv, NEW u \in User
             PROVE  /\ paid[u] + Cardinality(Awarding(u)) <= Cardinality(Req) + deleted[u]
                    /\ rows[u] + deleted[u]
                         = paid[u] + Cardinality(Awarding(u)) + published[u] + stranded[u]
  BY DEF AwardsBounded, ReportsAccounted
<1>1. Filing(u) \in SUBSET Req /\ Awarding(u) \in SUBSET Req
  BY DEF Filing, Awarding, Working
<1>2. Cardinality(Filing(u)) \in Nat /\ Cardinality(Awarding(u)) \in Nat
  BY <1>1, SlotSets
<1>3. /\ rows[u] \in Nat /\ paid[u] \in Nat /\ deleted[u] \in Nat
      /\ published[u] \in Nat /\ stranded[u] \in Nat
  BY DEF WInv, HTypeOK, TypeOK
<1>4. /\ rows[u] + Cardinality(Filing(u)) <= Cardinality(Req)
      /\ rows[u] = paid[u] + Cardinality(Awarding(u))
                     + (published[u] + stranded[u] - deleted[u])
  BY DEF WInv, Earmarked
<1>5. QED
  BY <1>2, <1>3, <1>4, SlotCount

\* However a user's requests race, fail and are repeated, and whatever is
\* deleted, the window of a spot earns the user one credit for each request that
\* may run at once and for each report deleted, at the most.
THEOREM AwardsCorrect == HistorySpec => []AwardsBounded
BY WindowInit, WindowNext, WInvBounds, PTL DEF HistorySpec

\* Every report of the window was paid for, or is to be, or was filed as a
\* report, or is that of a leave that threw.
THEOREM ReportsCorrect == HistorySpec => []ReportsAccounted
BY WindowInit, WindowNext, WInvBounds, PTL DEF HistorySpec
=============================================================================
