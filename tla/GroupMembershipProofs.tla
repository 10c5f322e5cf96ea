----------------------- MODULE GroupMembershipProofs -----------------------
(***************************************************************************)
(* Theorems about GroupMembership, for every set of users and of request    *)
(* slots: type correctness, the accounting of group_members_count, why a    *)
(* group may lack an admin or stay without members, whom its deletion       *)
(* throws out, who sits in its socket room, and that the handlers implement *)
(* Roster.                                                                  *)
(***************************************************************************)
EXTENDS GroupMembershipRoster, GroupMembershipHistory, FiniteSetTheorems, TLAPS

USE DEF Points, AddPoints, RemovePoints, LeavePoints, FetchPoints

-----------------------------------------------------------------------------
LEMMA NoRequestType == NoRequest \in Request /\ NoRequest.pc = "idle"
BY DEF NoRequest, Request

LEMMA InitTypeOK == Init => TypeOK
BY NoRequestType DEF Init, TypeOK, Members, NoRequest

LEMMA CreateGroupTypeOK ==
  ASSUME TypeOK, NEW u \in User, NEW invited \in SUBSET User,
         NEW viaSocket \in BOOLEAN, CreateGroup(u, invited, viaSocket)
  PROVE  TypeOK'
<1>1. Cardinality({u} \cup invited) \in Nat
  BY ConstantsAssumption, FS_Subset, FS_CardinalityType, {u} \cup invited \in SUBSET User
<1>2. QED
  BY <1>1 DEF CreateGroup, CreatorJoins, TypeOK, Members

LEMMA ArriveTypeOK ==
  ASSUME TypeOK, NEW r \in Req, Arrive(r)
  PROVE  TypeOK'
<1> PICK u \in User :
      \/ \E users \in SUBSET User \ {{}} : AddBegin(r, u, users)
      \/ \E target \in User : RemoveBegin(r, u, target)
      \/ LeaveBegin(r, u)
      \/ FetchRooms(r, u)
  BY DEF Arrive
<1>1. ASSUME NEW users \in SUBSET User \ {{}}, AddBegin(r, u, users)
      PROVE  TypeOK'
  BY <1>1 DEF AddBegin, TypeOK, Members, Request, NoRequest
<1>2. ASSUME NEW target \in User, RemoveBegin(r, u, target)
      PROVE  TypeOK'
  BY <1>2 DEF RemoveBegin, TypeOK, Members, Request, NoRequest
<1>3. CASE LeaveBegin(r, u)
  BY <1>3 DEF LeaveBegin, TypeOK, Members, Request, NoRequest
<1>4. CASE FetchRooms(r, u)
  BY <1>4 DEF FetchRooms, Start, TypeOK, Members, Request, NoRequest
<1>5. QED
  BY <1>1, <1>2, <1>3, <1>4

LEMMA AddStepTypeOK ==
  ASSUME TypeOK, NEW r \in Req, AddStep(r)
  PROVE  TypeOK'
<1> USE NoRequestType DEF TypeOK, Members, Finish, Go, At
<1>1. CASE AddExisting(r)
  BY <1>1 DEF AddExisting, Request
<1>2. CASE AddCreate(r)
  BY <1>2 DEF AddCreate, Request
<1>3. CASE AddIncrement(r)
  <2>1. Cardinality(req[r].who) \in Nat
    BY ConstantsAssumption, FS_Subset, FS_CardinalityType DEF Request
  <2>2. QED
    BY <1>3, <2>1 DEF AddIncrement
<1>4. QED
  BY <1>1, <1>2, <1>3 DEF AddStep

LEMMA RemoveStepTypeOK ==
  ASSUME TypeOK, NEW r \in Req, RemoveStep(r)
  PROVE  TypeOK'
<1> USE NoRequestType DEF TypeOK, Members, Finish, Go, At
<1>1. CASE RemoveFind(r)
  BY <1>1 DEF RemoveFind, Request
<1>2. CASE RemoveDelete(r)
  BY <1>2 DEF RemoveDelete, DeleteRow, Request
<1>3. CASE RemoveDecrement(r)
  BY <1>3 DEF RemoveDecrement, Request
<1>4. CASE RemoveEvict(r)
  BY <1>4 DEF RemoveEvict, Request
<1>5. QED
  BY <1>1, <1>2, <1>3, <1>4 DEF RemoveStep

LEMMA LeaveStepTypeOK ==
  ASSUME TypeOK, NEW r \in Req, LeaveStep(r)
  PROVE  TypeOK'
<1> USE NoRequestType DEF TypeOK, Members, Finish, Go, At
<1>1. CASE LeaveCountAdmins(r)
  BY <1>1 DEF LeaveCountAdmins, Request
<1>2. CASE LeaveFindEarliest(r)
  <2>1. CASE Members \subseteq {req[r].actor} /\ Go(r, "quit")
    BY <1>2, <2>1 DEF LeaveFindEarliest, Request
  <2>2. ASSUME NEW heir \in Earliest(req[r].actor),
               req' = [req EXCEPT ![r].pc = "promote",
                                  ![r].subject = heir,
                                  ![r].heirRow = joined[heir]]
        PROVE  TypeOK'
    <3>1. heir \in User /\ joined[heir] \in Nat
      BY DEF Earliest
    <3>2. QED
      BY <1>2, <2>2, <3>1 DEF LeaveFindEarliest, Request
  <2>3. QED
    BY <1>2, <2>1, <2>2 DEF LeaveFindEarliest
<1>3. CASE LeavePromote(r)
  BY <1>3 DEF LeavePromote, Request
<1>4. CASE LeaveDelete(r)
  BY <1>4 DEF LeaveDelete, DeleteRow, Request
<1>5. CASE LeaveCountRemaining(r)
  BY <1>5 DEF LeaveCountRemaining, Request
<1>6. CASE LeaveVacate(r)
  BY <1>6 DEF LeaveVacate, Request
<1>7. CASE LeaveDropRoom(r)
  BY <1>7 DEF LeaveDropRoom, LeaveSocket
<1>8. CASE LeaveDecrement(r)
  BY <1>8 DEF LeaveDecrement, LeaveSocket
<1>9. QED
  BY <1>1, <1>2, <1>3, <1>4, <1>5, <1>6, <1>7, <1>8 DEF LeaveStep

LEMMA FailTypeOK ==
  ASSUME TypeOK, NEW r \in Req, Fail(r)
  PROVE  TypeOK'
<1>1. Cardinality(req[r].who) \in Nat
  BY ConstantsAssumption, FS_Subset, FS_CardinalityType DEF Request, TypeOK
<1>2. QED
  BY <1>1, NoRequestType DEF Fail, Finish, TypeOK, Members

LEMMA NextTypeOK == TypeOK /\ [Next]_vars => TypeOK'
<1> SUFFICES ASSUME TypeOK, [Next]_vars PROVE TypeOK'
  OBVIOUS
<1>1. ASSUME NEW u \in User, NEW invited \in SUBSET User,
             NEW viaSocket \in BOOLEAN, CreateGroup(u, invited, viaSocket)
      PROVE  TypeOK'
  BY <1>1, CreateGroupTypeOK
<1>2. ASSUME NEW u \in User, JoinRoom(u) \/ Disconnect(u)
      PROVE  TypeOK'
  BY <1>2 DEF JoinRoom, Disconnect, TypeOK, Members
<1>3. ASSUME NEW r \in Req, Arrive(r) \/ Progress(r) \/ Fail(r)
      PROVE  TypeOK'
  <2>1. CASE FetchJoin(r)
    BY <2>1, NoRequestType DEF FetchJoin, At, Finish, TypeOK, Members
  <2>2. QED
    BY <1>3, <2>1, ArriveTypeOK, AddStepTypeOK, RemoveStepTypeOK,
       LeaveStepTypeOK, FailTypeOK DEF Progress
<1>4. CASE UNCHANGED vars
  BY <1>4 DEF vars, TypeOK, Members
<1>5. QED
  BY <1>1, <1>2, <1>3, <1>4 DEF Next

\* Every reachable state of the group's rows, sockets and requests is well
\* typed: an admin has a membership row, and a request in flight has a user.
THEOREM TypeCorrect == Spec => []TypeOK
BY InitTypeOK, NextTypeOK, PTL DEF Spec

-----------------------------------------------------------------------------
(***************************************************************************)
(* CountAccounted.  What one request owes the count is OwedDec and OwedInc; *)
(* DebtChange says that a step of one request changes the two totals by the *)
(* change of that request's own debt, so that each action is arithmetic.    *)
(***************************************************************************)
OwedDec(q) == IF q.pc \in OwesDecrement THEN 1 ELSE 0
OwedInc(q) == IF q.pc = "increment" THEN Cardinality(q.who) ELSE 0

\* Before the room is created nothing is under way.
NothingBeforeCreate ==
  room = "absent" => /\ \A u \in User : joined[u] = 0
                     /\ \A r \in Req : req[r].pc = "idle"
                     /\ drift = 0

IInv == TypeOK /\ NothingBeforeCreate /\ CountAccounted

LEMMA UserSets ==
  ASSUME NEW S \in SUBSET User
  PROVE  IsFiniteSet(S) /\ Cardinality(S) \in Nat
BY ConstantsAssumption, FS_Subset, FS_CardinalityType

\* The two debts of a table f of requests.
Decs(f) == {s \in Req : f[s].pc \in OwesDecrement}
Incs(f) == {p \in Req \X User : f[p[1]].pc = "increment" /\ p[2] \in f[p[1]].who}

LEMMA PendingSets ==
  /\ PendingDecrements = Decs(req) /\ PendingDecrements' = Decs(req')
  /\ PendingIncrements = Incs(req) /\ PendingIncrements' = Incs(req')
BY DEF PendingDecrements, PendingIncrements, Decs, Incs

\* The pending decrements are those of the other requests and r's own.
LEMMA DecSplit ==
  ASSUME NEW f, NEW r \in Req
  PROVE  LET others == {s \in Req \ {r} : f[s].pc \in OwesDecrement}
         IN  /\ Cardinality(others) \in Nat
             /\ Cardinality(Decs(f))
                  = Cardinality(others) + OwedDec(f[r])
<1> DEFINE others == {s \in Req \ {r} : f[s].pc \in OwesDecrement}
<1>1. IsFiniteSet(others) /\ Cardinality(others) \in Nat
  BY ConstantsAssumption, FS_Subset, FS_CardinalityType, others \in SUBSET Req
<1>2. CASE f[r].pc \in OwesDecrement
  <2>1. Decs(f) = others \cup {r} /\ r \notin others
    BY <1>2 DEF Decs
  <2>2. QED
    BY <1>1, <1>2, <2>1, FS_AddElement DEF OwedDec
<1>3. CASE f[r].pc \notin OwesDecrement
  <2>1. Decs(f) = others
    BY <1>3 DEF Decs
  <2>2. QED
    BY <1>1, <1>3, <2>1 DEF OwedDec
<1>4. QED
  BY <1>2, <1>3

\* The pending increments are those of the other requests and r's own.
LEMMA IncSplit ==
  ASSUME NEW f, NEW r \in Req, f[r] \in Request
  PROVE  LET others == {p \in (Req \ {r}) \X User :
                          f[p[1]].pc = "increment" /\ p[2] \in f[p[1]].who}
         IN  /\ Cardinality(others) \in Nat
             /\ Cardinality(Incs(f))
                  = Cardinality(others) + OwedInc(f[r])
<1> DEFINE others == {p \in (Req \ {r}) \X User :
                        f[p[1]].pc = "increment" /\ p[2] \in f[p[1]].who}
           own == {r} \X f[r].who
<1>1. f[r].who \in SUBSET User
  BY DEF Request
<1>2. IsFiniteSet(others) /\ Cardinality(others) \in Nat
  <2>1. IsFiniteSet(Req \X User)
    BY ConstantsAssumption, FS_Product
  <2>2. others \in SUBSET (Req \X User)
    OBVIOUS
  <2>3. QED
    BY <2>1, <2>2, FS_Subset, FS_CardinalityType
<1>3. IsFiniteSet(own) /\ Cardinality(own) = Cardinality(f[r].who)
  <2>1. IsFiniteSet({r}) /\ Cardinality({r}) = 1
    BY FS_Singleton
  <2>2. IsFiniteSet(f[r].who) /\ Cardinality(f[r].who) \in Nat
    BY <1>1, UserSets
  <2>3. IsFiniteSet(own) /\ Cardinality(own) = 1 * Cardinality(f[r].who)
    BY <2>1, <2>2, FS_Product
  <2>4. QED
    BY <2>2, <2>3
<1>4. CASE f[r].pc = "increment"
  <2>1. Incs(f) = others \cup own /\ others \cap own = {}
    BY <1>1, <1>4 DEF Incs
  <2>2. Cardinality(others \cap own) = 0
    BY <2>1, FS_EmptySet
  <2>3. Cardinality(others \cup own)
          = Cardinality(others) + Cardinality(own) - Cardinality(others \cap own)
    BY <1>2, <1>3, FS_Union
  <2>4. Cardinality(own) \in Nat
    BY <1>3, FS_CardinalityType
  <2>5. QED
    BY <1>2, <1>3, <1>4, <2>1, <2>2, <2>3, <2>4 DEF OwedInc
<1>5. CASE f[r].pc # "increment"
  <2>1. Incs(f) = others
    BY <1>5 DEF Incs
  <2>2. QED
    BY <1>2, <1>5, <2>1 DEF OwedInc
<1>6. QED
  BY <1>4, <1>5
-----------------------------------------------------------------------------
\* A step that changes request r only changes the debts by r's own.
LEMMA DebtChange ==
  ASSUME NEW r \in Req, req \in [Req -> Request], req' \in [Req -> Request],
         \A s \in Req \ {r} : req'[s] = req[s],
         NEW dec \in Int, OwedDec(req'[r]) = OwedDec(req[r]) + dec,
         NEW inc \in Int, OwedInc(req'[r]) = OwedInc(req[r]) + inc
  PROVE  /\ Cardinality(PendingDecrements) \in Int
         /\ Cardinality(PendingIncrements) \in Int
         /\ Cardinality(PendingDecrements') = Cardinality(PendingDecrements) + dec
         /\ Cardinality(PendingIncrements') = Cardinality(PendingIncrements) + inc
<1> DEFINE D(f) == {s \in Req \ {r} : f[s].pc \in OwesDecrement}
           I(f) == {p \in (Req \ {r}) \X User :
                      f[p[1]].pc = "increment" /\ p[2] \in f[p[1]].who}
<1>1. req[r] \in Request /\ req'[r] \in Request
  OBVIOUS
<1>2. D(req') = D(req) /\ I(req') = I(req)
  OBVIOUS
<1>3. /\ Cardinality(D(req)) \in Nat
      /\ Cardinality(Decs(req)) = Cardinality(D(req)) + OwedDec(req[r])
  BY DecSplit
<1>4. Cardinality(Decs(req')) = Cardinality(D(req')) + OwedDec(req'[r])
  BY DecSplit
<1>5. /\ Cardinality(I(req)) \in Nat
      /\ Cardinality(Incs(req)) = Cardinality(I(req)) + OwedInc(req[r])
  BY <1>1, IncSplit
<1>6. Cardinality(Incs(req')) = Cardinality(I(req')) + OwedInc(req'[r])
  BY <1>1, IncSplit
<1>7. OwedInc(req[r]) \in Nat /\ OwedDec(req[r]) \in Nat
  BY <1>1, UserSets DEF OwedInc, OwedDec, Request
<1> HIDE DEF D, I
<1>8. QED
  BY <1>2, <1>3, <1>4, <1>5, <1>6, <1>7, PendingSets

\* The balance that CountAccounted states is kept by a step of request r whose
\* changes of the count, the rows, the two debts and the drift cancel out.
LEMMA Balance ==
  ASSUME IInv, NEW r \in Req, TypeOK', room = "open",
         \A s \in Req \ {r} : req'[s] = req[s],
         NEW cnt \in Int, count' = count + cnt,
         NEW mem \in Int, Cardinality(Members') = Cardinality(Members) + mem,
         NEW dec \in Int, OwedDec(req'[r]) = OwedDec(req[r]) + dec,
         NEW inc \in Int, OwedInc(req'[r]) = OwedInc(req[r]) + inc,
         NEW dft \in Int, drift' = drift + dft,
         cnt + inc = mem + dec + dft
  PROVE  CountAccounted'
<1>1. Cardinality(Members) \in Int
  BY UserSets DEF Members
<1>2. /\ Cardinality(PendingDecrements) \in Int
      /\ Cardinality(PendingIncrements) \in Int
      /\ Cardinality(PendingDecrements') = Cardinality(PendingDecrements) + dec
      /\ Cardinality(PendingIncrements') = Cardinality(PendingIncrements) + inc
  BY DebtChange DEF IInv, TypeOK
<1>3. count + Cardinality(PendingIncrements)
        = Cardinality(Members) + Cardinality(PendingDecrements) + drift
  BY DEF IInv, CountAccounted
<1>4. count \in Int /\ drift \in Int
  BY DEF IInv, TypeOK
<1>5. count' + Cardinality(PendingIncrements')
        = Cardinality(Members') + Cardinality(PendingDecrements') + drift'
  BY <1>1, <1>2, <1>3, <1>4
<1>6. QED
  BY <1>5 DEF CountAccounted

\* A step that leaves the count, the rows and r's own debts alone.
LEMMA QuietBalance ==
  ASSUME IInv, NEW r \in Req, TypeOK',
         \A s \in Req \ {r} : req'[s] = req[s],
         UNCHANGED <<room, count, drift>>, Members' = Members,
         OwedDec(req'[r]) = OwedDec(req[r]), OwedInc(req'[r]) = OwedInc(req[r])
  PROVE  CountAccounted'
<1>1. CASE room = "open"
  <2>1. /\ count \in Int /\ drift \in Int /\ Cardinality(Members) \in Int
        /\ OwedDec(req[r]) \in Int /\ OwedInc(req[r]) \in Int
    BY UserSets DEF IInv, TypeOK, Members, OwedDec, OwedInc, Request
  <2>2. /\ count' = count + 0 /\ drift' = drift + 0
        /\ Cardinality(Members') = Cardinality(Members) + 0
        /\ OwedDec(req'[r]) = OwedDec(req[r]) + 0
        /\ OwedInc(req'[r]) = OwedInc(req[r]) + 0
    BY <2>1
  <2>3. QED
    BY <1>1, <2>2, Balance
<1>2. CASE room # "open"
  BY <1>2 DEF CountAccounted
<1>3. QED
  BY <1>1, <1>2

-----------------------------------------------------------------------------
LEMMA ArriveCount ==
  ASSUME IInv, NEW r \in Req, TypeOK', Arrive(r)
  PROVE  CountAccounted'
<1>1. req[r].pc = "idle" /\ UNCHANGED <<room, joined, count, drift>>
  BY DEF Arrive, AddBegin, RemoveBegin, LeaveBegin, FetchRooms, Start
<1>2. \A s \in Req \ {r} : req'[s] = req[s]
  BY DEF Arrive, AddBegin, RemoveBegin, LeaveBegin, FetchRooms, Start,
         IInv, TypeOK
<1>3. req'[r].pc \in {"existing", "find", "admins", "quit", "join"}
  <2>1. ASSUME NEW q, req' = [req EXCEPT ![r] = q]
        PROVE  req'[r] = q
    BY <2>1 DEF IInv, TypeOK
  <2>2. ASSUME NEW u, NEW users, AddBegin(r, u, users)
        PROVE  req'[r].pc = "existing"
    BY <2>1, <2>2 DEF AddBegin, NoRequest
  <2>3. ASSUME NEW u, NEW target, RemoveBegin(r, u, target)
        PROVE  req'[r].pc = "find"
    BY <2>1, <2>3 DEF RemoveBegin, NoRequest
  <2>4. ASSUME NEW u, LeaveBegin(r, u)
        PROVE  req'[r].pc \in {"admins", "quit"}
    BY <2>1, <2>4 DEF LeaveBegin, NoRequest
  <2>5. ASSUME NEW u, FetchRooms(r, u)
        PROVE  req'[r].pc = "join"
    BY <2>1, <2>5 DEF FetchRooms, Start, NoRequest
  <2>6. QED
    BY <2>2, <2>3, <2>4, <2>5 DEF Arrive
<1>4. QED
  BY <1>1, <1>2, <1>3, QuietBalance
     DEF OwedDec, OwedInc, OwesDecrement, Members

LEMMA AddStepCount ==
  ASSUME IInv, NEW r \in Req, TypeOK', AddStep(r)
  PROVE  CountAccounted'
<1> DEFINE n == Cardinality(req[r].who)
<1>1. /\ req[r].who \in SUBSET User /\ IsFiniteSet(req[r].who) /\ n \in Nat
      /\ Members \in SUBSET User /\ IsFiniteSet(Members)
      /\ Cardinality(Members) \in Nat
  BY UserSets DEF IInv, TypeOK, Members, Request
<1>2. \A s \in Req \ {r} : req'[s] = req[s]
  BY DEF AddStep, AddExisting, AddCreate, AddIncrement, Finish, Go, IInv, TypeOK
<1>3. CASE AddExisting(r)
  <2>1. req[r].pc = "existing" /\ req'[r].pc \in {"idle", "create"}
    BY <1>3, NoRequestType DEF AddExisting, At, Finish, IInv, TypeOK, Request
  <2>2. QED
    BY <1>2, <1>3, <2>1, QuietBalance
       DEF AddExisting, OwedDec, OwedInc, OwesDecrement, Members
<1>4. CASE AddCreate(r) /\ req[r].who \cap Members # {}
  <2>1. req[r].pc = "create" /\ req'[r].pc = "idle"
    BY <1>4, NoRequestType DEF AddCreate, At, Finish, IInv, TypeOK
  <2>2. QED
    BY <1>2, <1>4, <2>1, QuietBalance
       DEF AddCreate, OwedDec, OwedInc, OwesDecrement, Members
<1>5. CASE AddCreate(r) /\ req[r].who \cap Members = {} /\ room = "open"
  <2>1. /\ req[r].pc = "create" /\ req'[r].pc = "increment"
        /\ req'[r].who = req[r].who
    BY <1>5 DEF AddCreate, At, Go, IInv, TypeOK, Request
  <2>2. OwedDec(req'[r]) = OwedDec(req[r]) + 0 /\ OwedInc(req'[r]) = OwedInc(req[r]) + n
    BY <1>1, <2>1 DEF OwedDec, OwedInc, OwesDecrement
  <2>3. Members' = Members \cup req[r].who
    BY <1>1, <1>5 DEF AddCreate, Members, IInv, TypeOK
  <2>4. Cardinality(Members') = Cardinality(Members) + n
    <3>1. Cardinality(Members \cup req[r].who)
            = Cardinality(Members) + n - Cardinality(Members \cap req[r].who)
      BY <1>1, FS_Union
    <3>2. Members \cap req[r].who = {}
      BY <1>5
    <3>3. Cardinality(Members \cap req[r].who) = 0
      BY <3>2, FS_EmptySet
    <3>4. QED
      BY <1>1, <2>3, <3>1, <3>3
  <2>5. count' = count + 0 /\ drift' = drift + 0
    BY <1>5 DEF AddCreate, IInv, TypeOK
  <2>6. n \in Int /\ 0 + n = n + 0 + 0
    BY <1>1
  <2>7. QED
    BY <1>2, <1>5, <2>2, <2>4, <2>5, <2>6, Balance
<1>6. CASE AddIncrement(r) /\ room = "open"
  <2>1. req[r].pc = "increment" /\ req'[r].pc = "idle"
    BY <1>6, NoRequestType DEF AddIncrement, At, Finish, IInv, TypeOK
  <2>2. OwedDec(req'[r]) = OwedDec(req[r]) + 0 /\ OwedInc(req'[r]) = OwedInc(req[r]) + (-n)
    BY <1>1, <2>1 DEF OwedDec, OwedInc, OwesDecrement
  <2>3. /\ count' = count + n /\ drift' = drift + 0
        /\ Cardinality(Members') = Cardinality(Members) + 0
    BY <1>1, <1>6 DEF AddIncrement, Members, IInv, TypeOK
  <2>4. n \in Int /\ -n \in Int /\ n + (-n) = 0 + 0 + 0
    BY <1>1
  <2>5. QED
    BY <1>2, <1>6, <2>2, <2>3, <2>4, Balance
<1>7. CASE (AddCreate(r) \/ AddIncrement(r)) /\ room # "open"
  BY <1>7 DEF AddCreate, AddIncrement, CountAccounted
<1>8. QED
  BY <1>3, <1>4, <1>5, <1>6, <1>7 DEF AddStep

\* Deleting a row takes one member off.
LEMMA DeleteRowCardinality ==
  ASSUME IInv, NEW u, NEW i, DeleteRow(u, i)
  PROVE  Cardinality(Members') = Cardinality(Members) + (-1)
<1>1. Members' = Members \ {u} /\ u \in Members
  BY DEF DeleteRow, Members, IInv, TypeOK
<1>2. IsFiniteSet(Members) /\ Cardinality(Members) \in Nat
  BY UserSets DEF Members
<1>3. Cardinality(Members \ {u}) = Cardinality(Members) - 1
  BY <1>1, <1>2, FS_RemoveElement
<1>4. QED
  BY <1>1, <1>2, <1>3

LEMMA RemoveStepCount ==
  ASSUME IInv, NEW r \in Req, TypeOK', RemoveStep(r)
  PROVE  CountAccounted'
<1>1. \A s \in Req \ {r} : req'[s] = req[s]
  BY DEF RemoveStep, RemoveFind, RemoveDelete, RemoveDecrement, RemoveEvict,
         Finish, Go, IInv, TypeOK
<1>2. /\ count \in Int /\ drift \in Int
      /\ IsFiniteSet(Members) /\ Cardinality(Members) \in Nat
  BY UserSets DEF IInv, TypeOK, Members
<1>3. CASE RemoveFind(r) \/ RemoveEvict(r)
  <2>1. /\ req[r].pc \in {"find", "evict", "reevict"}
        /\ req'[r].pc \in {"idle", "delete", "reevict"}
    BY <1>3, NoRequestType
       DEF RemoveFind, RemoveEvict, At, Finish, Go, IInv, TypeOK, Request
  <2>2. QED
    BY <1>1, <1>3, <2>1, QuietBalance
       DEF RemoveFind, RemoveEvict, OwedDec, OwedInc, OwesDecrement, Members
<1>4. CASE RemoveDelete(r) /\ Finish(r) /\ UNCHANGED joined
  <2>1. req[r].pc = "delete" /\ req'[r].pc = "idle"
    BY <1>4, NoRequestType DEF RemoveDelete, At, Finish, IInv, TypeOK
  <2>2. QED
    BY <1>1, <1>4, <2>1, QuietBalance
       DEF RemoveDelete, OwedDec, OwedInc, OwesDecrement, Members
<1>5. CASE /\ RemoveDelete(r) /\ Go(r, "decrement") /\ room = "open"
           /\ DeleteRow(req[r].subject, req[r].row)
  <2>1. req[r].pc = "delete" /\ req'[r].pc = "decrement"
    BY <1>5 DEF RemoveDelete, At, Go, IInv, TypeOK, Request
  <2>2. OwedDec(req'[r]) = OwedDec(req[r]) + 1 /\ OwedInc(req'[r]) = OwedInc(req[r]) + 0
    BY <2>1 DEF OwedDec, OwedInc, OwesDecrement
  <2>3. Cardinality(Members') = Cardinality(Members) + (-1)
    BY <1>5, DeleteRowCardinality
  <2>4. count' = count + 0 /\ drift' = drift + 0 /\ 0 + 0 = (-1) + 1 + 0
    BY <1>2, <1>5 DEF RemoveDelete
  <2>5. -1 \in Int
    OBVIOUS
  <2>6. QED
    BY <1>1, <1>5, <2>2, <2>3, <2>4, <2>5, Balance
<1>6. CASE RemoveDecrement(r) /\ room = "open"
  <2>1. req[r].pc = "decrement" /\ req'[r].pc = "evict"
    BY <1>6 DEF RemoveDecrement, At, Go, IInv, TypeOK, Request
  <2>2. OwedDec(req'[r]) = OwedDec(req[r]) + (-1) /\ OwedInc(req'[r]) = OwedInc(req[r]) + 0
    BY <2>1 DEF OwedDec, OwedInc, OwesDecrement
  <2>3. /\ count' = count + (-1) /\ drift' = drift + 0
        /\ Cardinality(Members') = Cardinality(Members) + 0
    BY <1>2, <1>6 DEF RemoveDecrement, Members
  <2>4. -1 \in Int /\ (-1) + 0 = 0 + (-1) + 0
    OBVIOUS
  <2>5. QED
    BY <1>1, <1>6, <2>2, <2>3, <2>4, Balance
<1>7. CASE (RemoveDelete(r) \/ RemoveDecrement(r)) /\ room # "open"
  BY <1>7 DEF RemoveDelete, RemoveDecrement, CountAccounted
<1>8. QED
  BY <1>3, <1>4, <1>5, <1>6, <1>7 DEF RemoveStep, RemoveDelete

LEMMA LeaveStepCount ==
  ASSUME IInv, NEW r \in Req, TypeOK', LeaveStep(r)
  PROVE  CountAccounted'
<1>1. \A s \in Req \ {r} : req'[s] = req[s]
  BY DEF LeaveStep, LeaveCountAdmins, LeaveFindEarliest, LeavePromote,
         LeaveDelete, LeaveCountRemaining, LeaveVacate, LeaveDropRoom,
         LeaveDecrement, Finish, Go, IInv, TypeOK
<1>2. /\ count \in Int /\ drift \in Int
      /\ IsFiniteSet(Members) /\ Cardinality(Members) \in Nat
  BY UserSets DEF IInv, TypeOK, Members
<1>3. CASE LeaveCountAdmins(r) \/ LeaveFindEarliest(r) \/ LeavePromote(r)
  <2>1. req[r].pc \in {"admins", "earliest", "promote"}
    BY <1>3 DEF LeaveCountAdmins, LeaveFindEarliest, LeavePromote, At
  <2>2. req'[r].pc \in {"idle", "earliest", "promote", "quit"}
    <3>1. CASE LeaveCountAdmins(r) \/ LeavePromote(r)
      BY <3>1, NoRequestType
         DEF LeaveCountAdmins, LeavePromote, Go, Finish, IInv, TypeOK, Request
    <3>2. CASE LeaveFindEarliest(r)
      <4>1. req[r] \in Request /\ req \in [Req -> Request]
        BY DEF IInv, TypeOK
      <4>2. ASSUME Go(r, "quit") PROVE req'[r].pc = "quit"
        BY <4>1, <4>2 DEF Go, Request
      <4>3. ASSUME NEW heir,
                   req' = [req EXCEPT ![r].pc = "promote",
                                      ![r].subject = heir,
                                      ![r].heirRow = joined[heir]]
            PROVE  req'[r].pc = "promote"
        BY <4>1, <4>3 DEF Request
      <4>4. QED
        BY <3>2, <4>2, <4>3 DEF LeaveFindEarliest
    <3>3. QED
      BY <1>3, <3>1, <3>2
  <2>3. QED
    BY <1>1, <1>3, <2>1, <2>2, QuietBalance
       DEF LeaveCountAdmins, LeaveFindEarliest, LeavePromote,
           OwedDec, OwedInc, OwesDecrement, Members
<1>4. CASE LeaveDelete(r) /\ Finish(r) /\ UNCHANGED joined
  <2>1. req[r].pc = "quit" /\ req'[r].pc = "idle"
    BY <1>4, NoRequestType DEF LeaveDelete, At, Finish, IInv, TypeOK
  <2>2. QED
    BY <1>1, <1>4, <2>1, QuietBalance
       DEF LeaveDelete, OwedDec, OwedInc, OwesDecrement, Members
<1>5. CASE /\ LeaveDelete(r) /\ Go(r, "remaining") /\ room = "open"
           /\ DeleteRow(req[r].actor, req[r].row)
  <2>1. req[r].pc = "quit" /\ req'[r].pc = "remaining"
    BY <1>5 DEF LeaveDelete, At, Go, IInv, TypeOK, Request
  <2>2. OwedDec(req'[r]) = OwedDec(req[r]) + 1 /\ OwedInc(req'[r]) = OwedInc(req[r]) + 0
    BY <2>1 DEF OwedDec, OwedInc, OwesDecrement
  <2>3. Cardinality(Members') = Cardinality(Members) + (-1)
    BY <1>5, DeleteRowCardinality
  <2>4. count' = count + 0 /\ drift' = drift + 0 /\ 0 + 0 = (-1) + 1 + 0
    BY <1>2, <1>5 DEF LeaveDelete
  <2>5. -1 \in Int
    OBVIOUS
  <2>6. QED
    BY <1>1, <1>5, <2>2, <2>3, <2>4, <2>5, Balance
<1>6. CASE LeaveCountRemaining(r) \/ LeaveVacate(r)
  <2>1. req[r].pc \in {"remaining", "vacate"} /\ req'[r].pc \in {"vacate", "drop", "settle"}
    BY <1>6 DEF LeaveCountRemaining, LeaveVacate, At, Go, IInv, TypeOK, Request
  <2>2. QED
    BY <1>1, <1>6, <2>1, QuietBalance
       DEF LeaveCountRemaining, LeaveVacate, OwedDec, OwedInc, OwesDecrement, Members
<1>7. CASE LeaveDecrement(r) /\ room = "open"
  <2>1. req[r].pc = "settle" /\ req'[r].pc = "idle"
    BY <1>7, NoRequestType DEF LeaveDecrement, At, Finish, IInv, TypeOK
  <2>2. OwedDec(req'[r]) = OwedDec(req[r]) + (-1) /\ OwedInc(req'[r]) = OwedInc(req[r]) + 0
    BY <2>1 DEF OwedDec, OwedInc, OwesDecrement
  <2>3. /\ count' = count + (-1) /\ drift' = drift + 0
        /\ Cardinality(Members') = Cardinality(Members) + 0
    BY <1>2, <1>7 DEF LeaveDecrement, Members
  <2>4. -1 \in Int /\ (-1) + 0 = 0 + (-1) + 0
    OBVIOUS
  <2>5. QED
    BY <1>1, <1>7, <2>2, <2>3, <2>4, Balance
<1>8. CASE LeaveDropRoom(r) \/ ((LeaveDelete(r) \/ LeaveDecrement(r)) /\ room # "open")
  BY <1>8 DEF LeaveDropRoom, LeaveDelete, LeaveDecrement, CountAccounted
<1>9. QED
  BY <1>3, <1>4, <1>5, <1>6, <1>7, <1>8 DEF LeaveStep, LeaveDelete

LEMMA FailCount ==
  ASSUME IInv, NEW r \in Req, TypeOK', Fail(r)
  PROVE  CountAccounted'
<1> DEFINE n == Cardinality(req[r].who)
<1>1. n \in Nat /\ count \in Int /\ drift \in Int /\ Cardinality(Members) \in Nat
  BY UserSets DEF IInv, TypeOK, Members, Request
<1>2. \A s \in Req \ {r} : req'[s] = req[s]
  BY DEF Fail, Finish, IInv, TypeOK
<1>3. req'[r].pc = "idle" /\ UNCHANGED <<room, joined, count>>
  BY NoRequestType DEF Fail, Finish, IInv, TypeOK
<1>4. CASE room # "open"
  BY <1>3, <1>4 DEF CountAccounted
<1>5. CASE room = "open" /\ req[r].pc \in OwesDecrement
  <2>1. OwedDec(req'[r]) = OwedDec(req[r]) + (-1) /\ OwedInc(req'[r]) = OwedInc(req[r]) + 0
    BY <1>3, <1>5 DEF OwedDec, OwedInc, OwesDecrement
  <2>2. /\ count' = count + 0 /\ drift' = drift + 1
        /\ Cardinality(Members') = Cardinality(Members) + 0
    BY <1>1, <1>3, <1>5 DEF Fail, OwesDecrement, Members
  <2>3. -1 \in Int /\ 0 + 0 = 0 + (-1) + 1
    OBVIOUS
  <2>4. QED
    BY <1>2, <1>5, <2>1, <2>2, <2>3, Balance
<1>6. CASE room = "open" /\ req[r].pc = "increment"
  <2>1. OwedDec(req'[r]) = OwedDec(req[r]) + 0 /\ OwedInc(req'[r]) = OwedInc(req[r]) + (-n)
    BY <1>1, <1>3, <1>6 DEF OwedDec, OwedInc, OwesDecrement
  <2>2. /\ count' = count + 0 /\ drift' = drift + (-n)
        /\ Cardinality(Members') = Cardinality(Members) + 0
    BY <1>1, <1>3, <1>6 DEF Fail, OwesDecrement, Members
  <2>3. -n \in Int /\ 0 + (-n) = 0 + 0 + (-n)
    BY <1>1
  <2>4. QED
    BY <1>2, <1>6, <2>1, <2>2, <2>3, Balance
<1>7. CASE req[r].pc \notin OwesDecrement \cup {"increment"}
  <2>1. drift' = drift
    BY <1>1, <1>7 DEF Fail
  <2>2. OwedDec(req'[r]) = OwedDec(req[r]) /\ OwedInc(req'[r]) = OwedInc(req[r])
    BY <1>3, <1>7 DEF OwedDec, OwedInc, OwesDecrement
  <2>3. QED
    BY <1>2, <1>3, <2>1, <2>2, QuietBalance DEF Members
<1>8. QED
  BY <1>4, <1>5, <1>6, <1>7

LEMMA CreateGroupCount ==
  ASSUME IInv, NEW u \in User, NEW invited \in SUBSET User,
         NEW viaSocket \in BOOLEAN, CreateGroup(u, invited, viaSocket)
  PROVE  CountAccounted'
<1>1. Members' = {u} \cup invited
  BY DEF CreateGroup, CreatorJoins, Members, IInv, TypeOK
<1>2. PendingDecrements' = {} /\ PendingIncrements' = {}
  BY DEF CreateGroup, CreatorJoins, IInv, NothingBeforeCreate, PendingDecrements,
         PendingIncrements, OwesDecrement
<1>3. Cardinality(PendingDecrements') = 0 /\ Cardinality(PendingIncrements') = 0
  BY <1>2, FS_EmptySet
<1>4. count' = Cardinality({u} \cup invited) /\ drift' = 0
  BY DEF CreateGroup, CreatorJoins, IInv, NothingBeforeCreate
<1>5. Cardinality({u} \cup invited) \in Nat
  BY UserSets, {u} \cup invited \in SUBSET User
<1>6. QED
  BY <1>1, <1>3, <1>4, <1>5 DEF CountAccounted

\* Before the room exists nobody is an admin or a member, so no request can
\* start; afterwards the room is never absent again.
LEMMA NothingStep == IInv /\ [Next]_vars => NothingBeforeCreate'
<1> SUFFICES ASSUME IInv, [Next]_vars, room' = "absent"
             PROVE  /\ \A u \in User : joined'[u] = 0
                    /\ \A r \in Req : req'[r].pc = "idle"
                    /\ drift' = 0
  BY DEF NothingBeforeCreate
<1>1. room = "absent"
  BY DEF Next, vars, CreateGroup, CreatorJoins, JoinRoom, Disconnect, Arrive, AddBegin,
         RemoveBegin, LeaveBegin, FetchRooms, Progress, AddStep, RemoveStep,
         LeaveStep, AddExisting, AddCreate, AddIncrement, RemoveFind,
         RemoveDelete, RemoveDecrement, RemoveEvict, LeaveCountAdmins,
         LeaveFindEarliest, LeavePromote, LeaveDelete, LeaveCountRemaining,
         LeaveVacate, LeaveDropRoom, LeaveDecrement, FetchJoin, Fail
<1>2. /\ \A u \in User : joined[u] = 0
      /\ \A r \in Req : req[r].pc = "idle"
      /\ drift = 0
  BY <1>1 DEF IInv, NothingBeforeCreate
<1>3. Members = {} /\ admins = {}
  BY <1>2 DEF Members, IInv, TypeOK
<1>4. ASSUME NEW r \in Req PROVE ~Arrive(r)
  BY <1>1, <1>3 DEF Arrive, AddBegin, RemoveBegin, LeaveBegin, FetchRooms
<1>5. ASSUME NEW r \in Req PROVE ~Progress(r) /\ ~Fail(r)
  BY <1>2 DEF Progress, AddStep, RemoveStep, LeaveStep, AddExisting, AddCreate,
              AddIncrement, RemoveFind, RemoveDelete, RemoveDecrement,
              RemoveEvict, LeaveCountAdmins, LeaveFindEarliest, LeavePromote,
              LeaveDelete, LeaveCountRemaining, LeaveVacate, LeaveDropRoom,
              LeaveDecrement, FetchJoin, Fail, At
<1>6. UNCHANGED <<joined, req, drift>>
  BY <1>4, <1>5 DEF Next, vars, CreateGroup, CreatorJoins, JoinRoom, Disconnect
<1>7. QED
  BY <1>2, <1>6

LEMMA NextCount == IInv /\ [Next]_vars => IInv'
<1> SUFFICES ASSUME IInv, [Next]_vars PROVE IInv'
  OBVIOUS
<1>1. TypeOK' /\ NothingBeforeCreate'
  BY NextTypeOK, NothingStep DEF IInv
<1>2. ASSUME NEW u \in User, NEW invited \in SUBSET User,
             NEW viaSocket \in BOOLEAN, CreateGroup(u, invited, viaSocket)
      PROVE  CountAccounted'
  BY <1>2, CreateGroupCount
<1>3. ASSUME NEW r \in Req, Arrive(r) \/ Progress(r) \/ Fail(r)
      PROVE  CountAccounted'
  <2>1. CASE FetchJoin(r)
    <3>1. req[r].pc = "join" /\ req'[r].pc = "idle" /\ \A s \in Req \ {r} : req'[s] = req[s]
      BY <2>1, NoRequestType DEF FetchJoin, At, Finish, IInv, TypeOK
    <3>2. QED
      BY <1>1, <2>1, <3>1, QuietBalance
         DEF FetchJoin, OwedDec, OwedInc, OwesDecrement, Members
  <2>2. QED
    BY <1>1, <1>3, <2>1, ArriveCount, AddStepCount, RemoveStepCount,
       LeaveStepCount, FailCount DEF Progress
<1>4. ASSUME UNCHANGED <<room, joined, count, req, drift>>
      PROVE  CountAccounted'
  BY <1>4 DEF IInv, CountAccounted, Members, PendingDecrements, PendingIncrements
<1>5. CountAccounted'
  <2>1. ASSUME NEW u \in User, JoinRoom(u) \/ Disconnect(u)
        PROVE  CountAccounted'
    BY <1>4, <2>1 DEF JoinRoom, Disconnect
  <2>2. CASE UNCHANGED vars
    BY <1>4, <2>2 DEF vars
  <2>3. QED
    BY <1>2, <1>3, <2>1, <2>2 DEF Next
<1>6. QED
  BY <1>1, <1>5 DEF IInv

\* However many requests add, remove and leave at once, and whichever of their
\* database calls are rejected, group_members_count of an open room is the
\* number of its membership rows up to what requests in flight still owe it and
\* what was lost with rejected calls.
THEOREM CountCorrect == Spec => []CountAccounted
<1>1. Init => IInv
  BY InitTypeOK, NoRequestType
     DEF Init, IInv, NothingBeforeCreate, CountAccounted
<1>2. IInv => CountAccounted
  BY DEF IInv
<1>3. QED
  BY <1>1, <1>2, NextCount, PTL DEF Spec

-----------------------------------------------------------------------------
(***************************************************************************)
(* AdminlessByRaceOnly.  Until a request has run into another one, a leave  *)
(* about to delete an admin's row is the last member's or leaves another    *)
(* admin behind (Leaves); nobody removes, or promotes, itself (Apart).      *)
(* Overtakes says what ~lapsed' gives: a step that takes an admin away or   *)
(* brings a member finds no other admin's leave past its look-up, and is    *)
(* not carried out for an admin who has gone.                               *)
(***************************************************************************)
Apart ==
  \A r \in Req : req[r].pc \in {"find", "delete", "promote"} =>
                   req[r].subject # req[r].actor

Leaves ==
  \A r \in Req : req[r].pc = "quit" /\ req[r].actor \in admins =>
                   \/ \E v \in admins : v # req[r].actor
                   \/ Members \subseteq {req[r].actor}

AInv ==
  /\ IInv
  /\ lapsed \in BOOLEAN
  /\ Apart
  /\ room = "open" /\ ~lapsed => Leaves /\ HasAdmin

\* What a step of request r leaves to be shown of the open, unlapsed group.
AStep(r) ==
  /\ IInv /\ Apart /\ Leaves /\ HasAdmin
  /\ r \in Req
  /\ \A s \in Req \ {r} : req'[s] = req[s]
  /\ room = "open" /\ ~Lapses

LEMMA Overtakes ==
  ASSUME NEW r, AStep(r), AdminGoes \/ MemberComes
  PROVE  /\ \A s \in Req \ {r} : ~LeavesAsAdmin(s)
         /\ Acts(r) => ~ActsAfterRole(r)
BY DEF AStep, Lapses, Acts

\* A step that leaves rows and roles alone.
LEMMA SameRows ==
  ASSUME NEW r, AStep(r), UNCHANGED <<room, joined, admins>>,
         req'[r].pc = "quit" /\ req'[r].actor \in admins =>
           \/ \E v \in admins : v # req'[r].actor
           \/ Members \subseteq {req'[r].actor}
  PROVE  Leaves' /\ HasAdmin'
<1>1. Members' = Members
  BY DEF Members
<1>2. HasAdmin'
  BY <1>1 DEF AStep, HasAdmin
<1>3. ASSUME NEW s \in Req, req'[s].pc = "quit", req'[s].actor \in admins'
      PROVE  \/ \E v \in admins' : v # req'[s].actor
             \/ Members' \subseteq {req'[s].actor}
  BY <1>1, <1>3 DEF AStep, Leaves
<1>4. QED
  BY <1>2, <1>3 DEF Leaves

\* A deleted row, of a user whom the request itself accounts for.
LEMMA RowGoes ==
  ASSUME NEW r, AStep(r), NEW u \in User, NEW i, DeleteRow(u, i),
         req'[r].pc # "quit",
         u \in admins /\ (\A s \in Req \ {r} : ~LeavesAsAdmin(s)) =>
           \/ \E v \in admins : v # u
           \/ Members \subseteq {u}
  PROVE  Leaves' /\ HasAdmin'
<1>1. /\ Members' = Members \ {u} /\ admins' = admins \ {u}
      /\ u \in Members /\ joined[u] # 0 /\ joined'[u] = 0
  BY DEF DeleteRow, Members, AStep, IInv, TypeOK
<1>2. CASE u \in admins
  <2>1. \A s \in Req \ {r} : ~LeavesAsAdmin(s)
    BY <1>1, <1>2, Overtakes DEF AdminGoes
  <2>2. Leaves'
    BY <1>1, <2>1 DEF Leaves, LeavesAsAdmin, AStep
  <2>3. QED
    BY <1>1, <1>2, <2>1, <2>2 DEF HasAdmin
<1>3. CASE u \notin admins
  <2>1. admins' = admins
    BY <1>1, <1>3
  <2>2. HasAdmin'
    BY <1>1, <2>1 DEF HasAdmin, AStep
  <2>3. Leaves'
    BY <1>1, <2>1 DEF Leaves, AStep
  <2>4. QED
    BY <2>2, <2>3
<1>4. QED
  BY <1>2, <1>3

\* Only one request acts in a step.
LEMMA OneActs ==
  ASSUME TypeOK, NEW r \in Req, Arrive(r) \/ Progress(r) \/ Fail(r)
  PROVE  \A s \in Req \ {r} : req'[s] = req[s]
BY DEF TypeOK, Arrive, AddBegin, RemoveBegin, LeaveBegin, FetchRooms, Start,
       Progress, AddStep, RemoveStep, LeaveStep, AddExisting, AddCreate,
       AddIncrement, RemoveFind, RemoveDelete, RemoveDecrement, RemoveEvict,
       LeaveCountAdmins, LeaveFindEarliest, LeavePromote, LeaveDelete,
       LeaveCountRemaining, LeaveVacate, LeaveDropRoom, LeaveDecrement,
       FetchJoin, Fail, Finish, Go

LEMMA ArriveAdmin ==
  ASSUME NEW r, AStep(r), Arrive(r)
  PROVE  Leaves' /\ HasAdmin'
<1>1. UNCHANGED <<room, joined, admins>> /\ r \in Req
  BY DEF Arrive, AddBegin, RemoveBegin, LeaveBegin, FetchRooms, AStep
<1>2. ASSUME NEW q, req' = [req EXCEPT ![r] = q]
      PROVE  req'[r] = q
  BY <1>1, <1>2 DEF AStep, IInv, TypeOK
<1>3. PICK u \in User :
        \/ \E users \in SUBSET User \ {{}} : AddBegin(r, u, users)
        \/ \E target \in User : RemoveBegin(r, u, target)
        \/ LeaveBegin(r, u)
        \/ FetchRooms(r, u)
  BY DEF Arrive
<1>4. req'[r].pc = "quit" => req'[r].actor \notin admins
  <2>1. ASSUME NEW users, AddBegin(r, u, users) PROVE req'[r].pc = "existing"
    BY <1>2, <2>1 DEF AddBegin, NoRequest
  <2>2. ASSUME NEW target, RemoveBegin(r, u, target) PROVE req'[r].pc = "find"
    BY <1>2, <2>2 DEF RemoveBegin, NoRequest
  <2>3. CASE LeaveBegin(r, u)
    <3>1. /\ req'[r].pc = IF u \in admins THEN "admins" ELSE "quit"
          /\ req'[r].actor = u
      BY <1>2, <2>3 DEF LeaveBegin, NoRequest
    <3>2. QED
      BY <3>1
  <2>4. CASE FetchRooms(r, u)
    BY <1>2, <2>4 DEF FetchRooms, Start, NoRequest
  <2>5. QED
    BY <1>3, <2>1, <2>2, <2>3, <2>4
<1>5. QED
  BY <1>1, <1>4, SameRows

LEMMA AddStepAdmin ==
  ASSUME NEW r, AStep(r), AddStep(r)
  PROVE  Leaves' /\ HasAdmin'
<1> USE NoRequestType DEF Finish, Go, At
<1>0. /\ r \in Req /\ req[r] \in Request /\ req \in [Req -> Request]
      /\ admins' = admins /\ room' = room
  BY DEF AStep, IInv, TypeOK, AddStep, AddExisting, AddCreate, AddIncrement
<1>1. req'[r].pc \in {"idle", "create", "increment"}
  BY <1>0 DEF AddStep, AddExisting, AddCreate, AddIncrement, Request
<1>2. CASE joined' = joined
  BY <1>0, <1>1, <1>2, SameRows
<1>3. CASE joined' # joined
  <2>1. /\ req[r].pc = "create" /\ req'[r].pc = "increment"
        /\ clock' = clock + 1
        /\ joined' = [u \in User |-> IF u \in req[r].who THEN clock + 1
                                                         ELSE joined[u]]
        /\ req[r].who \cap Members = {}
    BY <1>0, <1>3 DEF AddStep, AddExisting, AddCreate, AddIncrement, Request
  <2>2. joined \in [User -> Nat] /\ clock \in Nat
    BY DEF AStep, IInv, TypeOK
  <2>3. req[r].who # {} /\ req[r].who \subseteq User
    BY <1>0, <1>3, <2>1, <2>2 DEF Request
  <2>4. MemberComes
    BY <2>1, <2>2, <2>3 DEF MemberComes, Members
  <2>5. Acts(r)
    BY <2>1 DEF Acts
  <2>6. req[r].actor \in admins /\ \A s \in Req \ {r} : ~LeavesAsAdmin(s)
    BY <2>1, <2>4, <2>5, Overtakes DEF ActsAfterRole
  <2>7. HasAdmin'
    BY <1>0, <2>6 DEF HasAdmin
  <2>8. Leaves'
    BY <1>0, <1>1, <2>6 DEF Leaves, LeavesAsAdmin, AStep
  <2>9. QED
    BY <2>7, <2>8
<1>4. QED
  BY <1>2, <1>3

LEMMA RemoveStepAdmin ==
  ASSUME NEW r, AStep(r), RemoveStep(r)
  PROVE  Leaves' /\ HasAdmin'
<1> USE NoRequestType DEF Finish, Go, At
<1>0. r \in Req /\ req[r] \in Request /\ req \in [Req -> Request]
  BY DEF AStep, IInv, TypeOK
<1>1. req'[r].pc \in {"idle", "delete", "decrement", "evict", "reevict"}
  BY <1>0 DEF RemoveStep, RemoveFind, RemoveDelete, RemoveDecrement,
              RemoveEvict, Request
<1>2. CASE RemoveDelete(r) /\ DeleteRow(req[r].subject, req[r].row)
  <2>1. req[r].pc = "delete" /\ req[r].subject # req[r].actor
    BY <1>0, <1>2 DEF RemoveDelete, AStep, Apart
  <2>2. req[r].subject \in Members /\ Members \subseteq User
    BY <1>2 DEF DeleteRow, Members
  <2>3. Acts(r)
    BY <1>0, <1>2, <2>1 DEF RemoveDelete, Acts, DeleteRow, Request
  <2>4. ASSUME req[r].subject \in admins
        PROVE  \E v \in admins : v # req[r].subject
    <3>1. AdminGoes
      BY <1>2, <2>2, <2>4 DEF AdminGoes, DeleteRow, Members, AStep, IInv, TypeOK
    <3>2. req[r].actor \in admins
      BY <2>1, <2>3, <3>1, Overtakes DEF ActsAfterRole
    <3>3. QED
      BY <2>1, <3>2
  <2>5. QED
    BY <1>1, <1>2, <2>2, <2>4, RowGoes
<1>3. CASE UNCHANGED <<room, joined, admins>>
  BY <1>1, <1>3, SameRows
<1>4. QED
  BY <1>2, <1>3 DEF RemoveStep, RemoveFind, RemoveDelete, RemoveDecrement,
                    RemoveEvict

LEMMA LeaveStepAdmin ==
  ASSUME NEW r, AStep(r), LeaveStep(r), room' = "open"
  PROVE  Leaves' /\ HasAdmin'
<1> USE NoRequestType DEF Finish, Go, At
<1>0. r \in Req /\ req[r] \in Request /\ req \in [Req -> Request]
  BY DEF AStep, IInv, TypeOK
<1>1. CASE LeaveCountAdmins(r)
  <2>1. /\ req'[r].pc = IF admins \ {req[r].actor} = {} THEN "earliest" ELSE "quit"
        /\ req'[r].actor = req[r].actor /\ UNCHANGED <<room, joined, admins>>
    BY <1>0, <1>1 DEF LeaveCountAdmins, Request
  <2>2. QED
    BY <2>1, SameRows
<1>2. CASE LeaveFindEarliest(r)
  <2>1. UNCHANGED <<room, joined, admins>>
    BY <1>2 DEF LeaveFindEarliest
  <2>2. ASSUME Members \subseteq {req[r].actor}, Go(r, "quit")
        PROVE  Leaves' /\ HasAdmin'
    <3>1. req'[r].pc = "quit" /\ req'[r].actor = req[r].actor
      BY <1>0, <2>2 DEF Request
    <3>2. QED
      BY <2>1, <2>2, <3>1, SameRows
  <2>3. ASSUME NEW heir,
               req' = [req EXCEPT ![r].pc = "promote",
                                  ![r].subject = heir,
                                  ![r].heirRow = joined[heir]]
        PROVE  Leaves' /\ HasAdmin'
    <3>1. req'[r].pc = "promote"
      BY <1>0, <2>3 DEF Request
    <3>2. QED
      BY <2>1, <3>1, SameRows
  <2>4. QED
    BY <1>2, <2>2, <2>3 DEF LeaveFindEarliest
<1>3. CASE /\ LeavePromote(r) /\ Go(r, "quit")
           /\ req[r].subject \in Members
           /\ admins' = admins \cup {req[r].subject}
  <2>1. req[r].subject # req[r].actor
    BY <1>0, <1>3 DEF LeavePromote, AStep, Apart
  <2>2. /\ UNCHANGED <<room, joined>> /\ Members' = Members
        /\ req'[r].pc = "quit" /\ req'[r].actor = req[r].actor
    BY <1>0, <1>3 DEF LeavePromote, Request, Members
  <2>3. admins # {}
    BY <1>3 DEF AStep, HasAdmin
  <2>4. ASSUME NEW s \in Req, req'[s].pc = "quit", req'[s].actor \in admins'
        PROVE  \/ \E v \in admins' : v # req'[s].actor
               \/ Members' \subseteq {req'[s].actor}
    <3>1. CASE s = r \/ req[s].actor # req[r].subject
      BY <1>3, <2>1, <2>2, <2>4, <3>1 DEF AStep
    <3>2. CASE s # r /\ req[s].actor = req[r].subject
      <4>1. req'[s] = req[s]
        BY <3>2 DEF AStep
      <4>2. CASE req[s].actor \in admins
        BY <1>3, <2>2, <2>4, <4>1, <4>2 DEF AStep, Leaves
      <4>3. CASE req[s].actor \notin admins
        BY <1>3, <2>3, <4>1, <4>3
      <4>4. QED
        BY <4>2, <4>3
    <3>3. QED
      BY <3>1, <3>2
  <2>5. QED
    BY <1>3, <2>4 DEF Leaves, HasAdmin
<1>4. CASE LeavePromote(r) /\ Finish(r) /\ admins' = admins
  <2>1. UNCHANGED <<room, joined, admins>> /\ req'[r].pc = "idle"
    BY <1>0, <1>4 DEF LeavePromote
  <2>2. QED
    BY <2>1, SameRows
<1>5. CASE LeaveDelete(r) /\ DeleteRow(req[r].actor, req[r].row)
  <2>1. req[r].pc = "quit" /\ req'[r].pc \in {"idle", "remaining"}
    BY <1>0, <1>5 DEF LeaveDelete, Request
  <2>2. req[r].actor \in User
    BY <1>5 DEF DeleteRow, Members
  <2>3. req[r].actor \in admins => \/ \E v \in admins : v # req[r].actor
                                   \/ Members \subseteq {req[r].actor}
    BY <1>0, <2>1 DEF AStep, Leaves
  <2>4. QED
    BY <1>5, <2>1, <2>2, <2>3, RowGoes
<1>6. CASE \/ LeaveDelete(r) /\ UNCHANGED <<joined, admins>>
           \/ LeaveCountRemaining(r) \/ LeaveVacate(r) \/ LeaveDecrement(r)
  <2>1. /\ req'[r].pc \in {"idle", "remaining", "vacate", "drop", "settle"}
        /\ UNCHANGED <<room, joined, admins>>
    BY <1>0, <1>6
       DEF LeaveDelete, LeaveCountRemaining, LeaveVacate, LeaveDecrement, Request
  <2>2. QED
    BY <2>1, SameRows
<1>7. CASE LeaveDropRoom(r)
  BY <1>7 DEF LeaveDropRoom, AStep
<1>8. QED
  BY <1>1, <1>2, <1>3, <1>4, <1>5, <1>6, <1>7
     DEF LeaveStep, LeaveDelete, LeavePromote

LEMMA NextApart == TypeOK /\ Apart /\ [Next]_vars => Apart'
<1> SUFFICES ASSUME TypeOK, Apart, [Next]_vars PROVE Apart'
  OBVIOUS
<1> USE NoRequestType DEF Finish, Go, At
<1>1. CASE UNCHANGED req
  BY <1>1 DEF Apart
<1>2. ASSUME NEW r \in Req, Arrive(r) \/ Progress(r) \/ Fail(r)
      PROVE  Apart'
  <2>0. req[r] \in Request /\ req \in [Req -> Request]
    BY DEF TypeOK
  <2>1. SUFFICES ASSUME req'[r].pc \in {"find", "delete", "promote"}
                 PROVE  req'[r].subject # req'[r].actor
    BY <1>2, OneActs DEF Apart
  <2>2. ASSUME NEW q, req' = [req EXCEPT ![r] = q]
        PROVE  req'[r] = q
    BY <2>0, <2>2
  <2>3. ASSUME Arrive(r) PROVE req'[r].subject # req'[r].actor
    <3>1. PICK u \in User :
            \/ \E users \in SUBSET User \ {{}} : AddBegin(r, u, users)
            \/ \E target \in User : RemoveBegin(r, u, target)
            \/ LeaveBegin(r, u)
            \/ FetchRooms(r, u)
      BY <2>3 DEF Arrive
    <3>2. ASSUME NEW target, RemoveBegin(r, u, target)
          PROVE  req'[r].subject # req'[r].actor
      <4>1. req'[r].subject = target /\ req'[r].actor = u
        BY <2>2, <3>2 DEF RemoveBegin, NoRequest
      <4>2. QED
        BY <3>2, <4>1 DEF RemoveBegin
    <3>3. ASSUME NEW users, AddBegin(r, u, users) PROVE FALSE
      BY <2>1, <2>2, <3>3 DEF AddBegin, NoRequest
    <3>4. ASSUME LeaveBegin(r, u) PROVE FALSE
      BY <2>1, <2>2, <3>4 DEF LeaveBegin, NoRequest
    <3>5. ASSUME FetchRooms(r, u) PROVE FALSE
      BY <2>1, <2>2, <3>5 DEF FetchRooms, Start, NoRequest
    <3>6. QED
      BY <3>1, <3>2, <3>3, <3>4, <3>5
  <2>4. ASSUME RemoveFind(r) PROVE req'[r].subject # req'[r].actor
    <3>1. \/ req'[r].pc = "idle"
          \/ req'[r].subject = req[r].subject /\ req'[r].actor = req[r].actor
      BY <2>0, <2>4 DEF RemoveFind, Request
    <3>2. QED
      BY <2>1, <2>4, <3>1 DEF RemoveFind, Apart
  <2>5. ASSUME LeaveFindEarliest(r) PROVE req'[r].subject # req'[r].actor
    <3>1. ASSUME NEW heir \in Earliest(req[r].actor),
                 req' = [req EXCEPT ![r].pc = "promote",
                                    ![r].subject = heir,
                                    ![r].heirRow = joined[heir]]
          PROVE  req'[r].subject = heir /\ req'[r].actor = req[r].actor
      BY <2>0, <3>1 DEF Request
    <3>2. ASSUME Go(r, "quit") PROVE FALSE
      BY <2>0, <2>1, <3>2 DEF Request
    <3>3. QED
      BY <2>5, <3>1, <3>2 DEF LeaveFindEarliest, Earliest
  <2>6. ASSUME \/ AddStep(r) \/ RemoveDelete(r) \/ RemoveDecrement(r)
               \/ RemoveEvict(r) \/ LeaveCountAdmins(r) \/ LeavePromote(r)
               \/ LeaveDelete(r) \/ LeaveCountRemaining(r) \/ LeaveVacate(r)
        PROVE  FALSE
    BY <2>0, <2>1, <2>6
       DEF AddStep, AddExisting, AddCreate, AddIncrement, RemoveDelete,
           RemoveDecrement, RemoveEvict, LeaveCountAdmins, LeavePromote,
           LeaveDelete, LeaveCountRemaining, LeaveVacate, Request
  <2>7. ASSUME LeaveDropRoom(r) \/ LeaveDecrement(r) \/ FetchJoin(r) \/ Fail(r)
        PROVE  FALSE
    BY <2>0, <2>1, <2>7 DEF LeaveDropRoom, LeaveDecrement, FetchJoin, Fail
  <2>8. QED
    BY <1>2, <2>3, <2>4, <2>5, <2>6, <2>7 DEF Progress, RemoveStep, LeaveStep
<1>3. QED
  BY <1>1, <1>2 DEF Next, vars, CreateGroup, JoinRoom, Disconnect

LEMMA NextAdmin == AInv /\ [HistoryNext]_historyVars => AInv'
<1> SUFFICES ASSUME AInv, [HistoryNext]_historyVars PROVE AInv'
  OBVIOUS
<1>1. [Next]_vars
  BY DEF HistoryNext, historyVars, vars
<1>2. IInv' /\ Apart'
  BY <1>1, NextCount, NextApart DEF AInv, IInv
<1>3. CASE UNCHANGED historyVars
  BY <1>2, <1>3 DEF historyVars, vars, AInv, Leaves, HasAdmin, Members
<1>4. CASE HistoryNext
  <2>1. Next /\ lapsed' = (lapsed \/ Lapses)
    BY <1>4 DEF HistoryNext, Record
  <2>2. lapsed' \in BOOLEAN
    BY <2>1 DEF AInv
  <2>3. SUFFICES ASSUME room' = "open", ~lapsed'
                 PROVE  Leaves' /\ HasAdmin'
    BY <1>2, <2>2 DEF AInv
  <2>4. ~lapsed /\ ~Lapses
    BY <2>1, <2>3
  <2>5. ASSUME NEW u \in User, NEW invited \in SUBSET User,
               NEW viaSocket \in BOOLEAN, CreateGroup(u, invited, viaSocket)
        PROVE  Leaves' /\ HasAdmin'
    BY <2>5 DEF CreateGroup, CreatorJoins, AInv, IInv, NothingBeforeCreate,
                Leaves, HasAdmin
  <2>6. ASSUME NEW u \in User, JoinRoom(u) \/ Disconnect(u)
        PROVE  Leaves' /\ HasAdmin'
    BY <2>3, <2>4, <2>6
       DEF JoinRoom, Disconnect, AInv, Leaves, HasAdmin, Members
  <2>7. ASSUME NEW r \in Req, Arrive(r) \/ Progress(r) \/ Fail(r)
        PROVE  Leaves' /\ HasAdmin'
    <3>1. room = "open"
      BY <2>3, <2>7
         DEF Arrive, AddBegin, RemoveBegin, LeaveBegin, FetchRooms, Progress,
             AddStep, RemoveStep, LeaveStep, AddExisting, AddCreate,
             AddIncrement, RemoveFind, RemoveDelete, RemoveDecrement,
             RemoveEvict, LeaveCountAdmins, LeaveFindEarliest, LeavePromote,
             LeaveDelete, LeaveCountRemaining, LeaveVacate, LeaveDropRoom,
             LeaveDecrement, FetchJoin, Fail
    <3>2. AStep(r)
      BY <2>4, <2>7, <3>1, OneActs DEF AStep, AInv, IInv
    <3>3. CASE FetchJoin(r) \/ Fail(r)
      <4>1. req'[r].pc = "idle" /\ UNCHANGED <<room, joined, admins>>
        BY <3>3, NoRequestType DEF FetchJoin, Fail, Finish, AInv, IInv, TypeOK
      <4>2. QED
        BY <3>2, <4>1, SameRows
    <3>4. QED
      BY <2>3, <2>7, <3>2, <3>3, ArriveAdmin, AddStepAdmin, RemoveStepAdmin,
         LeaveStepAdmin DEF Progress
  <2>8. QED
    BY <2>1, <2>5, <2>6, <2>7 DEF Next
<1>5. QED
  BY <1>3, <1>4

\* However many users leave, add and remove at once, and whichever of their
\* database calls are rejected half way, a group with members lacks an admin
\* only if an admin went or a member came beside a leave that had already
\* looked, or a request outlived its admin.
THEOREM AdminlessCorrect == HistorySpec => []AdminlessByRaceOnly
<1>1. HistoryInit => AInv
  BY InitTypeOK, NoRequestType
     DEF Init, HistoryInit, AInv, IInv, NothingBeforeCreate, CountAccounted,
         Apart
<1>2. AInv => AdminlessByRaceOnly
  BY DEF AInv, HasAdmin, AdminlessByRaceOnly
<1>3. QED
  BY <1>1, <1>2, NextAdmin, PTL DEF HistorySpec

-----------------------------------------------------------------------------
(***************************************************************************)
(* EmptyGroupEnds and DropsNewcomersOnly.  A leave holds last only between  *)
(* its count and its end; what the request that acts does to the rows and   *)
(* to its own last (Departs) is all that matters to either.                 *)
(***************************************************************************)
EInv ==
  /\ IInv
  /\ \A s \in Req : req[s].last => req[s].pc \in {"vacate", "drop"}
  /\ counted \in [Req -> Nat]
  /\ \A s \in Req : counted[s] <= clock
  /\ EmptyGroupEnds
  /\ DropsNewcomersOnly

\* A step of request r, as far as rows and last go.
Departs(r) ==
  /\ \A s \in Req \ {r} : req'[s] = req[s]
  /\ clock' >= clock
  /\ \A u \in User : joined'[u] \in {0, joined[u], clock + 1}
  /\ req'[r].last => req'[r].pc \in {"vacate", "drop"}
  /\ req'[r].last /\ ~req[r].last => Members = {} /\ joined' = joined
  /\ room' = "open" => room = "open"
  /\ room' = "open" /\ Members' = {} /\ Members # {} =>
       \/ req'[r].pc = "remaining"
       \/ req[r].pc = "delete" /\ req'[r].pc # "delete"
  /\ room' = "open" /\ Members = {} /\ WillDrop(r) =>
       \/ WillDrop(r)'
       \/ req'[r].pc = "idle" /\ req[r].pc # "idle"

LEMMA HandlerDeparts ==
  ASSUME EInv, NEW r \in Req, Arrive(r) \/ Progress(r) \/ Fail(r)
  PROVE  Departs(r)
<1>1. \A s \in Req \ {r} : req'[s] = req[s]
  BY OneActs DEF EInv, IInv
<1>0. /\ req \in [Req -> Request] /\ joined \in [User -> Nat] /\ clock \in Nat
      /\ req[r].last => req[r].pc \in {"vacate", "drop"}
      /\ NoRequest.pc = "idle" /\ ~NoRequest.last
  BY DEF EInv, IInv, TypeOK, NoRequest
<1>2. ASSUME Arrive(r) PROVE Departs(r)
  <2>1. UNCHANGED <<room, joined, clock>> /\ req[r].pc = "idle"
    BY <1>2 DEF Arrive, AddBegin, RemoveBegin, LeaveBegin, FetchRooms, Start
  <2>2. ~req'[r].last
    BY <1>0, <1>2 DEF Arrive, AddBegin, RemoveBegin, LeaveBegin, FetchRooms,
                      Start, NoRequest
  <2>3. QED
    BY <1>0, <1>1, <2>1, <2>2 DEF Departs, Members, WillDrop
<1>3. ASSUME AddStep(r) \/ RemoveStep(r) \/ FetchJoin(r) PROVE Departs(r)
  <2>1. req[r].pc \notin {"idle", "remaining", "vacate", "drop"} /\ ~req[r].last
    BY <1>0, <1>3
       DEF AddStep, AddExisting, AddCreate, AddIncrement, RemoveStep,
           RemoveFind, RemoveDelete, RemoveDecrement, RemoveEvict, FetchJoin,
           At
  <2>2. ~req'[r].last
    BY <1>0, <1>3, <2>1
       DEF AddStep, AddExisting, AddCreate, AddIncrement, RemoveStep,
           RemoveFind, RemoveDelete, RemoveDecrement, RemoveEvict, FetchJoin,
           Finish, Go, Request
  <2>3. /\ room' = room /\ clock' \in {clock, clock + 1}
        /\ \A u \in User : joined'[u] \in {0, joined[u], clock + 1}
    BY <1>0, <1>3
       DEF AddStep, AddExisting, AddCreate, AddIncrement, RemoveStep,
           RemoveFind, RemoveDelete, DeleteRow, RemoveDecrement, RemoveEvict,
           FetchJoin
  <2>4. \/ Members \subseteq Members'
        \/ req[r].pc = "delete" /\ req'[r].pc # "delete"
    <3>1. CASE RemoveDelete(r)
      BY <1>0, <3>1 DEF RemoveDelete, Go, Finish, At, Request
    <3>2. CASE AddCreate(r)
      <4>1. ASSUME NEW u \in Members PROVE joined'[u] = joined[u]
        BY <1>0, <3>2, <4>1 DEF AddCreate, Members
      <4>2. QED
        BY <4>1 DEF Members
    <3>3. CASE \/ AddExisting(r) \/ AddIncrement(r) \/ RemoveFind(r)
               \/ RemoveDecrement(r) \/ RemoveEvict(r) \/ FetchJoin(r)
      <4>1. AddExisting(r) => joined' = joined
        BY DEF AddExisting
      <4>2. RemoveDecrement(r) => joined' = joined
        BY DEF RemoveDecrement
      <4>3. joined' = joined
        BY <3>3, <4>1, <4>2 DEF AddIncrement, RemoveFind, RemoveEvict, FetchJoin
      <4>4. QED
        BY <4>3 DEF Members
    <3>4. QED
      BY <1>3, <3>1, <3>2, <3>3 DEF AddStep, RemoveStep
  <2>5. QED
    BY <1>0, <1>1, <2>1, <2>2, <2>3, <2>4 DEF Departs, WillDrop
<1>4. ASSUME LeaveStep(r) PROVE Departs(r)
  <2>1. CASE \/ LeaveCountAdmins(r) \/ LeaveFindEarliest(r) \/ LeavePromote(r)
             \/ LeaveDecrement(r)
    <3>1. UNCHANGED <<room, joined, clock>> /\ ~req[r].last
          /\ req[r].pc \in {"admins", "earliest", "promote", "settle"}
      BY <1>0, <2>1 DEF LeaveCountAdmins, LeaveFindEarliest, LeavePromote,
                        LeaveDecrement, At
    <3>2. ~req'[r].last
      <4>1. CASE LeaveFindEarliest(r)
        <5>1. CASE Go(r, "quit")
          BY <1>0, <3>1, <5>1 DEF Go, Request
        <5>2. ASSUME NEW heir \in User,
                     req' = [req EXCEPT ![r].pc = "promote",
                                        ![r].subject = heir,
                                        ![r].heirRow = joined[heir]]
              PROVE  req'[r].last = req[r].last
          BY <1>0, <5>2 DEF Request
        <5>3. QED
          BY <3>1, <4>1, <5>1, <5>2 DEF LeaveFindEarliest, Earliest, Members
      <4>2. CASE LeaveCountAdmins(r)
        BY <1>0, <3>1, <4>2 DEF LeaveCountAdmins, Go, Request
      <4>3. CASE LeavePromote(r) \/ LeaveDecrement(r)
        BY <1>0, <3>1, <4>3 DEF LeavePromote, LeaveDecrement, Finish, Go,
                                Request
      <4>4. QED
        BY <2>1, <4>1, <4>2, <4>3
    <3>3. QED
      BY <1>0, <1>1, <3>1, <3>2 DEF Departs, Members, WillDrop
  <2>2. CASE LeaveDelete(r)
    <3>1. UNCHANGED <<room, clock>> /\ ~req[r].last /\ req[r].pc = "quit"
      BY <1>0, <2>2 DEF LeaveDelete, At
    <3>2. /\ ~req'[r].last
          /\ req'[r].pc = "remaining" \/ joined' = joined
      BY <1>0, <2>2, <3>1 DEF LeaveDelete, Finish, Go, Request
    <3>3. \A u \in User : joined'[u] \in {0, joined[u], clock + 1}
      BY <1>0, <2>2 DEF LeaveDelete, DeleteRow
    <3>4. req'[r].pc = "remaining" \/ Members' = Members
      BY <3>2 DEF Members
    <3>5. QED
      BY <1>0, <1>1, <3>1, <3>2, <3>3, <3>4 DEF Departs, WillDrop
  <2>3. CASE LeaveCountRemaining(r)
    <3>1. UNCHANGED <<room, joined, clock>>
      BY <2>3 DEF LeaveCountRemaining
    <3>2. req'[r].pc = "vacate" /\ req'[r].last = (Members = {})
      BY <1>0, <2>3 DEF LeaveCountRemaining, Request
    <3>3. Members' = Members /\ clock' >= clock
          /\ \A u \in User : joined'[u] \in {0, joined[u], clock + 1}
      BY <1>0, <3>1 DEF Members
    <3>4. Members = {} => WillDrop(r)'
      BY <3>2 DEF WillDrop
    <3>5. QED
      BY <1>1, <3>1, <3>2, <3>3, <3>4 DEF Departs
  <2>4. CASE LeaveVacate(r)
    <3>1. UNCHANGED <<room, joined, clock>> /\ req[r].pc = "vacate"
      BY <2>4 DEF LeaveVacate, At
    <3>2. req'[r].last = req[r].last /\ (req[r].last => req'[r].pc = "drop")
      BY <1>0, <2>4 DEF LeaveVacate, Go, Request
    <3>3. QED
      BY <1>0, <1>1, <3>1, <3>2 DEF Departs, Members, WillDrop
  <2>5. CASE LeaveDropRoom(r)
    <3>1. /\ room' # "open" /\ clock' = clock
          /\ \A u \in User : joined'[u] \in {0, joined[u]}
      BY <1>0, <2>5 DEF LeaveDropRoom
    <3>2. ~req'[r].last
      BY <1>0, <2>5 DEF LeaveDropRoom, Finish
    <3>3. QED
      BY <1>0, <1>1, <3>1, <3>2 DEF Departs
  <2>6. QED
    BY <1>4, <2>1, <2>2, <2>3, <2>4, <2>5 DEF LeaveStep
<1>5. ASSUME Fail(r) PROVE Departs(r)
  <2>1. UNCHANGED <<room, joined, clock>> /\ req[r].pc # "idle"
    BY <1>5 DEF Fail
  <2>2. ~req'[r].last /\ req'[r].pc = "idle"
    BY <1>0, <1>5 DEF Fail, Finish
  <2>3. QED
    BY <1>0, <1>1, <2>1, <2>2 DEF Departs, Members, WillDrop
<1>6. QED
  BY <1>2, <1>3, <1>4, <1>5 DEF Progress

LEMMA NextDeparts == EInv /\ [HistoryNext]_historyVars => EInv'
<1> SUFFICES ASSUME EInv, [HistoryNext]_historyVars PROVE EInv'
  OBVIOUS
<1>1. IInv'
  <2>1. [Next]_vars
    BY DEF HistoryNext, historyVars, vars
  <2>2. QED
    BY <2>1, NextCount DEF EInv
<1>2. CASE UNCHANGED historyVars
  BY <1>1, <1>2 DEF historyVars, vars, EInv, EmptyGroupEnds, WillDrop,
                    DropsNewcomersOnly, Members
<1>3. ASSUME NEW r \in Req, Arrive(r) \/ Progress(r) \/ Fail(r), Record
      PROVE  EInv'
  <2>1. Departs(r)
    BY <1>3, HandlerDeparts
  <2>2. /\ forsaken' = (Members' = {} /\ (forsaken \/ Forsakes))
        /\ counted' = Counts
    BY <1>3 DEF Record
  <2>3. clock \in Nat /\ clock' \in Nat /\ joined \in [User -> Nat]
    BY <1>1 DEF EInv, IInv, TypeOK
  <2>4. \A s \in Req : req'[s].last => req'[s].pc \in {"vacate", "drop"}
    BY <2>1 DEF Departs, EInv
  <2>5. /\ counted' \in [Req -> Nat]
        /\ \A s \in Req : counted'[s] <= clock'
    BY <2>1, <2>2, <2>3 DEF Departs, Counts, EInv
  <2>6. ASSUME NEW s \in Req, req'[s].last, NEW u \in Members'
        PROVE  joined'[u] > counted'[s]
    <3>1. CASE req[s].last
      <4>1. counted'[s] = counted[s] /\ counted[s] \in Nat /\ counted[s] <= clock
        BY <2>2, <2>6, <3>1 DEF Counts, EInv
      <4>2. \/ joined'[u] = clock + 1
            \/ joined'[u] = joined[u] /\ u \in Members
        <5>1. u \in User /\ joined'[u] # 0
          BY <2>6 DEF Members
        <5>2. joined'[u] \in {0, joined[u], clock + 1}
          BY <2>1, <5>1 DEF Departs
        <5>3. QED
          BY <5>1, <5>2 DEF Members
      <4>3. u \in Members => joined[u] > counted[s]
        BY <3>1 DEF EInv, DropsNewcomersOnly
      <4>4. QED
        BY <2>3, <4>1, <4>2, <4>3
    <3>2. CASE ~req[s].last
      <4>1. s = r
        BY <2>1, <2>6, <3>2 DEF Departs
      <4>2. QED
        BY <2>1, <2>6, <3>2, <4>1 DEF Departs, Members
    <3>3. QED
      BY <3>1, <3>2
  <2>7. ASSUME room' = "open", Members' = {}, ~forsaken'
        PROVE  \E s \in Req : WillDrop(s)'
    <3>1. ~forsaken /\ ~Forsakes
      BY <2>2, <2>7
    <3>2. room = "open"
      BY <2>1, <2>7 DEF Departs
    <3>3. CASE Members # {}
      BY <2>1, <2>7, <3>1, <3>3 DEF Departs, Forsakes, Acts, WillDrop
    <3>4. CASE Members = {}
      <4>1. PICK s \in Req : WillDrop(s)
        BY <3>1, <3>2, <3>4 DEF EInv, EmptyGroupEnds
      <4>2. CASE s # r
        BY <2>1, <4>1, <4>2 DEF Departs, WillDrop
      <4>3. CASE s = r
        BY <2>1, <2>7, <3>1, <3>4, <4>1, <4>3
           DEF Departs, Forsakes, Acts
      <4>4. QED
        BY <4>2, <4>3
    <3>5. QED
      BY <3>3, <3>4
  <2>8. QED
    BY <1>1, <2>4, <2>5, <2>6, <2>7
       DEF EInv, EmptyGroupEnds, DropsNewcomersOnly
<1>4. ASSUME req' = req, Record, clock' \in Nat, clock' >= clock,
             \/ UNCHANGED <<room, joined>>
             \/ room' = "open" /\ Members' # {} /\ \A s \in Req : ~req[s].last
      PROVE  EInv'
  <2>1. counted' = [s \in Req |-> IF req[s].last THEN counted[s] ELSE 0]
    BY <1>4 DEF Record, Counts
  <2>2. forsaken' = (Members' = {} /\ forsaken)
    BY <1>4 DEF Record, Forsakes, Acts
  <2>3. clock \in Nat
    BY DEF EInv, IInv, TypeOK
  <2>4. \A s \in Req : req'[s].last => req'[s].pc \in {"vacate", "drop"}
    BY <1>4 DEF EInv
  <2>5. /\ counted' \in [Req -> Nat]
        /\ \A s \in Req : counted'[s] <= clock'
    BY <1>4, <2>1, <2>3 DEF EInv
  <2>6. EmptyGroupEnds'
    BY <1>4, <2>2 DEF EInv, EmptyGroupEnds, WillDrop, Members
  <2>7. DropsNewcomersOnly'
    BY <1>4, <2>1 DEF EInv, DropsNewcomersOnly, Members
  <2>8. QED
    BY <1>1, <2>4, <2>5, <2>6, <2>7 DEF EInv
<1>5. ASSUME NEW u \in User, JoinRoom(u) \/ Disconnect(u), Record PROVE EInv'
  BY <1>4, <1>5 DEF JoinRoom, Disconnect, EInv, IInv, TypeOK
<1>6. ASSUME NEW u \in User, NEW invited \in SUBSET User,
             NEW viaSocket \in BOOLEAN, CreateGroup(u, invited, viaSocket),
             Record
      PROVE  EInv'
  <2>1. /\ clock \in Nat /\ clock' = clock + 1 /\ req' = req /\ room' = "open"
        /\ room = "absent" /\ joined'[u] = clock + 1
    BY <1>6 DEF CreateGroup, EInv, IInv, TypeOK
  <2>2. Members' # {}
    BY <2>1 DEF Members
  <2>3. \A s \in Req : ~req[s].last
    BY <2>1 DEF EInv, IInv, NothingBeforeCreate
  <2>4. QED
    BY <1>4, <1>6, <2>1, <2>2, <2>3
<1>7. QED
  BY <1>2, <1>3, <1>5, <1>6 DEF HistoryNext, Next

LEMMA InitDeparts == HistoryInit => EInv
<1> SUFFICES ASSUME Init, HistoryInit PROVE EInv
  BY DEF HistoryInit
<1>1. \A s \in Req : req[s].pc = "idle" /\ ~req[s].last
  BY DEF Init, NoRequest
<1>2. IInv
  BY <1>1, InitTypeOK DEF Init, IInv, NothingBeforeCreate, CountAccounted
<1>3. QED
  BY <1>1, <1>2 DEF Init, HistoryInit, EInv, EmptyGroupEnds, DropsNewcomersOnly

\* However leaves, adds and removals overlap, a group that has lost its last
\* member is about to be deleted, unless the leave that would have done so was
\* rejected or a removal outlived the admin it was granted to.
THEOREM EmptyGroupCorrect == HistorySpec => []EmptyGroupEnds
<1>1. EInv => EmptyGroupEnds
  BY DEF EInv
<1>2. QED
  BY <1>1, InitDeparts, NextDeparts, PTL DEF HistorySpec

\* The deletion of a group takes the row of nobody who was a member when the
\* last leaver counted, however long it is under way.
THEOREM DropsNewcomersCorrect == HistorySpec => []DropsNewcomersOnly
<1>1. EInv => DropsNewcomersOnly
  BY DEF EInv
<1>2. QED
  BY <1>1, InitDeparts, NextDeparts, PTL DEF HistorySpec

-----------------------------------------------------------------------------
(***************************************************************************)
(* SeatsAccounted.  A fetch whose user has no row any more has been outrun; *)
(* with that, each step accounts for the seat of every user: one who was    *)
(* there before (KeptSeat) and one who comes to sit (NewSeat).              *)
(***************************************************************************)
SInv ==
  /\ IInv
  /\ \A s \in Req : req[s].pc = "join" /\ req[s].actor \notin Members => s \in outrun
  /\ outrun \subseteq Req
  /\ SeatsAccounted

\* A seat is accounted for after the step.
SeatedNext(u) ==
  u \in Members' \/ u \in strays' \/ \E s \in Req : u \in Evicted(s)'

LEMMA Quiet ==
  ASSUME NEW s, req'[s] = req[s]
  PROVE  Evicted(s)' = Evicted(s)
BY DEF Evicted

\* An eviction owed is still owed, or done, or was lost with a call that threw.
LEMMA EvictionKept ==
  ASSUME SInv, Record, NEW s \in Req, Arrive(s) \/ Progress(s) \/ Fail(s),
         NEW u \in Evicted(s), u \in inRoom'
  PROVE  SeatedNext(u)
<1> USE NoRequestType DEF Finish, Go, At
<1>0. req[s] \in Request /\ req \in [Req -> Request]
  BY DEF SInv, IInv, TypeOK
<1>1. req[s].pc \in {"decrement", "evict", "remaining", "vacate"}
  BY DEF Evicted
<1>2. CASE req'[s].pc = "idle" /\ req[s].pc \in {"decrement", "remaining"}
  <2>1. u \in strays'
    BY <1>2 DEF Record, Strays
  <2>2. QED
    BY <2>1 DEF SeatedNext
<1>3. CASE RemoveDecrement(s) /\ Go(s, "evict")
  <2>1. req'[s].pc = "evict" /\ req'[s].subject = req[s].subject
    BY <1>0, <1>3 DEF Request
  <2>2. u \in Evicted(s)'
    BY <1>3, <2>1 DEF Evicted, RemoveDecrement
  <2>3. QED
    BY <2>2 DEF SeatedNext
<1>4. CASE LeaveCountRemaining(s)
  <2>1. req'[s].pc = "vacate" /\ req'[s].actor = req[s].actor
    BY <1>0, <1>4 DEF Request, LeaveCountRemaining
  <2>2. u \in Evicted(s)'
    BY <1>4, <2>1 DEF Evicted, LeaveCountRemaining
  <2>3. QED
    BY <2>2 DEF SeatedNext
<1>5. CASE RemoveEvict(s) \/ LeaveVacate(s)
  BY <1>1, <1>5 DEF RemoveEvict, LeaveVacate, Evicted
<1>6. CASE Fail(s)
  <2>1. req'[s].pc = "idle" /\ req[s].pc \in {"decrement", "remaining"}
    BY <1>0, <1>1, <1>6 DEF Fail, SocketPoints
  <2>2. QED
    BY <1>2, <2>1
<1>7. CASE RemoveDecrement(s) /\ Finish(s)
  BY <1>0, <1>2, <1>7 DEF RemoveDecrement
<1>8. QED
  BY <1>1, <1>3, <1>4, <1>5, <1>6, <1>7
     DEF Arrive, AddBegin, RemoveBegin, LeaveBegin, FetchRooms, Start, Progress,
         AddStep, RemoveStep, LeaveStep, AddExisting, AddCreate, AddIncrement,
         RemoveFind, RemoveDelete, RemoveDecrement, LeaveCountAdmins,
         LeaveFindEarliest, LeavePromote, LeaveDelete, LeaveDropRoom,
         LeaveDecrement, FetchJoin

\* A member who loses the row is to be evicted by the request that deleted it,
\* or loses it with the room.
LEMMA MemberKept ==
  ASSUME SInv, Record, NEW r \in Req, Arrive(r) \/ Progress(r) \/ Fail(r),
         NEW u \in Members, u \in inRoom'
  PROVE  SeatedNext(u)
<1> USE NoRequestType DEF Finish, Go, At
<1>0. /\ req[r] \in Request /\ req \in [Req -> Request]
      /\ joined \in [User -> Nat] /\ clock \in Nat
  BY DEF SInv, IInv, TypeOK
<1>1. CASE RemoveDelete(r) /\ DeleteRow(req[r].subject, req[r].row)
  <2>1. /\ req'[r].pc = "decrement" /\ req'[r].subject = req[r].subject
        /\ Members' = Members \ {req[r].subject}
    BY <1>0, <1>1 DEF RemoveDelete, DeleteRow, Request, Members
  <2>2. Evicted(r)' = {req[r].subject}
    BY <2>1 DEF Evicted
  <2>3. QED
    BY <2>1, <2>2 DEF SeatedNext
<1>2. CASE LeaveDelete(r) /\ DeleteRow(req[r].actor, req[r].row)
  <2>1. /\ req'[r].pc = "remaining" /\ req'[r].actor = req[r].actor
        /\ Members' = Members \ {req[r].actor}
    BY <1>0, <1>2 DEF LeaveDelete, DeleteRow, Request, Members
  <2>2. Evicted(r)' = {req[r].actor}
    BY <2>1 DEF Evicted
  <2>3. QED
    BY <2>1, <2>2 DEF SeatedNext
<1>3. CASE LeaveDropRoom(r) /\ room = "open"
  <2>1. room' = "deleted"
    BY <1>3 DEF LeaveDropRoom
  <2>2. u \in strays'
    BY <1>3, <2>1 DEF Record, Strays
  <2>3. QED
    BY <2>2 DEF SeatedNext
<1>4. CASE AddCreate(r)
  <2>1. joined'[u] # 0
    BY <1>0, <1>4 DEF AddCreate, Members
  <2>2. QED
    BY <2>1 DEF SeatedNext, Members
<1>5. CASE UNCHANGED joined
  BY <1>5 DEF SeatedNext, Members
<1>6. QED
  BY <1>1, <1>2, <1>3, <1>4, <1>5
     DEF Arrive, AddBegin, RemoveBegin, LeaveBegin, FetchRooms, Progress,
         AddStep, RemoveStep, LeaveStep, AddExisting, AddIncrement,
         RemoveFind, RemoveDelete, RemoveDecrement, RemoveEvict,
         LeaveCountAdmins, LeaveFindEarliest, LeavePromote, LeaveDelete,
         LeaveCountRemaining, LeaveVacate, LeaveDropRoom, LeaveDecrement,
         FetchJoin, Fail

LEMMA KeptSeat ==
  ASSUME SInv, Record, NEW r \in Req, Arrive(r) \/ Progress(r) \/ Fail(r),
         NEW u \in inRoom, u \in inRoom'
  PROVE  SeatedNext(u)
<1>1. u \in Members \/ u \in strays \/ \E s \in Req : u \in Evicted(s)
  BY DEF SInv, SeatsAccounted
<1>2. CASE u \in Members
  BY <1>2, MemberKept
<1>3. CASE u \in strays
  BY <1>3 DEF Record, Strays, SeatedNext
<1>4. ASSUME NEW s \in Req, u \in Evicted(s) PROVE SeatedNext(u)
  <2>1. CASE s = r
    BY <1>4, <2>1, EvictionKept
  <2>2. CASE s # r
    <3>1. req'[s] = req[s]
      BY <2>2, OneActs DEF SInv, IInv
    <3>2. QED
      BY <1>4, <3>1, Quiet DEF SeatedNext
  <2>3. QED
    BY <2>1, <2>2
<1>5. QED
  BY <1>1, <1>2, <1>3, <1>4

LEMMA NewSeat ==
  ASSUME SInv, Record, NEW r \in Req, Arrive(r) \/ Progress(r) \/ Fail(r),
         NEW u \in inRoom', u \notin inRoom
  PROVE  SeatedNext(u)
<1>1. FetchJoin(r) /\ u = req[r].actor
  BY DEF Arrive, AddBegin, RemoveBegin, LeaveBegin, FetchRooms, Progress,
         AddStep, RemoveStep, LeaveStep, AddExisting, AddCreate, AddIncrement,
         RemoveFind, RemoveDelete, RemoveDecrement, RemoveEvict,
         LeaveCountAdmins, LeaveFindEarliest, LeavePromote, LeaveDelete,
         LeaveCountRemaining, LeaveVacate, LeaveDropRoom, LeaveSocket,
         LeaveDecrement, FetchJoin, Fail
<1>2. CASE u \in Members
  BY <1>1, <1>2 DEF FetchJoin, Members, SeatedNext
<1>3. CASE u \notin Members
  <2>1. r \in outrun /\ req[r].pc = "join" /\ req'[r].pc = "idle"
    BY <1>1, <1>3, NoRequestType
       DEF FetchJoin, At, Finish, SInv, IInv, TypeOK
  <2>2. u \in strays'
    BY <1>1, <2>1 DEF Record, Strays, Acts
  <2>3. QED
    BY <2>2 DEF SeatedNext
<1>4. QED
  BY <1>2, <1>3

LEMMA NextSeats ==
  ASSUME SInv, Next, Record
  PROVE  SeatsAccounted'
<1>1. SUFFICES ASSUME NEW u \in inRoom' PROVE SeatedNext(u)
  BY DEF SeatsAccounted, SeatedNext
<1>2. ASSUME NEW r \in Req, Arrive(r) \/ Progress(r) \/ Fail(r)
      PROVE  SeatedNext(u)
  BY <1>2, KeptSeat, NewSeat
<1>3. ASSUME NEW v \in User, JoinRoom(v) \/ Disconnect(v)
      PROVE  SeatedNext(u)
  <2>1. req' = req /\ Members' = Members
    BY <1>3 DEF JoinRoom, Disconnect, Members
  <2>2. CASE u \in inRoom
    <3>1. u \in Members \/ u \in strays \/ \E s \in Req : u \in Evicted(s)
      BY <2>2 DEF SInv, SeatsAccounted
    <3>2. u \in strays => u \in strays'
      BY DEF Record, Strays
    <3>3. \A s \in Req : Evicted(s)' = Evicted(s)
      BY <2>1, Quiet
    <3>4. QED
      BY <2>1, <3>1, <3>2, <3>3 DEF SeatedNext
  <2>3. CASE u \notin inRoom
    BY <2>1, <2>3 DEF Record, Strays, SeatedNext
  <2>4. QED
    BY <2>2, <2>3
<1>4. ASSUME NEW v \in User, NEW invited \in SUBSET User,
             NEW viaSocket \in BOOLEAN, CreateGroup(v, invited, viaSocket)
      PROVE  SeatedNext(u)
  <2>1. req' = req /\ room = "absent" /\ v \in Members'
    BY <1>4 DEF CreateGroup, Members, SInv, IInv, TypeOK
  <2>2. /\ \A s \in Req : Evicted(s) = {}
        /\ Members = {}
    BY <2>1 DEF SInv, IInv, NothingBeforeCreate, Members, Evicted
  <2>3. u = v \/ u \in inRoom
    BY <1>4 DEF CreateGroup, CreatorJoins
  <2>4. u \in inRoom => u \in strays'
    BY <2>2 DEF SInv, SeatsAccounted, Record, Strays
  <2>5. QED
    BY <2>1, <2>3, <2>4 DEF SeatedNext
<1>5. QED
  BY <1>2, <1>3, <1>4 DEF Next

\* A fetch under way is of a member, or was outrun since.
LEMMA NextOutrun ==
  ASSUME SInv, Next, Record
  PROVE  /\ \A s \in Req : req'[s].pc = "join" /\ req'[s].actor \notin Members'
                             => s \in outrun'
         /\ outrun' \subseteq Req
<1>1. outrun' \subseteq Req
  BY DEF Record, Outruns
<1>2. SUFFICES ASSUME NEW s \in Req, req'[s].pc = "join",
                      req'[s].actor \notin Members'
               PROVE  s \in outrun'
  BY <1>1
<1>3. CASE req'[s] = req[s]
  <2>1. req[s].actor \in User
    BY <1>2, <1>3 DEF SInv, IInv, TypeOK
  <2>2. CASE s \in outrun
    BY <1>2, <1>3, <2>2 DEF Record, Outruns, Acts
  <2>3. CASE req[s].actor \in Members
    BY <1>2, <1>3, <2>1, <2>3 DEF Record, Outruns, Acts, Members
  <2>4. QED
    BY <1>2, <1>3, <2>2, <2>3 DEF SInv
<1>4. CASE req'[s] # req[s]
  <2>1. Arrive(s) \/ Progress(s) \/ Fail(s)
    <3>1. ASSUME NEW r \in Req, Arrive(r) \/ Progress(r) \/ Fail(r)
          PROVE  s = r
      BY <1>4, <3>1, OneActs DEF SInv, IInv
    <3>2. QED
      BY <1>4, <3>1 DEF Next, CreateGroup, JoinRoom, Disconnect
  <2>2. req[s] \in Request /\ req \in [Req -> Request]
    BY DEF SInv, IInv, TypeOK
  <2>3. ASSUME NEW q, req' = [req EXCEPT ![s] = q]
        PROVE  req'[s] = q
    BY <2>2, <2>3
  <2>4. ASSUME NEW u \in User, FetchRooms(s, u) PROVE FALSE
    <3>1. req'[s].actor = u
      BY <2>3, <2>4 DEF FetchRooms, Start, NoRequest
    <3>2. QED
      BY <1>2, <2>4, <3>1 DEF FetchRooms, Members
  <2>5. ASSUME NEW u \in User, NEW users, AddBegin(s, u, users) PROVE FALSE
    BY <1>2, <2>3, <2>5 DEF AddBegin, NoRequest
  <2>6. ASSUME NEW u \in User, NEW target, RemoveBegin(s, u, target) PROVE FALSE
    BY <1>2, <2>3, <2>6 DEF RemoveBegin, NoRequest
  <2>7. ASSUME NEW u \in User, LeaveBegin(s, u) PROVE FALSE
    BY <1>2, <2>3, <2>7 DEF LeaveBegin, NoRequest
  <2>8. ~Arrive(s)
    BY <2>4, <2>5, <2>6, <2>7 DEF Arrive
  <2>9. ~LeaveFindEarliest(s)
    <3>1. ASSUME NEW heir,
                 req' = [req EXCEPT ![s].pc = "promote",
                                    ![s].subject = heir,
                                    ![s].heirRow = joined[heir]]
          PROVE  req'[s].pc = "promote"
      BY <2>2, <3>1 DEF Request
    <3>2. Go(s, "quit") => req'[s].pc = "quit"
      BY <2>2 DEF Go, Request
    <3>3. QED
      BY <1>2, <3>1, <3>2 DEF LeaveFindEarliest
  <2>10. ~AddStep(s) /\ ~RemoveStep(s) /\ ~Fail(s) /\ ~FetchJoin(s)
    BY <1>2, <2>2, NoRequestType
       DEF AddStep, AddExisting, AddCreate, AddIncrement, RemoveStep,
           RemoveFind, RemoveDelete, RemoveDecrement, RemoveEvict, Fail,
           FetchJoin, Finish, Go, Request
  <2>11. ~LeaveStep(s)
    BY <1>2, <2>2, <2>9, NoRequestType
       DEF LeaveStep, LeaveCountAdmins, LeavePromote, LeaveDelete,
           LeaveCountRemaining, LeaveVacate, LeaveDropRoom, LeaveDecrement,
           Finish, Go, Request
  <2>12. QED
    BY <2>1, <2>8, <2>10, <2>11 DEF Progress
<1>5. QED
  BY <1>3, <1>4

\* However many requests, fetches and disconnections interleave and fail, only
\* users with a row sit in the socket room, but for those a request in flight
\* is to take out and for the strays.
THEOREM SeatsCorrect == HistorySpec => []SeatsAccounted
<1>1. HistoryInit => SInv
  BY InitTypeOK, NoRequestType
     DEF Init, HistoryInit, SInv, IInv, NothingBeforeCreate, CountAccounted,
         SeatsAccounted
<1>2. SInv /\ [HistoryNext]_historyVars => SInv'
  <2> SUFFICES ASSUME SInv, [HistoryNext]_historyVars PROVE SInv'
    OBVIOUS
  <2>1. [Next]_vars
    BY DEF HistoryNext, historyVars, vars
  <2>2. IInv'
    BY <2>1, NextCount DEF SInv
  <2>3. CASE HistoryNext
    BY <2>2, <2>3, NextSeats, NextOutrun DEF HistoryNext, SInv, Members
  <2>4. CASE UNCHANGED historyVars
    <3>1. \A s \in Req : Evicted(s)' = Evicted(s)
      BY <2>4, Quiet DEF historyVars, vars
    <3>2. SeatsAccounted'
      BY <2>4, <3>1 DEF historyVars, vars, SInv, SeatsAccounted, Members
    <3>3. QED
      BY <2>2, <2>4, <3>2 DEF historyVars, vars, SInv, Members
  <2>5. QED
    BY <2>3, <2>4
<1>3. SInv => SeatsAccounted
  BY DEF SInv
<1>4. QED
  BY <1>1, <1>2, <1>3, PTL DEF HistorySpec

-----------------------------------------------------------------------------
(***************************************************************************)
(* GroupMembership implements Roster.  The counter is accounted for in      *)
(* every reachable state (IInv), so that the mapped size is the number of   *)
(* members; what is left is how each handler's step changes the members.    *)
(***************************************************************************)
USE DEF RosterMembers, RosterAdmins

\* Roster counts as GroupMembership does.
LEMMA SameCardinality == \A S : R!Cardinality(S) = Cardinality(S)
BY DEF R!Cardinality, Cardinality

SizeRight ==
  IInv => RosterSize = IF room = "open" THEN Cardinality(Members) ELSE 0

LEMMA Settle ==
  ASSUME NEW c \in Int, NEW i \in Int, NEW d \in Int, NEW m \in Int,
         NEW e \in Int, c + i = m + d + e
  PROVE  c + i - d - e = m
OBVIOUS

LEMMA SizeHolds == SizeRight
<1> SUFFICES ASSUME IInv, room = "open"
             PROVE  RosterSize = Cardinality(Members)
  BY DEF RosterSize, SizeRight
<1>1. Cardinality(PendingIncrements) \in Int
  <2>1. PendingIncrements \in SUBSET (Req \X User)
    BY DEF PendingIncrements
  <2>2. IsFiniteSet(Req \X User)
    BY ConstantsAssumption, FS_Product
  <2>3. QED
    BY <2>1, <2>2, FS_Subset, FS_CardinalityType
<1>2. Cardinality(PendingDecrements) \in Int
  BY ConstantsAssumption, FS_Subset, FS_CardinalityType,
     PendingDecrements \in SUBSET Req DEF PendingDecrements
<1>3. Cardinality(Members) \in Int /\ count \in Int /\ drift \in Int
  BY UserSets DEF IInv, TypeOK, Members
<1>4. count + Cardinality(PendingIncrements)
        = Cardinality(Members) + Cardinality(PendingDecrements) + drift
  BY DEF IInv, CountAccounted
<1>5. count + Cardinality(PendingIncrements) - Cardinality(PendingDecrements)
        - drift = Cardinality(Members)
  BY <1>1, <1>2, <1>3, <1>4, Settle
<1>6. QED
  BY <1>5 DEF RosterSize

\* In every state, and so in the next one.
LEMMA SizeIsMembers ==
  ASSUME IInv
  PROVE  RosterSize = IF room = "open" THEN Cardinality(Members) ELSE 0
BY SizeHolds DEF SizeRight

LEMMA SizeAfter ==
  ASSUME IInv'
  PROVE  RosterSize' = IF room' = "open" THEN Cardinality(Members') ELSE 0
<1>1. SizeRight'
  BY SizeHolds, PTL
<1>2. QED
  BY <1>1 DEF SizeRight

\* A step that leaves room, rows and admins alone leaves the roster alone.
LEMMA Unseen ==
  ASSUME IInv, IInv', UNCHANGED <<room, joined, admins>>
  PROVE  UNCHANGED <<room, RosterMembers, RosterAdmins, RosterSize>>
<1>1. Members' = Members
  BY DEF Members
<1>2. QED
  BY <1>1, SizeIsMembers, SizeAfter

-----------------------------------------------------------------------------
LEMMA CreateMaps ==
  ASSUME IInv, IInv', NEW u \in User, NEW invited \in SUBSET User,
         NEW viaSocket \in BOOLEAN, CreateGroup(u, invited, viaSocket)
  PROVE  R!Create(u, invited)
<1>1. Members' = {u} \cup invited
  BY DEF CreateGroup, CreatorJoins, Members, IInv, TypeOK
<1>2. room = "absent" /\ room' = "open" /\ admins' = {u}
  BY DEF CreateGroup, CreatorJoins
<1>3. QED
  BY <1>1, <1>2, SizeAfter, SameCardinality DEF R!Create

LEMMA AddMaps ==
  ASSUME IInv, IInv', NEW r \in Req, AddCreate(r), room = "open",
         req[r].who \cap Members = {}
  PROVE  \E users \in SUBSET (User \ RosterMembers) : R!Admit(users)
<1> DEFINE who == req[r].who
<1>1. who \in SUBSET (User \ Members)
  BY DEF IInv, TypeOK, Request
<1>2. Members' = Members \cup who /\ UNCHANGED <<room, admins>>
  BY <1>1 DEF AddCreate, Members, IInv, TypeOK
<1>3. Cardinality(Members \cup who) = Cardinality(Members) + Cardinality(who)
  <2>1. IsFiniteSet(Members) /\ IsFiniteSet(who)
        /\ Cardinality(Members) \in Nat /\ Cardinality(who) \in Nat
    BY <1>1, UserSets DEF Members
  <2>2. Cardinality(Members \cap who) = 0
    BY <1>1, FS_EmptySet, Members \cap who = {}
  <2>3. Cardinality(Members \cup who)
          = Cardinality(Members) + Cardinality(who) - Cardinality(Members \cap who)
    BY <2>1, FS_Union
  <2>4. QED
    BY <2>1, <2>2, <2>3
<1>4. RosterSize = Cardinality(Members) /\ RosterSize' = Cardinality(Members')
  BY <1>2, SizeIsMembers, SizeAfter
<1>5. R!Admit(who)
  BY <1>2, <1>3, <1>4, SameCardinality DEF R!Admit
<1>6. QED
  BY <1>1, <1>5

LEMMA DeleteMaps ==
  ASSUME IInv, IInv', NEW u \in User, NEW i, DeleteRow(u, i),
         room = "open", UNCHANGED room
  PROVE  R!Part(u)
<1>1. u \in Members /\ Members' = Members \ {u} /\ admins' = admins \ {u}
  BY DEF DeleteRow, Members, IInv, TypeOK
<1>2. Cardinality(Members') = Cardinality(Members) - 1
  BY <1>1, UserSets, FS_RemoveElement DEF Members
<1>3. RosterSize = Cardinality(Members) /\ RosterSize' = Cardinality(Members')
  BY SizeIsMembers, SizeAfter
<1>4. QED
  BY <1>1, <1>2, <1>3 DEF R!Part

LEMMA PromoteMaps ==
  ASSUME IInv, IInv', NEW u \in User, u \in Members, room = "open",
         UNCHANGED <<room, joined>>, admins' = admins \cup {u}
  PROVE  R!Appoint(u)
<1>1. Members' = Members
  BY DEF Members
<1>2. RosterSize' = RosterSize
  BY <1>1, SizeIsMembers, SizeAfter
<1>3. QED
  BY <1>1, <1>2 DEF R!Appoint

LEMMA DropMaps ==
  ASSUME IInv, IInv', NEW r \in Req, LeaveDropRoom(r), room = "open"
  PROVE  R!Disband
BY SizeAfter DEF LeaveDropRoom, R!Disband

\* Whatever is done to the rows of a room that is not open is not seen.
LEMMA Closed ==
  ASSUME IInv, IInv', room # "open", UNCHANGED room
  PROVE  UNCHANGED <<room, RosterMembers, RosterAdmins, RosterSize>>
BY SizeIsMembers, SizeAfter

-----------------------------------------------------------------------------
LEMMA StepMaps ==
  ASSUME IInv, IInv', NEW r \in Req, Progress(r)
  PROVE  [R!Next]_(R!vars)
<1> USE DEF R!vars
<1>1. req[r] \in Request
  BY DEF IInv, TypeOK
<1>2. CASE UNCHANGED <<room, joined, admins>>
  BY <1>2, Unseen
<1>3. CASE AddCreate(r) /\ req[r].who \cap Members = {}
  <2>1. UNCHANGED room
    BY <1>3 DEF AddCreate
  <2>2. QED
    BY <1>3, <2>1, AddMaps, Closed DEF R!Next
<1>4. CASE RemoveDelete(r) /\ DeleteRow(req[r].subject, req[r].row)
  <2>1. UNCHANGED room /\ req[r].subject \in User
    BY <1>4 DEF RemoveDelete, DeleteRow, Members
  <2>2. QED
    BY <1>4, <2>1, DeleteMaps, Closed DEF R!Next
<1>5. CASE LeaveDelete(r) /\ DeleteRow(req[r].actor, req[r].row)
  <2>1. UNCHANGED room /\ req[r].actor \in User
    BY <1>5 DEF LeaveDelete, DeleteRow, Members
  <2>2. QED
    BY <1>5, <2>1, DeleteMaps, Closed DEF R!Next
<1>6. CASE LeavePromote(r) /\ req[r].subject \in Members /\ ~UNCHANGED admins
  <2>1. UNCHANGED <<room, joined>> /\ admins' = admins \cup {req[r].subject}
    BY <1>6 DEF LeavePromote
  <2>2. req[r].subject \in User
    BY <1>6 DEF Members
  <2>3. QED
    BY <1>6, <2>1, <2>2, PromoteMaps, Closed DEF R!Next
<1>7. CASE LeaveDropRoom(r) /\ room = "open"
  BY <1>7, DropMaps DEF R!Next
<1>8. QED
  BY <1>2, <1>3, <1>4, <1>5, <1>6, <1>7
     DEF Progress, AddStep, RemoveStep, LeaveStep, AddExisting, AddCreate,
         AddIncrement, RemoveFind, RemoveDelete, RemoveDecrement, RemoveEvict,
         LeaveCountAdmins, LeaveFindEarliest, LeavePromote, LeaveDelete,
         LeaveCountRemaining, LeaveVacate, LeaveDropRoom, LeaveDecrement,
         FetchJoin

LEMMA NextMaps ==
  ASSUME IInv, IInv', [Next]_vars
  PROVE  [R!Next]_(R!vars)
<1>1. ASSUME NEW u \in User, NEW invited \in SUBSET User,
             NEW viaSocket \in BOOLEAN, CreateGroup(u, invited, viaSocket)
      PROVE  R!Next
  BY <1>1, CreateMaps DEF R!Next
<1>2. CASE UNCHANGED <<room, joined, admins>>
  BY <1>2, Unseen DEF R!vars
<1>3. ASSUME NEW r \in Req, Arrive(r) \/ Fail(r)
      PROVE  UNCHANGED <<room, joined, admins>>
  BY <1>3 DEF Arrive, AddBegin, RemoveBegin, LeaveBegin, FetchRooms, Fail
<1>4. ASSUME NEW u \in User, JoinRoom(u) \/ Disconnect(u)
      PROVE  UNCHANGED <<room, joined, admins>>
  BY <1>4 DEF JoinRoom, Disconnect
<1>5. QED
  BY <1>1, <1>2, <1>3, <1>4, StepMaps DEF Next, vars

\* However requests interleave and fail, the rows of a group and its settled
\* counter change as an atomic roster does.
THEOREM RosterImplemented == Spec => ImplementsRoster
<1>1. Init => R!Init
  BY DEF Init, RosterSize, R!Init
<1>2. Init => IInv
  BY InitTypeOK, NoRequestType
     DEF Init, IInv, NothingBeforeCreate, CountAccounted
<1>3. IInv /\ IInv' /\ [Next]_vars => [R!Next]_(R!vars)
  BY NextMaps
<1>4. QED
  BY <1>1, <1>2, <1>3, NextCount, PTL DEF Spec, R!Spec, ImplementsRoster
=============================================================================
