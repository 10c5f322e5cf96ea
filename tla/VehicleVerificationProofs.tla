---------------------- MODULE VehicleVerificationProofs ----------------------
(***************************************************************************)
(* Theorems about VehicleVerification: type correctness, and the agreement  *)
(* of the user's flags with the documents while handlers do not overlap.    *)
(***************************************************************************)
EXTENDS VehicleVerification, FiniteSetTheorems, TLAPS

-----------------------------------------------------------------------------
\* Nothing exists at first, and no request is in flight.
LEMMA TypeInit == Init => TypeOK
<1>1. NoRequest \in Request
  BY DEF NoRequest, Request
<1>2. QED
  BY <1>1 DEF Init, TypeOK

\* A new request, and a moved one, is well typed again.
LEMMA TypeSlot ==
  ASSUME TypeOK, NEW r \in Req
  PROVE  /\ Finish(r) => req' \in [Req -> Request]
         /\ \A p \in RowPoints \cup UserPoints : Go(r, p) => req' \in [Req -> Request]
         /\ \A p \in RowPoints \cup UserPoints, d \in Doc \cup {NoDoc}, ok \in BOOLEAN :
              Start(r, p, d, ok) => /\ req' \in [Req -> Request]
                                    /\ overlapped' \in BOOLEAN
<1>1. NoRequest \in Request
  BY DEF NoRequest, Request
<1>2. Finish(r) => req' \in [Req -> Request]
  BY <1>1 DEF Finish, TypeOK
<1>3. ASSUME NEW p \in RowPoints \cup UserPoints, Go(r, p)
      PROVE  req' \in [Req -> Request]
  <2> DEFINE q == [req[r] EXCEPT !.pc = p]
  <2>1. req[r] \in Request
    BY DEF TypeOK
  <2>2. q \in Request
    BY <2>1 DEF Request
  <2>3. req' = [req EXCEPT ![r] = q]
    BY <1>3 DEF Go
  <2> HIDE DEF q
  <2>4. QED
    BY <2>2, <2>3 DEF TypeOK
<1>4. ASSUME NEW p \in RowPoints \cup UserPoints, NEW d \in Doc \cup {NoDoc},
             NEW ok \in BOOLEAN, Start(r, p, d, ok)
      PROVE  req' \in [Req -> Request] /\ overlapped' \in BOOLEAN
  <2> DEFINE q == [pc |-> p, doc |-> d, flag |-> ok]
  <2>1. q \in Request
    BY DEF Request
  <2>2. req' = [req EXCEPT ![r] = q]
    BY <1>4 DEF Start
  <2> HIDE DEF q
  <2>3. req' \in [Req -> Request]
    BY <2>1, <2>2 DEF TypeOK
  <2>4. overlapped' \in BOOLEAN
    BY <1>4 DEF Start, TypeOK
  <2>5. QED
    BY <2>3, <2>4
<1>5. QED
  BY <1>2, <1>3, <1>4

LEMMA TypeStep == TypeOK /\ [Next]_vars => TypeOK'
<1> SUFFICES ASSUME TypeOK, [Next]_vars PROVE TypeOK'
  OBVIOUS
<1>1. CASE UNCHANGED vars
  BY <1>1 DEF TypeOK, vars
<1>2. ASSUME NEW r \in Req, Arrive(r) \/ Step(r) \/ Fail(r)
      PROVE  TypeOK'
  <2> USE TypeSlot DEF RowPoints, UserPoints
  <2>1. CASE UploadBegin(r)
    BY <2>1 DEF UploadBegin, TypeOK
  <2>2. ASSUME NEW d \in Doc, UpdateBegin(r, d)
        PROVE  TypeOK'
    BY <2>2 DEF UpdateBegin, TypeOK
  <2>3. ASSUME NEW d \in Doc, DeleteBegin(r, d)
        PROVE  TypeOK'
    <3>1. (d \in verified) \in BOOLEAN
      OBVIOUS
    <3>2. QED
      BY <2>3, <3>1 DEF DeleteBegin, TypeOK
  <2>4. ASSUME NEW d \in Doc, NEW ok \in BOOLEAN, VerifyBegin(r, d, ok)
        PROVE  TypeOK'
    BY <2>4 DEF VerifyBegin, TypeOK
  <2>5. CASE UploadExisting(r)
    BY <2>5 DEF UploadExisting, TypeOK
  <2>6. CASE UploadCreate(r)
    BY <2>6 DEF UploadCreate, TypeOK
  <2>7. CASE UploadSubmit(r)
    BY <2>7 DEF UploadSubmit, TypeOK
  <2>8. CASE UpdateRow(r)
    BY <2>8 DEF UpdateRow, TypeOK
  <2>9. CASE DeleteRow(r)
    BY <2>9 DEF DeleteRow, TypeOK
  <2>10. CASE DeleteWithdraw(r)
    BY <2>10 DEF DeleteWithdraw, TypeOK
  <2>11. CASE VerifyRow(r)
    BY <2>11 DEF VerifyRow, TypeOK
  <2>12. CASE VerifyAward(r)
    <3>1. req[r].flag \in BOOLEAN
      BY DEF TypeOK, Request
    <3>2. QED
      BY <2>12, <3>1 DEF VerifyAward, TypeOK
  <2>13. CASE Fail(r)
    BY <2>13 DEF Fail, TypeOK
  <2>14. QED
    BY <1>2, <2>1, <2>2, <2>3, <2>4, <2>5, <2>6, <2>7, <2>8, <2>9, <2>10,
       <2>11, <2>12, <2>13 DEF Arrive, Step
<1>3. QED
  BY <1>1, <1>2 DEF Next

\* Documents, flags and requests are well typed in every reachable state, and
\* only a document that exists is verified or names the licence: every write
\* of UserDocumentService to a document that is gone is rejected.
THEOREM TypeCorrect == Spec => []TypeOK
  BY TypeInit, TypeStep, PTL DEF Spec

-----------------------------------------------------------------------------
\* What a slot holds after each way of moving it; the other slots stay.
LEMMA SlotFacts ==
  ASSUME TypeOK, NEW r \in Req
  PROVE  /\ Finish(r) =>
              req'[r] = NoRequest /\ \A q \in Req \ {r} : req'[q] = req[q]
         /\ \A p : Go(r, p) =>
              /\ req'[r].pc = p
              /\ req'[r].doc = req[r].doc /\ req'[r].flag = req[r].flag
              /\ \A q \in Req \ {r} : req'[q] = req[q]
         /\ \A p, d, ok : Start(r, p, d, ok) =>
              /\ req'[r].pc = p /\ req'[r].doc = d /\ req'[r].flag = ok
              /\ \A q \in Req \ {r} : req'[q] = req[q]
              /\ ~overlapped' => ~overlapped /\ \A q \in Req : At(q, "idle")
<1>1. req \in [Req -> Request] /\ req[r] \in Request
  BY DEF TypeOK
<1>2. Finish(r) =>
        req'[r] = NoRequest /\ \A q \in Req \ {r} : req'[q] = req[q]
  BY <1>1 DEF Finish
<1>3. ASSUME NEW p, Go(r, p)
      PROVE  /\ req'[r].pc = p
             /\ req'[r].doc = req[r].doc /\ req'[r].flag = req[r].flag
             /\ \A q \in Req \ {r} : req'[q] = req[q]
  <2>1. req'[r] = [req[r] EXCEPT !.pc = p]
    BY <1>1, <1>3 DEF Go
  <2>2. \A q \in Req \ {r} : req'[q] = req[q]
    BY <1>1, <1>3 DEF Go
  <2>3. QED
    BY <1>1, <2>1, <2>2 DEF Request
<1>4. ASSUME NEW p, NEW d, NEW ok, Start(r, p, d, ok)
      PROVE  /\ req'[r].pc = p /\ req'[r].doc = d /\ req'[r].flag = ok
             /\ \A q \in Req \ {r} : req'[q] = req[q]
             /\ ~overlapped' => ~overlapped /\ \A q \in Req : At(q, "idle")
  <2>1. req'[r] = [pc |-> p, doc |-> d, flag |-> ok]
    BY <1>1, <1>4 DEF Start
  <2>2. \A q \in Req \ {r} : req'[q] = req[q]
    BY <1>1, <1>4 DEF Start
  <2>3. ~overlapped' => ~overlapped /\ \A q \in Req : At(q, "idle")
    BY <1>4 DEF Start
  <2>4. QED
    BY <2>1, <2>2, <2>3
<1>5. QED
  BY <1>2, <1>3, <1>4

-----------------------------------------------------------------------------
\* What a handler that runs alone knows of the documents at each point.
Facts(r) ==
  /\ At(r, "create") => docs = {}
  /\ At(r, "submit") => docs # {}
  /\ At(r, "delete") => /\ req[r].doc \in docs
                        /\ req[r].flag <=> req[r].doc \in verified
  /\ At(r, "withdraw") => docs = {}
  /\ At(r, "verify") => /\ req[r].doc \in docs
  /\ At(r, "award") => /\ req[r].doc \in docs
                       /\ req[r].flag <=> req[r].doc \in verified

\* How far the user's flags are from agreeing when the handler is about to
\* write them.
Pending(r) ==
  /\ At(r, "submit") => (badge <=> verified # {})
  /\ At(r, "withdraw") => (badge <=> req[r].flag)
  /\ At(r, "award") => (submitted <=> docs # {})

Agree == (badge <=> verified # {}) /\ (submitted <=> docs # {})
One   == \A d, e \in docs : d = e

\* The inductive invariant of handlers that do not overlap.
SerialInv ==
  ~overlapped =>
    /\ \A q, r \in Req : ~At(q, "idle") /\ ~At(r, "idle") => q = r
    /\ One
    /\ \A r \in Req : Facts(r)
    /\ ~torn => \A r \in Req : Pending(r)
    /\ Settled => Agree

LEMMA SerialInit == Init => SerialInv
<1> SUFFICES ASSUME Init PROVE SerialInv
  OBVIOUS
<1>1. \A r \in Req : req[r].pc = "idle"
  BY DEF Init, NoRequest
<1>2. QED
  BY <1>1 DEF Init, SerialInv, One, Facts, Pending, Settled, Agree, At

\* A step of r that overlaps with nothing needs to be looked at only where r
\* stands before and after it: every other slot is idle.
LEMMA AloneStep ==
  ASSUME TypeOK, SerialInv, NEW r \in Req, ~overlapped,
         ~At(r, "idle") \/ \A q \in Req : At(q, "idle"),
         \A q \in Req \ {r} : req'[q] = req[q],
         One', Facts(r)', ~torn' => Pending(r)',
         ~torn' /\ req'[r].pc \notin UserPoints => Agree'
  PROVE  SerialInv'
<1>1. \A q \in Req \ {r} : req'[q].pc = "idle"
  BY DEF SerialInv, At
<1>2. \A q \in Req \ {r} : Facts(q)' /\ Pending(q)'
  BY <1>1 DEF Facts, Pending, At
<1>3. \A q, p \in Req : ~At(q, "idle")' /\ ~At(p, "idle")' => q = p
  BY <1>1 DEF At
<1>4. (Settled => Agree)'
  BY DEF Settled
<1>5. QED
  BY <1>2, <1>3, <1>4 DEF SerialInv

LEMMA SerialStep == TypeOK /\ SerialInv /\ [Next]_vars => SerialInv'
<1> SUFFICES ASSUME TypeOK, SerialInv, [Next]_vars PROVE SerialInv'
  OBVIOUS
<1>1. CASE UNCHANGED vars
  BY <1>1 DEF vars, SerialInv, One, Facts, Pending, Settled, Agree, At
<1>2. ASSUME NEW r \in Req, Arrive(r) \/ Step(r) \/ Fail(r), ~overlapped'
      PROVE  SerialInv'
  <2> USE SlotFacts DEF UserPoints
  <2>a. req[r] \in Request
    BY DEF TypeOK
  <2>1. CASE UploadBegin(r)
    <3>1. ~overlapped /\ \A q \in Req : At(q, "idle")
      BY <1>2, <2>1 DEF UploadBegin
    <3>2. Settled => Agree
      BY <3>1 DEF SerialInv
    <3>3. ~torn => Agree
      BY <3>1, <3>2 DEF Settled, At
    <3>4. One' /\ (~torn' => Agree')
      BY <3>1, <3>3, <2>1 DEF UploadBegin, SerialInv, One, Agree
    <3>5. /\ req'[r].pc = "existing"
          /\ \A q \in Req \ {r} : req'[q] = req[q]
      BY <2>1 DEF UploadBegin
    <3>6. Facts(r)' /\ Pending(r)'
      BY <3>5, <2>1 DEF UploadBegin, Facts, Pending, At
    <3>7. QED
      BY <3>1, <3>4, <3>5, <3>6, AloneStep
  <2>2. ASSUME NEW d \in Doc, UpdateBegin(r, d)
        PROVE  SerialInv'
    <3>1. ~overlapped /\ \A q \in Req : At(q, "idle")
      BY <1>2, <2>2 DEF UpdateBegin
    <3>2. Settled => Agree
      BY <3>1 DEF SerialInv
    <3>3. ~torn => Agree
      BY <3>1, <3>2 DEF Settled, At
    <3>4. One' /\ (~torn' => Agree')
      BY <3>1, <3>3, <2>2 DEF UpdateBegin, SerialInv, One, Agree
    <3>5. /\ req'[r].pc = "update"
          /\ \A q \in Req \ {r} : req'[q] = req[q]
      BY <2>2 DEF UpdateBegin
    <3>6. Facts(r)' /\ Pending(r)'
      BY <3>5, <2>2 DEF UpdateBegin, Facts, Pending, At
    <3>7. QED
      BY <3>1, <3>4, <3>5, <3>6, AloneStep
  <2>3. ASSUME NEW d \in Doc, DeleteBegin(r, d)
        PROVE  SerialInv'
    <3>1. ~overlapped /\ \A q \in Req : At(q, "idle")
      BY <1>2, <2>3 DEF DeleteBegin
    <3>2. Settled => Agree
      BY <3>1 DEF SerialInv
    <3>3. ~torn => Agree
      BY <3>1, <3>2 DEF Settled, At
    <3>4. One' /\ (~torn' => Agree')
      BY <3>1, <3>3, <2>3 DEF DeleteBegin, SerialInv, One, Agree
    <3>5. /\ req'[r].pc = "delete" /\ req'[r].doc = d /\ (req'[r].flag = (d \in verified))
          /\ \A q \in Req \ {r} : req'[q] = req[q]
      BY <2>3 DEF DeleteBegin
    <3>6. Facts(r)' /\ Pending(r)'
      BY <3>5, <2>3 DEF DeleteBegin, Facts, Pending, At
    <3>7. QED
      BY <3>1, <3>4, <3>5, <3>6, AloneStep
  <2>4. ASSUME NEW d \in Doc, NEW ok \in BOOLEAN, VerifyBegin(r, d, ok)
        PROVE  SerialInv'
    <3>1. ~overlapped /\ \A q \in Req : At(q, "idle")
      BY <1>2, <2>4 DEF VerifyBegin
    <3>2. Settled => Agree
      BY <3>1 DEF SerialInv
    <3>3. ~torn => Agree
      BY <3>1, <3>2 DEF Settled, At
    <3>4. One' /\ (~torn' => Agree')
      BY <3>1, <3>3, <2>4 DEF VerifyBegin, SerialInv, One, Agree
    <3>5. /\ req'[r].pc = "verify" /\ req'[r].doc = d /\ req'[r].flag = ok
          /\ \A q \in Req \ {r} : req'[q] = req[q]
      BY <2>4 DEF VerifyBegin
    <3>6. Facts(r)' /\ Pending(r)'
      BY <3>5, <2>4 DEF VerifyBegin, Facts, Pending, At
    <3>7. QED
      BY <3>1, <3>4, <3>5, <3>6, AloneStep
  <2>5. CASE UploadExisting(r)
    <3>1. ~overlapped /\ ~At(r, "idle")
      BY <1>2, <2>5 DEF UploadExisting, At
    <3>2. One /\ Facts(r) /\ (~torn => Pending(r))
      BY <3>1 DEF SerialInv
    <3>3. ~torn /\ req[r].pc \notin UserPoints => Agree
      BY <3>1 DEF SerialInv, Settled, At
    <3>4. One' /\ Facts(r)' /\ (~torn' => Pending(r)')
      BY <3>2, <3>3, <2>5, <2>a DEF UploadExisting, One, Facts, Pending, Agree, At,
         TypeOK, Request, NoRequest
    <3>5. ~torn' /\ req'[r].pc \notin UserPoints => Agree'
      BY <3>2, <3>3, <2>5, <2>a DEF UploadExisting, One, Facts, Pending, Agree, At,
         TypeOK, Request, NoRequest
    <3>6. \A q \in Req \ {r} : req'[q] = req[q]
      BY <2>5 DEF UploadExisting
    <3>7. QED
      BY <3>1, <3>4, <3>5, <3>6, AloneStep
  <2>6. CASE UploadCreate(r)
    <3>1. ~overlapped /\ ~At(r, "idle")
      BY <1>2, <2>6 DEF UploadCreate, At
    <3>2. One /\ Facts(r) /\ (~torn => Pending(r))
      BY <3>1 DEF SerialInv
    <3>3. ~torn /\ req[r].pc \notin UserPoints => Agree
      BY <3>1 DEF SerialInv, Settled, At
    <3>4. One' /\ Facts(r)' /\ (~torn' => Pending(r)')
      BY <3>2, <3>3, <2>6, <2>a DEF UploadCreate, One, Facts, Pending, Agree, At,
         TypeOK, Request, NoRequest
    <3>5. ~torn' /\ req'[r].pc \notin UserPoints => Agree'
      BY <3>2, <3>3, <2>6, <2>a DEF UploadCreate, One, Facts, Pending, Agree, At,
         TypeOK, Request, NoRequest
    <3>6. \A q \in Req \ {r} : req'[q] = req[q]
      BY <2>6 DEF UploadCreate
    <3>7. QED
      BY <3>1, <3>4, <3>5, <3>6, AloneStep
  <2>7. CASE UploadSubmit(r)
    <3>1. ~overlapped /\ ~At(r, "idle")
      BY <1>2, <2>7 DEF UploadSubmit, At
    <3>2. One /\ Facts(r) /\ (~torn => Pending(r))
      BY <3>1 DEF SerialInv
    <3>3. ~torn /\ req[r].pc \notin UserPoints => Agree
      BY <3>1 DEF SerialInv, Settled, At
    <3>4. One' /\ Facts(r)' /\ (~torn' => Pending(r)')
      BY <3>2, <3>3, <2>7, <2>a DEF UploadSubmit, One, Facts, Pending, Agree, At,
         TypeOK, Request, NoRequest
    <3>5. ~torn' /\ req'[r].pc \notin UserPoints => Agree'
      BY <3>2, <3>3, <2>7, <2>a DEF UploadSubmit, One, Facts, Pending, Agree, At,
         TypeOK, Request, NoRequest
    <3>6. \A q \in Req \ {r} : req'[q] = req[q]
      BY <2>7 DEF UploadSubmit
    <3>7. QED
      BY <3>1, <3>4, <3>5, <3>6, AloneStep
  <2>8. CASE UpdateRow(r)
    <3>1. ~overlapped /\ ~At(r, "idle")
      BY <1>2, <2>8 DEF UpdateRow, At
    <3>2. One /\ Facts(r) /\ (~torn => Pending(r))
      BY <3>1 DEF SerialInv
    <3>3. ~torn /\ req[r].pc \notin UserPoints => Agree
      BY <3>1 DEF SerialInv, Settled, At
    <3>4. One' /\ Facts(r)' /\ (~torn' => Pending(r)')
      BY <3>2, <3>3, <2>8, <2>a DEF UpdateRow, One, Facts, Pending, Agree, At,
         TypeOK, Request, NoRequest
    <3>5. ~torn' /\ req'[r].pc \notin UserPoints => Agree'
      BY <3>2, <3>3, <2>8, <2>a DEF UpdateRow, One, Facts, Pending, Agree, At,
         TypeOK, Request, NoRequest
    <3>6. \A q \in Req \ {r} : req'[q] = req[q]
      BY <2>8 DEF UpdateRow
    <3>7. QED
      BY <3>1, <3>4, <3>5, <3>6, AloneStep
  <2>9. CASE DeleteRow(r)
    <3>1. ~overlapped /\ ~At(r, "idle")
      BY <1>2, <2>9 DEF DeleteRow, At
    <3>2. One /\ Facts(r) /\ (~torn => Pending(r))
      BY <3>1 DEF SerialInv
    <3>3. ~torn /\ req[r].pc \notin UserPoints => Agree
      BY <3>1 DEF SerialInv, Settled, At
    <3>4. One' /\ Facts(r)' /\ (~torn' => Pending(r)')
      BY <3>2, <3>3, <2>9, <2>a DEF DeleteRow, One, Facts, Pending, Agree, At,
         TypeOK, Request, NoRequest
    <3>5. ~torn' /\ req'[r].pc \notin UserPoints => Agree'
      BY <3>2, <3>3, <2>9, <2>a DEF DeleteRow, One, Facts, Pending, Agree, At,
         TypeOK, Request, NoRequest
    <3>6. \A q \in Req \ {r} : req'[q] = req[q]
      BY <2>9 DEF DeleteRow
    <3>7. QED
      BY <3>1, <3>4, <3>5, <3>6, AloneStep
  <2>10. CASE DeleteWithdraw(r)
    <3>1. ~overlapped /\ ~At(r, "idle")
      BY <1>2, <2>10 DEF DeleteWithdraw, At
    <3>2. One /\ Facts(r) /\ (~torn => Pending(r))
      BY <3>1 DEF SerialInv
    <3>3. ~torn /\ req[r].pc \notin UserPoints => Agree
      BY <3>1 DEF SerialInv, Settled, At
    <3>4. One' /\ Facts(r)' /\ (~torn' => Pending(r)')
      BY <3>2, <3>3, <2>10, <2>a DEF DeleteWithdraw, One, Facts, Pending, Agree, At,
         TypeOK, Request, NoRequest
    <3>5. ~torn' /\ req'[r].pc \notin UserPoints => Agree'
      BY <3>2, <3>3, <2>10, <2>a DEF DeleteWithdraw, One, Facts, Pending, Agree, At,
         TypeOK, Request, NoRequest
    <3>6. \A q \in Req \ {r} : req'[q] = req[q]
      BY <2>10 DEF DeleteWithdraw
    <3>7. QED
      BY <3>1, <3>4, <3>5, <3>6, AloneStep
  <2>11. CASE VerifyRow(r)
    <3>1. ~overlapped /\ ~At(r, "idle")
      BY <1>2, <2>11 DEF VerifyRow, At
    <3>2. One /\ Facts(r) /\ (~torn => Pending(r))
      BY <3>1 DEF SerialInv
    <3>3. ~torn /\ req[r].pc \notin UserPoints => Agree
      BY <3>1 DEF SerialInv, Settled, At
    <3>4. One' /\ Facts(r)' /\ (~torn' => Pending(r)')
      BY <3>2, <3>3, <2>11, <2>a DEF VerifyRow, One, Facts, Pending, Agree, At,
         TypeOK, Request, NoRequest
    <3>5. ~torn' /\ req'[r].pc \notin UserPoints => Agree'
      BY <3>2, <3>3, <2>11, <2>a DEF VerifyRow, One, Facts, Pending, Agree, At,
         TypeOK, Request, NoRequest
    <3>6. \A q \in Req \ {r} : req'[q] = req[q]
      BY <2>11 DEF VerifyRow
    <3>7. QED
      BY <3>1, <3>4, <3>5, <3>6, AloneStep
  <2>12. CASE VerifyAward(r)
    <3>1. ~overlapped /\ ~At(r, "idle")
      BY <1>2, <2>12 DEF VerifyAward, At
    <3>2. One /\ Facts(r) /\ (~torn => Pending(r))
      BY <3>1 DEF SerialInv
    <3>3. ~torn /\ req[r].pc \notin UserPoints => Agree
      BY <3>1 DEF SerialInv, Settled, At
    <3>4. One' /\ Facts(r)' /\ (~torn' => Pending(r)')
      BY <3>2, <3>3, <2>12, <2>a DEF VerifyAward, One, Facts, Pending, Agree, At,
         TypeOK, Request, NoRequest
    <3>5. ~torn' /\ req'[r].pc \notin UserPoints => Agree'
      BY <3>2, <3>3, <2>12, <2>a DEF VerifyAward, One, Facts, Pending, Agree, At,
         TypeOK, Request, NoRequest
    <3>6. \A q \in Req \ {r} : req'[q] = req[q]
      BY <2>12 DEF VerifyAward
    <3>7. QED
      BY <3>1, <3>4, <3>5, <3>6, AloneStep
  <2>13. CASE Fail(r)
    <3>1. ~overlapped /\ ~At(r, "idle")
      BY <1>2, <2>13 DEF Fail, At
    <3>2. One /\ Facts(r) /\ (~torn => Pending(r))
      BY <3>1 DEF SerialInv
    <3>3. ~torn /\ req[r].pc \notin UserPoints => Agree
      BY <3>1 DEF SerialInv, Settled, At
    <3>4. One' /\ Facts(r)' /\ (~torn' => Pending(r)')
      BY <3>2, <3>3, <2>13, <2>a DEF Fail, One, Facts, Pending, Agree, At,
         TypeOK, Request, NoRequest
    <3>5. ~torn' /\ req'[r].pc \notin UserPoints => Agree'
      BY <3>2, <3>3, <2>13, <2>a DEF Fail, One, Facts, Pending, Agree, At,
         TypeOK, Request, NoRequest
    <3>6. \A q \in Req \ {r} : req'[q] = req[q]
      BY <2>13 DEF Fail
    <3>7. QED
      BY <3>1, <3>4, <3>5, <3>6, AloneStep
  <2>14. QED
    BY <1>2, <2>1, <2>2, <2>3, <2>4, <2>5, <2>6, <2>7, <2>8, <2>9, <2>10,
       <2>11, <2>12, <2>13 DEF Arrive, Step
<1>3. CASE overlapped'
  BY <1>3 DEF SerialInv
<1>4. QED
  BY <1>1, <1>2, <1>3 DEF Next

\* What UserDocumentService promises when its handlers do not overlap: the
\* badge and the submission flag of the user agree with the documents.
THEOREM BadgeCorrect == Spec => []BadgeAgrees
<1>1. SerialInv => BadgeAgrees
  BY DEF SerialInv, Agree, BadgeAgrees
<1>2. QED
  BY TypeInit, TypeStep, SerialInit, SerialStep, <1>1, PTL DEF Spec

\* The same for the submission flag.
THEOREM SubmittedCorrect == Spec => []SubmittedAgrees
<1>1. SerialInv => SubmittedAgrees
  BY DEF SerialInv, Agree, SubmittedAgrees
<1>2. QED
  BY TypeInit, TypeStep, SerialInit, SerialStep, <1>1, PTL DEF Spec

\* Uploads that do not overlap leave one document at the most, as the comment
\* of the controller says.
THEOREM OneDocumentCorrect == Spec => []OneDocument
<1>1. TypeOK /\ SerialInv => OneDocument
  <2> SUFFICES ASSUME TypeOK, SerialInv, ~overlapped, docs # {}
               PROVE  Cardinality(docs) <= 1
    BY FS_EmptySet DEF OneDocument
  <2>1. PICK d \in docs : TRUE
    OBVIOUS
  <2>2. docs = {d}
    BY <2>1 DEF SerialInv, One
  <2>3. QED
    BY <2>2, FS_Singleton
<1>2. QED
  BY TypeInit, TypeStep, SerialInit, SerialStep, <1>1, PTL DEF Spec

\* The three together: user and documents agree.
THEOREM DocumentsAgreeCorrect == Spec => []DocumentsAgree
<1>1. OneDocument /\ BadgeAgrees /\ SubmittedAgrees => DocumentsAgree
  BY DEF DocumentsAgree
<1>2. QED
  BY <1>1, OneDocumentCorrect, BadgeCorrect, SubmittedCorrect, PTL
=============================================================================
