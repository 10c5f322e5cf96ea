------------------------- MODULE AccountAccessProofs -------------------------
(***************************************************************************)
(* Proofs about AccountAccess, for any number of passwords, requests and    *)
(* codes: its type invariant, and the four invariants that follow from what *)
(* every request carries.  Each has a strengthening that says of a request  *)
(* in flight what the property says of one that is over.                    *)
(***************************************************************************)
EXTENDS AccountAccess, TLAPS

-----------------------------------------------------------------------------
(* Types.  Codes and tokens in use were generated; a request that writes a   *)
(* password has one.                                                        *)
CodePoints  == {"codeStore", "codeMail"}
TokenPoints == {"verify", "verifyAnswer"}
WantPoints  == {"changeGuard", "changeRead", "change", "resetFind", "reset"}
Points      == Admitted \cup CodePoints \cup TokenPoints
               \cup {"idle", "sign", "changeGuard", "deleteGuard", "verifyFind",
                     "resetFind", "reset", "toggleFind", "toggle"}

Carries(q, c, t) ==
  /\ q.pc \in CodePoints  => q.item \in 1..c
  /\ q.pc \in TokenPoints => q.item \in 1..t
  /\ q.pc \in WantPoints  => q.want \in Password

TInv ==
  /\ TypeOK
  /\ otp \in (1..codes) \cup {None} /\ token \in (1..tokens) \cup {None}
  /\ \A r \in Req : Carries(req[r], codes, tokens)

\* A step that writes slot r and no other.
Writes(r, q) == q \in Request /\ req' = [req EXCEPT ![r] = q]

LEMMA PointsAre == \A q \in Request : q.pc \in Points
BY DEF Request, Points, CodePoints, TokenPoints, Admitted

LEMMA StartWrites ==
  ASSUME TypeOK, NEW r \in Req, NEW p \in Points,
         NEW given \in Password \cup {None}, NEW want \in Password \cup {None},
         NEW item \in Code \cup {None}, Start(r, p, given, want, item)
  PROVE  Writes(r, [pc |-> p, given |-> given, want |-> want, item |-> item,
                    flag |-> FALSE, barred |-> Locked, right |-> given = password])
BY DEF Start, Writes, Request, Points, CodePoints, TokenPoints, Admitted, Locked, TypeOK

LEMMA GoWrites ==
  ASSUME TypeOK, NEW r \in Req, NEW p \in Points, Go(r, p)
  PROVE  Writes(r, [req[r] EXCEPT !.pc = p])
BY DEF Go, Writes, Request, Points, CodePoints, TokenPoints, Admitted, TypeOK

LEMMA NoRequestTyped == NoRequest \in Request
BY DEF NoRequest, Request

LEMMA FinishWrites ==
  ASSUME NEW r \in Req, Finish(r)
  PROVE  Writes(r, NoRequest)
BY NoRequestTyped DEF Finish, Writes

\* A step that writes one slot keeps the slots typed, and what they carry, if
\* the new one is right.
LEMMA WritesTyped ==
  ASSUME TInv, NEW r \in Req, NEW q, Writes(r, q),
         codes' \in Nat, codes' >= codes, tokens' \in Nat, tokens' >= tokens,
         Carries(q, codes', tokens')
  PROVE  /\ req' \in [Req -> Request]
         /\ \A s \in Req : Carries(req'[s], codes', tokens')
<1>1. req' \in [Req -> Request]
  BY DEF Writes, TInv, TypeOK
<1>2. ASSUME NEW s \in Req PROVE Carries(req'[s], codes', tokens')
  <2>1. CASE s = r
    BY <2>1 DEF Writes, TInv, TypeOK
  <2>2. CASE s # r
    <3>1. req'[s] = req[s] /\ Carries(req[s], codes, tokens)
      BY <2>2 DEF Writes, TInv, TypeOK
    <3>2. codes \in Nat /\ tokens \in Nat
      BY ConstantsAssumption DEF TInv, TypeOK
    <3>3. QED
      BY <3>1, <3>2 DEF Carries
  <2>3. QED
    BY <2>1, <2>2
<1>3. QED
  BY <1>1, <1>2

LEMMA CarriesIdle == \A c, t : Carries(NoRequest, c, t)
BY DEF Carries, NoRequest, CodePoints, TokenPoints, WantPoints

LEMMA TypeInit == Init => TInv
<1> SUFFICES ASSUME Init PROVE TInv
  OBVIOUS
<1>1. TypeOK
  <2>1. req \in [Req -> Request]
    BY NoRequestTyped DEF Init
  <2>2. codes \in 0..MaxCodes /\ tokens \in 0..MaxCodes
    BY ConstantsAssumption DEF Init
  <2>3. /\ inbox \subseteq 1..codes /\ over \subseteq 1..codes
        /\ handed \subseteq 1..tokens /\ spent \subseteq 1..tokens
    BY DEF Init
  <2>4. /\ blocked \in BOOLEAN /\ deleted \in BOOLEAN /\ fresh \in BOOLEAN
        /\ device \in BOOLEAN /\ flips \in BOOLEAN /\ crossed \in BOOLEAN
    BY DEF Init
  <2>5. QED
    BY <2>1, <2>2, <2>3, <2>4 DEF Init, TypeOK
<1>2. QED
  BY <1>1, CarriesIdle DEF Init, TInv

\* What TInv says of the row, and of what the owner holds.
RowTyped ==
  /\ password \in Password /\ device \in BOOLEAN
  /\ otp \in (1..codes) \cup {None} /\ token \in (1..tokens) \cup {None}
  /\ fresh \in BOOLEAN /\ (otp = None => fresh)
  /\ codes \in 0..MaxCodes /\ tokens \in 0..MaxCodes
  /\ blocked \in BOOLEAN /\ deleted \in BOOLEAN
  /\ inbox \subseteq 1..codes /\ over \subseteq 1..codes
  /\ handed \subseteq 1..tokens /\ spent \subseteq 1..tokens
  /\ flips \in BOOLEAN /\ crossed \in BOOLEAN

SlotsTyped ==
  /\ req \in [Req -> Request]
  /\ \A r \in Req : Carries(req[r], codes, tokens)

LEMMA TypedParts == TInv <=> RowTyped /\ SlotsTyped
<1>1. codes \in 0..MaxCodes => 1..codes \subseteq Code
  BY ConstantsAssumption DEF Code
<1>2. tokens \in 0..MaxCodes => 1..tokens \subseteq Code
  BY ConstantsAssumption DEF Code
<1>3. TInv => RowTyped /\ SlotsTyped
  BY DEF TInv, TypeOK, RowTyped, SlotsTyped
<1>4. RowTyped /\ SlotsTyped => TInv
  <2> SUFFICES ASSUME RowTyped, SlotsTyped PROVE TInv
    OBVIOUS
  <2>1. otp \in Code \cup {None} /\ token \in Code \cup {None}
    BY <1>1, <1>2 DEF RowTyped
  <2>2. QED
    BY <2>1 DEF TInv, TypeOK, RowTyped, SlotsTyped
<1>5. QED
  BY <1>3, <1>4

LEMMA TypedPartsNext == TInv' <=> RowTyped' /\ SlotsTyped'
BY TypedParts, PTL

\* A step of one slot: what it leaves in the slot and in the row is typed.
LEMMA TypedStep ==
  ASSUME TInv, NEW r \in Req, NEW q, Writes(r, q), RowTyped',
         codes' >= codes, tokens' >= tokens, Carries(q, codes', tokens')
  PROVE  TInv'
<1>1. codes' \in Nat /\ tokens' \in Nat
  BY ConstantsAssumption DEF RowTyped
<1>2. SlotsTyped'
  BY <1>1, WritesTyped DEF SlotsTyped
<1>3. QED
  BY <1>2, TypedPartsNext

\* A step of one slot that leaves the row alone.
LEMMA TypedAlone ==
  ASSUME TInv, NEW r \in Req, NEW q, Writes(r, q), Carries(q, codes, tokens),
         UNCHANGED <<password, device, locks, resets>>
  PROVE  TInv'
<1>1. RowTyped'
  BY TypedParts DEF RowTyped, locks, resets
<1>2. codes' = codes /\ tokens' = tokens /\ codes \in Nat /\ tokens \in Nat
  BY TypedParts, ConstantsAssumption DEF RowTyped, resets
<1>3. QED
  BY <1>1, <1>2, TypedStep

\* A step that writes every slot, but only in flag, barred or right.
LEMMA TypedMarks ==
  ASSUME TInv, NEW r \in Req, RowTyped', codes' = codes, tokens' = tokens,
         NEW f, req' = [s \in Req |-> IF s = r THEN NoRequest ELSE f[s]],
         \A s \in Req : /\ f[s] \in Request /\ f[s].pc = req[s].pc
                        /\ f[s].item = req[s].item /\ f[s].want = req[s].want
  PROVE  TInv'
<1>1. req' \in [Req -> Request]
  BY NoRequestTyped
<1>2. ASSUME NEW s \in Req PROVE Carries(req'[s], codes', tokens')
  <2>1. CASE s = r
    BY <2>1, CarriesIdle
  <2>2. CASE s # r
    BY <2>2 DEF TInv, Carries
  <2>3. QED
    BY <2>1, <2>2
<1>3. QED
  BY <1>1, <1>2, TypedPartsNext DEF SlotsTyped

\* The requests that begin.
LEMMA TypeArrive == ASSUME TInv, NEW r \in Req, Arrive(r) PROVE TInv'
<1>1. CASE CodeBegin(r)
  <2> DEFINE q == [NoRequest EXCEPT !.pc = "codeStore", !.item = codes + 1]
  <2>1. codes \in Nat /\ tokens \in Nat /\ MaxCodes \in Nat /\ codes < MaxCodes
    BY <1>1, TypedParts, ConstantsAssumption DEF CodeBegin, RowTyped
  <2>2. q \in Request /\ Carries(q, codes + 1, tokens)
    <3>1. codes + 1 \in Code /\ codes + 1 \in 1..(codes + 1)
      BY <2>1 DEF Code
    <3>2. q \in Request
      BY <3>1 DEF NoRequest, Request, Admitted
    <3>3. Carries(q, codes + 1, tokens)
      BY <3>1 DEF NoRequest, Carries, CodePoints, TokenPoints, WantPoints
    <3>4. QED
      BY <3>2, <3>3
  <2>3. Writes(r, q)
    BY <1>1, <2>2 DEF CodeBegin, Writes
  <2>4. RowTyped'
    BY <1>1, <2>1, TypedParts DEF CodeBegin, RowTyped, locks
  <2>5. codes' = codes + 1 /\ tokens' = tokens
    BY <1>1 DEF CodeBegin
  <2> HIDE DEF q
  <2>6. QED
    BY <2>1, <2>2, <2>3, <2>4, <2>5, TypedStep
<1>2. CASE \E p \in Points, given \in Password \cup {None},
              want \in Password \cup {None}, item \in Code \cup {None} :
             /\ Start(r, p, given, want, item)
             /\ p \in CodePoints  => item \in 1..codes
             /\ p \in TokenPoints => item \in 1..tokens
             /\ p \in WantPoints  => want \in Password
             /\ UNCHANGED <<password, device, resets, blocked, deleted, flips>>
             /\ crossed' \in BOOLEAN
  <2>1. PICK p \in Points, given \in Password \cup {None},
             want \in Password \cup {None}, item \in Code \cup {None} :
             /\ Start(r, p, given, want, item)
             /\ p \in CodePoints  => item \in 1..codes
             /\ p \in TokenPoints => item \in 1..tokens
             /\ p \in WantPoints  => want \in Password
    BY <1>2
  <2> DEFINE q == [pc |-> p, given |-> given, want |-> want, item |-> item,
                   flag |-> FALSE, barred |-> Locked, right |-> given = password]
  <2>2. Writes(r, q)
    BY <2>1, StartWrites DEF TInv
  <2>3. Carries(q, codes, tokens)
    BY <2>1 DEF Carries
  <2>4. RowTyped' /\ codes' = codes /\ tokens' = tokens
    BY <1>2, TypedParts DEF RowTyped, resets
  <2>5. codes \in Nat /\ tokens \in Nat
    BY TypedParts, ConstantsAssumption DEF RowTyped
  <2> HIDE DEF q
  <2>6. QED
    BY <2>2, <2>3, <2>4, <2>5, TypedStep
<1>3. CASE ToggleBegin(r)
  <2>1. /\ "toggleFind" \in Points
        /\ "toggleFind" \notin CodePoints \cup TokenPoints \cup WantPoints
    BY DEF Points, CodePoints, TokenPoints, WantPoints
  <2>2. crossed' \in BOOLEAN
    BY <1>3, TypedParts DEF ToggleBegin, RowTyped
  <2>3. QED
    BY <1>2, <1>3, <2>1, <2>2 DEF ToggleBegin
<1>4. ASSUME NEW given \in Password, SignBegin(r, given) \/ DeleteBegin(r, given)
      PROVE  TInv'
  <2>1. PICK p \in {"sign", "deleteGuard"} : Start(r, p, given, None, None)
    BY <1>4 DEF SignBegin, DeleteBegin
  <2>2. /\ p \in Points
        /\ p \notin CodePoints \cup TokenPoints \cup WantPoints
    BY DEF Points, CodePoints, TokenPoints, WantPoints
  <2>3. UNCHANGED <<password, device, locks, resets>> /\ crossed \in BOOLEAN
    BY <1>4, TypedParts DEF SignBegin, DeleteBegin, RowTyped
  <2>4. QED
    BY <1>2, <2>1, <2>2, <2>3 DEF locks
<1>5. ASSUME NEW given \in Password, NEW want \in Password,
             ChangeBegin(r, given, want)
      PROVE  TInv'
  <2>1. "changeGuard" \in Points /\ "changeGuard" \notin CodePoints \cup TokenPoints
    BY DEF Points, CodePoints, TokenPoints
  <2>2. UNCHANGED <<password, device, locks, resets>> /\ crossed \in BOOLEAN
    BY <1>5, TypedParts DEF ChangeBegin, RowTyped
  <2>3. QED
    BY <1>2, <1>5, <2>1, <2>2 DEF ChangeBegin, locks
<1>6. ASSUME NEW item \in Code \cup {None}, VerifyBegin(r, item)
      PROVE  TInv'
  <2>1. /\ "verifyFind" \in Points
        /\ "verifyFind" \notin CodePoints \cup TokenPoints \cup WantPoints
    BY DEF Points, CodePoints, TokenPoints, WantPoints
  <2>2. UNCHANGED <<password, device, locks, resets>> /\ crossed \in BOOLEAN
    BY <1>6, TypedParts DEF VerifyBegin, RowTyped
  <2>3. QED
    BY <1>2, <1>6, <2>1, <2>2 DEF VerifyBegin, locks
<1>7. ASSUME NEW item \in Code \cup {None}, NEW want \in Password, ResetBegin(r, item, want)
      PROVE  TInv'
  <2>1. "resetFind" \in Points /\ "resetFind" \notin CodePoints \cup TokenPoints
    BY DEF Points, CodePoints, TokenPoints
  <2>2. UNCHANGED <<password, device, locks, resets>> /\ crossed \in BOOLEAN
    BY <1>7, TypedParts DEF ResetBegin, RowTyped
  <2>3. QED
    BY <1>2, <1>7, <2>1, <2>2 DEF ResetBegin, locks
<1>8. QED
  BY <1>1, <1>3, <1>4, <1>5, <1>6, <1>7 DEF Arrive

\* The request goes on: it carries what the point it comes from carries.
LEMMA TypeGo ==
  ASSUME TInv, NEW r \in Req, NEW p \in Points, Go(r, p), RowTyped',
         codes' = codes, tokens' = tokens,
         p \in CodePoints  => req[r].pc \in CodePoints,
         p \in TokenPoints => req[r].pc \in TokenPoints,
         p \in WantPoints  => req[r].pc \in WantPoints
  PROVE  TInv'
<1> DEFINE q == [req[r] EXCEPT !.pc = p]
<1>1. Writes(r, q)
  BY GoWrites DEF TInv
<1>2. req[r] \in Request /\ Carries(req[r], codes, tokens)
  BY DEF TInv, TypeOK
<1>3. q.pc = p /\ q.item = req[r].item /\ q.want = req[r].want
  BY <1>2 DEF Request
<1>4. Carries(q, codes, tokens)
  BY <1>2, <1>3 DEF Carries
<1>5. codes \in Nat /\ tokens \in Nat
  BY TypedParts, ConstantsAssumption DEF RowTyped
<1> HIDE DEF q
<1>6. QED
  BY <1>1, <1>4, <1>5, TypedStep

\* The request is over.
LEMMA TypeFinish ==
  ASSUME TInv, NEW r \in Req, Finish(r), RowTyped', codes' = codes, tokens' = tokens
  PROVE  TInv'
<1>1. codes \in Nat /\ tokens \in Nat
  BY TypedParts, ConstantsAssumption DEF RowTyped
<1>2. QED
  BY <1>1, FinishWrites, CarriesIdle, TypedStep

LEMMA RowAlone ==
  ASSUME TInv, UNCHANGED <<password, device, locks, resets>>
  PROVE  RowTyped' /\ codes' = codes /\ tokens' = tokens
BY TypedParts DEF RowTyped, locks, resets

\* The steps that read, and a request that fails.
LEMMA TypeRead ==
  ASSUME TInv, NEW r \in Req,
         \/ SignFind(r) \/ ChangeRead(r) \/ DeleteRead(r) \/ ResetFind(r)
         \/ Guard(r, "changeGuard", "changeRead")
         \/ Guard(r, "deleteGuard", "deleteRead") \/ Fail(r)
  PROVE  TInv'
<1>1. UNCHANGED <<password, device, locks, resets>>
  BY DEF SignFind, ChangeRead, DeleteRead, ResetFind, Guard, Fail
<1>2. CASE Finish(r)
  BY <1>1, <1>2, RowAlone, TypeFinish
<1>3. CASE Go(r, "device") \/ Go(r, "delete") \/ Go(r, "deleteRead")
  <2>1. PICK p \in {"device", "delete", "deleteRead"} : Go(r, p)
    BY <1>3
  <2>2. p \in Points /\ p \notin CodePoints \cup TokenPoints \cup WantPoints
    BY DEF Points, Admitted, CodePoints, TokenPoints, WantPoints
  <2>3. QED
    BY <1>1, <2>1, <2>2, RowAlone, TypeGo
<1>4. CASE /\ Go(r, "changeRead") \/ Go(r, "change")
           /\ At(r, "changeGuard") \/ At(r, "changeRead")
  <2>1. PICK p \in {"changeRead", "change"} : Go(r, p)
    BY <1>4
  <2>2. p \in Points /\ p \notin CodePoints \cup TokenPoints
    BY DEF Points, Admitted, CodePoints, TokenPoints
  <2>3. req[r].pc \in WantPoints
    BY <1>4 DEF At, WantPoints
  <2>4. QED
    BY <1>1, <2>1, <2>2, <2>3, RowAlone, TypeGo
<1>5. CASE Go(r, "reset") /\ At(r, "resetFind")
  <2>1. "reset" \in Points /\ "reset" \notin CodePoints \cup TokenPoints
    BY DEF Points, CodePoints, TokenPoints
  <2>2. req[r].pc \in WantPoints
    BY <1>5 DEF At, WantPoints
  <2>3. QED
    BY <1>1, <1>5, <2>1, <2>2, RowAlone, TypeGo
<1>6. QED
  BY <1>2, <1>3, <1>4, <1>5
     DEF SignFind, ChangeRead, DeleteRead, ResetFind, Guard, Fail, Proceed

\* The steps that write the row and leave every other request alone.
LEMMA TypeWrite ==
  ASSUME TInv, NEW r \in Req,
         \/ SignDevice(r) \/ DeleteWrite(r) \/ CodeStore(r) \/ CodeMail(r)
         \/ VerifyWrite(r) \/ VerifyAnswer(r)
  PROVE  TInv'
<1>1. codes' = codes /\ tokens' = tokens
  BY DEF SignDevice, DeleteWrite, CodeStore, CodeMail, VerifyWrite, VerifyAnswer, resets
<1>2. /\ At(r, "codeStore") \/ At(r, "codeMail") => req[r].item \in 1..codes
      /\ At(r, "verify") \/ At(r, "verifyAnswer") => req[r].item \in 1..tokens
  BY DEF At, TInv, Carries, CodePoints, TokenPoints
<1>3. CASE SignDevice(r) \/ DeleteWrite(r) \/ CodeMail(r) \/ VerifyAnswer(r)
  <2>1. RowTyped'
    BY <1>1, <1>2, <1>3, TypedParts
       DEF SignDevice, DeleteWrite, CodeMail, VerifyAnswer, RowTyped, locks, resets
  <2>2. Finish(r)
    BY <1>3 DEF SignDevice, DeleteWrite, CodeMail, VerifyAnswer
  <2>3. QED
    BY <1>1, <2>1, <2>2, TypeFinish
<1>4. CASE CodeStore(r)
  <2>1. RowTyped'
    BY <1>1, <1>2, <1>4, TypedParts DEF CodeStore, RowTyped, locks
  <2>2. /\ "codeMail" \in Points /\ "codeMail" \notin TokenPoints \cup WantPoints
        /\ req[r].pc \in CodePoints
    BY <1>4 DEF CodeStore, At, Points, CodePoints, TokenPoints, WantPoints
  <2>3. QED
    BY <1>1, <1>4, <2>1, <2>2, TypeGo DEF CodeStore
<1>5. CASE VerifyWrite(r)
  <2>1. RowTyped'
    BY <1>1, <1>2, <1>5, TypedParts DEF VerifyWrite, RowTyped, locks
  <2>2. /\ "verifyAnswer" \in Points /\ "verifyAnswer" \notin CodePoints \cup WantPoints
        /\ req[r].pc \in TokenPoints
    BY <1>5 DEF VerifyWrite, At, Points, CodePoints, TokenPoints, WantPoints
  <2>3. QED
    BY <1>1, <1>5, <2>1, <2>2, TypeGo DEF VerifyWrite
<1>6. QED
  BY <1>3, <1>4, <1>5

LEMMA TypeVerifyFind == ASSUME TInv, NEW r \in Req, VerifyFind(r) PROVE TInv'
<1>1. CASE Finish(r) /\ tokens' = tokens
  <2>1. RowTyped' /\ codes' = codes
    BY <1>1, TypedParts DEF VerifyFind, RowTyped, locks
  <2>2. QED
    BY <1>1, <2>1, TypeFinish
<1>2. CASE /\ tokens < MaxCodes /\ tokens' = tokens + 1
           /\ req' = [req EXCEPT ![r].pc = "verify", ![r].item = tokens + 1]
  <2> DEFINE q == [req[r] EXCEPT !.pc = "verify", !.item = tokens + 1]
  <2>1. codes \in Nat /\ tokens \in Nat /\ MaxCodes \in Nat
    BY TypedParts, ConstantsAssumption DEF RowTyped
  <2>2. tokens + 1 \in Code /\ tokens + 1 \in 1..(tokens + 1)
    BY <1>2, <2>1 DEF Code
  <2>3. req[r] \in Request
    BY DEF TInv, TypeOK
  <2>4. q \in Request /\ q.pc = "verify" /\ q.item = tokens + 1
    BY <2>2, <2>3 DEF Request
  <2>5. Carries(q, codes, tokens + 1)
    BY <2>2, <2>4 DEF Carries, CodePoints, TokenPoints, WantPoints
  <2>6. req' = [req EXCEPT ![r] = q]
    BY <1>2, <2>3 DEF TInv, TypeOK
  <2>7. RowTyped' /\ codes' = codes
    BY <1>2, <2>1, TypedParts DEF VerifyFind, RowTyped, locks
  <2>8. Writes(r, q) /\ tokens' = tokens + 1
    BY <1>2, <2>4, <2>6 DEF Writes
  <2>9. tokens' >= tokens /\ codes' >= codes
    BY <2>1, <2>7, <2>8
  <2>10. Carries(q, codes', tokens')
    BY <2>5, <2>7, <2>8
  <2> HIDE DEF q
  <2>11. QED
    BY <2>7, <2>8, <2>9, <2>10, TypedStep
<1>3. \/ Finish(r) /\ tokens' = tokens
      \/ /\ tokens < MaxCodes /\ tokens' = tokens + 1
         /\ req' = [req EXCEPT ![r].pc = "verify", ![r].item = tokens + 1]
  BY Zenon DEF VerifyFind
<1>4. QED
  BY <1>1, <1>2, <1>3

\* The steps that mark every request.
LEMMA TypeMark ==
  ASSUME TInv, NEW r \in Req, ChangeWrite(r) \/ ResetWrite(r) \/ ToggleWrite(r)
  PROVE  TInv'
<1>1. codes' = codes /\ tokens' = tokens /\ req \in [Req -> Request]
  BY DEF ChangeWrite, ResetWrite, ToggleWrite, resets, TInv, TypeOK
<1>2. CASE ChangeWrite(r) \/ ResetWrite(r)
  <2> DEFINE f == [s \in Req |-> [req[s] EXCEPT !.right = @ \/ req[s].given = req[r].want]]
  <2>1. WritePassword(r)
    BY <1>2 DEF ChangeWrite, ResetWrite
  <2>2. req[r].want \in Password
    BY <1>2 DEF ChangeWrite, ResetWrite, At, TInv, Carries, WantPoints
  <2>3. RowTyped'
    <3>1. CASE ChangeWrite(r)
      BY <2>1, <2>2, <3>1, TypedParts
         DEF ChangeWrite, WritePassword, RowTyped, locks, resets
    <3>2. CASE ResetWrite(r)
      BY <2>1, <2>2, <3>2, TypedParts DEF ResetWrite, WritePassword, RowTyped, locks
    <3>3. QED
      BY <1>2, <3>1, <3>2
  <2>4. req' = [s \in Req |-> IF s = r THEN NoRequest ELSE f[s]]
    BY <2>1 DEF WritePassword
  <2>5. \A s \in Req : /\ f[s] \in Request /\ f[s].pc = req[s].pc
                       /\ f[s].item = req[s].item /\ f[s].want = req[s].want
    BY <1>1 DEF Request
  <2> HIDE DEF f
  <2>6. QED
    BY <1>1, <2>3, <2>4, <2>5, TypedMarks
<1>3. CASE ToggleWrite(r)
  <2> DEFINE b == ~req[r].flag
             f == [s \in Req |-> [req[s] EXCEPT !.barred = @ /\ (b \/ deleted)]]
  <2>1. b \in BOOLEAN
    BY <1>1 DEF Request
  <2>2. RowTyped'
    BY <1>1, <1>3, <2>1, TypedParts DEF ToggleWrite, WriteBlocked, RowTyped, resets
  <2>3. req' = [s \in Req |-> IF s = r THEN NoRequest ELSE f[s]]
    BY <1>3 DEF ToggleWrite, WriteBlocked
  <2>4. \A s \in Req : /\ f[s] \in Request /\ f[s].pc = req[s].pc
                       /\ f[s].item = req[s].item /\ f[s].want = req[s].want
    BY <1>1 DEF Request
  <2> HIDE DEF f
  <2>5. QED
    BY <1>1, <2>2, <2>3, <2>4, TypedMarks
<1>4. QED
  BY <1>2, <1>3

LEMMA TypeToggleFind == ASSUME TInv, NEW r \in Req, ToggleFind(r) PROVE TInv'
<1> DEFINE q == [req[r] EXCEPT !.pc = "toggle", !.flag = blocked]
<1>1. req[r] \in Request /\ blocked \in BOOLEAN /\ req \in [Req -> Request]
  BY DEF TInv, TypeOK
<1>2. q \in Request /\ q.pc = "toggle"
  BY <1>1 DEF Request
<1>3. Writes(r, q)
  BY <1>1, <1>2 DEF ToggleFind, Writes
<1>4. Carries(q, codes, tokens)
  BY <1>2 DEF Carries, CodePoints, TokenPoints, WantPoints
<1>5. UNCHANGED <<password, device, locks, resets>>
  BY DEF ToggleFind
<1> HIDE DEF q
<1>6. QED
  BY <1>3, <1>4, <1>5, TypedAlone

LEMMA TypeExpire == ASSUME TInv, Expire PROVE TInv'
<1>1. RowTyped'
  BY TypedParts DEF Expire, RowTyped, locks
<1>2. SlotsTyped'
  BY TypedParts DEF Expire, SlotsTyped
<1>3. QED
  BY <1>1, <1>2, TypedPartsNext

LEMMA TypeNext == TInv /\ [Next]_vars => TInv'
<1> SUFFICES ASSUME TInv, [Next]_vars PROVE TInv'
  OBVIOUS
<1>1. CASE UNCHANGED vars
  BY <1>1, RowAlone, TypedParts, TypedPartsNext DEF vars, SlotsTyped
<1>2. ASSUME NEW r \in Req, Step(r) PROVE TInv'
  BY <1>2, TypeRead, TypeWrite, TypeVerifyFind, TypeMark, TypeToggleFind DEF Step
<1>3. QED
  BY <1>1, <1>2, TypeArrive, TypeExpire, TypeRead DEF Next

\* AccountAccess keeps the types of its variables, and an expiry in the past
\* stands beside a stored code only.
THEOREM TypeCorrect == Spec => []TypeOK
<1>1. Spec => []TInv
  BY TypeInit, TypeNext, PTL DEF Spec
<1>2. TInv => TypeOK
  BY DEF TInv
<1>3. QED
  BY <1>1, <1>2, PTL

-----------------------------------------------------------------------------
(* What a step of one request leaves in its slot: a request that is not      *)
(* admitted and is marked right, or the request as it was, further on.       *)
Fit(o, n) ==
  \/ /\ n.pc \notin Admitted
     /\ n.given = password => n.right
     /\ n.barred => Locked
  \/ /\ n.given = o.given /\ n.right = o.right /\ n.barred = o.barred
     /\ n.pc \in Admitted => o.pc \in Admitted \/ ~Locked
     /\ n.pc \in Trusted => o.pc \in Trusted \/ o.given = password

TogglePoints == {"toggleFind", "toggle"}

SlotStep(r, q) ==
  /\ Writes(r, q) /\ Fit(req[r], q)
  /\ password' = password /\ blocked' = blocked /\ (deleted => deleted')
  /\ q.pc \in TogglePoints   => ToggleBegin(r) \/ ToggleFind(r)
  /\ q.pc = "codeMail"       => CodeStore(r)
  /\ q.pc = "verifyAnswer"   => VerifyWrite(r)

LEMMA TrustedAreAdmitted == Trusted \subseteq Admitted
BY DEF Trusted, Admitted

LEMMA SlotFinish ==
  ASSUME TInv, NEW r \in Req, Finish(r), password' = password,
         blocked' = blocked, deleted => deleted'
  PROVE  SlotStep(r, NoRequest)
<1>1. NoRequest.given # password
  BY ConstantsAssumption DEF NoRequest, TInv, TypeOK
<1>2. Fit(req[r], NoRequest)
  BY <1>1 DEF Fit, NoRequest, Admitted
<1>3. NoRequest.pc \notin TogglePoints \cup {"codeMail", "verifyAnswer"}
  BY DEF NoRequest, TogglePoints
<1>4. QED
  BY <1>2, <1>3, FinishWrites DEF SlotStep

LEMMA SlotGo ==
  ASSUME TInv, NEW r \in Req, NEW p \in Points, Go(r, p), password' = password,
         blocked' = blocked, deleted => deleted',
         p \in Admitted => req[r].pc \in Admitted \/ ~Locked,
         p \in Trusted => req[r].given = password,
         p \notin TogglePoints,
         p = "codeMail" => CodeStore(r), p = "verifyAnswer" => VerifyWrite(r)
  PROVE  \E q : SlotStep(r, q)
<1> DEFINE q == [req[r] EXCEPT !.pc = p]
<1>1. Writes(r, q)
  BY GoWrites DEF TInv
<1>2. req[r] \in Request
  BY DEF TInv, TypeOK
<1>3. q.pc = p /\ q.given = req[r].given /\ q.right = req[r].right
      /\ q.barred = req[r].barred
  BY <1>2 DEF Request
<1>4. Fit(req[r], q)
  BY <1>3 DEF Fit
<1> HIDE DEF q
<1>5. QED
  BY <1>1, <1>3, <1>4 DEF SlotStep

LEMMA SlotStart ==
  ASSUME TInv, NEW r \in Req, NEW p \in Points,
         NEW given \in Password \cup {None}, NEW want \in Password \cup {None},
         NEW item \in Code \cup {None}, Start(r, p, given, want, item),
         password' = password, blocked' = blocked, deleted' = deleted,
         p \notin Admitted \cup {"codeMail", "verifyAnswer"},
         p \in TogglePoints => ToggleBegin(r)
  PROVE  \E q : SlotStep(r, q)
<1> DEFINE q == [pc |-> p, given |-> given, want |-> want, item |-> item,
                 flag |-> FALSE, barred |-> Locked, right |-> given = password]
<1>1. Writes(r, q)
  BY StartWrites DEF TInv
<1>2. Fit(req[r], q) /\ q.pc = p
  BY DEF Fit
<1> HIDE DEF q
<1>3. QED
  BY <1>1, <1>2 DEF SlotStep

\* Every step of a request but the three that mark the others is a SlotStep.
LEMMA SlotArrive == ASSUME TInv, NEW r \in Req, Arrive(r) PROVE \E q : SlotStep(r, q)
<1>1. password' = password /\ blocked' = blocked /\ deleted' = deleted
  BY DEF Arrive, CodeBegin, ToggleBegin, SignBegin, DeleteBegin, ChangeBegin,
     VerifyBegin, ResetBegin, locks
<1>2. CASE CodeBegin(r)
  <2> DEFINE q == [NoRequest EXCEPT !.pc = "codeStore", !.item = codes + 1]
  <2>1. codes \in Nat /\ MaxCodes \in Nat /\ codes < MaxCodes
    BY <1>2, TypedParts, ConstantsAssumption DEF CodeBegin, RowTyped
  <2>2. codes + 1 \in Code
    BY <2>1 DEF Code
  <2>3. q \in Request
    BY <2>2 DEF NoRequest, Request, Admitted
  <2>4. q.given # password /\ q.pc = "codeStore" /\ ~q.barred
    BY ConstantsAssumption DEF NoRequest, TInv, TypeOK
  <2>5. Fit(req[r], q)
    BY <2>4 DEF Fit, Admitted
  <2>6. Writes(r, q)
    BY <1>2, <2>3 DEF CodeBegin, Writes
  <2> HIDE DEF q
  <2>7. QED
    BY <1>1, <2>4, <2>5, <2>6 DEF SlotStep, TogglePoints
<1>3. CASE ToggleBegin(r)
  <2>1. "toggleFind" \in Points
        /\ "toggleFind" \notin Admitted \cup {"codeMail", "verifyAnswer"}
    BY DEF Points, Admitted
  <2>2. QED
    BY <1>1, <1>3, <2>1, SlotStart DEF ToggleBegin
<1>4. ASSUME NEW p \in {"sign", "deleteGuard", "changeGuard", "verifyFind", "resetFind"},
             NEW given \in Password \cup {None}, NEW want \in Password \cup {None},
             NEW item \in Code \cup {None}, Start(r, p, given, want, item)
      PROVE  \E q : SlotStep(r, q)
  <2>1. /\ p \in Points /\ p \notin Admitted \cup {"codeMail", "verifyAnswer"}
        /\ p \notin TogglePoints
    BY DEF Points, Admitted, CodePoints, TokenPoints, TogglePoints
  <2>2. QED
    BY <1>1, <1>4, <2>1, SlotStart
<1>5. QED
  BY <1>2, <1>3, <1>4
     DEF Arrive, SignBegin, DeleteBegin, ChangeBegin, VerifyBegin, ResetBegin

LEMMA SlotRead ==
  ASSUME TInv, NEW r \in Req,
         \/ SignFind(r) \/ ChangeRead(r) \/ DeleteRead(r) \/ ResetFind(r)
         \/ Guard(r, "changeGuard", "changeRead")
         \/ Guard(r, "deleteGuard", "deleteRead") \/ Fail(r)
  PROVE  \E q : SlotStep(r, q)
<1>1. password' = password /\ blocked' = blocked /\ deleted' = deleted
  BY DEF SignFind, ChangeRead, DeleteRead, ResetFind, Guard, Fail, locks
<1>2. CASE Finish(r)
  BY <1>1, <1>2, SlotFinish
<1>3. ASSUME NEW p \in {"device", "change", "delete", "changeRead", "deleteRead", "reset"},
             Go(r, p), p \in Admitted => req[r].pc \in Admitted \/ ~Locked,
             p \in Trusted => req[r].given = password
      PROVE  \E q : SlotStep(r, q)
  <2>1. p \in Points /\ p \notin TogglePoints \cup {"codeMail", "verifyAnswer"}
    BY DEF Points, Admitted, TokenPoints, TogglePoints
  <2>2. QED
    BY <1>1, <1>3, <2>1, SlotGo
<1>4. CASE Go(r, "device") /\ ~Locked /\ req[r].given = password
  BY <1>3, <1>4
<1>5. CASE (Go(r, "changeRead") \/ Go(r, "deleteRead")) /\ ~Locked
  BY <1>3, <1>5 DEF Trusted
<1>6. CASE /\ Go(r, "change") \/ Go(r, "delete")
           /\ At(r, "changeRead") \/ At(r, "deleteRead")
           /\ req[r].given = password
  BY <1>3, <1>6 DEF At, Admitted
<1>7. CASE Go(r, "reset")
  BY <1>3, <1>7 DEF Admitted, Trusted
<1>8. QED
  BY <1>2, <1>4, <1>5, <1>6, <1>7
     DEF SignFind, ChangeRead, DeleteRead, ResetFind, Guard, Fail, Proceed

LEMMA SlotWrite ==
  ASSUME TInv, NEW r \in Req,
         \/ SignDevice(r) \/ DeleteWrite(r) \/ CodeStore(r) \/ CodeMail(r)
         \/ VerifyWrite(r) \/ VerifyAnswer(r)
  PROVE  \E q : SlotStep(r, q)
<1>1. password' = password /\ blocked' = blocked /\ (deleted => deleted')
  BY DEF SignDevice, DeleteWrite, CodeStore, CodeMail, VerifyWrite, VerifyAnswer, locks
<1>2. CASE Finish(r)
  BY <1>1, <1>2, SlotFinish
<1>3. CASE CodeStore(r)
  <2>1. "codeMail" \in Points /\ "codeMail" \notin Admitted \cup Trusted \cup TogglePoints
    BY DEF Points, Admitted, Trusted, CodePoints, TogglePoints
  <2>2. QED
    BY <1>1, <1>3, <2>1, SlotGo DEF CodeStore
<1>4. CASE VerifyWrite(r)
  <2>1. "verifyAnswer" \in Points
        /\ "verifyAnswer" \notin Admitted \cup Trusted \cup TogglePoints
    BY DEF Points, Admitted, Trusted, TokenPoints, TogglePoints
  <2>2. QED
    BY <1>1, <1>4, <2>1, SlotGo DEF VerifyWrite
<1>5. QED
  BY <1>2, <1>3, <1>4 DEF SignDevice, DeleteWrite, CodeMail, VerifyAnswer

LEMMA SlotFind ==
  ASSUME TInv, NEW r \in Req, VerifyFind(r) \/ ToggleFind(r)
  PROVE  \E q : SlotStep(r, q)
<1>1. password' = password /\ blocked' = blocked /\ deleted' = deleted
  BY DEF VerifyFind, ToggleFind, locks
<1>2. req[r] \in Request /\ req \in [Req -> Request] /\ blocked \in BOOLEAN
  BY DEF TInv, TypeOK
<1>3. CASE Finish(r)
  BY <1>1, <1>3, SlotFinish
<1>4. ASSUME NEW q \in Request, req' = [req EXCEPT ![r] = q],
             q.pc \in {"verify", "toggle"}, q.given = req[r].given,
             q.right = req[r].right, q.barred = req[r].barred,
             q.pc = "toggle" => ToggleFind(r)
      PROVE  SlotStep(r, q)
  BY <1>1, <1>4 DEF SlotStep, Writes, Fit, Admitted, Trusted, TogglePoints
<1>5. CASE tokens < MaxCodes /\ req' = [req EXCEPT ![r].pc = "verify", ![r].item = tokens + 1]
  <2> DEFINE q == [req[r] EXCEPT !.pc = "verify", !.item = tokens + 1]
  <2>1. tokens \in Nat /\ MaxCodes \in Nat
    BY TypedParts, ConstantsAssumption DEF RowTyped
  <2>2. tokens + 1 \in Code
    BY <1>5, <2>1 DEF Code
  <2>3. /\ q \in Request /\ q.pc = "verify" /\ q.given = req[r].given
        /\ q.right = req[r].right /\ q.barred = req[r].barred
    BY <1>2, <2>2 DEF Request
  <2>4. req' = [req EXCEPT ![r] = q]
    BY <1>2, <1>5
  <2> HIDE DEF q
  <2>5. QED
    BY <1>4, <2>3, <2>4
<1>6. CASE ToggleFind(r)
  <2> DEFINE q == [req[r] EXCEPT !.pc = "toggle", !.flag = blocked]
  <2>1. /\ q \in Request /\ q.pc = "toggle" /\ q.given = req[r].given
        /\ q.right = req[r].right /\ q.barred = req[r].barred
    BY <1>2 DEF Request
  <2>2. req' = [req EXCEPT ![r] = q]
    BY <1>2, <1>6 DEF ToggleFind
  <2> HIDE DEF q
  <2>3. QED
    BY <1>4, <1>6, <2>1, <2>2
<1>7. VerifyFind(r) => \/ Finish(r)
                       \/ /\ tokens < MaxCodes
                          /\ req' = [req EXCEPT ![r].pc = "verify", ![r].item = tokens + 1]
  BY Zenon DEF VerifyFind
<1>8. QED
  BY <1>3, <1>5, <1>6, <1>7

Marking(r) == ChangeWrite(r) \/ ResetWrite(r) \/ ToggleWrite(r)

\* The steps of the system.
LEMMA Steps ==
  ASSUME TInv, [Next]_vars
  PROVE  \/ UNCHANGED vars
         \/ Expire
         \/ \E r \in Req : Marking(r)
         \/ \E r \in Req : \E q : SlotStep(r, q) /\ (Arrive(r) \/ Step(r) \/ Fail(r))
<1>1. ASSUME NEW r \in Req, Step(r)
      PROVE  Marking(r) \/ \E q : SlotStep(r, q)
  BY <1>1, SlotRead, SlotWrite, SlotFind DEF Step, Marking
<1>2. QED
  BY <1>1, SlotArrive, SlotRead DEF Next

\* What the steps that mark every request do to a slot.
Kept(o, n) ==
  /\ n.pc = o.pc /\ n.given = o.given /\ n.item = o.item /\ n.flag = o.flag
  /\ o.right => n.right
  /\ n.barred => o.barred

LEMMA MarksKeep ==
  ASSUME TInv, NEW r \in Req, Marking(r), NEW s \in Req
  PROVE  \/ s = r /\ req'[s] = NoRequest
         \/ /\ s # r /\ Kept(req[s], req'[s])
            /\ password' = password \/ (req'[s].given = password' => req'[s].right)
            /\ Locked' = Locked \/ (req'[s].barred => Locked')
<1>1. req[s] \in Request
  BY DEF TInv, TypeOK
<1>2. CASE s = r
  BY <1>2 DEF Marking, ChangeWrite, ResetWrite, ToggleWrite, WritePassword, WriteBlocked
<1>3. CASE s # r /\ (ChangeWrite(r) \/ ResetWrite(r))
  <2>1. /\ req'[s] = [req[s] EXCEPT !.right = @ \/ req[s].given = req[r].want]
        /\ password' = req[r].want /\ Locked' = Locked
    BY <1>3 DEF ChangeWrite, ResetWrite, WritePassword, locks, Locked
  <2>2. QED
    BY <1>1, <1>3, <2>1 DEF Kept, Request
<1>4. CASE s # r /\ ToggleWrite(r)
  <2>1. /\ req'[s] = [req[s] EXCEPT !.barred = @ /\ (~req[r].flag \/ deleted)]
        /\ password' = password /\ Locked' = (~req[r].flag \/ deleted)
    BY <1>4 DEF ToggleWrite, WriteBlocked, Locked
  <2>2. QED
    BY <1>1, <1>4, <2>1 DEF Kept, Request
<1>5. QED
  BY <1>2, <1>3, <1>4 DEF Marking

-----------------------------------------------------------------------------
LEMMA Still ==
  ASSUME UNCHANGED vars
  PROVE  /\ req' = req /\ password' = password /\ Locked' = Locked
         /\ UNCHANGED <<blocked, flips, crossed, resets>>
BY DEF vars, locks, Locked

LEMMA ExpireAlone ==
  ASSUME Expire
  PROVE  /\ req' = req /\ password' = password /\ Locked' = Locked
         /\ UNCHANGED <<blocked, flips, crossed>>
BY DEF Expire, locks, Locked

LEMMA WrittenSlot ==
  ASSUME TInv, NEW r \in Req, NEW q, Writes(r, q), NEW s \in Req
  PROVE  req'[s] = IF s = r THEN q ELSE req[s]
BY DEF Writes, TInv, TypeOK

\* While the account is locked, a request that began under the lock is out.
LEMMA LockedStep ==
  ASSUME TInv, [Next]_vars,
         \A r \in Req : req[r].barred => Locked /\ req[r].pc \notin Admitted
  PROVE  \A r \in Req : req'[r].barred => Locked' /\ req'[r].pc \notin Admitted
<1>1. CASE UNCHANGED vars \/ Expire
  BY <1>1, Still, ExpireAlone
<1>2. ASSUME NEW r \in Req, Marking(r), NEW s \in Req, req'[s].barred
      PROVE  Locked' /\ req'[s].pc \notin Admitted
  BY <1>2, MarksKeep DEF Kept, NoRequest
<1>3. ASSUME NEW r \in Req, NEW q, SlotStep(r, q), NEW s \in Req, req'[s].barred
      PROVE  Locked' /\ req'[s].pc \notin Admitted
  <2>1. Locked => Locked'
    BY <1>3 DEF SlotStep, Locked
  <2>2. CASE s = r
    BY <1>3, <2>1, <2>2, WrittenSlot DEF SlotStep, Fit
  <2>3. CASE s # r
    BY <1>3, <2>1, <2>3, WrittenSlot DEF SlotStep
  <2>4. QED
    BY <2>2, <2>3
<1>4. QED
  BY <1>1, <1>2, <1>3, Steps

\* A request that found the account locked when it began is never admitted
\* while the account stays locked.
THEOREM LockedStaysOutCorrect == Spec => []LockedStaysOut
<1> DEFINE Inv == \A r \in Req : req[r].barred => Locked /\ req[r].pc \notin Admitted
<1>1. Init => Inv
  BY DEF Init, NoRequest
<1>2. TInv /\ Inv /\ [Next]_vars => Inv'
  BY LockedStep
<1>3. Inv => LockedStaysOut
  BY DEF LockedStaysOut
<1> HIDE DEF Inv
<1>4. QED
  BY <1>1, <1>2, <1>3, TypeInit, TypeNext, PTL DEF Spec

-----------------------------------------------------------------------------
\* A request that carries the password of the account is marked right.
Knew ==
  \A r \in Req : /\ req[r].given = password => req[r].right
                 /\ req[r].pc \in Trusted => req[r].right

LEMMA KnewStep == ASSUME TInv, Knew, [Next]_vars PROVE Knew'
<1>1. CASE UNCHANGED vars \/ Expire
  BY <1>1, Still, ExpireAlone DEF Knew
<1>2. NoRequest.given # password'
  BY TypeNext, ConstantsAssumption DEF NoRequest, TInv, TypeOK
<1>3. ASSUME NEW r \in Req, Marking(r), NEW s \in Req
      PROVE  /\ req'[s].given = password' => req'[s].right
             /\ req'[s].pc \in Trusted => req'[s].right
  <2>1. NoRequest.pc \notin Trusted
    BY DEF NoRequest, Trusted
  <2>2. QED
    BY <1>2, <1>3, <2>1, MarksKeep DEF Knew, Kept
<1>4. ASSUME NEW r \in Req, NEW q, SlotStep(r, q), NEW s \in Req
      PROVE  /\ req'[s].given = password' => req'[s].right
             /\ req'[s].pc \in Trusted => req'[s].right
  <2>1. CASE s = r
    BY <1>4, <2>1, WrittenSlot, TrustedAreAdmitted DEF Knew, SlotStep, Fit
  <2>2. CASE s # r
    BY <1>4, <2>2, WrittenSlot DEF Knew, SlotStep
  <2>3. QED
    BY <2>1, <2>2
<1>5. QED
  BY <1>1, <1>3, <1>4, Steps DEF Knew

\* Whoever writes behind a password has given one that was the account's
\* during the request, however reads, writes and resets interleave.
THEOREM TrustedKnewPasswordCorrect == Spec => []TrustedKnewPassword
<1>1. Init => Knew
  BY ConstantsAssumption DEF Init, NoRequest, Trusted, Knew
<1>2. Knew => TrustedKnewPassword
  BY DEF Knew, TrustedKnewPassword
<1>3. QED
  BY <1>1, <1>2, KnewStep, TypeInit, TypeNext, PTL DEF Spec

-----------------------------------------------------------------------------
\* One toggle at a time writes the negation of what is_blocked still is.
Alone ==
  ~crossed =>
    /\ blocked = flips
    /\ \A r, s \in Req : req[r].pc \in TogglePoints /\ req[s].pc \in TogglePoints
                            => r = s
    /\ \A r \in Req : req[r].pc = "toggle" => req[r].flag = blocked

LEMMA AloneStep == ASSUME TInv, Alone, [Next]_vars PROVE Alone'
<1>1. CASE UNCHANGED vars \/ Expire
  BY <1>1, Still, ExpireAlone DEF Alone
<1>2. ASSUME NEW r \in Req, ToggleWrite(r) PROVE Alone'
  <2>1. /\ blocked' = ~req[r].flag /\ flips' = ~flips /\ crossed' = crossed
        /\ req[r].pc = "toggle" /\ req[r].pc \in TogglePoints
    BY <1>2 DEF ToggleWrite, WriteBlocked, At, TogglePoints
  <2>2. \A s \in Req : req'[s].pc \in TogglePoints => s # r /\ req[s].pc \in TogglePoints
    BY <1>2, MarksKeep DEF Marking, Kept, NoRequest, TogglePoints
  <2>3. req[r].flag \in BOOLEAN /\ blocked \in BOOLEAN /\ flips \in BOOLEAN
    BY DEF TInv, TypeOK, Request
  <2>4. ~crossed => \A s \in Req : req'[s].pc \notin TogglePoints
    BY <2>1, <2>2 DEF Alone
  <2>5. ~crossed => blocked' = flips'
    BY <2>1, <2>3 DEF Alone
  <2>6. QED
    BY <2>1, <2>4, <2>5 DEF Alone, TogglePoints
<1>3. ASSUME NEW r \in Req, ChangeWrite(r) \/ ResetWrite(r) PROVE Alone'
  <2>1. UNCHANGED <<blocked, flips, crossed>>
    BY <1>3 DEF ChangeWrite, ResetWrite, locks
  <2>2. \A s \in Req : req'[s].pc \in TogglePoints
                        => req'[s].pc = req[s].pc /\ req'[s].flag = req[s].flag
    BY <1>3, MarksKeep DEF Marking, Kept, NoRequest, TogglePoints
  <2>3. QED
    BY <2>1, <2>2 DEF Alone, TogglePoints
<1>4. ASSUME NEW r \in Req, ToggleBegin(r) PROVE Alone'
  <2>1. /\ crossed' = (crossed \/ \E q \in Req : req[q].pc \in TogglePoints)
        /\ blocked' = blocked /\ flips' = flips
    BY <1>4 DEF ToggleBegin, TogglePoints
  <2>2. req'[r].pc = "toggleFind" /\ \A s \in Req : s # r => req'[s] = req[s]
    BY <1>4 DEF ToggleBegin, Start, TInv, TypeOK
  <2>3. QED
    BY <2>1, <2>2 DEF Alone, TogglePoints
<1>5. ASSUME NEW r \in Req, ToggleFind(r) PROVE Alone'
  <2>1. blocked' = blocked /\ flips' = flips /\ crossed' = crossed
    BY <1>5 DEF ToggleFind, locks
  <2>2. req[r] \in Request /\ req \in [Req -> Request]
    BY DEF TInv, TypeOK
  <2>3. /\ req[r].pc \in TogglePoints /\ req'[r].pc = "toggle" /\ req'[r].flag = blocked
        /\ \A s \in Req : s # r => req'[s] = req[s]
    BY <1>5, <2>2 DEF ToggleFind, At, TogglePoints, Request
  <2>4. QED
    BY <2>1, <2>3 DEF Alone, TogglePoints
<1>6. ASSUME NEW r \in Req, NEW q, SlotStep(r, q), Arrive(r) \/ Step(r) \/ Fail(r),
             ~ToggleBegin(r), ~ToggleFind(r), ~Marking(r)
      PROVE  Alone'
  <2>1. blocked' = blocked /\ flips' = flips /\ crossed' = crossed
    BY <1>6 DEF Arrive, CodeBegin, SignBegin, DeleteBegin, ChangeBegin,
       VerifyBegin, ResetBegin, Step, SignFind, SignDevice, Guard, ChangeRead,
       DeleteRead, DeleteWrite, CodeStore, CodeMail, VerifyFind, VerifyWrite,
       VerifyAnswer, ResetFind, Fail, Marking, locks
  <2>2. \A s \in Req : req'[s].pc \in TogglePoints => req'[s] = req[s]
    BY <1>6, WrittenSlot DEF SlotStep
  <2>3. QED
    BY <2>1, <2>2 DEF Alone, TogglePoints
<1>7. QED
  BY <1>1, <1>2, <1>3, <1>4, <1>5, <1>6, Steps DEF Marking

\* Toggles of is_blocked that do not overlap all count, whatever else the
\* account is used for meanwhile, and whichever of them fail.
THEOREM ToggleCountedCorrect == Spec => []ToggleCounted
<1>1. Init => Alone
  <2> SUFFICES ASSUME Init PROVE Alone
    OBVIOUS
  <2>1. \A r \in Req : req[r].pc = "idle"
    BY DEF Init, NoRequest
  <2>2. blocked = flips
    BY DEF Init
  <2>3. QED
    BY <2>1, <2>2 DEF Alone, TogglePoints
<1>2. Alone => ToggleCounted
  BY DEF Alone, ToggleCounted
<1>3. QED
  BY <1>1, <1>2, AloneStep, TypeInit, TypeNext, PTL DEF Spec

-----------------------------------------------------------------------------
\* A code that is mailed or about to be, and a token that is answered or about
\* to be.
Mailed(c)   == c \in inbox \/ \E r \in Req : req[r].pc = "codeMail" /\ req[r].item = c
Answered(t) == t \in handed \/ \E r \in Req : req[r].pc = "verifyAnswer" /\ req[r].item = t

Work ==
  /\ \A c : Mailed(c) => c \in over \/ (otp = c /\ fresh)
  /\ \A t : Answered(t) => t \in spent \/ token = t

\* Codes and tokens are numbers, so none of them is None.
LEMMA InUse ==
  ASSUME TInv
  PROVE  (\A c : Mailed(c) => c # None) /\ (\A t : Answered(t) => t # None)
<1>1. \A r \in Req : /\ req[r].pc = "codeMail" => req[r].item \in 1..codes
                     /\ req[r].pc = "verifyAnswer" => req[r].item \in 1..tokens
  BY DEF TInv, Carries, CodePoints, TokenPoints
<1>2. inbox \subseteq 1..codes /\ handed \subseteq 1..tokens
  BY DEF TInv, TypeOK
<1>3. None \notin 1..codes /\ None \notin 1..tokens
  BY ConstantsAssumption
<1>4. QED
  BY <1>1, <1>2, <1>3 DEF Mailed, Answered

\* Steps that hand nothing out, and replace nothing without a note.
LEMMA WorkAlone ==
  ASSUME TInv, Work,
         \A c : Mailed(c)' => Mailed(c), \A t : Answered(t)' => Answered(t),
         over \subseteq over', spent \subseteq spent',
         (otp' = otp /\ (fresh => fresh')) \/ (otp # None => otp \in over'),
         token' = token \/ (token # None => token \in spent')
  PROVE  Work'
BY InUse DEF Work

LEMMA WorkStep == ASSUME TInv, Work, [Next]_vars PROVE Work'
<1>1. CASE UNCHANGED vars
  BY <1>1, Still DEF Work, Mailed, Answered, resets
<1>2. CASE Expire
  <2>1. /\ otp # None => otp \in over'
        /\ over \subseteq over' /\ spent' = spent /\ token' = token
        /\ req' = req /\ inbox' = inbox /\ handed' = handed
    BY <1>2 DEF Expire
  <2>2. QED
    BY <2>1, WorkAlone DEF Mailed, Answered
<1>3. ASSUME NEW r \in Req, Marking(r) PROVE Work'
  <2>1. /\ over' = over /\ otp' = otp /\ fresh' = fresh /\ spent \subseteq spent'
        /\ token' = token \/ (token # None => token \in spent')
        /\ inbox' = inbox /\ handed' = handed
    BY <1>3 DEF Marking, ChangeWrite, ResetWrite, ToggleWrite, resets
  <2>2. \A s \in Req : req'[s].pc \in {"codeMail", "verifyAnswer"}
                        => req'[s].pc = req[s].pc /\ req'[s].item = req[s].item
    BY <1>3, MarksKeep DEF Kept, NoRequest
  <2>3. QED
    BY <2>1, <2>2, WorkAlone DEF Mailed, Answered
<1>4. ASSUME NEW r \in Req, CodeStore(r) PROVE Work'
  <2>1. req[r] \in Request /\ req \in [Req -> Request] /\ req' = [req EXCEPT ![r].pc = "codeMail"]
    BY <1>4 DEF TInv, TypeOK, CodeStore, Go
  <2>2. \A s \in Req : req'[s].item = req[s].item /\ (s # r => req'[s] = req[s])
                        /\ req'[r].pc = "codeMail"
    BY <2>1 DEF Request
  <2>3. /\ otp' = req[r].item /\ fresh' /\ over' = over \cup ({otp} \ {None})
        /\ token' = token /\ inbox' = inbox /\ handed' = handed /\ spent' = spent
    BY <1>4 DEF CodeStore
  <2>4. \A c : Mailed(c)' => Mailed(c) \/ c = otp'
    BY <2>2, <2>3 DEF Mailed
  <2>5. \A t : Answered(t)' => Answered(t)
    BY <2>2, <2>3 DEF Answered
  <2>6. QED
    BY <2>3, <2>4, <2>5, InUse DEF Work
<1>5. ASSUME NEW r \in Req, CodeMail(r) PROVE Work'
  <2>1. /\ \A s \in Req : req'[s] = IF s = r THEN NoRequest ELSE req[s]
        /\ req[r].pc = "codeMail" /\ inbox' = inbox \cup {req[r].item}
        /\ UNCHANGED <<otp, fresh, token, handed, over, spent>>
    BY <1>5 DEF CodeMail, At, Finish, TInv, TypeOK
  <2>2. (\A c : Mailed(c)' => Mailed(c)) /\ (\A t : Answered(t)' => Answered(t))
    BY <2>1 DEF Mailed, Answered, NoRequest
  <2>3. QED
    BY <2>1, <2>2, WorkAlone
<1>6. ASSUME NEW r \in Req, VerifyWrite(r) PROVE Work'
  <2>1. req[r] \in Request /\ req \in [Req -> Request] /\ req' = [req EXCEPT ![r].pc = "verifyAnswer"]
    BY <1>6 DEF TInv, TypeOK, VerifyWrite, Go
  <2>2. \A s \in Req : req'[s].item = req[s].item /\ (s # r => req'[s] = req[s])
                        /\ req'[r].pc = "verifyAnswer"
    BY <2>1 DEF Request
  <2>3. /\ token' = req[r].item /\ over' = over \cup ({otp} \ {None})
        /\ spent' = spent \cup ({token} \ {None}) /\ inbox' = inbox /\ handed' = handed
    BY <1>6 DEF VerifyWrite
  <2>4. \A c : Mailed(c)' => Mailed(c)
    BY <2>2, <2>3 DEF Mailed
  <2>5. \A t : Answered(t)' => Answered(t) \/ t = token'
    BY <2>2, <2>3 DEF Answered
  <2>6. QED
    BY <2>3, <2>4, <2>5, InUse DEF Work
<1>7. ASSUME NEW r \in Req, VerifyAnswer(r) PROVE Work'
  <2>1. /\ \A s \in Req : req'[s] = IF s = r THEN NoRequest ELSE req[s]
        /\ req[r].pc = "verifyAnswer" /\ handed' = handed \cup {req[r].item}
        /\ UNCHANGED <<otp, fresh, token, inbox, over, spent>>
    BY <1>7 DEF VerifyAnswer, At, Finish, TInv, TypeOK
  <2>2. (\A c : Mailed(c)' => Mailed(c)) /\ (\A t : Answered(t)' => Answered(t))
    BY <2>1 DEF Mailed, Answered, NoRequest
  <2>3. QED
    BY <2>1, <2>2, WorkAlone
<1>8. ASSUME NEW r \in Req, NEW q, SlotStep(r, q), Arrive(r) \/ Step(r) \/ Fail(r),
             ~CodeStore(r), ~CodeMail(r), ~VerifyWrite(r), ~VerifyAnswer(r), ~Marking(r)
      PROVE  Work'
  <2>1. UNCHANGED <<otp, fresh, token, inbox, handed, over, spent>>
    BY <1>8 DEF Arrive, CodeBegin, ToggleBegin, SignBegin, DeleteBegin, ChangeBegin,
       VerifyBegin, ResetBegin, Step, SignFind, SignDevice, Guard, ChangeRead,
       DeleteRead, DeleteWrite, VerifyFind, ResetFind, ToggleFind, Fail, Marking,
       resets
  <2>2. \A s \in Req : req'[s].pc \in {"codeMail", "verifyAnswer"} => req'[s] = req[s]
    BY <1>8, WrittenSlot DEF SlotStep
  <2>3. (\A c : Mailed(c)' => Mailed(c)) /\ (\A t : Answered(t)' => Answered(t))
    BY <2>1, <2>2 DEF Mailed, Answered
  <2>4. QED
    BY <2>1, <2>3, WorkAlone
<1>9. QED
  BY <1>1, <1>2, <1>3, <1>4, <1>5, <1>6, <1>7, <1>8, Steps

\* A code that was mailed, and a token that was answered, works until it was
\* replaced, used or expired: no failure or second request leaves the owner
\* with one that never did.
THEOREM CodesWorkCorrect == Spec => []CodesWork
<1>1. Init => Work
  BY DEF Init, NoRequest, Work, Mailed, Answered
<1>2. Work => CodesWork
  BY DEF Work, Mailed, Answered, CodesWork, MailedCodeWorks, HandedTokenWorks
<1>3. QED
  BY <1>1, <1>2, WorkStep, TypeInit, TypeNext, PTL DEF Spec
=============================================================================
