------------------------- MODULE NotificationsProofs -------------------------
(***************************************************************************)
(* Proofs about Notifications, for any number of users and of dispatches at *)
(* once: nobody is notified against preferences that were off throughout,   *)
(* nobody a dispatch is for is left out, and the feed holds an event once.  *)
(* The strengthening says what a dispatch in flight owes to whom, and whom  *)
(* it has recorded for.                                                     *)
(***************************************************************************)
EXTENDS Notifications, TLAPS

-----------------------------------------------------------------------------
(* Dispatches.  Asking are the points at which one still asks for            *)
(* preferences or notifies; Visiting those at which it is at a user.        *)
Visiting == {"new", "user", "event", "presence", "push"}
Asking   == {"list", "next"} \cup Visiting
PastList == {"next", "done"} \cup Visiting
Listing  == {"admin", "area", "expiring", "expired"}   \* kinds that list their users

\* Users the dispatch has yet to record for: those to visit, and the one it is
\* at, if the point it is at leads to the event.
Ahead(j) ==
  (IF job[j].pc = "done" THEN {} ELSE job[j].todo)
  \cup IF \/ job[j].pc \in {"new", "user", "event"}
          \/ job[j].pc \in {"presence", "push"} /\ job[j].kind = "area"
       THEN {job[j].user} ELSE {}

\* Whom it is to tell; the check for expired documents is not spoken of.
Owed(j) == {u \in ((job[j].for \cap steady[j]) \ job[j].failed) \cap Reachable(j) :
              job[j].kind # "expired"}

Sound(j) ==
  /\ job[j].pc = "count" => job[j].kind \in News /\ job[j].todo = job[j].for
  /\ job[j].pc = "list" => job[j].kind \in Listing
  /\ job[j].pc = "user" => job[j].kind \in {"rating", "verified"} \cup News
  /\ job[j].pc \in Visiting => job[j].user \in User /\ job[j].user \in on[j]
  /\ job[j].pc \in Asking =>
       /\ OnFor(prefs, job[j].kind) \subseteq on[j]
       /\ steady[j] \subseteq OnFor(prefs, job[j].kind)
       /\ job[j].kind = "area" => online \subseteq there[j]
  /\ job[j].pc \in PastList => \A u \in Owed(j) : u \in Ahead(j) \/ <<j, u>> \in told

Typed ==
  /\ prefs \in [User -> {None} \cup SUBSET Types]
  /\ edit \in [User -> Edit]
  /\ \A u \in User : edit[u].pc = "write" => prefs[u] # None
  /\ job \in [Job -> Dispatch]
  /\ on \in [Job -> SUBSET User] /\ steady \in [Job -> SUBSET User]
  /\ there \in [Job -> SUBSET User] /\ online \subseteq User /\ token \subseteq User

Sent == told \cup pushed
JInv ==
  /\ Typed
  /\ \A j \in Job : Sound(j)
  /\ \A e \in Sent : /\ e \in Job \X User /\ e[2] \in on[e[1]]
                     /\ job[e[1]].pc \notin {"idle", "count"}

LEMMA OnForUsers == \A p, k : OnFor(p, k) \subseteq User
BY DEF OnFor

LEMMA NoJobTyped == NoJob \in Dispatch
<1>1. "admin" \in Kinds
  BY DEF Kinds, TypeOf
<1>2. QED
  BY <1>1 DEF NoJob, Dispatch

LEMMA JInit == Init => JInv
<1> SUFFICES ASSUME Init PROVE JInv
  OBVIOUS
<1>1. Typed
  <2>1. NoEdit \in Edit /\ NoEdit.pc = "idle"
    BY DEF NoEdit, Edit, Types
  <2>2. prefs \in [User -> {None} \cup SUBSET Types]
    BY DEF Init
  <2>3. QED
    BY <2>1, <2>2, NoJobTyped DEF Init, Typed
<1>2. ASSUME NEW j \in Job PROVE Sound(j)
  <2>1. job[j].pc = "idle"
    BY DEF Init, NoJob
  <2>2. QED
    BY <2>1 DEF Sound, Visiting, Asking, PastList
<1>3. Sent = {}
  BY DEF Init, Sent
<1>4. QED
  BY <1>1, <1>2, <1>3 DEF JInv

\* A dispatch is launched.
LEMMA LaunchKeeps ==
  ASSUME JInv, NEW k \in Kinds, NEW us \in SUBSET User, NEW pc \in {"next", "list", "count"},
         Launch(k, us, pc), pc = "list" => us = {} /\ k \in Listing,
         pc = "count" => k \in News
  PROVE  JInv'
<1>1. CASE UNCHANGED <<job, aux, pushed, told, users>>
  BY <1>1 DEF JInv, Typed, Sound, Sent, Owed, Ahead, Reachable, aux, users
<1>2. ASSUME NEW j \in Job, At(j, "idle"), Start(j, k, us, pc) PROVE JInv'
  <2> DEFINE q == [NoJob EXCEPT !.pc = pc, !.kind = k, !.todo = us, !.for = us]
  <2>3. /\ q \in Dispatch /\ q.pc = pc /\ q.kind = k /\ q.todo = us /\ q.for = us
        /\ q.failed = {}
    BY NoJobTyped DEF NoJob, Dispatch
  <2>4. /\ job' = [job EXCEPT ![j] = q]
        /\ on' = [on EXCEPT ![j] = OnFor(prefs, k)]
        /\ steady' = [steady EXCEPT ![j] = OnFor(prefs, k)]
        /\ there' = [there EXCEPT ![j] = IF k = "area" THEN online ELSE {}]
        /\ UNCHANGED <<pushed, told, prefs, edit, token, online>>
    BY <1>2 DEF Start, users
  <2> HIDE DEF q
  <2>5. Typed'
    BY <2>3, <2>4, OnForUsers DEF JInv, Typed
  <2>6. /\ job'[j] = q /\ on'[j] = OnFor(prefs, k) /\ steady'[j] = OnFor(prefs, k)
        /\ there'[j] = IF k = "area" THEN online ELSE {}
    BY <2>4 DEF JInv, Typed
  <2>7. Sound(j)'
    <3>1. pc \in PastList => \A u \in Owed(j)' : u \in Ahead(j)'
      BY <2>3, <2>6 DEF PastList, Owed, Ahead
    <3>2. QED
      BY <2>3, <2>4, <2>6, <3>1 DEF Sound, Visiting, Asking
  <2>8. ASSUME NEW i \in Job, i # j PROVE Sound(i)'
    <3>1. job'[i] = job[i] /\ on'[i] = on[i] /\ steady'[i] = steady[i] /\ there'[i] = there[i]
      BY <2>4, <2>8 DEF JInv, Typed
    <3>2. Sound(i)
      BY DEF JInv
    <3>3. QED
      BY <2>4, <3>1, <3>2 DEF Sound, Owed, Ahead, Reachable
  <2>9. ASSUME NEW e \in Sent
        PROVE  e[2] \in on'[e[1]] /\ job'[e[1]].pc \notin {"idle", "count"}
    <3>1. e \in Job \X User /\ e[1] # j
      BY <1>2 DEF JInv, At
    <3>2. QED
      BY <2>4, <3>1 DEF JInv, Typed
  <2>10. Sent' = Sent
    BY <2>4 DEF Sent
  <2>11. QED
    BY <2>5, <2>7, <2>8, <2>9, <2>10 DEF JInv
<1>3. QED
  BY <1>1, <1>2 DEF Launch

LEMMA CallKeeps == ASSUME JInv, Call PROVE JInv'
<1>1. /\ Ratee \in User /\ Active \subseteq User
      /\ Kinds = {"rating", "added", "removed", "verified", "admin", "area",
                  "expiring", "expired"}
      /\ News = {"added", "removed"}
      /\ Listing = {"admin", "area", "expiring", "expired"}
  BY ConstantsAssumption DEF Kinds, TypeOf, News, Listing
<1>2. CASE \E k \in Kinds, us \in SUBSET User, pc \in {"next", "list", "count"} :
             /\ Launch(k, us, pc)
             /\ pc = "list" => us = {} /\ k \in Listing
             /\ pc = "count" => k \in News
  BY <1>2, LaunchKeeps
<1>3. CASE Quiet
  BY <1>3 DEF Quiet, JInv, Typed, Sound, Sent, Owed, Ahead, Reachable, aux, users
<1>4. ASSUME NEW u \in Active, AddMember(u) \/ RemoveMember(u) \/ VerifyDocument(u)
                               \/ RenewDocument(u) \/ Age(u)
      PROVE  JInv'
  BY <1>1, <1>2, <1>3, <1>4
     DEF AddMember, RemoveMember, VerifyDocument, RenewDocument, Age
<1>5. CASE SubmitDocument \/ CheckExpiring \/ CheckExpired \/ SendToArea
  BY <1>1, <1>2, <1>5 DEF SubmitDocument, CheckExpiring, CheckExpired, SendToArea
<1>6. CASE CreateRating \/ ReviseRating
  BY <1>1, <1>2, <1>3, <1>6 DEF CreateRating, ReviseRating
<1>7. CASE WriteStatus
  BY <1>1, <1>2, <1>3, <1>7 DEF WriteStatus
<1>8. CASE WriteBegin \/ ViewRating \/ DeleteRating
           \/ \E s \in Status : DecideRating(s)
  BY <1>3, <1>8 DEF WriteBegin, ViewRating, DeleteRating, DecideRating
<1>9. QED
  BY <1>4, <1>5, <1>6, <1>7, <1>8 DEF Call

-----------------------------------------------------------------------------
\* A row of defaults answers as no row does.
LEMMA DefaultsAlike ==
  ASSUME Typed, NEW u \in User, prefs[u] = None, prefs' = [prefs EXCEPT ![u] = Types]
  PROVE  \A k \in Kinds : OnFor(prefs', k) = OnFor(prefs, k)
<1>1. \A v \in User : prefs'[v] = IF v = u THEN Types ELSE prefs[v]
  BY DEF Typed
<1>2. QED
  BY <1>1 DEF OnFor, IsOn

\* Users who neither launch nor run dispatches change what they owe in three
\* ways: by a change of the preferences, by connecting, and not at all.
LEMMA ClientKeeps == ASSUME JInv, NEW u \in User, Client(u) PROVE JInv'
<1>1. UNCHANGED <<job, pushed, told, token>> /\ Sent' = Sent
  BY DEF Client, EditBegin, EditCreate, EditWrite, Connect, Disconnect, ReadEvent,
     ReadAll, DeleteEvent, DeleteAll, UserFrame, Sent
<1>2. job \in [Job -> Dispatch] /\ \A j \in Job : job[j].kind \in Kinds
  BY DEF JInv, Typed, Dispatch
<1>3. ASSUME Typed', \A k \in Kinds : OnFor(prefs', k) = OnFor(prefs, k),
             online' \subseteq online, on' = on, steady' = steady, there' = there
      PROVE  JInv'
  <2>1. \A j \in Job : Sound(j)'
    BY <1>1, <1>2, <1>3 DEF JInv, Sound, Owed, Ahead, Reachable
  <2>2. QED
    BY <1>1, <1>3, <2>1 DEF JInv
<1>4. CASE \E t \in Types, v \in BOOLEAN : EditBegin(u, t, v)
  <2>1. PICK t \in Types, v \in BOOLEAN : EditBegin(u, t, v)
    BY <1>4
  <2> DEFINE q == [pc |-> IF prefs[u] = None THEN "new" ELSE "write", type |-> t, value |-> v]
  <2>2. q \in Edit /\ (q.pc = "write" => prefs[u] # None)
    BY DEF Edit
  <2>3. edit' = [edit EXCEPT ![u] = q] /\ UNCHANGED <<prefs, online, on, steady, there>>
    BY <2>1 DEF EditBegin, aux
  <2> HIDE DEF q
  <2>4. Typed'
    BY <1>1, <2>2, <2>3 DEF JInv, Typed
  <2>5. QED
    BY <1>3, <2>3, <2>4
<1>5. CASE EditCreate(u)
  <2> DEFINE q == [edit[u] EXCEPT !.pc = IF prefs[u] = None THEN "write" ELSE "idle"]
  <2>1. edit[u] \in Edit /\ edit \in [User -> Edit]
    BY DEF JInv, Typed
  <2>2. q \in Edit /\ (q.pc = "write" => prefs[u] = None)
    BY <2>1 DEF Edit
  <2>3. edit' = [edit EXCEPT ![u] = q] /\ UNCHANGED <<online, on, steady, there>>
        /\ prefs' = [prefs EXCEPT ![u] = IF prefs[u] = None THEN Types ELSE prefs[u]]
    BY <1>5, <2>1 DEF EditCreate, aux
  <2> HIDE DEF q
  <2>4. \A v \in User : prefs'[v] = IF v = u /\ prefs[u] = None THEN Types ELSE prefs[v]
    BY <2>3 DEF JInv, Typed
  <2>5. None # Types
    BY ConstantsAssumption
  <2>6. Typed'
    BY <1>1, <2>2, <2>3, <2>4, <2>5 DEF JInv, Typed
  <2>7. \A k \in Kinds : OnFor(prefs', k) = OnFor(prefs, k)
    BY <2>4 DEF OnFor, IsOn
  <2>8. QED
    BY <1>3, <2>3, <2>6, <2>7
<1>6. CASE EditWrite(u)
  <2>1. /\ prefs[u] \in SUBSET Types /\ edit[u].type \in Types /\ prefs[u] # None
        /\ edit \in [User -> Edit]
    BY <1>6 DEF EditWrite, JInv, Typed, Edit
  <2>2. NoEdit \in Edit /\ NoEdit.pc = "idle"
    BY DEF NoEdit, Edit, Types
  <2>3. /\ edit' = [edit EXCEPT ![u] = NoEdit]
        /\ prefs' = [prefs EXCEPT ![u] = IF edit[u].value THEN prefs[u] \cup {edit[u].type}
                                         ELSE prefs[u] \ {edit[u].type}]
        /\ online' = online /\ there' = there
    BY <1>6 DEF EditWrite
  <2>4. /\ prefs' \in [User -> {None} \cup SUBSET Types]
        /\ \A v \in User : edit'[v].pc = "write" => edit[v].pc = "write" /\ v # u
        /\ \A v \in User : v # u => prefs'[v] = prefs[v]
    BY <2>1, <2>2, <2>3 DEF JInv, Typed
  <2>5. \A j \in Job :
          /\ on'[j] = IF j \in InFlight THEN on[j] \cup OnFor(prefs', job[j].kind) ELSE on[j]
          /\ steady'[j] = IF j \in InFlight THEN steady[j] \cap OnFor(prefs', job[j].kind)
                          ELSE steady[j]
    BY <1>6 DEF EditWrite
  <2>6. on' \in [Job -> SUBSET User] /\ steady' \in [Job -> SUBSET User]
    BY <1>6, OnForUsers DEF EditWrite, JInv, Typed
  <2>7. Typed'
    BY <1>1, <2>2, <2>3, <2>4, <2>6 DEF JInv, Typed
  <2>8. \A j \in Job : on[j] \subseteq on'[j] /\ steady'[j] \subseteq steady[j]
    BY <2>5
  <2>9. ASSUME NEW j \in Job PROVE Sound(j)'
    <3>1. job[j].pc \in Asking => j \in InFlight
      BY DEF InFlight, Launched, At, Asking, Visiting
    <3>2. Owed(j)' \subseteq Owed(j) /\ Ahead(j)' = Ahead(j)
      BY <1>1, <2>3, <2>8 DEF Owed, Ahead, Reachable
    <3>3. Sound(j)
      BY DEF JInv
    <3>4. QED
      BY <1>1, <2>3, <2>5, <2>8, <3>1, <3>2, <3>3 DEF Sound
  <2>10. QED
    BY <1>1, <2>7, <2>8, <2>9 DEF JInv
<1>7. CASE Connect(u)
  <2>1. /\ UNCHANGED <<prefs, edit, on, steady>> /\ online' = online \cup {u}
        /\ \A j \in Job : there'[j] = IF j \in InFlight /\ job[j].kind = "area"
                                      THEN there[j] \cup {u} ELSE there[j]
    BY <1>7 DEF Connect
  <2>2. Typed'
    BY <1>1, <1>7, <2>1 DEF Connect, JInv, Typed
  <2>3. ASSUME NEW j \in Job PROVE Sound(j)'
    <3>1. job[j].pc \in Asking => j \in InFlight
      BY DEF InFlight, Launched, At, Asking, Visiting
    <3>2. Owed(j)' \subseteq Owed(j) /\ Ahead(j)' = Ahead(j)
      BY <1>1, <2>1 DEF Owed, Ahead, Reachable
    <3>3. Sound(j)
      BY DEF JInv
    <3>4. QED
      BY <1>1, <2>1, <3>1, <3>2, <3>3 DEF Sound
  <2>4. QED
    BY <1>1, <2>1, <2>2, <2>3 DEF JInv
<1>8. CASE Disconnect(u)
  <2>1. UNCHANGED <<prefs, edit, on, steady, there>> /\ online' = online \ {u}
    BY <1>8 DEF Disconnect, aux
  <2>2. Typed'
    BY <1>1, <2>1 DEF JInv, Typed
  <2>3. QED
    BY <1>3, <2>1, <2>2
<1>9. CASE \/ \E e \in events : ReadEvent(u, e) \/ DeleteEvent(u, e)
           \/ ReadAll(u) \/ DeleteAll(u)
  <2>1. UNCHANGED <<prefs, edit, online, on, steady, there>>
    BY <1>9 DEF ReadEvent, DeleteEvent, ReadAll, DeleteAll, aux
  <2>2. Typed'
    BY <1>1, <2>1 DEF JInv, Typed
  <2>3. QED
    BY <1>3, <2>1, <2>2
<1>10. QED
  BY <1>4, <1>5, <1>6, <1>7, <1>8, <1>9 DEF Client

-----------------------------------------------------------------------------
\* One dispatch takes a step, to the record q, and may tell the user it is at.
\* The others are as they were, if preferences go on answering alike.
Moves(j, q) ==
  /\ job' = [job EXCEPT ![j] = q]
  /\ q.kind = job[j].kind
  /\ UNCHANGED <<edit, token, online, there>> /\ told \subseteq told'
  /\ prefs' \in [User -> {None} \cup SUBSET Types]
  /\ \A u \in User : prefs[u] # None => prefs'[u] # None
  /\ \A k \in Kinds : OnFor(prefs', k) = OnFor(prefs, k)

LEMMA OthersSound ==
  ASSUME JInv, NEW j \in Job, NEW q \in Dispatch, Moves(j, q),
         NEW i \in Job, i # j, on'[i] = on[i], steady'[i] = steady[i]
  PROVE  Sound(i)'
<1>1. job'[i] = job[i] /\ job[i].kind \in Kinds
  BY DEF Moves, JInv, Typed, Dispatch
<1>2. Sound(i)
  BY DEF JInv
<1>3. Owed(i)' = Owed(i) /\ Ahead(i)' = Ahead(i)
  BY <1>1 DEF Moves, Owed, Ahead, Reachable
<1>4. QED
  BY <1>1, <1>2, <1>3 DEF Moves, Sound

\* A step keeps the invariant if it asks only where it asked before, goes on
\* only for a user who had the type on, and forgets nobody.
LEMMA StepKeeps ==
  ASSUME JInv, NEW j \in Job, NEW q \in Dispatch, Moves(j, q), UNCHANGED <<on, steady>>,
         \A e \in Sent' : e \in Sent \/ (e = <<j, job[j].user>> /\ job[j].pc \in Visiting),
         q.pc \in {"next", "done"} \cup Visiting,
         q.pc \in Asking => job[j].pc \in Asking,
         q.pc = "user" => q.kind \in {"rating", "verified"} \cup News,
         q.pc \in Visiting => q.user \in User /\ q.user \in on[j],
         \A u \in Owed(j)' : u \in Ahead(j)' \/ <<j, u>> \in told'
  PROVE  JInv'
<1>1. job'[j] = q /\ q.kind \in Kinds /\ Sound(j)
  BY DEF Moves, JInv, Typed, Dispatch
<1>2. Typed'
  BY DEF Moves, JInv, Typed
<1>3. Sound(j)'
  BY <1>1 DEF Moves, Sound, Visiting, Asking
<1>4. \A i \in Job : i # j => Sound(i)'
  BY OthersSound
<1>5. ASSUME NEW e \in Sent'
      PROVE  /\ e \in Job \X User /\ e[2] \in on'[e[1]]
             /\ job'[e[1]].pc \notin {"idle", "count"}
  <2>1. q.pc \notin {"idle", "count"}
    BY DEF Visiting
  <2>2. CASE e \in Sent
    BY <1>1, <2>1, <2>2 DEF Moves, JInv, Typed
  <2>3. CASE e = <<j, job[j].user>> /\ job[j].pc \in Visiting
    BY <1>1, <2>1, <2>3 DEF Sound
  <2>4. QED
    BY <2>2, <2>3
<1>6. QED
  BY <1>2, <1>3, <1>4, <1>5 DEF JInv

\* After the list a dispatch forgets nobody if whoever is no longer ahead was
\* told, or a call for it was rejected.
LEMMA StepOwed ==
  ASSUME JInv, NEW j \in Job, NEW q \in Dispatch, Moves(j, q), steady' = steady,
         job[j].pc \in PastList, q.for = job[j].for, job[j].failed \subseteq q.failed,
         \A u \in Owed(j) \cap Ahead(j) :
           u \in Ahead(j)' \/ <<j, u>> \in told' \/ u \in q.failed
  PROVE  \A u \in Owed(j)' : u \in Ahead(j)' \/ <<j, u>> \in told'
<1>1. job'[j] = q /\ Sound(j) /\ told \subseteq told'
  BY DEF Moves, JInv, Typed
<1>2. Owed(j)' \subseteq Owed(j) \ q.failed
  BY <1>1 DEF Moves, Owed, Reachable
<1>3. \A u \in Owed(j) : u \in Ahead(j) \/ <<j, u>> \in told
  BY <1>1 DEF Sound
<1>4. QED
  BY <1>1, <1>2, <1>3

LEMMA AllowedPoint ==
  \A k \in Kinds : /\ Allowed(k) \in {"user", "event", "presence"}
                   /\ Allowed(k) = "user" => k \in {"rating", "verified"} \cup News
                   /\ Allowed(k) = "presence" => k = "area"
BY DEF Kinds, TypeOf, News, Allowed

\* The record a step leads to.
Moved(r, p, u, t, f) == [r EXCEPT !.pc = p, !.user = u, !.todo = t, !.failed = f]

\* A step after the list, in terms of the fields it sets.
Steps(j, p, u, t, f) ==
  /\ job' = [job EXCEPT ![j] = Moved(job[j], p, u, t, f)]
  /\ UNCHANGED <<edit, token, online, on, steady, there>>
SamePrefs == prefs' = prefs
SameSent  == told' = told /\ pushed' = pushed

LEMMA PastStep ==
  ASSUME JInv, NEW j \in Job, NEW p \in {"next", "done"} \cup Visiting,
         NEW u \in User \cup {None}, NEW t \in SUBSET User, NEW f \in SUBSET User,
         Steps(j, p, u, t, f), told \subseteq told',
         prefs' \in [User -> {None} \cup SUBSET Types],
         \A v \in User : prefs[v] # None => prefs'[v] # None,
         \A k \in Kinds : OnFor(prefs', k) = OnFor(prefs, k),
         \A e \in Sent' : e \in Sent \/ (e = <<j, job[j].user>> /\ job[j].pc \in Visiting),
         job[j].pc \in {"next"} \cup Visiting,
         p = "user" => job[j].kind \in {"rating", "verified"} \cup News,
         p \in Visiting => u \in User /\ u \in on[j],
         job[j].failed \subseteq f,
         \A v \in Owed(j) \cap Ahead(j) :
           \/ p # "done" /\ v \in t
           \/ v = u /\ \/ p \in {"new", "user", "event"}
                       \/ p \in {"presence", "push"} /\ job[j].kind = "area"
           \/ <<j, v>> \in told' \/ v \in f
  PROVE  JInv'
<1> DEFINE q == Moved(job[j], p, u, t, f)
<1>1. /\ q \in Dispatch /\ q.pc = p /\ q.kind = job[j].kind /\ q.user = u
      /\ q.todo = t /\ q.for = job[j].for /\ q.failed = f
  <2> DEFINE r == job[j]
  <2>1. r \in Dispatch
    BY DEF JInv, Typed
  <2>2. p \in {"idle", "count", "list", "next", "new", "user", "event",
               "presence", "push", "done"}
    BY DEF Visiting
  <2> HIDE DEF r
  <2>3. Moved(r, p, u, t, f) \in Dispatch
    BY <2>1, <2>2 DEF Moved, Dispatch
  <2>4. /\ Moved(r, p, u, t, f).pc = p /\ Moved(r, p, u, t, f).kind = r.kind
        /\ Moved(r, p, u, t, f).user = u /\ Moved(r, p, u, t, f).todo = t
        /\ Moved(r, p, u, t, f).for = r.for /\ Moved(r, p, u, t, f).failed = f
    BY <2>1 DEF Moved, Dispatch
  <2>5. QED
    BY <2>3, <2>4 DEF r
<1>2. job' = [job EXCEPT ![j] = q] /\ UNCHANGED <<edit, token, online, on, steady, there>>
  BY DEF Steps
<1> HIDE DEF q
<1>3. Moves(j, q)
  BY <1>1, <1>2 DEF Moves
<1>4. job'[j] = q
  BY <1>2 DEF JInv, Typed
<1>5. \A v \in Owed(j) \cap Ahead(j) :
        v \in Ahead(j)' \/ <<j, v>> \in told' \/ v \in q.failed
  BY <1>1, <1>4 DEF Ahead
<1>6. \A v \in Owed(j)' : v \in Ahead(j)' \/ <<j, v>> \in told'
  BY <1>1, <1>2, <1>3, <1>5, StepOwed DEF PastList
<1>7. q.pc \in Asking => job[j].pc \in Asking
  BY DEF Asking
<1>8. QED
  BY <1>1, <1>2, <1>3, <1>6, <1>7, StepKeeps

\* The same where preferences and messages stay as they are.
LEMMA QuietStep ==
  ASSUME JInv, NEW j \in Job, NEW p \in {"next", "done"} \cup Visiting,
         NEW u \in User \cup {None}, NEW t \in SUBSET User, NEW f \in SUBSET User,
         Steps(j, p, u, t, f), SameSent, SamePrefs,
         job[j].pc \in {"next"} \cup Visiting,
         p = "user" => job[j].kind \in {"rating", "verified"} \cup News,
         p \in Visiting => u \in User /\ u \in on[j],
         job[j].failed \subseteq f,
         \A v \in Owed(j) \cap Ahead(j) :
           \/ p # "done" /\ v \in t
           \/ v = u /\ \/ p \in {"new", "user", "event"}
                       \/ p \in {"presence", "push"} /\ job[j].kind = "area"
           \/ v \in f
  PROVE  JInv'
<1>1. prefs' \in [User -> {None} \cup SUBSET Types] /\ prefs' = prefs
  BY DEF SamePrefs, JInv, Typed
<1>2. \A k \in Kinds : OnFor(prefs', k) = OnFor(prefs, k)
  BY <1>1
<1>3. told' = told /\ Sent' = Sent
  BY DEF SameSent, Sent
<1>4. \A v \in User : prefs[v] # None => prefs'[v] # None
  BY <1>1
<1>5. told \subseteq told'
  BY <1>3
<1>6. QED
  BY <1>1, <1>2, <1>3, <1>4, <1>5, PastStep, Zenon

LEMMA FieldTypes ==
  ASSUME JInv, NEW j \in Job
  PROVE  /\ job[j] \in Dispatch /\ job[j].kind \in Kinds
         /\ job[j].user \in User \cup {None} /\ job[j].todo \in SUBSET User
         /\ job[j].for \in SUBSET User /\ job[j].failed \in SUBSET User
         /\ Sound(j)
BY DEF JInv, Typed, Dispatch

\* EXCEPT on some of the fields sets the others to what they are.
LEMMA MovedFields ==
  ASSUME NEW r \in Dispatch, NEW p, NEW u
  PROVE  /\ [r EXCEPT !.pc = p] = Moved(r, p, r.user, r.todo, r.failed)
         /\ [r EXCEPT !.pc = p, !.user = u] = Moved(r, p, u, r.todo, r.failed)
BY DEF Moved, Dispatch

LEMMA VisitMoves ==
  ASSUME JInv, NEW j \in Job, NEW p, Visit(j, p)
  PROVE  job' = [job EXCEPT ![j] = Moved(job[j], p, job[j].user, job[j].todo, job[j].failed)]
<1>1. job' = [job EXCEPT ![j] = [job[j] EXCEPT !.pc = p]]
  BY DEF Visit
<1>2. QED
  BY <1>1, FieldTypes, MovedFields

LEMMA SkipMoves ==
  ASSUME JInv, NEW j \in Job, Skip(j)
  PROVE  job' = [job EXCEPT ![j] = Moved(job[j], "next", None, job[j].todo, job[j].failed)]
<1>1. job' = [job EXCEPT ![j] = [job[j] EXCEPT !.pc = "next", !.user = None]]
  BY DEF Skip
<1>2. QED
  BY <1>1, FieldTypes, MovedFields

-----------------------------------------------------------------------------
LEMMA EndKeeps == ASSUME JInv, NEW j \in Job, JobEnd(j) PROVE JInv'
<1>1. /\ job[j].pc = "next" /\ job[j].todo = {} /\ SameSent /\ SamePrefs
      /\ UNCHANGED <<edit, token, online, on, steady, there>>
  BY DEF JobEnd, At, SameSent, SamePrefs, Frame, users, aux
<1>2. Steps(j, "done", job[j].user, job[j].todo, job[j].failed)
  BY <1>1, VisitMoves DEF JobEnd, Steps
<1>3. Ahead(j) = {}
  BY <1>1 DEF Ahead
<1>4. QED
  BY <1>1, <1>2, <1>3, FieldTypes, QuietStep DEF Visiting

\* The user visited is read, asked for presence, told: the dispatch goes on for
\* it or passes it over for good.
LEMMA UserKeeps == ASSUME JInv, NEW j \in Job, JobUser(j) PROVE JInv'
<1>1. /\ job[j].pc = "user" /\ SameSent /\ SamePrefs
      /\ UNCHANGED <<edit, token, online, on, steady, there>>
  BY DEF JobUser, At, SameSent, SamePrefs, Frame, users, aux
<1>2. /\ job[j].user \in User /\ job[j].user \in on[j]
      /\ job[j].kind \in {"rating", "verified"} \cup News
  BY <1>1, FieldTypes DEF Sound, Visiting
<1>3. CASE job[j].user \in token \/ job[j].kind \in News
  <2>1. Steps(j, "event", job[j].user, job[j].todo, job[j].failed)
    BY <1>1, <1>3, VisitMoves DEF JobUser, Steps
  <2>2. Ahead(j) = job[j].todo \cup {job[j].user}
    BY <1>1 DEF Ahead
  <2>3. QED
    BY <1>1, <1>2, <2>1, <2>2, FieldTypes, QuietStep DEF Visiting
<1>4. CASE ~(job[j].user \in token \/ job[j].kind \in News)
  <2>1. Steps(j, "next", None, job[j].todo, job[j].failed)
    BY <1>1, <1>4, SkipMoves DEF JobUser, Steps
  <2>2. Ahead(j) = job[j].todo \cup {job[j].user}
    BY <1>1 DEF Ahead
  <2>3. job[j].user \notin Owed(j)
    BY <1>2, <1>4 DEF Owed, Reachable
  <2>4. QED
    BY <1>1, <2>1, <2>2, <2>3, FieldTypes, QuietStep DEF Visiting
<1>5. QED
  BY <1>3, <1>4

LEMMA PresenceKeeps == ASSUME JInv, NEW j \in Job, JobPresence(j) PROVE JInv'
<1>1. /\ job[j].pc = "presence" /\ SameSent /\ SamePrefs
      /\ UNCHANGED <<edit, token, online, on, steady, there>>
  BY DEF JobPresence, At, SameSent, SamePrefs, Frame, users, aux
<1>2. /\ job[j].user \in User /\ job[j].user \in on[j]
      /\ job[j].kind = "area" => online \subseteq there[j]
  BY <1>1, FieldTypes DEF Sound, Visiting, Asking
<1>3. Ahead(j) = job[j].todo \cup IF job[j].kind = "area" THEN {job[j].user} ELSE {}
  BY <1>1 DEF Ahead
<1>4. CASE job[j].user \in online \/ job[j].user \notin token
  <2>1. Steps(j, "next", None, job[j].todo, job[j].failed)
    BY <1>1, <1>4, SkipMoves DEF JobPresence, Steps
  <2>2. Owed(j) \cap Ahead(j) \subseteq job[j].todo
    BY <1>2, <1>3, <1>4 DEF Owed, Reachable, News
  <2>3. QED
    BY <1>1, <2>1, <2>2, FieldTypes, QuietStep DEF Visiting
<1>5. CASE ~(job[j].user \in online \/ job[j].user \notin token)
  <2>1. Steps(j, "push", job[j].user, job[j].todo, job[j].failed)
    BY <1>1, <1>5, VisitMoves DEF JobPresence, Steps
  <2>2. QED
    BY <1>1, <1>2, <1>3, <2>1, FieldTypes, QuietStep DEF Visiting
<1>6. QED
  BY <1>4, <1>5

LEMMA PushKeeps == ASSUME JInv, NEW j \in Job, JobPush(j) PROVE JInv'
<1>1. /\ job[j].pc = "push" /\ told' = told /\ prefs' = prefs
      /\ UNCHANGED <<edit, token, online, on, steady, there>>
  BY DEF JobPush, At, Frame, users, aux
<1>2. /\ job[j].user \in User /\ job[j].user \in on[j]
  BY <1>1, FieldTypes DEF Sound, Visiting
<1>3. Ahead(j) = job[j].todo \cup IF job[j].kind = "area" THEN {job[j].user} ELSE {}
  BY <1>1 DEF Ahead
<1>4. \A e \in Sent' : e \in Sent \/ (e = <<j, job[j].user>> /\ job[j].pc \in Visiting)
  BY <1>1 DEF JobPush, Sent, Visiting
<1>5. prefs' \in [User -> {None} \cup SUBSET Types]
      /\ (\A k \in Kinds : OnFor(prefs', k) = OnFor(prefs, k))
      /\ (\A v \in User : prefs[v] # None => prefs'[v] # None)
  BY <1>1 DEF JInv, Typed
<1>6. CASE job[j].kind = "area"
  <2>1. Steps(j, "event", job[j].user, job[j].todo, job[j].failed)
    BY <1>1, <1>6, VisitMoves DEF JobPush, Steps
  <2>2. QED
    BY <1>1, <1>2, <1>3, <1>4, <1>5, <2>1, FieldTypes, PastStep DEF Visiting
<1>7. CASE job[j].kind # "area"
  <2>1. Steps(j, "next", None, job[j].todo, job[j].failed)
    BY <1>1, <1>7, SkipMoves DEF JobPush, Steps
  <2>2. QED
    BY <1>1, <1>3, <1>4, <1>5, <1>7, <2>1, FieldTypes, PastStep DEF Visiting
<1>8. QED
  BY <1>6, <1>7

LEMMA EventKeeps == ASSUME JInv, NEW j \in Job, JobEvent(j) PROVE JInv'
<1>1. /\ job[j].pc = "event" /\ told' = told \cup {<<j, job[j].user>>} /\ pushed' = pushed
      /\ prefs' = prefs /\ UNCHANGED <<edit, token, online, on, steady, there>>
  BY DEF JobEvent, At, Frame, users, aux
<1>2. /\ job[j].user \in User /\ job[j].user \in on[j]
  BY <1>1, FieldTypes DEF Sound, Visiting
<1>3. Ahead(j) = job[j].todo \cup {job[j].user}
  BY <1>1 DEF Ahead
<1>4. \A e \in Sent' : e \in Sent \/ (e = <<j, job[j].user>> /\ job[j].pc \in Visiting)
  BY <1>1 DEF Sent, Visiting
<1>5. prefs' \in [User -> {None} \cup SUBSET Types]
      /\ (\A k \in Kinds : OnFor(prefs', k) = OnFor(prefs, k))
      /\ (\A v \in User : prefs[v] # None => prefs'[v] # None)
  BY <1>1 DEF JInv, Typed
<1>6. told \subseteq told' /\ <<j, job[j].user>> \in told'
  BY <1>1
<1>7. CASE job[j].kind # "area" /\ job[j].user \in token
  <2>1. Steps(j, "presence", job[j].user, job[j].todo, job[j].failed)
    BY <1>1, <1>7, VisitMoves DEF JobEvent, Steps
  <2>2. QED
    BY <1>1, <1>2, <1>3, <1>4, <1>5, <1>6, <2>1, FieldTypes, PastStep DEF Visiting
<1>8. CASE ~(job[j].kind # "area" /\ job[j].user \in token)
  <2>1. Steps(j, "next", None, job[j].todo, job[j].failed)
    BY <1>1, <1>8, SkipMoves DEF JobEvent, Steps
  <2>2. QED
    BY <1>1, <1>3, <1>4, <1>5, <1>6, <2>1, FieldTypes, PastStep DEF Visiting
<1>9. QED
  BY <1>7, <1>8

LEMMA PrefsKeeps == ASSUME JInv, NEW j \in Job, NEW u \in User, JobPrefs(j, u) PROVE JInv'
<1> DEFINE enabled == IsOn(prefs, u, TypeOf[job[j].kind])
           t == job[j].todo \ {u}
           v == IF enabled THEN u ELSE None
           p == IF prefs[u] = None THEN "new"
                ELSE IF enabled THEN Allowed(job[j].kind) ELSE "next"
<1>1. /\ job[j].pc = "next" /\ u \in job[j].todo /\ SameSent /\ SamePrefs
      /\ UNCHANGED <<edit, token, online, on, steady, there>>
  BY DEF JobPrefs, At, SameSent, SamePrefs, Frame, users, aux
<1>2. job' = [job EXCEPT ![j] = [job[j] EXCEPT !.todo = t, !.user = v, !.pc = p]]
  BY DEF JobPrefs
<1>3. /\ enabled <=> u \in OnFor(prefs, job[j].kind)
      /\ prefs[u] = None => enabled
  BY DEF OnFor, IsOn
<1>4. /\ OnFor(prefs, job[j].kind) \subseteq on[j]
      /\ steady[j] \subseteq OnFor(prefs, job[j].kind)
  BY <1>1, FieldTypes DEF Sound, Asking
<1>5. IF enabled THEN p = "new" \/ p = Allowed(job[j].kind) ELSE p = "next"
  BY <1>3
<1>6. /\ v \in User \cup {None} /\ t \in SUBSET User /\ job[j].todo \subseteq t \cup {u}
      /\ IF enabled THEN v = u ELSE v = None
  BY FieldTypes
<1>7. Ahead(j) = job[j].todo /\ job[j].todo \subseteq User
  BY <1>1, FieldTypes DEF Ahead
<1> HIDE DEF enabled, t, v, p
<1>8. Steps(j, p, v, t, job[j].failed)
  <2>1. job[j] \in Dispatch
    BY FieldTypes
  <2>2. [job[j] EXCEPT !.todo = t, !.user = v, !.pc = p] = Moved(job[j], p, v, t, job[j].failed)
    <3> DEFINE r == job[j]
    <3>1. r \in Dispatch
      BY <2>1
    <3> HIDE DEF r
    <3>2. [r EXCEPT !.todo = t, !.user = v, !.pc = p] = Moved(r, p, v, t, r.failed)
      BY <3>1 DEF Moved, Dispatch
    <3>3. QED
      BY <3>2 DEF r
  <2>3. QED
    BY <1>1, <1>2, <2>2 DEF Steps
<1>9. CASE enabled
  <2>1. p \in {"new", "user", "event"} \/ (p = "presence" /\ job[j].kind = "area")
    BY <1>5, <1>9, FieldTypes, AllowedPoint
  <2>2. p = "user" => job[j].kind \in {"rating", "verified"} \cup News
    BY <1>5, <1>9, FieldTypes, AllowedPoint
  <2>3. v = u /\ v \in on[j] /\ p \in {"next", "done"} \cup Visiting
    BY <1>3, <1>4, <1>6, <1>9, <2>1 DEF Visiting
  <2>4. \A w \in Owed(j) \cap Ahead(j) :
          \/ p # "done" /\ w \in t
          \/ w = v /\ \/ p \in {"new", "user", "event"}
                      \/ p \in {"presence", "push"} /\ job[j].kind = "area"
          \/ w \in job[j].failed
    BY <1>6, <1>7, <2>1, <2>3
  <2>5. p \in Visiting => v \in User /\ v \in on[j]
    BY <2>3
  <2>6. /\ job[j].pc \in {"next"} \cup Visiting
        /\ job[j].failed \in SUBSET User /\ job[j].failed \subseteq job[j].failed
    BY <1>1, FieldTypes
  <2>7. p \in {"next", "done"} \cup Visiting /\ v \in User \cup {None} /\ t \in SUBSET User
        /\ SameSent /\ SamePrefs
    BY <1>1, <1>6, <2>3
  <2>8. QED
    BY <1>8, <2>2, <2>4, <2>5, <2>6, <2>7, QuietStep
<1>10. CASE ~enabled
  <2>1. p = "next" /\ v = None /\ p \notin Visiting
    BY <1>5, <1>6, <1>10 DEF Visiting
  <2>2. u \notin Owed(j)
    BY <1>3, <1>4, <1>10 DEF Owed
  <2>3. Owed(j) \cap Ahead(j) \subseteq t
    BY <1>6, <1>7, <2>2
  <2>4. \A w \in Owed(j) \cap Ahead(j) :
          \/ p # "done" /\ w \in t
          \/ w = v /\ \/ p \in {"new", "user", "event"}
                      \/ p \in {"presence", "push"} /\ job[j].kind = "area"
          \/ w \in job[j].failed
    BY <2>1, <2>3
  <2>5. p = "user" => job[j].kind \in {"rating", "verified"} \cup News
    BY <2>1
  <2>6. p \in Visiting => v \in User /\ v \in on[j]
    BY <2>1
  <2>7. /\ job[j].pc \in {"next"} \cup Visiting
        /\ job[j].failed \in SUBSET User /\ job[j].failed \subseteq job[j].failed
    BY <1>1, FieldTypes
  <2>8. p \in {"next", "done"} \cup Visiting /\ v \in User \cup {None} /\ t \in SUBSET User
        /\ SameSent /\ SamePrefs
    BY <1>1, <1>6, <2>1
  <2>9. QED
    BY <1>8, <2>4, <2>5, <2>6, <2>7, <2>8, QuietStep
<1>11. QED
  BY <1>9, <1>10

\* The row is created, with defaults that answer as no row did; or somebody
\* else created it, and the user is given up.
LEMMA NewPrefsKeeps == ASSUME JInv, NEW j \in Job, JobNewPrefs(j) PROVE JInv'
<1>1. /\ job[j].pc = "new" /\ told' = told /\ pushed' = pushed
      /\ UNCHANGED <<edit, token, online, on, steady, there>>
  BY DEF JobNewPrefs, At, aux
<1>2. job[j].user \in User /\ job[j].user \in on[j] /\ Sent' = Sent
  BY <1>1, FieldTypes DEF Sound, Visiting, Sent
<1>3. Ahead(j) = job[j].todo \cup {job[j].user}
  BY <1>1 DEF Ahead
<1>4. CASE prefs[job[j].user] = None
  <2> DEFINE p == Allowed(job[j].kind)
  <2>1. prefs' = [prefs EXCEPT ![job[j].user] = Types] /\ Visit(j, p)
    BY <1>4 DEF JobNewPrefs
  <2>2. /\ p \in {"user", "event", "presence"}
        /\ p = "user" => job[j].kind \in {"rating", "verified"} \cup News
        /\ p = "presence" => job[j].kind = "area"
    BY FieldTypes, AllowedPoint
  <2> HIDE DEF p
  <2>3. Steps(j, p, job[j].user, job[j].todo, job[j].failed)
    BY <1>1, <2>1, VisitMoves DEF Steps
  <2>4. /\ prefs' \in [User -> {None} \cup SUBSET Types]
        /\ \A w \in User : prefs[w] # None => prefs'[w] # None
    BY <1>2, <1>4, <2>1 DEF JInv, Typed
  <2>5. \A k \in Kinds : OnFor(prefs', k) = OnFor(prefs, k)
    BY <1>2, <1>4, <2>1, DefaultsAlike DEF JInv
  <2>6. p \in {"next", "done"} \cup Visiting /\ job[j].pc \in Visiting
    BY <1>1, <2>2 DEF Visiting
  <2>7. \A w \in Owed(j) \cap Ahead(j) :
          \/ p # "done" /\ w \in job[j].todo
          \/ w = job[j].user /\ \/ p \in {"new", "user", "event"}
                                \/ p \in {"presence", "push"} /\ job[j].kind = "area"
          \/ <<j, w>> \in told' \/ w \in job[j].failed
    BY <1>3, <2>2
  <2>8. QED
    BY <1>1, <1>2, <2>2, <2>3, <2>4, <2>5, <2>6, <2>7, FieldTypes, PastStep
<1>5. CASE prefs[job[j].user] # None
  <2> DEFINE f == job[j].failed \cup {job[j].user}
  <2>1. job' = [job EXCEPT ![j] = [job[j] EXCEPT !.pc = "next", !.user = None, !.failed = f]]
    BY <1>5 DEF JobNewPrefs
  <2>2. SamePrefs /\ SameSent
    BY <1>1, <1>5 DEF JobNewPrefs, SamePrefs, SameSent
  <2>3. f \in SUBSET User /\ job[j].failed \subseteq f /\ job[j].user \in f
    BY <1>2, FieldTypes
  <2> HIDE DEF f
  <2>4. Steps(j, "next", None, job[j].todo, f)
    <3>1. job[j] \in Dispatch
      BY FieldTypes
    <3>2. [job[j] EXCEPT !.pc = "next", !.user = None, !.failed = f]
            = Moved(job[j], "next", None, job[j].todo, f)
      <4> DEFINE r == job[j]
      <4>1. r \in Dispatch
        BY <3>1
      <4> HIDE DEF r
      <4>2. [r EXCEPT !.pc = "next", !.user = None, !.failed = f]
              = Moved(r, "next", None, r.todo, f)
        BY <4>1 DEF Moved, Dispatch
      <4>3. QED
        BY <4>2 DEF r
    <3>3. QED
      BY <1>1, <2>1, <3>2 DEF Steps
  <2>5. QED
    BY <1>1, <1>3, <2>2, <2>3, <2>4, FieldTypes, QuietStep DEF Visiting
<1>6. QED
  BY <1>4, <1>5

LEMMA ListKeeps == ASSUME JInv, NEW j \in Job, JobList(j) PROVE JInv'
<1> DEFINE us == Listed(job[j].kind)
           fs == MeantFor(job[j].kind)
           q == [job[j] EXCEPT !.pc = "next", !.todo = us, !.for = fs]
<1>1. /\ job[j].pc = "list" /\ told' = told /\ pushed' = pushed /\ prefs' = prefs
      /\ UNCHANGED <<edit, token, online, on, steady, there>>
  BY DEF JobList, At, Frame, users, aux
<1>2. us \in SUBSET User /\ fs \in SUBSET User
  <2>1. job[j].kind \in Listing
    BY <1>1, FieldTypes DEF Sound
  <2>2. /\ Admin \subseteq User /\ Near \subseteq User /\ ExpiringOwners \subseteq User
        /\ ExpiredOwners \subseteq User
    BY ConstantsAssumption DEF ExpiringOwners, ExpiredOwners, JInv, Typed
  <2>3. QED
    BY <2>1, <2>2 DEF Listed, Listing, MeantFor
<1>2a. job[j].kind # "expired" => fs = us
  BY DEF MeantFor
<1>3. job' = [job EXCEPT ![j] = q]
  BY DEF JobList
<1> HIDE DEF us, fs
<1>4. /\ q \in Dispatch /\ q.pc = "next" /\ q.kind = job[j].kind /\ q.todo = us /\ q.for = fs
  <2> DEFINE r == job[j]
  <2>1. r \in Dispatch
    BY FieldTypes
  <2> HIDE DEF r
  <2>2. /\ [r EXCEPT !.pc = "next", !.todo = us, !.for = fs] \in Dispatch
        /\ [r EXCEPT !.pc = "next", !.todo = us, !.for = fs].kind = r.kind
        /\ [r EXCEPT !.pc = "next", !.todo = us, !.for = fs].pc = "next"
        /\ [r EXCEPT !.pc = "next", !.todo = us, !.for = fs].todo = us
        /\ [r EXCEPT !.pc = "next", !.todo = us, !.for = fs].for = fs
    BY <1>2, <2>1 DEF Dispatch
  <2>3. QED
    BY <2>2 DEF r
<1> HIDE DEF q
<1>5. Moves(j, q)
  BY <1>1, <1>3, <1>4 DEF Moves, JInv, Typed
<1>6. job'[j] = q
  BY <1>3 DEF JInv, Typed
<1>7. \A u \in Owed(j)' : u \in Ahead(j)'
  BY <1>2a, <1>4, <1>6 DEF Owed, Ahead
<1>8. Sent' = Sent /\ UNCHANGED <<on, steady>>
  BY <1>1 DEF Sent
<1>9. q.pc \notin Visiting /\ job[j].pc \in Asking
  BY <1>1, <1>4 DEF Visiting, Asking
<1>10. QED
  BY <1>4, <1>5, <1>7, <1>8, <1>9, StepKeeps

\* A rejected call gives up one user; a rejected list or count gives up all.
LEMMA FailKeeps == ASSUME JInv, NEW j \in Job, JobFail(j) PROVE JInv'
<1>1. /\ told' = told /\ pushed' = pushed /\ prefs' = prefs /\ SameSent /\ SamePrefs
      /\ UNCHANGED <<edit, token, online, on, steady, there>>
  BY DEF JobFail, Frame, users, aux, SameSent, SamePrefs
<1>2. ASSUME job[j].pc \in {"new", "user", "event"},
             job' = [job EXCEPT ![j] = [job[j] EXCEPT !.pc = "next", !.user = None,
                                          !.failed = job[j].failed \cup {job[j].user}]]
      PROVE  JInv'
  <2> DEFINE f == job[j].failed \cup {job[j].user}
             r == job[j]
  <2>1. f \in SUBSET User /\ job[j].failed \subseteq f /\ job[j].user \in f
    BY <1>2, FieldTypes DEF Sound, Visiting
  <2>2. r \in Dispatch /\ job' = [job EXCEPT ![j] = [r EXCEPT !.pc = "next", !.user = None, !.failed = f]]
    BY <1>2, FieldTypes
  <2> HIDE DEF f, r
  <2>3. [r EXCEPT !.pc = "next", !.user = None, !.failed = f] = Moved(r, "next", None, r.todo, f)
    BY <2>2 DEF Moved, Dispatch
  <2>4. Steps(j, "next", None, job[j].todo, f)
    BY <1>1, <2>2, <2>3 DEF Steps, r
  <2>5. Ahead(j) = job[j].todo \cup {job[j].user} /\ job[j].pc \in Visiting
    BY <1>2 DEF Ahead, Visiting
  <2>6. QED
    BY <1>1, <2>1, <2>4, <2>5, FieldTypes, QuietStep DEF Visiting
<1>3. ASSUME job[j].pc \in {"list", "count"},
             job' = [job EXCEPT ![j] = [job[j] EXCEPT !.pc = "done", !.failed = User]]
      PROVE  JInv'
  <2> DEFINE r == job[j]
             q == [r EXCEPT !.pc = "done", !.failed = User]
  <2>1. r \in Dispatch /\ job' = [job EXCEPT ![j] = q]
    BY <1>3, FieldTypes
  <2> HIDE DEF r
  <2>2. q \in Dispatch /\ q.pc = "done" /\ q.kind = r.kind /\ q.failed = User /\ q.for = r.for
    BY <2>1 DEF Dispatch
  <2> HIDE DEF q
  <2>3. Moves(j, q)
    BY <1>1, <2>1, <2>2 DEF Moves, JInv, Typed, r
  <2>4. job'[j] = q /\ r.for \subseteq User
    BY <2>1, FieldTypes DEF JInv, Typed, r
  <2>5. Owed(j)' = {}
    BY <2>2, <2>4 DEF Owed
  <2>6. Sent' = Sent /\ UNCHANGED <<on, steady>>
    BY <1>1 DEF Sent
  <2>7. q.pc \notin Visiting /\ q.pc \notin Asking
    BY <2>2 DEF Visiting, Asking
  <2>8. QED
    BY <2>2, <2>3, <2>5, <2>6, <2>7, StepKeeps
<1>4. QED
  BY <1>2, <1>3 DEF JobFail, At

\* From the count on a dispatch asks for preferences, so what is on starts anew.
LEMMA CountKeeps == ASSUME JInv, NEW j \in Job, CountMembers(j) PROVE JInv'
<1> DEFINE r == job[j]
           q == [r EXCEPT !.pc = "next"]
<1>1. /\ job[j].pc = "count" /\ told' = told /\ pushed' = pushed /\ prefs' = prefs
      /\ UNCHANGED <<edit, token, online, there>>
      /\ on' = [on EXCEPT ![j] = OnFor(prefs, job[j].kind)]
      /\ steady' = [steady EXCEPT ![j] = OnFor(prefs, job[j].kind)]
  BY DEF CountMembers, At, users
<1>2. r \in Dispatch /\ job' = [job EXCEPT ![j] = q]
  BY FieldTypes DEF CountMembers
<1>3. job[j].kind \in News /\ job[j].todo = job[j].for
  BY <1>1, FieldTypes DEF Sound
<1> HIDE DEF r
<1>4. /\ q \in Dispatch /\ q.pc = "next" /\ q.kind = r.kind /\ q.todo = r.todo /\ q.for = r.for
  BY <1>2 DEF Dispatch
<1> HIDE DEF q
<1>5. Moves(j, q)
  BY <1>1, <1>2, <1>4 DEF Moves, JInv, Typed, r
<1>6. /\ job'[j] = q /\ on'[j] = OnFor(prefs, r.kind) /\ steady'[j] = OnFor(prefs, r.kind)
      /\ \A i \in Job : i # j => on'[i] = on[i] /\ steady'[i] = steady[i] /\ job'[i] = job[i]
  BY <1>1, <1>2 DEF JInv, Typed, r
<1>7. Typed'
  BY <1>1, <1>2, <1>4, OnForUsers DEF JInv, Typed
<1>8. Sound(j)'
  <2>1. Owed(j)' \subseteq Ahead(j)'
    BY <1>3, <1>4, <1>6 DEF Owed, Ahead, r
  <2>2. q.kind # "area" /\ q.pc \notin Visiting
    BY <1>3, <1>4 DEF Visiting, News, r
  <2>3. QED
    BY <1>1, <1>4, <1>6, <2>1, <2>2 DEF Sound
<1>9. ASSUME NEW i \in Job, i # j PROVE Sound(i)'
  BY <1>4, <1>5, <1>6, <1>9, OthersSound
<1>10. ASSUME NEW e \in Sent'
       PROVE  /\ e \in Job \X User /\ e[2] \in on'[e[1]]
              /\ job'[e[1]].pc \notin {"idle", "count"}
  <2>1. /\ e \in Job \X User /\ e[2] \in on[e[1]]
        /\ job[e[1]].pc \notin {"idle", "count"}
    BY <1>1, <1>10 DEF JInv, Sent
  <2>2. e[1] \in Job /\ e[1] # j
    BY <1>1, <2>1
  <2>3. QED
    BY <1>6, <2>1, <2>2
<1>11. QED
  BY <1>7, <1>8, <1>9, <1>10 DEF JInv

LEMMA RunKeeps == ASSUME JInv, NEW j \in Job, Run(j) PROVE JInv'
BY CountKeeps, ListKeeps, PrefsKeeps, NewPrefsKeeps, UserKeeps, EventKeeps, PresenceKeeps,
   PushKeeps, FailKeeps, EndKeeps DEF Run

LEMMA JNext == JInv /\ [Next]_vars => JInv'
<1> SUFFICES ASSUME JInv, [Next]_vars PROVE JInv'
  OBVIOUS
<1>1. CASE Call
  BY <1>1, CallKeeps
<1>2. CASE \E j \in Job : Run(j)
  BY <1>2, RunKeeps
<1>3. CASE \E u \in Active : Client(u)
  BY <1>3, ClientKeeps, ConstantsAssumption
<1>4. CASE UNCHANGED vars
  BY <1>4 DEF vars, users, aux, JInv, Typed, Sound, Sent, Owed, Ahead, Reachable
<1>5. QED
  BY <1>1, <1>2, <1>3, <1>4 DEF Next

\* Nobody whose preferences had a type off all through a dispatch gets its event
\* or its push, however the preferences change between being asked and acted on.
THEOREM SilentWhenOffCorrect == Spec => []SilentWhenOff
<1>1. JInv => SilentWhenOff
  BY DEF JInv, Sent, SilentWhenOff
<1>2. QED
  BY <1>1, JInit, JNext, PTL DEF Spec

\* A dispatch that ended has told everybody it was for, who had the type on all
\* through it, could be reached, and met no rejected call of their own: neither
\* a rejected call for another user nor a row created meanwhile loses anybody.
THEOREM ReachedByEventCorrect == Spec => []ReachedByEvent
<1>1. JInv => ReachedByEvent
  <2> SUFFICES ASSUME JInv, NEW j \in Launched \ InFlight, NEW u \in Owed(j)
               PROVE  <<j, u>> \in told
    BY DEF ReachedByEvent, OwedStill, Ended, Owed
  <2>1. j \in Job /\ job[j].pc = "done"
    BY DEF Launched, InFlight, At
  <2>2. Ahead(j) = {}
    BY <2>1 DEF Ahead
  <2>3. QED
    BY <2>1, <2>2, FieldTypes DEF Sound, PastList
<1>2. QED
  BY <1>1, JInit, JNext, PTL DEF Spec

-----------------------------------------------------------------------------
(* The feed.  A dispatch records for each of its users once: those ahead of  *)
(* it have no event of it yet, and the user it is at is not ahead again.    *)
Fresh(j) ==
  /\ job[j].pc = "list" => \A e \in told : e[1] # j
  /\ job[j].pc \in Visiting => job[j].user \notin job[j].todo
  /\ \A u \in Ahead(j) : <<j, u>> \notin told
FreshInv == \A j \in Job : Fresh(j)

\* What is so of every step of a dispatch.
Advances(j) ==
  /\ \A i \in Job : i # j => job'[i] = job[i]
  /\ job'[j].kind = job[j].kind
  /\ job[j].pc \notin {"idle", "done"} /\ job'[j].pc \in PastList

\* The users ahead of it become fewer, and no other dispatch is touched.
LEMMA AdvanceFresh ==
  ASSUME FreshInv, NEW j \in Job, Advances(j), told' = told,
         job'[j].pc \in Visiting => job'[j].user \notin job'[j].todo,
         Ahead(j)' \subseteq Ahead(j)
  PROVE  FreshInv'
<1>1. Fresh(j)'
  BY DEF FreshInv, Fresh, Advances, PastList, Visiting
<1>2. ASSUME NEW i \in Job, i # j PROVE Fresh(i)'
  <2>1. job'[i] = job[i]
    BY <1>2 DEF Advances
  <2>2. QED
    BY <2>1 DEF FreshInv, Fresh, Ahead
<1>3. QED
  BY <1>1, <1>2 DEF FreshInv

Gets(j, p, u, t, f) == job' = [job EXCEPT ![j] = Moved(job[j], p, u, t, f)]

LEMMA MovedAdvances ==
  ASSUME JInv, NEW j \in Job, NEW p \in PastList, NEW u, NEW t, NEW f,
         Gets(j, p, u, t, f),
         job[j].pc \notin {"idle", "done"}
  PROVE  /\ Advances(j)
         /\ job'[j].pc = p /\ job'[j].user = u /\ job'[j].todo = t
<1> DEFINE r == job[j]
           q == Moved(r, p, u, t, f)
<1>1. r \in Dispatch /\ job \in [Job -> Dispatch]
  BY DEF JInv, Typed
<1> HIDE DEF r
<1>2. /\ q.kind = r.kind
      /\ q.pc = p /\ q.user = u /\ q.todo = t
  BY <1>1 DEF Moved, Dispatch
<1>3. job' = [job EXCEPT ![j] = q]
  BY DEF Gets, r
<1> HIDE DEF q
<1>4. QED
  BY <1>1, <1>2, <1>3 DEF Advances, r

LEMMA VisitGets ==
  ASSUME JInv, NEW j \in Job
  PROVE  /\ \A p : Visit(j, p) => Gets(j, p, job[j].user, job[j].todo, job[j].failed)
         /\ Skip(j) => Gets(j, "next", None, job[j].todo, job[j].failed)
BY VisitMoves, SkipMoves DEF Gets

\* A dispatch goes on for the user it is at, or to the next one.
LEMMA VisitFresh ==
  ASSUME JInv, FreshInv, NEW j \in Job, NEW p \in PastList, Visit(j, p),
         UNCHANGED <<events, told>>, job[j].pc \in {"next"} \cup Visiting,
         p \in Visiting => job[j].pc \in Visiting,
         \/ p \in {"next", "done"}
         \/ job[j].pc \in {"new", "user"} 
         \/ p \in {"presence", "push"} /\ job[j].kind # "area"
         \/ job[j].kind = "area" /\ job[j].pc \in {"presence", "push"}
  PROVE  Advances(j) /\ FreshInv'
<1>0. job[j].pc \notin {"idle", "done"}
  BY DEF Visiting
<1>1. /\ Advances(j) /\ job'[j].pc = p
      /\ job'[j].user = job[j].user /\ job'[j].todo = job[j].todo
  BY <1>0, VisitGets, MovedAdvances
<1>2. Ahead(j)' \subseteq Ahead(j)
  BY <1>1 DEF Ahead, Advances, Visiting
<1>3. p \in Visiting => job[j].user \notin job[j].todo
  BY DEF FreshInv, Fresh
<1>4. QED
  BY <1>1, <1>2, <1>3, AdvanceFresh

LEMMA SkipFresh ==
  ASSUME JInv, FreshInv, NEW j \in Job, NEW f,
         Gets(j, "next", None, job[j].todo, f),
         UNCHANGED <<events, told>>, job[j].pc \in Visiting
  PROVE  Advances(j) /\ FreshInv'
<1>0. job[j].pc \notin {"idle", "done"} /\ "next" \in PastList
  BY DEF Visiting, PastList
<1>1. /\ Advances(j) /\ job'[j].pc = "next" /\ job'[j].todo = job[j].todo
  BY <1>0, MovedAdvances
<1>2. Ahead(j)' \subseteq Ahead(j)
  BY <1>1 DEF Ahead, Advances, Visiting
<1>3. QED
  BY <1>1, <1>2, AdvanceFresh DEF Visiting

LEMMA UserFresh ==
  ASSUME JInv, FreshInv, NEW j \in Job, JobUser(j) \/ JobPresence(j) \/ JobPush(j) \/ JobEnd(j)
  PROVE  Advances(j) /\ FreshInv' /\ UNCHANGED <<events, told>>
<1> USE DEF At, PastList, Visiting, Frame
<1>1. ASSUME Skip(j), UNCHANGED <<events, told>>, job[j].pc \in Visiting
      PROVE  Advances(j) /\ FreshInv'
  BY <1>1, VisitGets, SkipFresh
<1>2. CASE JobUser(j)
  BY <1>1, <1>2, VisitFresh DEF JobUser
<1>3. CASE JobPresence(j)
  BY <1>1, <1>3, VisitFresh DEF JobPresence
<1>4. CASE JobPush(j)
  BY <1>1, <1>4, VisitFresh DEF JobPush
<1>5. CASE JobEnd(j)
  BY <1>5, VisitFresh DEF JobEnd
<1>6. QED
  BY <1>2, <1>3, <1>4, <1>5

LEMMA NewPrefsFresh ==
  ASSUME JInv, FreshInv, NEW j \in Job, JobNewPrefs(j)
  PROVE  Advances(j) /\ FreshInv' /\ UNCHANGED <<events, told>>
<1>1. job[j].pc = "new" /\ UNCHANGED <<events, told>>
  BY DEF JobNewPrefs, At
<1>2. CASE prefs[job[j].user] = None
  <2>1. Visit(j, Allowed(job[j].kind)) /\ Allowed(job[j].kind) \in PastList
    BY <1>2, FieldTypes, AllowedPoint DEF JobNewPrefs, PastList, Visiting
  <2>2. QED
    BY <1>1, <2>1, VisitFresh DEF Visiting
<1>3. CASE prefs[job[j].user] # None
  <2> DEFINE f == job[j].failed \cup {job[j].user}
             r == job[j]
  <2>1. r \in Dispatch
        /\ job' = [job EXCEPT ![j] = [r EXCEPT !.pc = "next", !.user = None, !.failed = f]]
    BY <1>3, FieldTypes DEF JobNewPrefs
  <2> HIDE DEF f, r
  <2>2. [r EXCEPT !.pc = "next", !.user = None, !.failed = f]
          = Moved(r, "next", None, r.todo, f)
    BY <2>1 DEF Moved, Dispatch
  <2>3. Gets(j, "next", None, job[j].todo, f)
    BY <2>1, <2>2 DEF Gets, r
  <2>4. QED
    BY <1>1, <2>3, SkipFresh DEF Visiting
<1>4. QED
  BY <1>1, <1>2, <1>3

LEMMA PrefsFresh ==
  ASSUME JInv, FreshInv, NEW j \in Job, NEW u \in User, JobPrefs(j, u)
  PROVE  Advances(j) /\ FreshInv' /\ UNCHANGED <<events, told>>
<1> DEFINE enabled == IsOn(prefs, u, TypeOf[job[j].kind])
           t == job[j].todo \ {u}
           v == IF enabled THEN u ELSE None
           p == IF prefs[u] = None THEN "new"
                ELSE IF enabled THEN Allowed(job[j].kind) ELSE "next"
           r == job[j]
<1>1. /\ job[j].pc = "next" /\ u \in job[j].todo /\ UNCHANGED <<events, told>>
  BY DEF JobPrefs, At
<1>2. r \in Dispatch
      /\ job' = [job EXCEPT ![j] = [r EXCEPT !.todo = t, !.user = v, !.pc = p]]
  BY FieldTypes DEF JobPrefs
<1>3. prefs[u] = None => enabled
  BY DEF IsOn
<1>4. p \in PastList /\ (p # "next" => v = u) /\ u \notin t /\ t \subseteq job[j].todo
  BY <1>3, FieldTypes, AllowedPoint DEF PastList, Visiting
<1> HIDE DEF enabled, t, v, p, r
<1>5. [r EXCEPT !.todo = t, !.user = v, !.pc = p] = Moved(r, p, v, t, r.failed)
  BY <1>2 DEF Moved, Dispatch
<1>6. /\ Advances(j) /\ job'[j].pc = p /\ job'[j].user = v /\ job'[j].todo = t
  <2>1. Gets(j, p, v, t, job[j].failed)
    BY <1>2, <1>5 DEF Gets, r
  <2>2. p \in PastList /\ job[j].pc \notin {"idle", "done"}
    BY <1>1, <1>4
  <2>3. QED
    BY <2>1, <2>2, MovedAdvances
<1>7. Ahead(j)' \subseteq Ahead(j)
  BY <1>1, <1>4, <1>6 DEF Ahead
<1>8. p \in Visiting => v \notin t
  BY <1>4 DEF Visiting
<1>9. QED
  BY <1>1, <1>6, <1>7, <1>8, AdvanceFresh

LEMMA CountFresh ==
  ASSUME JInv, FreshInv, NEW j \in Job, CountMembers(j)
  PROVE  Advances(j) /\ FreshInv' /\ UNCHANGED <<events, told>>
<1>1. job[j].pc = "count" /\ UNCHANGED <<events, told>> /\ Visit(j, "next")
  BY DEF CountMembers, At, Visit
<1>2. Advances(j) /\ job'[j].pc = "next" /\ job'[j].todo = job[j].todo
  BY <1>1, VisitGets, MovedAdvances DEF PastList
<1>3. Ahead(j)' \subseteq Ahead(j)
  BY <1>1, <1>2 DEF Ahead
<1>4. QED
  BY <1>1, <1>2, <1>3, AdvanceFresh DEF Visiting

\* Nobody has an event of a dispatch that lists its users.
LEMMA ListFresh ==
  ASSUME JInv, FreshInv, NEW j \in Job, JobList(j)
  PROVE  Advances(j) /\ FreshInv' /\ UNCHANGED <<events, told>>
<1> DEFINE us == Listed(job[j].kind)
           fs == MeantFor(job[j].kind)
           r == job[j]
           q == [r EXCEPT !.pc = "next", !.todo = us, !.for = fs]
<1>1. /\ job[j].pc = "list" /\ UNCHANGED <<events, told>>
      /\ r \in Dispatch /\ job' = [job EXCEPT ![j] = q]
  BY FieldTypes DEF JobList, At
<1> HIDE DEF us, fs, r
<1>2. q.pc = "next" /\ q.kind = r.kind
  BY <1>1 DEF Dispatch
<1> HIDE DEF q
<1>3. job'[j] = q /\ \A i \in Job : i # j => job'[i] = job[i]
  BY <1>1 DEF JInv, Typed
<1>4. Advances(j)
  BY <1>1, <1>2, <1>3 DEF Advances, PastList, r
<1>5. \A u : <<j, u>> \notin told
  BY <1>1 DEF FreshInv, Fresh
<1>6. Fresh(j)'
  BY <1>1, <1>2, <1>3, <1>5 DEF Fresh, Visiting
<1>7. ASSUME NEW i \in Job, i # j PROVE Fresh(i)'
  BY <1>1, <1>3, <1>7 DEF FreshInv, Fresh, Ahead
<1>8. QED
  BY <1>1, <1>4, <1>6, <1>7 DEF FreshInv

LEMMA FailFresh ==
  ASSUME JInv, FreshInv, NEW j \in Job, JobFail(j)
  PROVE  Advances(j) /\ FreshInv' /\ UNCHANGED <<events, told>>
<1> DEFINE r == job[j]
           f == r.failed \cup {r.user}
<1>1. UNCHANGED <<events, told>> /\ r \in Dispatch
  BY FieldTypes DEF JobFail
<1>2. \/ /\ r.pc \in {"new", "user", "event"}
         /\ job' = [job EXCEPT ![j] = [r EXCEPT !.pc = "next", !.user = None, !.failed = f]]
      \/ /\ r.pc \in {"list", "count"}
         /\ job' = [job EXCEPT ![j] = [r EXCEPT !.pc = "done", !.failed = User]]
  BY DEF JobFail, At
<1> HIDE DEF f, r
<1>3. CASE /\ r.pc \in {"new", "user", "event"}
           /\ job' = [job EXCEPT ![j] = [r EXCEPT !.pc = "next", !.user = None, !.failed = f]]
  <2>1. [r EXCEPT !.pc = "next", !.user = None, !.failed = f]
          = Moved(r, "next", None, r.todo, f)
    BY <1>1 DEF Moved, Dispatch
  <2>2. Gets(j, "next", None, job[j].todo, f)
    BY <1>3, <2>1 DEF Gets, r
  <2>3. job[j].pc \in Visiting
    BY <1>3 DEF r, Visiting
  <2>4. QED
    BY <1>1, <2>2, <2>3, SkipFresh
<1>4. CASE /\ r.pc \in {"list", "count"}
           /\ job' = [job EXCEPT ![j] = [r EXCEPT !.pc = "done", !.failed = User]]
  <2>1. [r EXCEPT !.pc = "done", !.failed = User] = Moved(r, "done", r.user, r.todo, User)
    BY <1>1 DEF Moved, Dispatch
  <2>2. Gets(j, "done", job[j].user, job[j].todo, User)
    BY <1>4, <2>1 DEF Gets, r
  <2>3. "done" \in PastList /\ job[j].pc \notin {"idle", "done"}
    BY <1>4 DEF PastList, r
  <2>4. Advances(j) /\ job'[j].pc = "done"
    BY <2>2, <2>3, MovedAdvances
  <2>5. Ahead(j)' \subseteq Ahead(j)
    BY <2>4 DEF Ahead
  <2>6. QED
    BY <1>1, <2>4, <2>5, AdvanceFresh DEF Visiting
<1>5. QED
  BY <1>1, <1>2, <1>3, <1>4

\* The one step that records: for a user who had no event of the dispatch.
LEMMA EventFresh ==
  ASSUME JInv, FreshInv, NEW j \in Job, JobEvent(j)
  PROVE  /\ Advances(j) /\ FreshInv'
         /\ <<j, job[j].user>> \notin told /\ told' = told \cup {<<j, job[j].user>>}
         /\ events' = events \cup {Event(j)}
<1>1. /\ job[j].pc = "event" /\ told' = told \cup {<<j, job[j].user>>}
      /\ events' = events \cup {Event(j)}
  BY DEF JobEvent, At
<1>2. <<j, job[j].user>> \notin told /\ job[j].user \notin job[j].todo
  BY <1>1 DEF FreshInv, Fresh, Ahead, Visiting
<1>3. /\ Advances(j) /\ job'[j].todo = job[j].todo
      /\ \/ job'[j].pc = "presence" /\ job'[j].user = job[j].user /\ job[j].kind # "area"
         \/ job'[j].pc = "next"
  <2>1. CASE job[j].kind # "area" /\ job[j].user \in token
    <3>1. Visit(j, "presence") /\ "presence" \in PastList
      BY <2>1 DEF JobEvent, PastList, Visiting
    <3>2. QED
      BY <1>1, <2>1, <3>1, VisitGets, MovedAdvances
  <2>2. CASE ~(job[j].kind # "area" /\ job[j].user \in token)
    <3>1. Skip(j) /\ "next" \in PastList
      BY <2>2 DEF JobEvent, PastList
    <3>2. QED
      BY <1>1, <3>1, VisitGets, MovedAdvances
  <2>3. QED
    BY <2>1, <2>2
<1>4. Ahead(j)' = job[j].todo
  BY <1>3 DEF Ahead, Advances
<1>5. \A u \in job[j].todo : <<j, u>> \notin told
  BY <1>1 DEF FreshInv, Fresh, Ahead
<1>6. Fresh(j)'
  BY <1>1, <1>2, <1>3, <1>4, <1>5 DEF Fresh, Visiting
<1>7. ASSUME NEW i \in Job, i # j PROVE Fresh(i)'
  <2>1. job'[i] = job[i]
    BY <1>3, <1>7 DEF Advances
  <2>2. QED
    BY <1>1, <1>7, <2>1 DEF FreshInv, Fresh, Ahead
<1>8. QED
  BY <1>1, <1>2, <1>3, <1>6, <1>7 DEF FreshInv

Records(j) ==
  /\ <<j, job[j].user>> \notin told /\ told' = told \cup {<<j, job[j].user>>}
  /\ events' = events \cup {Event(j)}
  /\ job[j].pc = "event"

LEMMA RunFresh ==
  ASSUME JInv, FreshInv, NEW j \in Job, Run(j)
  PROVE  Advances(j) /\ FreshInv' /\ (UNCHANGED <<events, told>> \/ Records(j))
<1>1. JobEvent(j) => job[j].pc = "event"
  BY DEF JobEvent, At
<1>2. QED
  BY <1>1, CountFresh, ListFresh, PrefsFresh, NewPrefsFresh, UserFresh, EventFresh, FailFresh
     DEF Run, Records

\* A caller launches one dispatch, in a slot that was free, or none.
Starts(j, k) ==
  /\ job[j].pc = "idle" /\ job'[j].pc \in {"next", "list", "count"}
  /\ job'[j].kind = k
  /\ \A i \in Job : i # j => job'[i] = job[i]

StartsAny == /\ UNCHANGED <<events, told>>
             /\ UNCHANGED job \/ \E j \in Job, k \in Kinds : Starts(j, k)

LEMMA CallStarts ==
  ASSUME JInv, Call
  PROVE  StartsAny /\ UNCHANGED scene
<1>1. ASSUME NEW k \in Kinds, NEW us \in SUBSET User, NEW pc \in {"next", "list", "count"},
             NEW j \in Job, At(j, "idle"), Start(j, k, us, pc)
      PROVE  UNCHANGED <<events, told>> /\ Starts(j, k)
  <2> DEFINE q == [NoJob EXCEPT !.pc = pc, !.kind = k, !.todo = us, !.for = us]
  <2>1. q.pc = pc /\ q.kind = k
    BY DEF NoJob
  <2>2. job' = [job EXCEPT ![j] = q] /\ UNCHANGED <<events, told>>
    BY <1>1 DEF Start
  <2> HIDE DEF q
  <2>3. job'[j] = q /\ \A i \in Job : i # j => job'[i] = job[i]
    BY <2>2 DEF JInv, Typed
  <2>4. QED
    BY <1>1, <2>1, <2>2, <2>3 DEF Starts, At
<1>2. ASSUME NEW k \in Kinds, NEW us \in SUBSET User, NEW pc \in {"next", "list", "count"},
             Launch(k, us, pc)
      PROVE  StartsAny
  BY <1>1, <1>2 DEF Launch, StartsAny
<1>3. Quiet => StartsAny
  BY DEF Quiet, StartsAny
<1>4. /\ Ratee \in User /\ Active \subseteq User
      /\ Kinds = {"rating", "added", "removed", "verified", "admin", "area",
                  "expiring", "expired"}
  BY ConstantsAssumption DEF Kinds, TypeOf
<1>5. ASSUME NEW u \in Active, AddMember(u) \/ RemoveMember(u) \/ VerifyDocument(u)
                               \/ RenewDocument(u) \/ Age(u)
      PROVE  StartsAny
  BY <1>2, <1>3, <1>4, <1>5
     DEF AddMember, RemoveMember, VerifyDocument, RenewDocument, Age
<1>6. ASSUME SubmitDocument \/ CheckExpiring \/ CheckExpired \/ SendToArea
      PROVE  StartsAny
  <2>1. \E k \in Kinds : Launch(k, {}, "list")
    BY <1>4, <1>6 DEF SubmitDocument, CheckExpiring, CheckExpired, SendToArea
  <2>2. {} \in SUBSET User
    OBVIOUS
  <2>3. QED
    BY <1>2, <2>1, <2>2
<1>7. ASSUME CreateRating \/ ReviseRating \/ WriteStatus
      PROVE  StartsAny
  <2>1. Quiet \/ Launch("admin", {}, "list") \/ Launch("rating", {Ratee}, "next")
    BY <1>7 DEF CreateRating, ReviseRating, WriteStatus
  <2>2. {} \in SUBSET User /\ {Ratee} \in SUBSET User
    BY <1>4
  <2>3. QED
    BY <1>2, <1>3, <1>4, <2>1, <2>2
<1>8. ASSUME \/ WriteBegin \/ ViewRating \/ DeleteRating
             \/ \E s \in Status : DecideRating(s)
      PROVE  StartsAny
  BY <1>3, <1>8 DEF WriteBegin, ViewRating, DeleteRating, DecideRating
<1>9. StartsAny
  BY <1>5, <1>6, <1>7, <1>8 DEF Call
<1>10. UNCHANGED scene
  BY DEF Call, Quiet, AddMember, RemoveMember, VerifyDocument, RenewDocument, Age,
     SubmitDocument, CheckExpiring, CheckExpired, SendToArea, CreateRating, ReviseRating,
     WriteStatus, WriteBegin, ViewRating, DeleteRating, DecideRating
<1>11. QED
  BY <1>9, <1>10

\* Nobody has an event of a dispatch in a free slot.
LEMMA IdleUntold ==
  ASSUME JInv, NEW j \in Job, job[j].pc \in {"idle", "count"}
  PROVE  \A u : <<j, u>> \notin told
BY DEF JInv, Sent

LEMMA StartFresh ==
  ASSUME JInv, FreshInv, NEW j \in Job, NEW k \in Kinds, Starts(j, k), told' = told
  PROVE  FreshInv'
<1>1. \A u : <<j, u>> \notin told
  BY IdleUntold DEF Starts
<1>2. \A e \in told : e[1] # j
  BY DEF JInv, Sent, Starts
<1>3. Fresh(j)'
  BY <1>1, <1>2 DEF Fresh, Starts, Visiting
<1>4. ASSUME NEW i \in Job, i # j PROVE Fresh(i)'
  BY <1>4 DEF FreshInv, Fresh, Ahead, Starts
<1>5. QED
  BY <1>3, <1>4 DEF FreshInv

\* A user changes the marks of some events of the feed, or deletes some.
Marks(S) == /\ S \subseteq events
            /\ events' \subseteq (events \ S) \cup Marked(S)

LEMMA ClientMarks ==
  ASSUME NEW u \in User, Client(u)
  PROVE  /\ UNCHANGED <<job, told, pushed, scene, callers>>
         /\ \E S \in SUBSET events : Marks(S)
<1>1. UNCHANGED <<job, told, pushed, scene, callers>>
  BY DEF Client, EditBegin, EditCreate, EditWrite, Connect, Disconnect, ReadEvent,
     ReadAll, DeleteEvent, DeleteAll, UserFrame
<1>2. ASSUME UNCHANGED events PROVE \E S \in SUBSET events : Marks(S)
  <2>1. Marks({}) /\ {} \in SUBSET events
    BY <1>2 DEF Marks
  <2>2. QED
    BY <2>1
<1>3. ASSUME NEW e \in events, ReadEvent(u, e) PROVE \E S \in SUBSET events : Marks(S)
  <2>1. Marks({e})
    BY <1>3 DEF ReadEvent, Marks
  <2>2. QED
    BY <2>1
<1>4. ASSUME ReadAll(u) PROVE \E S \in SUBSET events : Marks(S)
  <2>1. Marks(Mine(u))
    BY <1>4 DEF ReadAll, Marks, Mine
  <2>2. QED
    BY <2>1 DEF Mine
<1>5. ASSUME NEW e \in events, DeleteEvent(u, e) PROVE \E S \in SUBSET events : Marks(S)
  <2>1. Marks({})
    BY <1>5 DEF DeleteEvent, Marks
  <2>2. QED
    BY <2>1
<1>6. ASSUME DeleteAll(u) PROVE \E S \in SUBSET events : Marks(S)
  <2>1. Marks({})
    BY <1>6 DEF DeleteAll, Marks
  <2>2. QED
    BY <2>1
<1>7. QED
  BY <1>1, <1>2, <1>3, <1>4, <1>5, <1>6
     DEF Client, EditBegin, EditCreate, EditWrite, Connect, Disconnect

-----------------------------------------------------------------------------
\* What TypeOK says of the feed.
Row == [job : Job, user : User, read : BOOLEAN]
FeedInv ==
  /\ events \subseteq Row
  /\ \A e \in events : <<e.job, e.user>> \in told
  /\ \A e, f \in events : e.job = f.job /\ e.user = f.user => e = f

\* A marked event is the event it was but for the mark.
LEMMA MarkedRow ==
  ASSUME NEW e \in Row
  PROVE  /\ [e EXCEPT !.read = TRUE] \in Row
         /\ [e EXCEPT !.read = TRUE].job = e.job
         /\ [e EXCEPT !.read = TRUE].user = e.user
BY DEF Row

LEMMA MarksKeep ==
  ASSUME FeedInv, NEW S \in SUBSET events, Marks(S)
  PROVE  \A e \in events' : \E d \in events :
           /\ e \in Row /\ e.job = d.job /\ e.user = d.user
           /\ IF d \in S THEN e = [d EXCEPT !.read = TRUE] ELSE e = d
<1> SUFFICES ASSUME NEW e \in events'
             PROVE  \E d \in events :
                      /\ e \in Row /\ e.job = d.job /\ e.user = d.user
                      /\ IF d \in S THEN e = [d EXCEPT !.read = TRUE] ELSE e = d
  OBVIOUS
<1>1. CASE e \in events \ S
  BY <1>1 DEF FeedInv
<1>2. ASSUME NEW d \in S, e = [d EXCEPT !.read = TRUE]
      PROVE  /\ d \in events
             /\ e \in Row /\ e.job = d.job /\ e.user = d.user
  <2>1. d \in Row /\ d \in events
    BY DEF FeedInv
  <2>2. QED
    BY <1>2, <2>1, MarkedRow
<1>3. QED
  BY <1>1, <1>2 DEF Marks, Marked

LEMMA MarksFeed ==
  ASSUME FeedInv, NEW S \in SUBSET events, Marks(S), told' = told
  PROVE  FeedInv'
<1>1. \A e \in events' : e \in Row /\ <<e.job, e.user>> \in told'
  BY MarksKeep DEF FeedInv
<1>2. ASSUME NEW e \in events', NEW f \in events', e.job = f.job, e.user = f.user
      PROVE  e = f
  <2>1. PICK d \in events :
          /\ e.job = d.job /\ e.user = d.user
          /\ IF d \in S THEN e = [d EXCEPT !.read = TRUE] ELSE e = d
    BY MarksKeep
  <2>2. PICK c \in events :
          /\ f.job = c.job /\ f.user = c.user
          /\ IF c \in S THEN f = [c EXCEPT !.read = TRUE] ELSE f = c
    BY MarksKeep
  <2>3. c = d
    BY <1>2, <2>1, <2>2 DEF FeedInv
  <2>4. IF d \in S THEN f = [d EXCEPT !.read = TRUE] ELSE f = d
    BY <2>2, <2>3
  <2>5. CASE d \in S
    BY <2>1, <2>4, <2>5
  <2>6. CASE d \notin S
    BY <2>1, <2>4, <2>6
  <2>7. QED
    BY <2>5, <2>6
<1>3. QED
  BY <1>1, <1>2 DEF FeedInv

LEMMA RecordsFeed ==
  ASSUME JInv, FeedInv, NEW j \in Job, Records(j)
  PROVE  FeedInv'
<1> DEFINE e == Event(j)
<1>1. e.job = j /\ e.user = job[j].user /\ e \in Row
  <2>1. job[j].user \in User
    BY FieldTypes DEF Records, Sound, Visiting
  <2>2. QED
    BY <2>1 DEF Event, Row
<1> HIDE DEF e
<1>2. events' = events \cup {e} /\ told' = told \cup {<<j, job[j].user>>}
      /\ <<j, job[j].user>> \notin told
  BY DEF Records, e
<1>3. \A d \in events : ~(d.job = j /\ d.user = job[j].user)
  BY <1>2 DEF FeedInv
<1>4. \A d \in events' : <<d.job, d.user>> \in told'
  BY <1>1, <1>2 DEF FeedInv
<1>5. \A d, f \in events' : d.job = f.job /\ d.user = f.user => d = f
  BY <1>1, <1>2, <1>3 DEF FeedInv
<1>6. QED
  BY <1>1, <1>2, <1>4, <1>5 DEF FeedInv

\* Every step keeps what there is of the feed.
FeedStays == JInv /\ FreshInv /\ FeedInv

LEMMA FeedNext == FeedStays /\ [Next]_vars => FeedStays'
<1> SUFFICES ASSUME FeedStays, [Next]_vars PROVE FreshInv' /\ FeedInv'
  BY JNext DEF FeedStays
<1> USE DEF FeedStays
<1>1. CASE UNCHANGED <<job, events, told>>
  BY <1>1 DEF FreshInv, Fresh, Ahead, FeedInv
<1>2. CASE Call
  <2>1. UNCHANGED <<events, told>>
    BY <1>2, CallStarts DEF StartsAny
  <2>2. FeedInv'
    BY <2>1 DEF FeedInv
  <2>3. QED
    BY <1>1, <1>2, <2>1, <2>2, CallStarts, StartFresh DEF StartsAny
<1>3. ASSUME NEW j \in Job, Run(j) PROVE FreshInv' /\ FeedInv'
  <2>1. FreshInv' /\ (UNCHANGED <<events, told>> \/ Records(j))
    BY <1>3, RunFresh
  <2>2. UNCHANGED <<events, told>> => FeedInv'
    BY DEF FeedInv
  <2>3. QED
    BY <2>1, <2>2, RecordsFeed
<1>4. ASSUME NEW u \in Active, Client(u) PROVE FreshInv' /\ FeedInv'
  <2>1. UNCHANGED <<job, told>> /\ \E S \in SUBSET events : Marks(S)
    BY <1>4, ClientMarks, ConstantsAssumption
  <2>2. FreshInv'
    BY <2>1 DEF FreshInv, Fresh, Ahead
  <2>3. QED
    BY <2>1, <2>2, MarksFeed
<1>5. UNCHANGED vars => UNCHANGED <<job, events, told>>
  BY DEF vars
<1>6. QED
  BY <1>1, <1>2, <1>3, <1>4, <1>5 DEF Next

LEMMA FeedInit == Init => FeedStays
<1> SUFFICES ASSUME Init PROVE FreshInv /\ FeedInv
  BY JInit DEF FeedStays
<1>1. told = {} /\ events = {} /\ \A j \in Job : job[j].pc = "idle"
  BY DEF Init, NoJob
<1>2. QED
  BY <1>1 DEF FreshInv, Fresh, Visiting, FeedInv

-----------------------------------------------------------------------------
(* The types.  What the dispatches and the feed do not say.                  *)
CallerTypes ==
  /\ scene \in Scenes /\ member \subseteq User
  /\ due \in [User -> {"fine", "expiring", "expired"}]
  /\ author \in {"idle", "create", "revise"}
  /\ rating \in Rating /\ mod \in Mod

LEMMA CallTypes == ASSUME CallerTypes, Call, UNCHANGED scene PROVE CallerTypes'
<1> USE ConstantsAssumption DEF CallerTypes
<1>1. ASSUME NEW u \in Active, AddMember(u) \/ RemoveMember(u) \/ VerifyDocument(u)
      PROVE  CallerTypes'
  BY <1>1 DEF AddMember, RemoveMember, VerifyDocument, callers
<1>2. ASSUME NEW u \in Active, RenewDocument(u) \/ Age(u)
      PROVE  CallerTypes'
  BY <1>2 DEF RenewDocument, Age
<1>3. CASE SubmitDocument \/ CheckExpiring \/ CheckExpired \/ SendToArea
  BY <1>3 DEF SubmitDocument, CheckExpiring, CheckExpired, SendToArea, callers
<1>4. CASE \/ WriteBegin \/ CreateRating \/ ReviseRating
           \/ ViewRating \/ \E s \in Status : DecideRating(s)
           \/ WriteStatus \/ DeleteRating
  <2>1. Pending \in Rating /\ NoRating \in Rating /\ NoMod \in Mod
    BY DEF Pending, NoRating, NoMod, Rating, Mod, Status
  <2>2. \A st \in Status : [rating EXCEPT !.status = st] \in Rating
    BY DEF Rating, Status
  <2>3. [rating EXCEPT !.viewed = TRUE] \in Rating
    BY DEF Rating
  <2>4. \A b \in BOOLEAN : [mod EXCEPT !.gone = b] \in Mod
    BY DEF Mod
  <2>5. \A st \in Status : [pc |-> "write", gone |-> FALSE, status |-> st] \in Mod
    BY DEF Mod
  <2>6. mod.status \in Status
    BY DEF Mod
  <2>7. CASE WriteBegin \/ CreateRating \/ ReviseRating
    BY <2>1, <2>7 DEF WriteBegin, CreateRating, ReviseRating
  <2>8. CASE ViewRating
    BY <2>3, <2>8 DEF ViewRating
  <2>9. CASE WriteStatus
    BY <2>1, <2>2, <2>6, <2>9 DEF WriteStatus
  <2>10. CASE DeleteRating
    BY <2>1, <2>4, <2>10 DEF DeleteRating
  <2>11. ASSUME NEW s \in Status, DecideRating(s) PROVE CallerTypes'
    BY <2>5, <2>11 DEF DecideRating
  <2>12. QED
    BY <1>4, <2>7, <2>8, <2>9, <2>10, <2>11
<1>5. QED
  BY <1>1, <1>2, <1>3, <1>4 DEF Call

LEMMA CallerTypesNext == JInv /\ CallerTypes /\ [Next]_vars => CallerTypes'
<1> SUFFICES ASSUME JInv, CallerTypes, [Next]_vars PROVE CallerTypes'
  OBVIOUS
<1>1. UNCHANGED <<scene, callers>> => CallerTypes'
  BY DEF CallerTypes, callers
<1>2. CASE Call
  BY <1>2, CallStarts, CallTypes
<1>3. ASSUME NEW j \in Job, Run(j) PROVE UNCHANGED <<scene, callers>>
  BY <1>3 DEF Run, CountMembers, JobList, JobPrefs, JobNewPrefs, JobUser, JobEvent,
     JobPresence, JobPush, JobFail, JobEnd, Frame
<1>4. ASSUME NEW u \in Active, Client(u) PROVE UNCHANGED <<scene, callers>>
  BY <1>4, ClientMarks, ConstantsAssumption
<1>5. UNCHANGED vars => UNCHANGED <<scene, callers>>
  BY DEF vars
<1>6. QED
  BY <1>1, <1>2, <1>3, <1>4, <1>5 DEF Next

LEMMA CallerTypesInit == Init => CallerTypes
BY DEF Init, CallerTypes, NoRating, NoMod, Rating, Mod, Status

\* Every reachable state is well typed; the feed holds at most one event of a
\* dispatch for a user, whatever is retried, rejected, marked or deleted, and
\* only of dispatches that told the user.
THEOREM TypeCorrect == Spec => []TypeOK
<1>1. FeedStays /\ CallerTypes => TypeOK
  <2> SUFFICES ASSUME FeedStays, CallerTypes PROVE TypeOK
    OBVIOUS
  <2>1. pushed \subseteq Job \X User /\ told \subseteq Job \X User
    BY DEF FeedStays, JInv, Sent
  <2>2. QED
    BY <2>1 DEF FeedStays, JInv, Typed, FeedInv, Row, CallerTypes, TypeOK
<1>2. FeedStays => JInv
  BY DEF FeedStays
<1>3. QED
  BY <1>1, <1>2, FeedInit, FeedNext, CallerTypesInit, CallerTypesNext,
     PTL DEF Spec
=============================================================================
