--------------------------- MODULE ParkingCredits ---------------------------
(***************************************************************************)
(* The credit economy of the parking notifications.  Leaving a spot earns   *)
(* the leaver a credit (ParkingReportService); a report or a leave is then  *)
(* dispatched to the users nearby, each of whom pays one credit for the     *)
(* notification (NotificationDispatcherService).  The dispatch loop is not  *)
(* awaited by the handler that launches it: it runs on, one database call   *)
(* at a time, beside every other handler and dispatch.                      *)
(*                                                                          *)
(* The module follows one parking spot and the credits of all users.  A     *)
(* slot of Req is one request together with the dispatch loop it launches;  *)
(* its field pc names the call made next.                                   *)
(***************************************************************************)
EXTENDS Integers, FiniteSets

CONSTANTS
  User,       \* users of the application
  Req,        \* slots: how many requests and dispatch loops run together
  NoUser,     \* "no user" in a slot
  Ops,        \* the requests that clients make in this instance
  MaxLeaves,  \* bound: no leave starts for a user who earned that many credits
  Faults      \* TRUE iff a database call may be rejected

AllOps == {"leave", "report", "reserve", "delete"}

ASSUME ConstantsAssumption ==
  /\ IsFiniteSet(User)
  /\ IsFiniteSet(Req)
  /\ NoUser \notin User
  /\ Ops \subseteq AllOps
  /\ MaxLeaves \in Nat
  /\ Faults \in BOOLEAN

VARIABLES
  rows,       \* per user: reports for the spot in the last ten minutes
  available,  \* the spot's available flag
  credit,     \* parking_notifications_available of each user
  submitted,  \* parking_reports_submitted of each user
  ledger,     \* per user: sum of the ParkingNotificationCredit amounts
  received,   \* per user: parking notification events
  req,        \* the requests and dispatch loops in flight
  paid,       \* auxiliary: credits earned at the spot in the last ten minutes
  lost,       \* auxiliary: credits charged without a notification, by faults
  unlogged    \* auxiliary: balance of the ledger entries lost by faults

vars == <<rows, available, credit, submitted, ledger, received, req, paid,
          lost, unlogged>>

-----------------------------------------------------------------------------
HandlerPoints  == {"recent", "file", "free", "award", "earn",
                   "existing", "publish"}
DispatchPoints == {"next", "consume", "charge", "event"}
Points == {"idle"} \cup HandlerPoints \cup DispatchPoints

Request == [pc   : Points,
            user : User \cup {NoUser},   \* who leaves or reports
            cur  : User \cup {NoUser},   \* who is being notified
            todo : SUBSET User]          \* who the loop has not reached yet

NoRequest == [pc |-> "idle", user |-> NoUser, cur |-> NoUser, todo |-> {}]

\* parking_notifications_available @default(1), parking_reports_submitted 0.
Init ==
  /\ rows = [u \in User |-> 0]
  /\ available = TRUE
  /\ credit = [u \in User |-> 1]
  /\ submitted = [u \in User |-> 0]
  /\ ledger = [u \in User |-> 0]
  /\ received = [u \in User |-> 0]
  /\ req = [r \in Req |-> NoRequest]
  /\ paid = [u \in User |-> 0]
  /\ lost = [u \in User |-> 0]
  /\ unlogged = [u \in User |-> 0]

At(r, p) == req[r].pc = p
Go(r, p) == req' = [req EXCEPT ![r].pc = p]
Finish(r) == req' = [req EXCEPT ![r] = NoRequest]

Start(r, p, u) ==
  /\ At(r, "idle")
  /\ req' = [req EXCEPT ![r] = [NoRequest EXCEPT !.pc = p, !.user = u]]

Add(f, u, n) == [f EXCEPT ![u] = @ + n]

\* The loop of slot r goes on with the users of rest, or ends.
Continue(r, rest) ==
  req' = [req EXCEPT ![r] =
            IF rest = {} THEN NoRequest
            ELSE [@ EXCEPT !.pc = "next", !.cur = NoUser, !.todo = rest]]

\* findUsersWithinRadius: whoever is near the spot, except the reporter u.
Dispatch(r, u) ==
  \E users \in SUBSET (User \ {u}) :
    req' = [req EXCEPT ![r] =
              IF users = {} THEN NoRequest
              ELSE [NoRequest EXCEPT !.pc = "next", !.user = u, !.todo = users]]

-----------------------------------------------------------------------------
\* leaveParkingSpot
LeaveBegin(r, u) ==
  /\ "leave" \in Ops
  /\ submitted[u] < MaxLeaves
  /\ Start(r, "recent", u)
  /\ UNCHANGED <<rows, available, credit, submitted, ledger, received, paid,
                 lost, unlogged>>

\* Variant: no look at earlier reports.
LeaveAnyTime(r) ==
  /\ At(r, "recent")
  /\ Go(r, "file")
  /\ UNCHANGED <<rows, available, credit, submitted, ledger, received, paid,
                 lost, unlogged>>

\* A report of any kind in the last ten minutes is returned as it is.
LeaveRecent(r) ==
  /\ At(r, "recent")
  /\ IF rows[req[r].user] > 0 THEN Finish(r) ELSE Go(r, "file")
  /\ UNCHANGED <<rows, available, credit, submitted, ledger, received, paid,
                 lost, unlogged>>

LeaveFile(r) ==
  /\ At(r, "file")
  /\ rows' = Add(rows, req[r].user, 1)
  /\ Go(r, "free")
  /\ UNCHANGED <<available, credit, submitted, ledger, received, paid, lost,
                 unlogged>>

\* Variant: nothing more is done for a spot that is available already.
LeaveFreeTaken(r) ==
  /\ At(r, "free")
  /\ available' = TRUE
  /\ IF available THEN Finish(r) ELSE Go(r, "award")
  /\ UNCHANGED <<rows, credit, submitted, ledger, received, paid, lost,
                 unlogged>>

LeaveFree(r) ==
  /\ At(r, "free")
  /\ available' = TRUE
  /\ Go(r, "award")
  /\ UNCHANGED <<rows, credit, submitted, ledger, received, paid, lost,
                 unlogged>>

\* Variant: the credit is given, the report is not counted.
LeaveAwardUncounted(r) ==
  /\ At(r, "award")
  /\ credit' = Add(credit, req[r].user, 1)
  /\ paid' = Add(paid, req[r].user, 1)
  /\ Go(r, "earn")
  /\ UNCHANGED <<rows, available, submitted, ledger, received, lost, unlogged>>

\* awardLeaveCredit: both counters in one update, then the ledger entry.
LeaveAward(r) ==
  /\ At(r, "award")
  /\ credit' = Add(credit, req[r].user, 1)
  /\ submitted' = Add(submitted, req[r].user, 1)
  /\ paid' = Add(paid, req[r].user, 1)
  /\ Go(r, "earn")
  /\ UNCHANGED <<rows, available, ledger, received, lost, unlogged>>

\* Variant: the ledger entry carries the new balance as its amount.
LeaveEarnBalance(r) ==
  /\ At(r, "earn")
  /\ ledger' = Add(ledger, req[r].user, credit[req[r].user])
  /\ Dispatch(r, req[r].user)
  /\ UNCHANGED <<rows, available, credit, submitted, received, paid, lost,
                 unlogged>>

LeaveEarn(r) ==
  /\ At(r, "earn")
  /\ ledger' = Add(ledger, req[r].user, 1)
  /\ Dispatch(r, req[r].user)
  /\ UNCHANGED <<rows, available, credit, submitted, received, paid, lost,
                 unlogged>>

-----------------------------------------------------------------------------
\* createParkingReport for the spot: refused within ten minutes of another.
ReportBegin(r, u) ==
  /\ "report" \in Ops
  /\ Start(r, "existing", u)
  /\ UNCHANGED <<rows, available, credit, submitted, ledger, received, paid,
                 lost, unlogged>>

\* A user who is more than 10 meters away, or nowhere, is refused as well.
ReportExisting(r) ==
  /\ At(r, "existing")
  /\ \/ rows[req[r].user] = 0 /\ Go(r, "publish")
     \/ Finish(r)
  /\ UNCHANGED <<rows, available, credit, submitted, ledger, received, paid,
                 lost, unlogged>>

\* postCreateCreditAndNotify: a report earns nothing, it only notifies.
ReportPublish(r) ==
  /\ At(r, "publish")
  /\ rows' = Add(rows, req[r].user, 1)
  /\ Dispatch(r, req[r].user)
  /\ UNCHANGED <<available, credit, submitted, ledger, received, paid, lost,
                 unlogged>>

\* createParkingReport without a spot: no window, no row for the spot.
ReportElsewhere(r, u) ==
  /\ "report" \in Ops
  /\ At(r, "idle")
  /\ Dispatch(r, u)
  /\ UNCHANGED <<rows, available, credit, submitted, ledger, received, paid,
                 lost, unlogged>>

\* reserveParkingSpot: whoever asks, whether or not it is available.
Reserve ==
  /\ "reserve" \in Ops
  /\ available' = FALSE
  /\ UNCHANGED <<rows, credit, submitted, ledger, received, req, paid, lost,
                 unlogged>>

\* Variant: the report need not exist.
DeleteAnyReport(u) ==
  /\ "delete" \in Ops
  /\ rows' = Add(rows, u, -1)
  /\ UNCHANGED <<available, credit, submitted, ledger, received, req, paid,
                 lost, unlogged>>

\* deleteParkingReport by its author.
DeleteReport(u) ==
  /\ "delete" \in Ops
  /\ rows[u] > 0
  /\ rows' = Add(rows, u, -1)
  /\ UNCHANGED <<available, credit, submitted, ledger, received, req, paid,
                 lost, unlogged>>

\* Ten minutes pass without a request of u for the spot.  A handler's calls
\* are answered sooner than that, so none of u's is before its award.
Age(u) ==
  /\ rows[u] > 0 \/ paid[u] > 0
  /\ \A r \in Req : req[r].user = u => req[r].pc \in DispatchPoints
  /\ rows' = [rows EXCEPT ![u] = 0]
  /\ paid' = [paid EXCEPT ![u] = 0]
  /\ UNCHANGED <<available, credit, submitted, ledger, received, req, lost,
                 unlogged>>

-----------------------------------------------------------------------------
\* Variant: a balance of 0 is enough.
DispatchCheckOffByOne(r) ==
  /\ At(r, "next")
  /\ \E u \in req[r].todo :
       \/ Continue(r, req[r].todo \ {u})
       \/ /\ credit[u] >= 0
          /\ req' = [req EXCEPT ![r].pc = "consume", ![r].cur = u,
                                ![r].todo = @ \ {u}]
  /\ UNCHANGED <<rows, available, credit, submitted, ledger, received, paid,
                 lost, unlogged>>

\* dispatchParkingNotification and dispatchParkingLeaveNotification: the loop
\* reaches a user u, who is skipped (preferences, distance, no token, or no
\* credits) or found to have a credit (checkParkingNotificationCredits).
DispatchCheck(r) ==
  /\ At(r, "next")
  /\ \E u \in req[r].todo :
       \/ Continue(r, req[r].todo \ {u})
       \/ /\ credit[u] > 0
          /\ req' = [req EXCEPT ![r].pc = "consume", ![r].cur = u,
                                ![r].todo = @ \ {u}]
  /\ UNCHANGED <<rows, available, credit, submitted, ledger, received, paid,
                 lost, unlogged>>

\* consumeParkingNotificationCredit: the decrement, then the ledger entry.
DispatchConsume(r) ==
  /\ At(r, "consume")
  /\ credit' = Add(credit, req[r].cur, -1)
  /\ Go(r, "charge")
  /\ UNCHANGED <<rows, available, submitted, ledger, received, paid, lost,
                 unlogged>>

\* Variant: the loop goes on to the next user once the charge is written.
DispatchChargeOnly(r) ==
  /\ At(r, "charge")
  /\ ledger' = Add(ledger, req[r].cur, -1)
  /\ Continue(r, req[r].todo)
  /\ UNCHANGED <<rows, available, credit, submitted, received, paid, lost,
                 unlogged>>

DispatchCharge(r) ==
  /\ At(r, "charge")
  /\ ledger' = Add(ledger, req[r].cur, -1)
  /\ Go(r, "event")
  /\ UNCHANGED <<rows, available, credit, submitted, received, paid, lost,
                 unlogged>>

DispatchEvent(r) ==
  /\ At(r, "event")
  /\ received' = Add(received, req[r].cur, 1)
  /\ Continue(r, req[r].todo)
  /\ UNCHANGED <<rows, available, credit, submitted, ledger, paid, lost,
                 unlogged>>

-----------------------------------------------------------------------------
\* A rejected call ends the handler; nothing it did is undone.
FailHandler(r) ==
  /\ Faults
  /\ req[r].pc \in HandlerPoints
  /\ unlogged' = IF At(r, "earn") THEN Add(unlogged, req[r].user, 1) ELSE unlogged
  /\ Finish(r)
  /\ UNCHANGED <<rows, available, credit, submitted, ledger, received, paid,
                 lost>>

\* A rejected call in the loop is caught there: the user is passed over, and a
\* credit that was already taken is not given back.
FailDispatch(r) ==
  /\ Faults
  /\ req[r].pc \in {"consume", "charge", "event"}
  /\ unlogged' = IF At(r, "charge") THEN Add(unlogged, req[r].cur, -1) ELSE unlogged
  /\ lost' = IF At(r, "consume") THEN lost ELSE Add(lost, req[r].cur, 1)
  /\ Continue(r, req[r].todo)
  /\ UNCHANGED <<rows, available, credit, submitted, ledger, received, paid>>

-----------------------------------------------------------------------------
Arrive(r, u) == LeaveBegin(r, u) \/ ReportBegin(r, u) \/ ReportElsewhere(r, u)

Handle(r) == \/ LeaveRecent(r) \/ LeaveFile(r) \/ LeaveFree(r)
             \/ LeaveAward(r) \/ LeaveEarn(r)
             \/ ReportExisting(r) \/ ReportPublish(r)

Loop(r) == \/ DispatchCheck(r) \/ DispatchConsume(r)
           \/ DispatchCharge(r) \/ DispatchEvent(r)

Next ==
  \/ \E r \in Req : \/ \E u \in User : Arrive(r, u)
                    \/ Handle(r) \/ Loop(r)
                    \/ FailHandler(r) \/ FailDispatch(r)
  \/ \E u \in User : DeleteReport(u) \/ Age(u)
  \/ Reserve

Spec == Init /\ [][Next]_vars

\* Node resumes every handler and every loop whose call has been answered.
FairSpec == Spec /\ \A r \in Req : WF_vars(Handle(r) \/ Loop(r))

-----------------------------------------------------------------------------
\* The types of the variables; a slot past its start knows who it works for.
TypeOK ==
  /\ rows \in [User -> Nat]
  /\ available \in BOOLEAN
  /\ credit \in [User -> Int]
  /\ submitted \in [User -> Nat]
  /\ ledger \in [User -> Int]
  /\ received \in [User -> Nat]
  /\ req \in [Req -> Request]
  /\ \A r \in Req : req[r].pc # "idle" => req[r].user \in User
  /\ \A r \in Req : req[r].pc \in {"consume", "charge", "event"} =>
                      req[r].cur \in User
  /\ paid \in [User -> Nat]
  /\ lost \in [User -> Nat]
  /\ unlogged \in [User -> Int]

\* Slots that stand at one of the points ps with u as their addressee.
Notifying(u, ps) == {r \in Req : req[r].cur = u /\ req[r].pc \in ps}
Earning(u)       == {r \in Req : req[r].user = u /\ req[r].pc = "earn"}

\* getUserParkingCredits computes how many notifications a user received; that
\* it raises a negative number to 0 never matters, by ReceivedAccounted.
NotificationsReceived(u) == submitted[u] - credit[u] + 1

\* The number of notifications received that a user is shown is the number of
\* events created, once what is between its charge and its event, and what
\* faults swallowed, is added.
ReceivedAccounted ==
  \A u \in User :
    NotificationsReceived(u)
      = received[u] + Cardinality(Notifying(u, {"charge", "event"})) + lost[u]

\* The transaction history adds up to the balance: every credit but the free
\* one has its EARNED entry and every charge its CONSUMED entry, or the entry
\* is about to be written, or a fault swallowed it.
LedgerAccounted ==
  \A u \in User :
    credit[u] + Cardinality(Notifying(u, {"charge"}))
      = 1 + ledger[u] + Cardinality(Earning(u)) + unlogged[u]

\* The check of a balance and its decrement are two calls, so loops that run
\* together can overdraw it, but each at most once: n of them leave a balance
\* of 1 - n at the least, and a single one leaves none negative.
OverdraftBounded == \A u \in User : credit[u] >= 1 - Cardinality(Req)

\* No user receives a notification on credit.
NoOverdraft == \A u \in User : credit[u] >= 0

\* "Each leave notification grants 1 credit": a leave that is answered with an
\* earlier report has been paid for.
\* The code does not keep this: the report may be no leave, or a leave that threw.
LeaveReturnsAwarded ==
  [][\A r \in Req : LeaveRecent(r) /\ rows[req[r].user] > 0 =>
                      paid[req[r].user] > 0]_vars

\* The number of notifications shown to a user may be ahead of the events, but
\* it is right again and again, those apart that faults swallowed: a loop goes on
\* to the event of every charge, although the request that launched it was
\* answered long ago and calls for other users are rejected.
ReceivedCatchesUp ==
  \A u \in User : []<>(NotificationsReceived(u) = received[u] + lost[u])
=============================================================================
