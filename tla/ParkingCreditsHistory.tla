------------------------ MODULE ParkingCreditsHistory ------------------------
(***************************************************************************)
(* History variables beside ParkingCredits: what became of the reports of   *)
(* each user for the spot in the last ten minutes, beside those that are    *)
(* there and those that earned a credit.  No step depends on them.          *)
(***************************************************************************)
EXTENDS ParkingCredits

VARIABLES
  deleted,    \* per user: reports for the spot that the author deleted
  published,  \* per user: reports that were filed as such and earn nothing
  stranded    \* per user: reports of leaves that threw before the award

historyVars == <<vars, deleted, published, stranded>>

HistoryInit ==
  /\ Init
  /\ deleted = [u \in User |-> 0]
  /\ published = [u \in User |-> 0]
  /\ stranded = [u \in User |-> 0]

Forget(f, u) == [f EXCEPT ![u] = 0]

Runs(r) ==
  /\ (\E u \in User : Arrive(r, u)) \/ Handle(r) \/ Loop(r) \/ FailDispatch(r)
  /\ published' = IF At(r, "publish") THEN Add(published, req[r].user, 1)
                                      ELSE published
  /\ UNCHANGED <<deleted, stranded>>

Throws(r) ==
  /\ FailHandler(r)
  /\ stranded' = IF req[r].pc \in {"free", "award"}
                   THEN Add(stranded, req[r].user, 1) ELSE stranded
  /\ UNCHANGED <<deleted, published>>

Deletes(u) ==
  /\ DeleteReport(u)
  /\ deleted' = Add(deleted, u, 1)
  /\ UNCHANGED <<published, stranded>>

Ages(u) ==
  /\ Age(u)
  /\ deleted' = Forget(deleted, u)
  /\ published' = Forget(published, u)
  /\ stranded' = Forget(stranded, u)

HistoryNext ==
  \/ \E r \in Req : Runs(r) \/ Throws(r)
  \/ \E u \in User : Deletes(u) \/ Ages(u)
  \/ Reserve /\ UNCHANGED <<deleted, published, stranded>>

HistorySpec == HistoryInit /\ [][HistoryNext]_historyVars

-----------------------------------------------------------------------------
\* Leaves of u that have filed their report and have yet to be paid for it.
Awarding(u) == {r \in Req : req[r].user = u /\ req[r].pc \in {"free", "award"}}

\* The ten-minute window bounds what a user can earn at one spot, although
\* requests of the same user race past the look at earlier reports and reports
\* can be deleted: n requests that run together earn n credits at most, and
\* each deletion makes room for one more.
AwardsBounded ==
  \A u \in User : paid[u] + Cardinality(Awarding(u)) <= Cardinality(Req) + deleted[u]

\* Every report of the last ten minutes, those deleted since included, is a
\* leave's that was paid or is about to be, was filed as a report, or is that
\* of a leave that threw: no leave that goes on to its answer files a report
\* without being paid for it, and none is paid twice.
ReportsAccounted ==
  \A u \in User :
    rows[u] + deleted[u]
      = paid[u] + Cardinality(Awarding(u)) + published[u] + stranded[u]
=============================================================================
