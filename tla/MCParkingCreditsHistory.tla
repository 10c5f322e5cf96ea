----------------------- MODULE MCParkingCreditsHistory -----------------------
(* Instances of ParkingCreditsHistory for TLC. *)
EXTENDS ParkingCreditsHistory, TLC

\* Users, and slots, are interchangeable.
Symmetry == Permutations(User) \cup Permutations(Req)

\* Credits and reports do not depend on the flag of the spot: no step reads it.
CreditsAndReports == <<rows, credit, submitted, ledger, received, req, paid,
                       lost, unlogged, deleted, published, stranded>>

\* Bound: faults cost one notification and one ledger entry at most, and of the
\* reports in the windows one was deleted, filed as a report, or stranded, and
\* that one while no notification has been lost.
Spent(u) == deleted[u] + published[u] + stranded[u]

FewFaults ==
  /\ \A u, v \in User : lost[u] > 0 /\ lost[v] > 0 => u = v /\ lost[u] = 1
  /\ \A u, v \in User : unlogged[u] # 0 /\ unlogged[v] # 0
                          => u = v /\ unlogged[u] \in {-1, 1}
  /\ \A u, v \in User : Spent(u) > 0 /\ Spent(v) > 0 => u = v /\ Spent(u) = 1
  /\ \A u, v \in User : Spent(u) > 0 => lost[v] = 0
=============================================================================
