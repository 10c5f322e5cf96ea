--------------------------- MODULE MCNotifications ---------------------------
(* The instance of Notifications that TLC checks. *)
EXTENDS Notifications, TLC

\* Each behaviour mixes the dispatches of one scene; between them the scenes
\* hold every kind.
MCScenes == {{"added", "removed", "feed"}, {"rating"}, {"verified"}, {"area"},
             {"expiring", "expired"}}

\* Dispatches are interchangeable.
Symmetry == Permutations(Job)
=============================================================================
