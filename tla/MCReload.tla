------------------------------ MODULE MCReload ------------------------------
(* Instances of Reload for TLC. *)
EXTENDS Reload

CONSTANTS a1, u1, u2

MCAdmins   == {a1}
MCRequests == {u1, u2}

\* The last version has no rates and gets the defaults.
MCGlobalRateLimit == [v \in Versions |-> IF v = MaxVersion THEN 0 ELSE 100 * v]
MCRateLimit       == [v \in Versions |-> IF v = MaxVersion THEN -1 ELSE 10 * v]

=============================================================================
