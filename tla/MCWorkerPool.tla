---------------------------- MODULE MCWorkerPool ----------------------------
(* Instances of WorkerPool for TLC. *)
EXTENDS WorkerPool, TLC

CONSTANTS w1, w2, m1, m2, m3

OneWorker  == {w1}
TwoWorkers == {w1, w2}
TwoMsgs    == {m1, m2}
ThreeMsgs  == {m1, m2, m3}
OneStrict  == {m1}
NoneStrict == {}

\* Workers, and messages submitted the same way, are interchangeable.
MCSymmetry == Permutations(Workers) \cup Permutations(Msgs \ Strict)

=============================================================================
