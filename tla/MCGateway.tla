------------------------------ MODULE MCGateway ------------------------------
(* Instances of Gateway for TLC. *)
EXTENDS Gateway, TLC

CONSTANTS m1, m2, m3, m4

MCMsgs      == {m1, m2, m3, m4}
MCFewMsgs   == {m1, m2, m4}
MCUnrouted  == {m4}
MCNone      == {}

MCSymmetry == Permutations(Msgs \ (Unrouted \cup PipelineFails))

=============================================================================
