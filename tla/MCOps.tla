------------------------------- MODULE MCOps -------------------------------
(* Instance of Ops for TLC. *)
EXTENDS Ops

CONSTANT s1

MCSinks == {s1}

MCFileLevels == <<"error", "warn">>

\* A line may quote another one, tag included.
MCLines == {{"error"}, {"error", "warn"}}

\* The sinks change often; the file system fails twice in two days; both.
MCBudgets ==
    {[flips |-> 3, faults |-> 0, days |-> 0, chatter |-> FALSE],
     [flips |-> 0, faults |-> 2, days |-> 1, chatter |-> TRUE],
     [flips |-> 1, faults |-> 1, days |-> 0, chatter |-> FALSE]}

=============================================================================
