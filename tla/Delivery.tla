------------------------------ MODULE Delivery ------------------------------
(***************************************************************************)
(* What a sink pool promises about the messages it is offered, whatever    *)
(* its workers, its circuit breaker and its shutdown do.  A message is     *)
(* first the submitter's; the pool may take it.  Each message ends at most *)
(* once, and for good: delivered to the sink, written to the log, dropped, *)
(* refused with an error, or abandoned by a submitter that panicked.       *)
(***************************************************************************)
CONSTANT Msgs

VARIABLES
    state,
    mayDrop     \* whether the pool may drop a message without an error

States == {"offered", "taken", "delivered", "logged", "dropped", "refused", "abandoned"}

Init == state = [m \in Msgs |-> "offered"] /\ mayDrop \in BOOLEAN

Moves(m, from, to) ==
    /\ state[m] \in from
    /\ state' = [state EXCEPT ![m] = to] /\ UNCHANGED mayDrop

Take(m)    == Moves(m, {"offered"}, "taken")
Refuse(m)  == Moves(m, {"offered"}, "refused")
Abandon(m) == Moves(m, {"offered"}, "abandoned")
Deliver(m) == Moves(m, {"taken"}, "delivered")
Log(m)     == Moves(m, {"offered", "taken"}, "logged")
Drop(m)    == mayDrop /\ Moves(m, {"offered", "taken"}, "dropped")

Next == \E m \in Msgs : \/ Take(m) \/ Refuse(m) \/ Abandon(m)
                        \/ Deliver(m) \/ Log(m) \/ Drop(m)

Spec == Init /\ [][Next]_<<state, mayDrop>>

=============================================================================
