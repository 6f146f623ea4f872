------------------------------ MODULE BarrierSpec ------------------------------
(***************************************************************************)
(* What a cyclic barrier promises, without saying how: a participant may   *)
(* leave a round only when every participant has entered it.               *)
(***************************************************************************)
EXTENDS Integers

CONSTANT Participant

VARIABLES
    entered,   \* how many rounds each participant has entered
    left       \* how many it has left

Init ==
    /\ entered = [p \in Participant |-> 0]
    /\ left = [p \in Participant |-> 0]

Enter(p) ==
    /\ entered[p] = left[p]
    /\ entered' = [entered EXCEPT ![p] = @ + 1]
    /\ UNCHANGED left

Leave(p) ==
    /\ left[p] < entered[p]
    /\ \A q \in Participant : entered[q] >= entered[p]
    /\ left' = [left EXCEPT ![p] = @ + 1]
    /\ UNCHANGED entered

Next == \E p \in Participant : Enter(p) \/ Leave(p)

\* What may happen.
Safety == Init /\ [][Next]_<<entered, left>>

\* Whoever may leave does.
Spec == Safety /\ \A p \in Participant : WF_<<entered, left>>(Leave(p))
=============================================================================
