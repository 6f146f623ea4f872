-------------------------------- MODULE Barrier --------------------------------
(***************************************************************************)
(* The generation barrier of the language runtime: barrier_make and        *)
(* barrier_wait of compiler/runtime/elisacore_std/                         *)
(* elisacore_runtime_concurrency.elisa.                                    *)
(*                                                                         *)
(* Two shared cells, each accessed atomically, one access per action.  The *)
(* relaxed reset of the count is ordered before the release of the         *)
(* generation, and every participant acquires the generation before it can *)
(* arrive again, so sequential consistency loses no behaviour.             *)
(***************************************************************************)
EXTENDS Integers, FiniteSets

CONSTANTS
    Participant,   \* the workers that share the barrier
    MaxRounds      \* bound on the generation counter

ASSUME BarrierAssumption ==
    IsFiniteSet(Participant) /\ Participant # {} /\ MaxRounds \in Nat

total == Cardinality(Participant)

VARIABLES
    cnt,   \* backing[0]
    gen,   \* backing[1]
    pc,    \* where each participant is in barrier_wait; "work" is outside
    g      \* the generation each participant read on its last call, -1 before

vars == <<cnt, gen, pc, g>>

Init ==
    /\ cnt = 0
    /\ gen = 0
    /\ pc = [p \in Participant |-> "work"]
    /\ g = [p \in Participant |-> -1]

Goto(p, label) == pc' = [pc EXCEPT ![p] = label]

Load(p) ==
    /\ pc[p] = "work"
    /\ gen < MaxRounds
    /\ g' = [g EXCEPT ![p] = gen]
    /\ Goto(p, "arrive")
    /\ UNCHANGED <<cnt, gen>>

\* Mutant: the round is over one arrival too soon.
ArriveEarly(p) ==
    /\ pc[p] = "arrive"
    /\ cnt' = cnt + 1
    /\ Goto(p, IF cnt + 2 = total THEN "reset" ELSE "spin")
    /\ UNCHANGED <<gen, g>>

Arrive(p) ==
    /\ pc[p] = "arrive"
    /\ cnt' = cnt + 1
    /\ Goto(p, IF cnt + 1 = total THEN "reset" ELSE "spin")
    /\ UNCHANGED <<gen, g>>

\* Mutant: the count is left as it is.
ResetForgotten(p) ==
    /\ pc[p] = "reset"
    /\ Goto(p, "advance")
    /\ UNCHANGED <<cnt, gen, g>>

Reset(p) ==
    /\ pc[p] = "reset"
    /\ cnt' = 0
    /\ Goto(p, "advance")
    /\ UNCHANGED <<gen, g>>

Advance(p) ==
    /\ pc[p] = "advance"
    /\ gen' = gen + 1
    /\ Goto(p, "work")
    /\ UNCHANGED <<cnt, g>>

\* The loop on the generation ends.
Spin(p) ==
    /\ pc[p] = "spin"
    /\ gen # g[p]
    /\ Goto(p, "work")
    /\ UNCHANGED <<cnt, gen, g>>

Waiting(p) == Arrive(p) \/ Reset(p) \/ Advance(p) \/ Spin(p)

\* The bound has been reached by all.
Over == gen = MaxRounds /\ \A p \in Participant : pc[p] = "work"

Next == (\E p \in Participant : Load(p) \/ Waiting(p)) \/ (Over /\ UNCHANGED vars)

\* A participant inside barrier_wait keeps running.
Spec == Init /\ [][Next]_vars /\ \A p \in Participant : WF_vars(Waiting(p))

-----------------------------------------------------------------------------
(* Properties.                                                             *)

Last(p) == pc[p] \in {"reset", "advance"}
Inside(p) == pc[p] \in {"spin", "reset", "advance"}

\* The rounds entered and left, read off the generation each participant saw.
Rounds == INSTANCE BarrierSpec WITH
    entered <- [p \in Participant |-> IF pc[p] = "arrive" THEN g[p] ELSE g[p] + 1],
    left <- [p \in Participant |-> IF pc[p] = "work" THEN g[p] + 1 ELSE g[p]]

\* barrier_wait implements a barrier: nobody leaves a round that somebody has not
\* entered, no participant skips or repeats a round, and everybody leaves a round
\* that all have entered.
IsBarrier == Rounds!Spec

Arrived == {p \in Participant : Inside(p) /\ g[p] = gen}

\* The count is the number of arrivals of the current generation until the last
\* arrival, of which there is one, resets it, and those who have not arrived have
\* left all earlier rounds except for noticing the last one (barrier_wait: "No
\* per-thread state").
BarrierInv ==
    /\ cnt \in 0..total /\ gen \in Nat
    /\ pc \in [Participant -> {"work", "arrive", "spin", "reset", "advance"}]
    /\ g \in [Participant -> Int]
    /\ \A p \in Participant :
         /\ pc[p] = "work" => g[p] = gen - 1
         /\ pc[p] = "arrive" => g[p] = gen
         /\ Inside(p) => g[p] \in {gen - 1, gen}
         /\ Inside(p) /\ g[p] = gen - 1 => pc[p] = "spin"
         /\ pc[p] = "reset" => cnt = total
         /\ pc[p] = "advance" => cnt = 0 /\ Arrived = Participant
         /\ \A q \in Participant : Last(p) /\ Last(q) => p = q
    /\ (\A p \in Participant : pc[p] # "advance") => cnt = Cardinality(Arrived)
=============================================================================
