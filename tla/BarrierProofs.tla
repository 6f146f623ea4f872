----------------------------- MODULE BarrierProofs -----------------------------
(***************************************************************************)
(* BarrierInv holds for any number of participants and any number of       *)
(* rounds, and with it barrier_wait is safe as a barrier.                  *)
(***************************************************************************)
EXTENDS Barrier, FiniteSetTheorems, TLAPS

\* The arrived are finitely many, at most all, and all when they are total.
LEMMA ArrivedFacts ==
    /\ IsFiniteSet(Arrived)
    /\ Cardinality(Arrived) \in 0..total
    /\ Cardinality(Arrived) = total => Arrived = Participant
    /\ total \in Nat \ {0}
<1>1. Arrived \subseteq Participant
  BY DEF Arrived
<1>2. IsFiniteSet(Arrived) /\ Cardinality(Arrived) <= total
      /\ (Cardinality(Arrived) = total => Arrived = Participant)
  BY <1>1, BarrierAssumption, FS_Subset DEF total
<1>3. Cardinality(Arrived) \in Nat /\ total \in Nat /\ total # 0
  BY <1>2, BarrierAssumption, FS_CardinalityType, FS_EmptySet DEF total
<1> QED
  BY <1>2, <1>3

\* Nobody has arrived at the start.
LEMMA InitInv == Init => BarrierInv
<1> SUFFICES ASSUME Init PROVE BarrierInv
  OBVIOUS
<1> USE DEF Init
<1>1. Arrived = {} /\ Cardinality(Arrived) = 0
  BY FS_EmptySet DEF Arrived, Inside
<1> QED
  BY <1>1, ArrivedFacts DEF BarrierInv, Inside, Last

\* As long as somebody is outside, nobody is the last.
LEMMA NobodyLast ==
    ASSUME BarrierInv, NEW p \in Participant, ~Inside(p)
    PROVE  /\ \A q \in Participant : ~Last(q)
           /\ cnt = Cardinality(Arrived)
           /\ cnt < total
<1>1. p \notin Arrived
  BY DEF Arrived
<1>2. \A q \in Participant : pc[q] # "advance"
  BY <1>1 DEF BarrierInv
<1>3. cnt = Cardinality(Arrived)
  BY <1>2 DEF BarrierInv
<1>4. cnt # total
  BY <1>1, <1>3, ArrivedFacts
<1>5. \A q \in Participant : pc[q] # "reset"
  BY <1>4 DEF BarrierInv
<1> QED
  BY <1>2, <1>3, <1>4, <1>5, ArrivedFacts DEF Last, BarrierInv

\* Reading the generation changes nobody's arrival.
LEMMA LoadInv ==
    ASSUME BarrierInv, NEW p \in Participant, Load(p)
    PROVE  BarrierInv'
<1> USE DEF Load, Goto
<1>1. /\ \A q \in Participant : ~Last(q)
      /\ cnt = Cardinality(Arrived)
  BY NobodyLast DEF Inside
<1>2. Arrived' = Arrived
  BY DEF Arrived, Inside, BarrierInv
<1>3. Cardinality(Arrived)' = Cardinality(Arrived)
  BY <1>2
<1> QED
  BY <1>1, <1>3 DEF BarrierInv, Inside, Last

\* An arrival is counted once, and the one that completes the count is alone.
LEMMA ArriveInv ==
    ASSUME BarrierInv, NEW p \in Participant, Arrive(p)
    PROVE  BarrierInv'
<1> USE DEF Arrive, Goto
<1>1. /\ \A q \in Participant : ~Last(q)
      /\ cnt = Cardinality(Arrived)
      /\ cnt < total
  BY NobodyLast DEF Inside
<1>2. Arrived' = Arrived \cup {p} /\ p \notin Arrived
  BY DEF Arrived, Inside, BarrierInv
<1>3. Cardinality(Arrived)' = cnt'
  BY <1>1, <1>2, ArrivedFacts, FS_AddElement, Zenon
<1>4. cnt' \in 0..total
  BY <1>1, ArrivedFacts DEF BarrierInv
<1>5. \A q \in Participant : q # p => pc'[q] = pc[q]
  BY DEF BarrierInv
<1>6. pc' \in [Participant -> {"work", "arrive", "spin", "reset", "advance"}]
      /\ pc'[p] = IF cnt' = total THEN "reset" ELSE "spin"
  BY DEF BarrierInv
<1> QED
  BY <1>1, <1>3, <1>4, <1>5, <1>6 DEF BarrierInv, Inside, Last

\* The last arrival resets the count when all have arrived.
LEMMA ResetInv ==
    ASSUME BarrierInv, NEW p \in Participant, Reset(p)
    PROVE  BarrierInv'
<1> USE DEF Reset, Goto
<1>1. \A q \in Participant : q # p => ~Last(q)
  BY DEF BarrierInv, Last
<1>2. Arrived = Participant
  <2>1. cnt = total
    BY DEF BarrierInv
  <2>2. \A q \in Participant : pc[q] # "advance"
    BY <1>1 DEF Last
  <2> QED
    BY <2>1, <2>2, ArrivedFacts DEF BarrierInv
<1>3. Arrived' = Participant
  BY <1>2 DEF Arrived, Inside, BarrierInv
<1> QED
  BY <1>1, <1>3, ArrivedFacts DEF BarrierInv, Inside, Last

\* The new generation finds all in the loop and nobody arrived.
LEMMA AdvanceInv ==
    ASSUME BarrierInv, NEW p \in Participant, Advance(p)
    PROVE  BarrierInv'
<1> USE DEF Advance, Goto
<1>1. cnt = 0 /\ Arrived = Participant
  BY DEF BarrierInv
<1>2. \A q \in Participant : g[q] = gen /\ (q # p => pc[q] = "spin")
  BY <1>1 DEF Arrived, Inside, Last, BarrierInv
<1>3. Arrived' = {}
  BY <1>2 DEF Arrived, BarrierInv
<1>4. Cardinality(Arrived)' = 0
  BY <1>3, FS_EmptySet
<1> QED
  BY <1>1, <1>2, <1>4 DEF BarrierInv, Inside, Last

\* Leaving the loop changes nobody's arrival.
LEMMA SpinInv ==
    ASSUME BarrierInv, NEW p \in Participant, Spin(p)
    PROVE  BarrierInv'
<1> USE DEF Spin, Goto
<1>1. g[p] = gen - 1
  BY DEF BarrierInv, Inside
<1>2. Arrived' = Arrived /\ p \notin Arrived
  BY <1>1 DEF Arrived, Inside, BarrierInv
<1>3. Cardinality(Arrived)' = Cardinality(Arrived)
  BY <1>2
<1> QED
  BY <1>1, <1>2, <1>3 DEF BarrierInv, Inside, Last

\* The count and the generation of barrier_wait agree with where the participants
\* are, for any number of them and any number of rounds.
THEOREM BarrierInvariant == Spec => []BarrierInv
<1>1. BarrierInv /\ [Next]_vars => BarrierInv'
  <2> SUFFICES ASSUME BarrierInv, [Next]_vars PROVE BarrierInv'
    OBVIOUS
  <2>1. CASE UNCHANGED vars
    BY <2>1 DEF vars, BarrierInv, Arrived, Inside, Last
  <2>2. ASSUME NEW p \in Participant, Load(p) \/ Waiting(p) PROVE BarrierInv'
    BY <2>2, LoadInv, ArriveInv, ResetInv, AdvanceInv, SpinInv DEF Waiting
  <2> QED
    BY <2>1, <2>2 DEF Next
<1> QED
  BY InitInv, <1>1, PTL DEF Spec

-----------------------------------------------------------------------------
(* The refinement: what a step of barrier_wait is to the abstract barrier. *)

entered == [p \in Participant |-> IF pc[p] = "arrive" THEN g[p] ELSE g[p] + 1]
left == [p \in Participant |-> IF pc[p] = "work" THEN g[p] + 1 ELSE g[p]]

\* An arrival enters the round.
LEMMA ArriveEnters ==
    ASSUME BarrierInv, NEW p \in Participant, Arrive(p)
    PROVE  Rounds!Enter(p)
<1> USE DEF Arrive, Goto, BarrierInv
<1>1. entered[p] = left[p]
  BY DEF entered, left
<1>2. entered' = [entered EXCEPT ![p] = @ + 1]
  BY Zenon DEF entered
<1>3. left' = left
  BY DEF left
<1> QED
  BY <1>1, <1>2, <1>3 DEF Rounds!Enter, entered, left

\* Advancing the generation, or seeing it advanced, leaves a round that all entered.
LEMMA LeaveWhenAllEntered ==
    ASSUME BarrierInv, NEW p \in Participant, Advance(p) \/ Spin(p)
    PROVE  Rounds!Leave(p)
<1> USE DEF Advance, Spin, Goto, BarrierInv
<1>1. g[p] = IF pc[p] = "spin" THEN gen - 1 ELSE gen
  BY DEF Inside
<1>2. \A q \in Participant : entered[q] >= entered[p]
  <2>1. CASE Advance(p)
    <3>1. \A q \in Participant : Inside(q) /\ g[q] = gen
      BY <2>1 DEF Arrived
    <3> QED
      BY <3>1, <1>1, <2>1 DEF entered, Inside
  <2>2. CASE Spin(p)
    BY <2>2, <1>1 DEF entered, Inside
  <2> QED
    BY <2>1, <2>2
<1>3. left[p] < entered[p]
  BY <1>1 DEF entered, left
<1>4. left' = [left EXCEPT ![p] = @ + 1]
  BY Zenon DEF left
<1>5. entered' = entered
  BY DEF entered
<1> QED
  BY <1>2, <1>3, <1>4, <1>5 DEF Rounds!Leave, entered, left

\* Reading the generation and resetting the count are invisible.
LEMMA OthersInvisible ==
    ASSUME BarrierInv, NEW p \in Participant, Load(p) \/ Reset(p)
    PROVE  UNCHANGED <<entered, left>>
BY DEF BarrierInv, Load, Reset, Goto, entered, left

\* barrier_wait never lets anybody leave a round that somebody has not entered, nor
\* skip or repeat one: every step is a step of the abstract barrier or invisible.
THEOREM BarrierRefines == Spec => Rounds!Safety
<1>1. Init => Rounds!Init
  BY DEF Init, Rounds!Init
<1>2. BarrierInv /\ [Next]_vars => [Rounds!Next]_<<entered, left>>
  <2> SUFFICES ASSUME BarrierInv, [Next]_vars PROVE Rounds!Next \/ UNCHANGED <<entered, left>>
    OBVIOUS
  <2>1. CASE UNCHANGED vars
    BY <2>1 DEF vars, entered, left
  <2>2. ASSUME NEW p \in Participant, Load(p) \/ Waiting(p)
        PROVE  Rounds!Next \/ UNCHANGED <<entered, left>>
    BY <2>2, ArriveEnters, LeaveWhenAllEntered, OthersInvisible DEF Waiting, Rounds!Next
  <2> QED
    BY <2>1, <2>2 DEF Next
<1> QED
  BY BarrierInvariant, <1>1, <1>2, PTL DEF Spec, Rounds!Safety, entered, left
=============================================================================
