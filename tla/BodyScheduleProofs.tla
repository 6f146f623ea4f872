-------------------------- MODULE BodyScheduleProofs --------------------------
(***************************************************************************)
(* For any number of workers and any well-formed plan, whoever analyses a  *)
(* unit holds the facts of everything the unit transitively depends on.    *)
(*                                                                         *)
(* depClosure is a constant of the specification; what the proofs use of   *)
(* it is ScheduleAssumption, which TLC evaluates for the code's algorithm. *)
(***************************************************************************)
EXTENDS BodySchedule, FiniteSetTheorems, TLAPS

\* The part of ScheduleInv that is inductive without the rest: who runs what, what
\* the counters count and what a worker holds.  ClaimsInv is proved on top of it.
CoreInv == TypeOK /\ RunInv /\ CountInv /\ HoldInv
IInv == plan \in Plan /\ CoreInv

\* Worker v is at the same place of a unit before and after a step, if any.
SamePlace(v) ==
    /\ pc'[v] \in Running <=> pc[v] \in Running
    /\ pc'[v] \in Running \ {"finish"} <=> pc[v] \in Running \ {"finish"}
    /\ pc'[v] \in Running \ {"import"} <=> pc[v] \in Running \ {"import"}
    /\ pc'[v] \in {"export", "publish", "close", "finish"} <=> pc[v] \in {"export", "publish", "close", "finish"}
    /\ pc'[v] \in {"publish", "close", "finish"} <=> pc[v] \in {"publish", "close", "finish"}
    /\ pc'[v] = "finish" <=> pc[v] = "finish"
    /\ pc'[v] = "close" <=> pc[v] = "close"
    /\ pc'[v] = "import" <=> pc[v] = "import"

-----------------------------------------------------------------------------
(* Reachability.                                                           *)

\* What a unit reaches is in every closed set that holds its dependencies.
LEMMA ReachesLeast ==
    ASSUME NEW p, NEW u, NEW S \in SUBSET Unit(p), p.deps[u] \subseteq S, Closed(p, S)
    PROVE  Reaches(p, u) \subseteq S
BY Zenon DEF Reaches

\* Whatever is reached is a dependency of some unit.
LEMMA ReachedHasDependent ==
    ASSUME NEW p \in Plan, NEW u \in Unit(p), NEW d \in Reaches(p, u)
    PROVE  \E v \in Unit(p) : d \in p.deps[v]
<1> DEFINE S == {x \in Unit(p) : \E v \in Unit(p) : x \in p.deps[v]}
<1>1. WellFormed(p)
  BY ScheduleAssumption, Zenon
<1>2. p.deps[u] \subseteq S
  BY <1>1, Zenon DEF WellFormed
<1>3. Closed(p, S)
  BY <1>1, Zenon DEF WellFormed, Closed
<1> HIDE DEF S
<1>4. S \in SUBSET Unit(p)
  BY Zenon DEF S
<1>5. d \in S
  BY <1>2, <1>3, <1>4, ReachesLeast, Zenon
<1> QED
  BY <1>5, Zenon DEF S

\* The units that have finished are closed, so whatever a claimed unit rests
\* on has finished.
LEMMA ClaimedRestsOnFinished ==
    ASSUME IInv, NEW u \in Unit(plan), owner[u] # None
    PROVE  Reaches(plan, u) \subseteq Finished
<1>1. Finished \in SUBSET Unit(plan)
  BY Zenon DEF IInv, CoreInv, TypeOK, Finished
<1>2. Closed(plan, Finished)
  BY <1>1, Zenon DEF IInv, CoreInv, RunInv, CountInv, Closed, Finished
<1>3. plan.deps[u] \subseteq Finished
  BY Zenon DEF IInv, CoreInv, CountInv
<1> QED
  BY <1>1, <1>2, <1>3, ReachesLeast, Zenon

\* A set that gains an element it did not hold takes one from what is left.
LEMMA OneLess ==
    ASSUME NEW S, IsFiniteSet(S), NEW F, NEW x \in S, x \notin F
    PROVE  Cardinality(S \ (F \cup {x})) = Cardinality(S \ F) - 1 /\ Cardinality(S \ F) \in Nat
<1>1. IsFiniteSet(S \ F)
  BY FS_Subset, Zenon
<1>2. S \ (F \cup {x}) = (S \ F) \ {x}
  BY Zenon
<1> QED
  BY <1>1, <1>2, FS_RemoveElement, FS_CardinalityType, Zenon

-----------------------------------------------------------------------------
(* The initial state.                                                      *)

\* The initial counters count all dependencies and all chunks.
LEMMA InitInv == Init => IInv
<1> SUFFICES ASSUME Init PROVE IInv
  BY Zenon
<1>1. plan \in Plan /\ WellFormed(plan) /\ None \notin Unit(plan)
  BY ScheduleAssumption, Zenon DEF Init
<1>2. done = {} /\ CountedOff = {} /\ Finished = {}
  BY Zenon DEF Init, CountedOff, Finished
<1>3. \A u \in Unit(plan) : IsFiniteSet(plan.deps[u]) /\ Cardinality(plan.deps[u]) \in Nat
  BY <1>1, FS_Subset, FS_CardinalityType, Zenon DEF WellFormed
<1>4. \A c : LET S == {u \in Unit(plan) : plan.sccOf[u] = c}
             IN  IsFiniteSet(S) /\ Cardinality(S) \in Nat
  BY <1>1, FS_Subset, FS_CardinalityType, Zenon DEF WellFormed
<1>5. Cardinality(Unit(plan)) \in Nat
  BY <1>1, FS_CardinalityType, Zenon DEF WellFormed
<1>6. TypeOK
  <2>1. sccLeft \in [Scc(plan) -> Nat] /\ published \subseteq Scc(plan)
    BY <1>4, Zenon DEF Init
  <2>2. todo \in [Worker -> Seq(Unit(plan))]
    BY DEF Init
  <2>3. pending \in [Unit(plan) -> Nat] /\ left \in Int
    BY <1>3, <1>5 DEF Init
  <2> QED
    BY <2>1, <2>2, <2>3, Zenon DEF Init, TypeOK
<1>7. RunInv
  BY <1>1, FS_EmptySet, Zenon DEF Init, RunInv, Running
<1>8. CountInv
  <2>1. \A u \in Unit(plan) : owner[u] = None
    BY Zenon DEF Init
  <2>2. \A c \in Scc(plan) : sccLeft[c] # 0
    <3> SUFFICES ASSUME NEW c \in Scc(plan) PROVE sccLeft[c] # 0
      BY Zenon
    <3>1. {u \in Unit(plan) : plan.sccOf[u] = c} # {}
      BY Zenon DEF Scc
    <3> QED
      BY <3>1, <1>4, FS_EmptySet, Zenon DEF Init
  <2> QED
    BY <1>2, <2>1, <2>2, Zenon DEF Init, CountInv
<1>9. HoldInv
  BY <1>1, Zenon DEF Init, HoldInv, Have, Closed, Running
<1> QED
  BY <1>1, <1>6, <1>7, <1>8, <1>9, Zenon DEF IInv, CoreInv

-----------------------------------------------------------------------------
(* claim and finish.                                                       *)

\* Waking the sleepers moves no worker that runs a unit.
LEMMA AwakeKeeps ==
    ASSUME NEW pcs \in [Worker -> Running \cup {"claim", "asleep", "exited"}]
    PROVE  /\ Awake(pcs) \in [Worker -> Running \cup {"claim", "asleep", "exited"}]
           /\ \A w \in Worker : \A q \in Running : Awake(pcs)[w] = q <=> pcs[w] = q
BY Zenon DEF Awake, Running

\* A worker that claims a unit: its dependencies have finished, and the import
\* list is right for what the worker holds.
LEMMA ClaimInv == ASSUME IInv, NEW w \in Worker, Claim(w) PROVE IInv'
<1>1. PICK u \in ready :
        /\ ready' = ready \ {u}
        /\ left' = left - 1
        /\ owner' = [owner EXCEPT ![u] = w]
        /\ unit' = [unit EXCEPT ![w] = u]
        /\ todo' = [todo EXCEPT ![w] = Imports(w, u)]
  BY Zenon DEF Claim
<1>2. /\ pc[w] = "claim" /\ pc' = AfterClaim(w)
      /\ UNCHANGED <<plan, pending, sccLeft, published, exported, done, ranHere, imported, facts>>
  BY Zenon DEF Claim, progress
<1>3. /\ plan \in Plan /\ TypeOK /\ RunInv /\ CountInv /\ HoldInv
      /\ WellFormed(plan) /\ None \notin Unit(plan)
  BY ScheduleAssumption, Zenon DEF IInv, CoreInv
<1>4. u \in Unit(plan) /\ owner[u] = None /\ pending[u] = 0 /\ u \notin done /\ u # None
  BY <1>3 DEF TypeOK, RunInv
<1>5. /\ pc' \in [Worker -> Running \cup {"claim", "asleep", "exited"}]
      /\ pc'[w] = "import"
      /\ \A v \in Worker \ {w} : \A q \in Running : pc'[v] = q <=> pc[v] = q
  <2> DEFINE now == [pc EXCEPT ![w] = "import"]
  <2>1. now \in [Worker -> Running \cup {"claim", "asleep", "exited"}] /\ now[w] = "import"
    BY <1>3, Zenon DEF TypeOK, Running
  <2>2. pc' = now \/ pc' = Awake(now)
    BY <1>2, Zenon DEF AfterClaim
  <2>3. \A v \in Worker \ {w} : now[v] = pc[v]
    BY <1>3, Zenon DEF TypeOK
  <2> HIDE DEF now
  <2>4. Awake(now)[w] = "import"
    BY <2>1, AwakeKeeps, Zenon DEF Running
  <2> QED
    BY <2>1, <2>2, <2>3, <2>4, AwakeKeeps
<1>6. Finished' = Finished /\ CountedOff' = CountedOff
  <2>1. \A v \in Worker : \A q \in {"finish", "close"} : pc'[v] = q <=> pc[v] = q
    BY <1>2, <1>5, Zenon DEF Running
  <2>2. \A v \in Worker : pc[v] \in {"finish", "close"} => unit'[v] = unit[v]
    BY <1>1, <1>2, <1>3, Zenon DEF TypeOK
  <2> QED
    BY <1>2, <2>1, <2>2 DEF Finished, CountedOff
<1>7. plan.deps[u] \subseteq Finished
  <2>1. IsFiniteSet(plan.deps[u] \ Finished)
    BY <1>3, <1>4, FS_Subset, Zenon DEF WellFormed
  <2> QED
    BY <1>3, <1>4, <2>1, FS_EmptySet DEF CountInv
<1>8. Closed(plan, Have(w)) /\ Have(w) \in SUBSET Unit(plan)
  BY <1>3, Zenon DEF HoldInv, TypeOK, Have
<1>9. DependenciesFirst(plan, u, Have(w), Imports(w, u))
  BY <1>3, <1>4, <1>8, ScheduleAssumption, Zenon DEF Imports
<1>10. left' \in Int
  BY <1>1, <1>3 DEF TypeOK
<1>11. TypeOK'
  <2>1. todo' \in [Worker -> Seq(Unit(plan'))]
    BY <1>1, <1>2, <1>3, <1>9, Zenon DEF TypeOK, DependenciesFirst
  <2>2. Unit(plan') = Unit(plan) /\ Scc(plan') = Scc(plan)
    BY <1>2, Zenon
  <2>3. owner' \in [Unit(plan) -> Worker \cup {None}] /\ unit' \in [Worker -> Unit(plan) \cup {None}] /\ ready' \subseteq Unit(plan)
    BY <1>1, <1>3, <1>4, Zenon DEF TypeOK
  <2> QED
    BY <1>2, <1>3, <1>5, <1>10, <2>1, <2>2, <2>3, Zenon DEF TypeOK
<1>12. RunInv'
  <2>1. \A v \in Worker \ {w} : unit'[v] = unit[v] /\ (pc'[v] \in Running <=> pc[v] \in Running)
    BY <1>1, <1>3, <1>5, Zenon DEF TypeOK
  <2>2. unit'[w] = u /\ owner'[u] = w /\ \A x \in Unit(plan) \ {u} : owner'[x] = owner[x]
    BY <1>1, <1>3, <1>4, Zenon DEF TypeOK
  <2>3. \A v \in Worker \ {w} : pc[v] \in Running => unit[v] # u
    BY <1>3, <1>4, ScheduleAssumption DEF RunInv, TypeOK
  <2>4. \A x \in ready' : owner'[x] = None /\ pending'[x] = 0
    BY <1>1, <1>2, <1>3, <2>2, Zenon DEF RunInv, TypeOK
  <2>5. \A x \in done : x # u /\ owner'[x] = owner[x]
    BY <1>3, <1>4, <2>2, Zenon DEF TypeOK
  <2>6. \A v \in Worker : \A d \in ranHere[v] : owner'[d] = v
    BY <1>3, <1>4, <2>2, ScheduleAssumption, SMTT(30) DEF RunInv, TypeOK
  <2>7. \A v \in Worker \ {w} : pc'[v] \in Running => owner'[unit'[v]] = v
    BY <1>3, <2>1, <2>2, <2>3, ScheduleAssumption DEF RunInv, TypeOK
  <2>8. \A v \in Worker \ {w} : pc'[v] = "finish" <=> pc[v] = "finish"
    BY <1>5, Zenon DEF Running
  <2>9. \A v \in Worker \ {w} : pc'[v] \in {"export", "publish", "close", "finish"} => pc[v] \in {"export", "publish", "close", "finish"}
    BY <1>5, Zenon DEF Running
  <2>10. pc'[w] \in Running \ {"finish"} /\ pc'[w] \notin {"export", "publish", "close", "finish"}
    BY <1>5, Zenon DEF Running
  <2> QED
    BY <1>2, <1>3, <1>4, <2>1, <2>2, <2>4, <2>5, <2>6, <2>7, <2>8, <2>9, <2>10, SMTT(30) DEF RunInv
<1>13. CountInv'
  BY <1>1, <1>2, <1>3, <1>4, <1>6, <1>7, SMTT(30) DEF CountInv, TypeOK, Unit, Scc
<1>14. HoldInv'
  <2>1. \A v \in Worker : Have(v)' = Have(v)
    BY <1>2, Zenon DEF Have
  <2>2. \A v \in Worker \ {w} : unit'[v] = unit[v] /\ todo'[v] = todo[v]
    BY <1>1, <1>3, Zenon DEF TypeOK
  <2>3. \A d : Rdeps(d)' = Rdeps(d)
    BY <1>2, Zenon DEF Rdeps, Unit
  <2>4. unit'[w] = u /\ todo'[w] = Imports(w, u)
    BY <1>1, <1>3, Zenon DEF TypeOK
  <2> QED
    BY <1>2, <1>3, <1>5, <1>9, <2>1, <2>2, <2>3, <2>4 DEF HoldInv, Running
<1> QED
  BY <1>2, <1>3, <1>11, <1>12, <1>13, <1>14, Zenon DEF IInv, CoreInv

\* A worker that waits for work or ends runs nothing before and after.
LEMMA ClaimIdleInv == ASSUME IInv, NEW w \in Worker, ClaimWaits(w) \/ ClaimEnds(w) PROVE IInv'
<1>1. /\ pc[w] = "claim" /\ pc' \in {[pc EXCEPT ![w] = "asleep"], [pc EXCEPT ![w] = "exited"]}
      /\ UNCHANGED <<plan, pending, ready, left, owner, sccLeft, published, exported, done, unit,
                     todo, ranHere, imported, facts>>
  BY Zenon DEF ClaimWaits, ClaimEnds, shared, progress, local
<1>2. pc \in [Worker -> Running \cup {"claim", "asleep", "exited"}]
  BY Zenon DEF IInv, CoreInv, TypeOK
<1>3. /\ pc' \in [Worker -> Running \cup {"claim", "asleep", "exited"}]
      /\ \A v \in Worker : SamePlace(v)
  BY <1>1, <1>2, Zenon DEF Running, SamePlace
<1>5. Finished' = Finished /\ CountedOff' = CountedOff
  BY <1>1, <1>3 DEF Finished, CountedOff, SamePlace
<1>6. TypeOK'
  BY <1>1, <1>3, Zenon DEF IInv, CoreInv, TypeOK
<1>7. RunInv'
  BY <1>1, <1>3, Zenon DEF IInv, CoreInv, RunInv, SamePlace
<1>8. CountInv'
  BY <1>1, <1>5, Zenon DEF IInv, CoreInv, CountInv
<1>9. HoldInv'
  <2>2. \A v \in Worker : Have(v)' = Have(v)
    BY <1>1, Zenon DEF Have
  <2>3. \A d : Rdeps(d)' = Rdeps(d)
    BY <1>1, Zenon DEF Rdeps
  <2> QED
    BY <1>1, <1>3, <2>2, <2>3 DEF IInv, CoreInv, HoldInv, SamePlace
<1> QED
  BY <1>1, <1>6, <1>7, <1>8, <1>9, Zenon DEF IInv, CoreInv

\* A worker that finishes a unit takes it off what its dependents wait for.
LEMMA FinishInv == ASSUME IInv, NEW w \in Worker, Finish(w) PROVE IInv'
<1>0. PICK x : x = unit[w]
  BY Zenon
<1>1. /\ pc[w] = "finish"
      /\ pending' = [u \in Unit(plan) |-> IF u \in Rdeps(x) THEN pending[u] - 1 ELSE pending[u]]
      /\ ready' = ready \cup {u \in Rdeps(x) : pending[u] = 1}
      /\ pc' = Awake([pc EXCEPT ![w] = "claim"])
      /\ unit' = [unit EXCEPT ![w] = None]
      /\ UNCHANGED <<plan, left, owner, sccLeft, published, exported, done, todo, ranHere, imported, facts>>
  BY <1>0, Zenon DEF Finish, progress, local
<1>2. /\ plan \in Plan /\ TypeOK /\ RunInv /\ CountInv /\ HoldInv
      /\ WellFormed(plan) /\ None \notin Unit(plan)
  BY ScheduleAssumption, Zenon DEF IInv, CoreInv
<1>3. x \in Unit(plan) /\ x \in done /\ owner[x] = w
  BY <1>0, <1>1, <1>2, Zenon DEF RunInv, TypeOK, Running
<1>4. /\ pc' \in [Worker -> Running \cup {"claim", "asleep", "exited"}]
      /\ pc'[w] = "claim"
      /\ \A v \in Worker \ {w} : \A q \in Running : pc'[v] = q <=> pc[v] = q
  <2> DEFINE now == [pc EXCEPT ![w] = "claim"]
  <2>1. now \in [Worker -> Running \cup {"claim", "asleep", "exited"}] /\ now[w] = "claim"
    BY <1>2, Zenon DEF TypeOK, Running
  <2>2. \A v \in Worker \ {w} : now[v] = pc[v]
    BY <1>2, Zenon DEF TypeOK
  <2>3. pc' = Awake(now)
    BY <1>1, Zenon
  <2> HIDE DEF now
  <2>4. Awake(now)[w] = "claim"
    BY <2>1, Zenon DEF Awake
  <2> QED
    BY <2>1, <2>2, <2>3, <2>4, AwakeKeeps
<1>5. \A v \in Worker \ {w} : unit'[v] = unit[v] /\ SamePlace(v)
  <2>1. \A v \in Worker \ {w} : unit'[v] = unit[v]
    BY <1>1, <1>2, Zenon DEF TypeOK
  <2>2. \A v \in Worker \ {w} : SamePlace(v)
    BY <1>4, Zenon DEF SamePlace, Running
  <2> QED
    BY <2>1, <2>2, Zenon
<1>6. unit'[w] = None /\ pc'[w] \notin Running
  BY <1>1, <1>2, <1>4, Zenon DEF TypeOK, Running
<1>7. \A v \in Worker \ {w} : pc[v] \in Running => unit[v] # x
  BY <1>2, <1>3, Zenon DEF RunInv
<1>8. Finished' = Finished \cup {x} /\ x \notin Finished /\ CountedOff' = CountedOff
  <2>1. {v \in Worker : pc'[v] = "finish"} = {v \in Worker : pc[v] = "finish"} \ {w}
    BY <1>1, <1>4, <1>6, Zenon DEF Running
  <2>2. {v \in Worker : pc'[v] = "close"} = {v \in Worker : pc[v] = "close"}
    BY <1>1, <1>4, <1>6, Zenon DEF Running
  <2>3. \A v \in Worker : pc[v] = "close" => unit'[v] = unit[v]
    BY <1>1, <1>5, Zenon
  <2>4. x \notin Finished
    BY <1>0, <1>1, Zenon DEF Finished
  <2>5. CountedOff' = CountedOff
    BY <1>1, <2>2, <2>3, Zenon DEF CountedOff
  <2>6. \A v \in Worker \ {w} : pc[v] = "finish" => unit[v] # x
    BY <1>7, Zenon DEF Running
  <2>7. Finished' = Finished \cup {x}
    <3>1. Finished' = done \ {unit[v] : v \in {q \in Worker : pc[q] = "finish"} \ {w}}
      <4> DEFINE A == {q \in Worker : pc[q] = "finish"} \ {w}
      <4>1. \A v \in A : unit'[v] = unit[v]
        BY <1>5, Zenon
      <4>2. Finished' = done \ {unit'[v] : v \in A}
        BY <1>1, <2>1, Zenon DEF Finished
      <4> HIDE DEF A
      <4>3. {unit'[v] : v \in A} = {unit[v] : v \in A}
        BY <4>1, Zenon
      <4> QED
        BY <4>2, <4>3, Zenon DEF A
    <3>2. Finished = done \ ({unit[v] : v \in {q \in Worker : pc[q] = "finish"} \ {w}} \cup {x})
      BY <1>0, <1>1, Zenon DEF Finished
    <3>3. x \in done /\ x \notin {unit[v] : v \in {q \in Worker : pc[q] = "finish"} \ {w}}
      BY <1>3, <2>6, Zenon
    <3> QED
      BY <3>1, <3>2, <3>3, Zenon
  <2> QED
    BY <2>4, <2>5, <2>7, Zenon
<1>9. \A u \in Unit(plan) : /\ pending'[u] = Cardinality(plan.deps[u] \ Finished')
                           /\ pending'[u] \in Nat
  <2> SUFFICES ASSUME NEW u \in Unit(plan)
               PROVE  pending'[u] = Cardinality(plan.deps[u] \ Finished') /\ pending'[u] \in Nat
    BY Zenon
  <2>1. IsFiniteSet(plan.deps[u])
    BY <1>2, FS_Subset, Zenon DEF WellFormed
  <2>2. pending[u] = Cardinality(plan.deps[u] \ Finished) /\ pending[u] \in Nat
    BY <1>2, Zenon DEF CountInv, TypeOK
  <2>3. CASE x \in plan.deps[u]
    <3>1. pending'[u] = pending[u] - 1
      BY <1>1, <2>3, Zenon DEF Rdeps
    <3>2. Cardinality(plan.deps[u] \ Finished') = Cardinality(plan.deps[u] \ Finished) - 1
      BY <1>8, <2>1, <2>3, OneLess, Zenon
    <3>3. Cardinality(plan.deps[u] \ Finished') \in Nat
      BY <2>1, FS_Subset, FS_CardinalityType, Zenon
    <3> QED
      BY <2>2, <3>1, <3>2, <3>3, Zenon
  <2>4. CASE x \notin plan.deps[u]
    <3>1. pending'[u] = pending[u]
      BY <1>1, <2>4, Zenon DEF Rdeps
    <3>2. plan.deps[u] \ Finished' = plan.deps[u] \ Finished
      BY <1>8, <2>4, Zenon
    <3> QED
      BY <2>2, <3>1, <3>2, Zenon
  <2> QED
    BY <2>3, <2>4, Zenon
<1>10. \A u \in Rdeps(x) : u \in Unit(plan) /\ owner[u] = None
  BY <1>2, <1>8, Zenon DEF CountInv, Rdeps
<1>11. \A u \in ready' : owner[u] = None /\ pending'[u] = 0
  <2>1. \A u \in ready : u \in Unit(plan) /\ owner[u] = None /\ pending[u] = 0
    BY <1>2, Zenon DEF RunInv, TypeOK
  <2>2. \A u \in ready : u \notin Rdeps(x)
    <3> SUFFICES ASSUME NEW u \in ready, u \in Rdeps(x) PROVE FALSE
      BY Zenon
    <3>1. pending'[u] = 0 - 1
      BY <1>1, <2>1, Zenon
    <3>2. pending'[u] \in Nat
      BY <1>9, <2>1, Zenon
    <3> QED
      BY <3>1, <3>2
  <2> QED
    BY <1>1, <1>10, <2>1, <2>2
<1>12. TypeOK'
  <2>1. pending' \in [Unit(plan) -> Nat]
    BY <1>1, <1>9, Zenon
  <2>2. unit' \in [Worker -> Unit(plan) \cup {None}] /\ ready' \subseteq Unit(plan)
    BY <1>1, <1>2, <1>10, Zenon DEF TypeOK
  <2> QED
    BY <1>1, <1>2, <1>4, <2>1, <2>2, Zenon DEF TypeOK
<1>13. RunInv'
  <2>1. pc'[w] # "finish" /\ pc'[w] \notin {"export", "publish", "close", "finish"}
    BY <1>4, Zenon
  <2>2. ASSUME NEW v \in Worker
        PROVE  /\ unit'[v] # None <=> pc'[v] \in Running
               /\ pc'[v] \in Running => owner[unit'[v]] = v
               /\ pc'[v] \in Running \ {"finish"} => unit'[v] \notin done
               /\ pc'[v] = "finish" => unit'[v] \in done
               /\ pc'[v] \in {"export", "publish", "close", "finish"} => unit'[v] \in ranHere[v]
    <3>1. CASE v = w
      BY <1>6, <2>1, <3>1, Zenon
    <3>2. CASE v # w
      BY <1>2, <1>5, <3>2, Zenon DEF RunInv, SamePlace
    <3> QED
      BY <3>1, <3>2, Zenon
  <2>3. owner' = owner /\ done' = done /\ ranHere' = ranHere
    BY <1>1, Zenon
  <2> QED
    BY <1>2, <1>11, <2>2, <2>3, Zenon DEF RunInv
<1>14. CountInv'
  <2>1. \A u \in Unit(plan) : owner[u] # None => plan.deps[u] \subseteq Finished'
    BY <1>2, <1>8, Zenon DEF CountInv
  <2>2. \A c \in Scc(plan) : sccLeft[c] = Cardinality({u \in Unit(plan) : plan.sccOf[u] = c} \ CountedOff')
    BY <1>2, <1>8, Zenon DEF CountInv
  <2>3. \A c \in Scc(plan) : c \in published <=> sccLeft[c] = 0
    BY <1>2, Zenon DEF CountInv
  <2>4. plan' = plan /\ owner' = owner /\ sccLeft' = sccLeft /\ published' = published
    BY <1>1, Zenon
  <2> QED
    BY <1>9, <2>1, <2>2, <2>3, <2>4, Zenon DEF CountInv
<1>15. HoldInv'
  <2>1. pc'[w] # "import" /\ pc'[w] \notin {"publish", "close", "finish"}
    BY <1>4, Zenon
  <2>2. \A v \in Worker : Have(v)' = Have(v)
    BY <1>1, Zenon DEF Have
  <2>3. \A d : Rdeps(d)' = Rdeps(d)
    BY <1>1, Zenon DEF Rdeps
  <2>4. ASSUME NEW v \in Worker
        PROVE  /\ pc'[v] \in {"publish", "close", "finish"} /\ Rdeps(unit'[v]) # {} => unit'[v] \in exported
               /\ pc'[v] = "import" => DependenciesFirst(plan, unit'[v], Have(v), todo[v])
               /\ pc'[v] \in Running \ {"import"} => plan.deps[unit'[v]] \subseteq Have(v)
    <3>1. CASE v = w
      BY <1>6, <2>1, <3>1, Zenon
    <3>2. CASE v # w
      BY <1>2, <1>5, <3>2, Zenon DEF HoldInv, SamePlace
    <3> QED
      BY <3>1, <3>2, Zenon
  <2> QED
    BY <1>1, <1>2, <2>2, <2>3, <2>4, Zenon DEF HoldInv
<1> QED
  BY <1>1, <1>2, <1>12, <1>13, <1>14, <1>15, Zenon DEF IInv, CoreInv

-----------------------------------------------------------------------------
(* Imports, the analysis and the export.                                   *)

\* The steps in which a worker moves on inside its unit.
LEMMA MovesOn ==
    ASSUME IInv, NEW w \in Worker, NEW from \in Running, NEW to \in Running,
           pc[w] = from, pc' = [pc EXCEPT ![w] = to], UNCHANGED <<plan, unit>>
    PROVE  /\ pc' \in [Worker -> Running \cup {"claim", "asleep", "exited"}]
           /\ pc'[w] = to /\ unit[w] \in Unit(plan) /\ owner[unit[w]] = w
           /\ \A v \in Worker \ {w} : SamePlace(v) /\ pc'[v] = pc[v]
           /\ \A v \in Worker \ {w} : pc[v] \in Running => unit[v] # unit[w]
           /\ \A d : Rdeps(d)' = Rdeps(d)
           /\ \A v \in Worker : unit'[v] # None <=> pc'[v] \in Running
           /\ \A v \in Worker : pc'[v] \in Running => owner[unit'[v]] = v
<1>1. TypeOK /\ RunInv
  BY Zenon DEF IInv, CoreInv
<1>2. pc' \in [Worker -> Running \cup {"claim", "asleep", "exited"}] /\ pc'[w] = to
  BY <1>1, Zenon DEF TypeOK
<1>3. \A v \in Worker \ {w} : pc'[v] = pc[v]
  BY <1>1, Zenon DEF TypeOK
<1>4. \A v \in Worker \ {w} : SamePlace(v)
  BY <1>3, Zenon DEF SamePlace
<1>5. unit[w] \in Unit(plan) /\ owner[unit[w]] = w
  BY <1>1 DEF TypeOK, RunInv
<1>6. \A v \in Worker \ {w} : pc[v] \in Running => unit[v] # unit[w]
  BY <1>1, Zenon DEF RunInv
<1>7. \A d : Rdeps(d)' = Rdeps(d)
  BY Zenon DEF Rdeps
<1>8. \A v \in Worker :
        /\ unit'[v] # None <=> pc'[v] \in Running
        /\ pc'[v] \in Running => owner[unit'[v]] = v
  BY <1>1, <1>2, <1>3, Zenon DEF RunInv
<1> QED
  BY <1>2, <1>3, <1>4, <1>5, <1>6, <1>7, <1>8, Zenon

\* What is left of an import list after its first unit is right for a worker
\* that holds that unit too.
LEMMA TailDependenciesFirst ==
    ASSUME NEW p, NEW u, NEW have, NEW L, L \in Seq(Unit(p)), Len(L) >= 1, DependenciesFirst(p, u, have, L)
    PROVE  DependenciesFirst(p, u, have \cup {L[1]}, Tail(L))
<1>1. /\ Tail(L) \in Seq(Unit(p)) /\ Len(L) \in Nat /\ Len(Tail(L)) = Len(L) - 1
      /\ \A i \in 1 .. Len(Tail(L)) : Tail(L)[i] = L[i + 1]
  OBVIOUS
<1>2. \A n \in 0 .. Len(Tail(L)) :
        {L[j] : j \in 1 .. (n + 1)} \subseteq {L[1]} \cup {Tail(L)[j] : j \in 1 .. n}
  <2> SUFFICES ASSUME NEW n \in 0 .. Len(Tail(L)), NEW j \in 1 .. (n + 1)
               PROVE  L[j] \in {L[1]} \cup {Tail(L)[k] : k \in 1 .. n}
    BY Zenon
  <2>1. CASE j = 1
    BY <2>1, Zenon
  <2>2. CASE j > 1
    <3>1. j - 1 \in 1 .. n /\ Tail(L)[j - 1] = L[(j - 1) + 1] /\ (j - 1) + 1 = j
      BY <1>1, <2>2
    <3> QED
      BY <3>1, Zenon
  <2> QED
    BY <2>1, <2>2
<1>3. \A i \in 1 .. Len(Tail(L)) : Tail(L)[i] \in Reaches(p, u)
  BY <1>1 DEF DependenciesFirst
<1>4. \A i \in 1 .. Len(Tail(L)) :
        p.deps[Tail(L)[i]] \subseteq (have \cup {L[1]}) \cup {Tail(L)[j] : j \in 1 .. (i - 1)}
  <2> SUFFICES ASSUME NEW i \in 1 .. Len(Tail(L))
               PROVE  p.deps[Tail(L)[i]] \subseteq (have \cup {L[1]}) \cup {Tail(L)[j] : j \in 1 .. (i - 1)}
    BY Zenon
  <2>1. i + 1 \in 1 .. Len(L) /\ (i + 1) - 1 = i /\ i - 1 \in 0 .. Len(Tail(L)) /\ (i - 1) + 1 = i
    BY <1>1
  <2>2. p.deps[L[i + 1]] \subseteq have \cup {L[j] : j \in 1 .. i}
    BY <2>1, Zenon DEF DependenciesFirst
  <2>3. {L[j] : j \in 1 .. i} \subseteq {L[1]} \cup {Tail(L)[j] : j \in 1 .. (i - 1)}
    BY <1>2, <2>1, Zenon
  <2> QED
    BY <1>1, <2>2, <2>3, Zenon
<1>5. p.deps[u] \subseteq (have \cup {L[1]}) \cup {Tail(L)[j] : j \in 1 .. Len(Tail(L))}
  <2>1. p.deps[u] \subseteq have \cup {L[j] : j \in 1 .. Len(L)}
    BY Zenon DEF DependenciesFirst
  <2>2. Len(Tail(L)) \in 0 .. Len(Tail(L)) /\ Len(Tail(L)) + 1 = Len(L)
    BY <1>1
  <2>3. {L[j] : j \in 1 .. Len(L)} \subseteq {L[1]} \cup {Tail(L)[j] : j \in 1 .. Len(Tail(L))}
    BY <1>2, <2>2, Zenon
  <2> QED
    BY <2>1, <2>3, Zenon
<1> QED
  BY <1>1, <1>3, <1>4, <1>5, Zenon DEF DependenciesFirst

\* An import makes the worker hold one more unit whose dependencies it holds.
LEMMA ImportInv == ASSUME IInv, NEW w \in Worker, Import(w) PROVE IInv'
<1>0. PICK d : d = Head(todo[w])
  BY Zenon
<1>1. /\ pc[w] = "import" /\ todo[w] # <<>>
      /\ todo' = [todo EXCEPT ![w] = Tail(@)]
      /\ UNCHANGED <<plan, pending, ready, left, owner, sccLeft, published, exported, done, pc, unit, ranHere>>
  BY Zenon DEF Import, shared, progress
<1>2. \/ /\ d \in done
         /\ imported' = [imported EXCEPT ![w] = @ \cup {d}]
         /\ facts' = [facts EXCEPT ![w] = @ \cup ({d} \cap exported)]
      \/ /\ owner[d] = w \/ d \in imported[w]
         /\ UNCHANGED <<imported, facts>>
  BY <1>0, Zenon DEF Import
<1>3. /\ plan \in Plan /\ TypeOK /\ RunInv /\ CountInv /\ HoldInv
      /\ WellFormed(plan) /\ None \notin Unit(plan) /\ None \notin Worker
  BY ScheduleAssumption, Zenon DEF IInv, CoreInv
<1>4. unit[w] \in Unit(plan) /\ owner[unit[w]] = w
  BY <1>1, <1>3 DEF RunInv, TypeOK, Running
<1>5. DependenciesFirst(plan, unit[w], Have(w), todo[w])
  BY <1>1, <1>3, Zenon DEF HoldInv
<1>6. /\ todo[w] \in Seq(Unit(plan)) /\ Len(todo[w]) \in Nat /\ Len(todo[w]) >= 1
      /\ d = todo[w][1] /\ d \in Unit(plan)
  BY <1>0, <1>1, <1>3 DEF TypeOK
<1>7. d \in Reaches(plan, unit[w]) /\ plan.deps[d] \subseteq Have(w)
  <2>1. \A i \in 1 .. Len(todo[w]) : todo[w][i] \in Reaches(plan, unit[w])
    BY <1>5, Zenon DEF DependenciesFirst
  <2>2. plan.deps[todo[w][1]] \subseteq Have(w) \cup {todo[w][j] : j \in 1 .. (1 - 1)}
    BY <1>5, <1>6 DEF DependenciesFirst
  <2>3. {todo[w][j] : j \in 1 .. (1 - 1)} = {}
    OBVIOUS
  <2> QED
    BY <1>6, <2>1, <2>2, <2>3
<1>8. d \in done /\ d \in exported
  <2>1. d \in Finished
    BY <1>3, <1>4, <1>7, ClaimedRestsOnFinished, Zenon
  <2>2. \E v \in Unit(plan) : d \in plan.deps[v]
    BY <1>3, <1>4, <1>7, ReachedHasDependent, Zenon
  <2> QED
    BY <1>3, <2>1, <2>2, Zenon DEF Finished, HoldInv, Rdeps
<1>9. /\ Have(w)' = Have(w) \cup {d}
      /\ \A v \in Worker \ {w} : Have(v)' = Have(v) /\ facts'[v] = facts[v]
      /\ facts[w] \cup {d} = facts'[w]
      /\ imported' \in [Worker -> SUBSET Unit(plan)] /\ facts' \in [Worker -> SUBSET Unit(plan)]
  <2>1. CASE /\ d \in done
             /\ imported' = [imported EXCEPT ![w] = @ \cup {d}]
             /\ facts' = [facts EXCEPT ![w] = @ \cup ({d} \cap exported)]
    BY <1>1, <1>3, <1>6, <1>8, <2>1, SMTT(30) DEF Have, TypeOK
  <2>2. CASE (owner[d] = w \/ d \in imported[w]) /\ UNCHANGED <<imported, facts>>
    <3>1. d \in Have(w)
      BY <1>3, <1>8, <2>2, Zenon DEF RunInv, Have
    <3>2. Have(w) \subseteq facts[w]
      BY <1>3, Zenon DEF HoldInv
    <3> QED
      BY <1>1, <1>3, <2>2, <3>1, <3>2 DEF Have, TypeOK
  <2> QED
    BY <1>2, <2>1, <2>2, Zenon
<1>10. todo' \in [Worker -> Seq(Unit(plan))] /\ todo'[w] = Tail(todo[w])
       /\ \A v \in Worker \ {w} : todo'[v] = todo[v]
  BY <1>1, <1>3, <1>6 DEF TypeOK
<1>11. DependenciesFirst(plan, unit[w], Have(w) \cup {d}, Tail(todo[w]))
  BY <1>5, <1>6, TailDependenciesFirst, Zenon
<1>12. TypeOK'
  BY <1>1, <1>3, <1>9, <1>10, Zenon DEF TypeOK
<1>13. RunInv'
  BY <1>1, <1>3, Zenon DEF RunInv
<1>14. CountInv'
  <2>1. Finished' = Finished /\ CountedOff' = CountedOff
    BY <1>1, Zenon DEF Finished, CountedOff
  <2> QED
    BY <1>1, <1>3, <2>1, Zenon DEF CountInv
<1>15. HoldInv'
  <2>1. \A v \in Worker : Have(v)' \subseteq facts'[v] /\ Closed(plan, Have(v)')
    <3> SUFFICES ASSUME NEW v \in Worker PROVE Have(v)' \subseteq facts'[v] /\ Closed(plan, Have(v)')
      BY Zenon
    <3>1. Have(v) \subseteq facts[v] /\ Closed(plan, Have(v))
      BY <1>3, Zenon DEF HoldInv
    <3>2. CASE v # w
      BY <1>9, <3>1, <3>2, Zenon
    <3>3. CASE v = w
      BY <1>7, <1>9, <3>1, <3>3, Zenon DEF Closed
    <3> QED
      BY <3>2, <3>3, Zenon
  <2>2. \A v \in Worker : pc[v] = "import" => DependenciesFirst(plan, unit[v], Have(v)', todo'[v])
    <3> SUFFICES ASSUME NEW v \in Worker, pc[v] = "import"
                 PROVE  DependenciesFirst(plan, unit[v], Have(v)', todo'[v])
      BY Zenon
    <3>1. CASE v = w
      BY <1>9, <1>10, <1>11, <3>1, Zenon
    <3>2. CASE v # w
      BY <1>3, <1>9, <1>10, <3>2, Zenon DEF HoldInv
    <3> QED
      BY <3>1, <3>2, Zenon
  <2>3. \A v \in Worker : pc[v] \in Running \ {"import"} => plan.deps[unit[v]] \subseteq Have(v)'
    BY <1>3, <1>9 DEF HoldInv
  <2>4. \A e : Rdeps(e)' = Rdeps(e)
    BY <1>1, Zenon DEF Rdeps
  <2> QED
    BY <1>1, <1>3, <2>1, <2>2, <2>3, <2>4, Zenon DEF HoldInv
<1> QED
  BY <1>1, <1>3, <1>12, <1>13, <1>14, <1>15, Zenon DEF IInv, CoreInv

\* A worker that moves between places that count neither as closing nor as
\* finishing leaves the counted sets alone.
LEMMA CountsKeep ==
    ASSUME NEW w \in Worker, pc[w] \notin {"close", "finish"}, pc'[w] \notin {"close", "finish"},
           \A v \in Worker \ {w} : pc'[v] = pc[v], UNCHANGED <<plan, unit, done>>
    PROVE  Finished' = Finished /\ CountedOff' = CountedOff
<1>1. \A q \in {"close", "finish"} : {v \in Worker : pc'[v] = q} = {v \in Worker : pc[v] = q}
  BY Zenon
<1> QED
  BY <1>1, Zenon DEF Finished, CountedOff

\* The import list is empty, so the worker holds all dependencies of its unit.
LEMMA StartAnalysisInv == ASSUME IInv, NEW w \in Worker, StartAnalysis(w) PROVE IInv'
<1>1. /\ pc[w] = "import" /\ todo[w] = <<>> /\ pc' = [pc EXCEPT ![w] = "analyze"]
      /\ UNCHANGED <<plan, pending, ready, left, owner, sccLeft, published, exported, done, unit, todo, ranHere,
                     imported, facts>>
  BY Zenon DEF StartAnalysis, shared, progress, local
<1>2. plan \in Plan /\ TypeOK /\ RunInv /\ CountInv /\ HoldInv
  BY Zenon DEF IInv, CoreInv
<1>3. /\ pc' \in [Worker -> Running \cup {"claim", "asleep", "exited"}]
      /\ pc'[w] = "analyze" /\ unit[w] \in Unit(plan) /\ owner[unit[w]] = w
      /\ \A v \in Worker \ {w} : SamePlace(v) /\ pc'[v] = pc[v]
      /\ \A d : Rdeps(d)' = Rdeps(d)
      /\ \A v \in Worker : unit'[v] # None <=> pc'[v] \in Running
      /\ \A v \in Worker : pc'[v] \in Running => owner[unit'[v]] = v
  BY <1>1, MovesOn, Zenon DEF Running
<1>4. Finished' = Finished /\ CountedOff' = CountedOff
  BY <1>1, <1>3, CountsKeep, Zenon
<1>5. plan.deps[unit[w]] \subseteq Have(w)
  <2>1. plan.deps[unit[w]] \subseteq Have(w) \cup {todo[w][j] : j \in 1 .. Len(todo[w])}
    BY <1>1, <1>2, Zenon DEF HoldInv, DependenciesFirst
  <2>2. {todo[w][j] : j \in 1 .. Len(todo[w])} = {}
    BY <1>1
  <2> QED
    BY <2>1, <2>2, Zenon
<1>6. TypeOK'
  BY <1>1, <1>2, <1>3, Zenon DEF TypeOK
<1>7. RunInv'
  <2>1. \A v \in Worker : pc'[v] \in Running \ {"finish"} => unit[v] \notin done
    BY <1>1, <1>2, <1>3, Zenon DEF RunInv, Running
  <2>2. \A v \in Worker : pc'[v] = "finish" => unit[v] \in done
    BY <1>1, <1>2, <1>3, Zenon DEF RunInv
  <2>3. \A v \in Worker : pc'[v] \in {"export", "publish", "close", "finish"} => unit[v] \in ranHere[v]
    BY <1>1, <1>2, <1>3, Zenon DEF RunInv
  <2> QED
    BY <1>1, <1>2, <1>3, <2>1, <2>2, <2>3, Zenon DEF RunInv
<1>8. CountInv'
  BY <1>1, <1>2, <1>4, Zenon DEF CountInv
<1>9. HoldInv'
  <2>1. \A v \in Worker : Have(v)' = Have(v)
    BY <1>1, Zenon DEF Have
  <2>2. \A v \in Worker : pc'[v] \in {"publish", "close", "finish"} /\ Rdeps(unit[v]) # {} => unit[v] \in exported
    BY <1>1, <1>2, <1>3, Zenon DEF HoldInv
  <2>3. \A v \in Worker : pc'[v] = "import" => DependenciesFirst(plan, unit[v], Have(v), todo[v])
    BY <1>1, <1>2, <1>3, Zenon DEF HoldInv
  <2>4. \A v \in Worker : pc'[v] \in Running \ {"import"} => plan.deps[unit[v]] \subseteq Have(v)
    <3> SUFFICES ASSUME NEW v \in Worker, pc'[v] \in Running \ {"import"}
                 PROVE  plan.deps[unit[v]] \subseteq Have(v)
      BY Zenon
    <3>1. CASE v = w
      BY <1>5, <3>1, Zenon
    <3>2. CASE v # w
      BY <1>2, <1>3, <3>2, Zenon DEF HoldInv
    <3> QED
      BY <3>1, <3>2, Zenon
  <2> QED
    BY <1>1, <1>2, <1>3, <2>1, <2>2, <2>3, <2>4, SMTT(30) DEF HoldInv
<1> QED
  BY <1>1, <1>2, <1>6, <1>7, <1>8, <1>9, Zenon DEF IInv, CoreInv

\* The analysed unit joins what the worker holds, with its dependencies there.
LEMMA AnalyzeInv == ASSUME IInv, NEW w \in Worker, Analyze(w) PROVE IInv'
<1>1. /\ pc[w] = "analyze" /\ pc' = [pc EXCEPT ![w] = "export"]
      /\ ranHere' = [ranHere EXCEPT ![w] = @ \cup {unit[w]}]
      /\ facts' = [facts EXCEPT ![w] = @ \cup {unit[w]}]
      /\ UNCHANGED <<plan, pending, ready, left, owner, sccLeft, published, exported, done, unit, todo, imported>>
  BY Zenon DEF Analyze, shared, progress
<1>2. plan \in Plan /\ TypeOK /\ RunInv /\ CountInv /\ HoldInv
  BY Zenon DEF IInv, CoreInv
<1>3. /\ pc' \in [Worker -> Running \cup {"claim", "asleep", "exited"}]
      /\ pc'[w] = "export" /\ unit[w] \in Unit(plan) /\ owner[unit[w]] = w
      /\ \A v \in Worker \ {w} : SamePlace(v) /\ pc'[v] = pc[v]
      /\ \A d : Rdeps(d)' = Rdeps(d)
      /\ \A v \in Worker : unit'[v] # None <=> pc'[v] \in Running
      /\ \A v \in Worker : pc'[v] \in Running => owner[unit'[v]] = v
  BY <1>1, MovesOn, Zenon DEF Running
<1>4. Finished' = Finished /\ CountedOff' = CountedOff
  BY <1>1, <1>3, CountsKeep, Zenon
<1>5. plan.deps[unit[w]] \subseteq Have(w)
  BY <1>1, <1>2, Zenon DEF HoldInv, Running
<1>6. /\ ranHere'[w] = ranHere[w] \cup {unit[w]} /\ facts'[w] = facts[w] \cup {unit[w]}
      /\ \A v \in Worker \ {w} : ranHere'[v] = ranHere[v] /\ facts'[v] = facts[v]
      /\ ranHere' \in [Worker -> SUBSET Unit(plan)] /\ facts' \in [Worker -> SUBSET Unit(plan)]
  BY <1>1, <1>2, <1>3 DEF TypeOK
<1>7. TypeOK'
  BY <1>1, <1>2, <1>3, <1>6, Zenon DEF TypeOK
<1>8. RunInv'
  <2>1. \A v \in Worker : pc'[v] \in Running \ {"finish"} => unit[v] \notin done
    BY <1>1, <1>2, <1>3, Zenon DEF RunInv, Running
  <2>2. \A v \in Worker : pc'[v] = "finish" => unit[v] \in done
    BY <1>1, <1>2, <1>3, Zenon DEF RunInv
  <2>3. \A v \in Worker : pc'[v] \in {"export", "publish", "close", "finish"} => unit[v] \in ranHere'[v]
    BY <1>1, <1>2, <1>3, <1>6, Zenon DEF RunInv
  <2>4. \A v \in Worker : \A d \in ranHere'[v] : owner[d] = v
    BY <1>2, <1>3, <1>6 DEF RunInv
  <2>5. \A v \in Worker : ranHere[v] \subseteq ranHere'[v]
    BY <1>6, Zenon
  <2>6. \A u \in done : u \in Unit(plan) /\ owner[u] \in Worker /\ u \in ranHere[owner[u]]
    BY <1>2 DEF RunInv, TypeOK
  <2>7. \A u \in done : u \in ranHere'[owner[u]]
    BY <2>5, <2>6, Zenon
  <2> QED
    BY <1>1, <1>2, <1>3, <2>1, <2>2, <2>3, <2>4, <2>7, Zenon DEF RunInv
<1>9. CountInv'
  BY <1>1, <1>2, <1>4, Zenon DEF CountInv
<1>10. HoldInv'
  <2>1. Have(w)' = Have(w) \cup {unit[w]} /\ \A v \in Worker \ {w} : Have(v)' = Have(v)
    BY <1>1, <1>6, Zenon DEF Have
  <2>2. \A v \in Worker : pc'[v] \in {"publish", "close", "finish"} /\ Rdeps(unit[v]) # {} => unit[v] \in exported
    BY <1>1, <1>2, <1>3, Zenon DEF HoldInv
  <2>3. \A v \in Worker : pc'[v] = "import" => DependenciesFirst(plan, unit[v], Have(v)', todo[v])
    <3> SUFFICES ASSUME NEW v \in Worker, pc'[v] = "import"
                 PROVE  DependenciesFirst(plan, unit[v], Have(v)', todo[v])
      BY Zenon
    <3>1. v # w
      BY <1>3, Zenon
    <3> QED
      BY <1>2, <1>3, <2>1, <3>1 DEF HoldInv
  <2>4. \A v \in Worker : pc'[v] \in Running \ {"import"} => plan.deps[unit[v]] \subseteq Have(v)'
    <3> SUFFICES ASSUME NEW v \in Worker, pc'[v] \in Running \ {"import"}
                 PROVE  plan.deps[unit[v]] \subseteq Have(v)'
      BY Zenon
    <3>1. CASE v = w
      BY <1>5, <2>1, <3>1, Zenon
    <3>2. CASE v # w
      BY <1>2, <1>3, <2>1, <3>2 DEF HoldInv
    <3> QED
      BY <3>1, <3>2, Zenon
  <2>5. \A v \in Worker : Have(v)' \subseteq facts'[v] /\ Closed(plan, Have(v)')
    <3> SUFFICES ASSUME NEW v \in Worker PROVE Have(v)' \subseteq facts'[v] /\ Closed(plan, Have(v)')
      BY Zenon
    <3>1. Have(v) \subseteq facts[v] /\ Closed(plan, Have(v))
      BY <1>2, Zenon DEF HoldInv
    <3>2. CASE v # w
      BY <1>6, <2>1, <3>1, <3>2, Zenon
    <3>3. CASE v = w
      BY <1>5, <1>6, <2>1, <3>1, <3>3, Zenon DEF Closed
    <3> QED
      BY <3>2, <3>3, Zenon
  <2> QED
    BY <1>1, <1>2, <1>3, <2>2, <2>3, <2>4, <2>5, Zenon DEF HoldInv
<1> QED
  BY <1>1, <1>2, <1>7, <1>8, <1>9, <1>10, Zenon DEF IInv, CoreInv

\* The facts of a unit with dependents are exported before it is published.
LEMMA ExportInv == ASSUME IInv, NEW w \in Worker, Export(w) PROVE IInv'
<1>0. PICK x : x = unit[w]
  BY Zenon
<1>1. /\ pc[w] = "export" /\ pc' = [pc EXCEPT ![w] = "publish"]
      /\ exported' = IF Rdeps(x) # {} THEN exported \cup {x} ELSE exported
      /\ UNCHANGED <<plan, pending, ready, left, owner, sccLeft, published, done, unit, todo, ranHere, imported,
                     facts>>
  BY <1>0, ZenonT(40) DEF Export, shared, local
<1>2. plan \in Plan /\ TypeOK /\ RunInv /\ CountInv /\ HoldInv
  BY Zenon DEF IInv, CoreInv
<1>3. /\ pc' \in [Worker -> Running \cup {"claim", "asleep", "exited"}]
      /\ pc'[w] = "publish" /\ x \in Unit(plan) /\ owner[x] = w
      /\ \A v \in Worker \ {w} : SamePlace(v) /\ pc'[v] = pc[v]
      /\ \A v \in Worker \ {w} : pc[v] \in Running => unit[v] # x
      /\ \A d : Rdeps(d)' = Rdeps(d)
      /\ \A v \in Worker : unit'[v] # None <=> pc'[v] \in Running
      /\ \A v \in Worker : pc'[v] \in Running => owner[unit'[v]] = v
  BY <1>0, <1>1, MovesOn, Zenon DEF Running
<1>4. Finished' = Finished /\ CountedOff' = CountedOff
  BY <1>1, <1>3, CountsKeep, Zenon
<1>5. exported \subseteq exported' /\ exported' \subseteq Unit(plan) /\ (Rdeps(x) # {} => x \in exported')
  BY <1>1, <1>2, <1>3, Zenon DEF TypeOK
<1>6. TypeOK'
  BY <1>1, <1>2, <1>3, <1>5, Zenon DEF TypeOK
<1>7. RunInv'
  <2>1. \A v \in Worker : pc'[v] \in Running \ {"finish"} => unit[v] \notin done
    BY <1>1, <1>2, <1>3, Zenon DEF RunInv, Running
  <2>2. \A v \in Worker : pc'[v] = "finish" => unit[v] \in done
    BY <1>1, <1>2, <1>3, Zenon DEF RunInv
  <2>3. \A v \in Worker : pc'[v] \in {"export", "publish", "close", "finish"} => unit[v] \in ranHere[v]
    BY <1>1, <1>2, <1>3, Zenon DEF RunInv
  <2> QED
    BY <1>1, <1>2, <1>3, <2>1, <2>2, <2>3, Zenon DEF RunInv
<1>8. CountInv'
  BY <1>1, <1>2, <1>4, Zenon DEF CountInv
<1>9. HoldInv'
  <2>1. \A v \in Worker : Have(v)' = Have(v)
    BY <1>1, Zenon DEF Have
  <2>3. \A v \in Worker : pc'[v] = "import" => DependenciesFirst(plan, unit[v], Have(v), todo[v])
    BY <1>1, <1>2, <1>3, Zenon DEF HoldInv
  <2>4. \A v \in Worker : pc'[v] \in Running \ {"import"} => plan.deps[unit[v]] \subseteq Have(v)
    <3> SUFFICES ASSUME NEW v \in Worker, pc'[v] \in Running \ {"import"}
                 PROVE  pc[v] \in Running \ {"import"}
      BY <1>2, Zenon DEF HoldInv
    <3> QED
      BY <1>1, <1>3, Zenon DEF Running, SamePlace
  <2>5. \A v \in Worker : pc'[v] \in {"publish", "close", "finish"} /\ Rdeps(unit[v]) # {} => unit[v] \in exported'
    <3> SUFFICES ASSUME NEW v \in Worker, pc'[v] \in {"publish", "close", "finish"}, Rdeps(unit[v]) # {}
                 PROVE  unit[v] \in exported'
      BY Zenon
    <3>1. CASE v = w
      BY <1>0, <1>5, <3>1, Zenon
    <3>2. CASE v # w
      BY <1>2, <1>3, <1>5, <3>2, Zenon DEF HoldInv
    <3> QED
      BY <3>1, <3>2, Zenon
  <2>6. \A d \in done : Rdeps(d) # {} => d \in exported'
    BY <1>2, <1>5, Zenon DEF HoldInv
  <2>7. \A v \in Worker : Have(v) \subseteq facts[v] /\ Closed(plan, Have(v))
    BY <1>2, Zenon DEF HoldInv
  <2> QED
    BY <1>1, <1>3, <2>1, <2>3, <2>4, <2>5, <2>6, <2>7, SMTT(30) DEF HoldInv
<1> QED
  BY <1>1, <1>2, <1>6, <1>7, <1>8, <1>9, Zenon DEF IInv, CoreInv

\* One chunk is counted off its cycle; the cycle is published with the last.
LEMMA PublishInv == ASSUME IInv, NEW w \in Worker, Publish(w) PROVE IInv'
<1>0. PICK x : x = unit[w]
  BY Zenon
<1>c. PICK c : c = plan.sccOf[x]
  BY Zenon
<1>1. /\ pc[w] = "publish" /\ pc' = [pc EXCEPT ![w] = "close"]
      /\ sccLeft' = [sccLeft EXCEPT ![c] = @ - 1]
      /\ published' = IF sccLeft[c] = 1 THEN published \cup {c} ELSE published
      /\ UNCHANGED <<plan, pending, ready, left, owner, exported, done, unit, todo, ranHere, imported, facts>>
  BY <1>0, <1>c, Zenon DEF Publish, shared, local
<1>2. plan \in Plan /\ TypeOK /\ RunInv /\ CountInv /\ HoldInv /\ WellFormed(plan)
  BY ScheduleAssumption, ZenonT(40) DEF IInv, CoreInv
<1>3. /\ pc' \in [Worker -> Running \cup {"claim", "asleep", "exited"}]
      /\ pc'[w] = "close" /\ x \in Unit(plan) /\ owner[x] = w
      /\ \A v \in Worker \ {w} : SamePlace(v) /\ pc'[v] = pc[v]
      /\ \A v \in Worker \ {w} : pc[v] \in Running => unit[v] # x
      /\ \A d : Rdeps(d)' = Rdeps(d)
      /\ \A v \in Worker : unit'[v] # None <=> pc'[v] \in Running
      /\ \A v \in Worker : pc'[v] \in Running => owner[unit'[v]] = v
  BY <1>0, <1>1, MovesOn, Zenon DEF Running
<1>4. c \in Scc(plan)
  BY <1>3, <1>c, Zenon DEF Scc
<1>5. Finished' = Finished /\ CountedOff' = CountedOff \cup {x} /\ x \notin CountedOff
  <2>1. {v \in Worker : pc'[v] = "finish"} = {v \in Worker : pc[v] = "finish"}
    BY <1>1, <1>3, Zenon
  <2>2. {v \in Worker : pc'[v] = "close"} = {v \in Worker : pc[v] = "close"} \cup {w}
    BY <1>1, <1>3
  <2>3. x \notin done /\ \A v \in Worker : pc[v] = "close" => unit[v] # x
    BY <1>0, <1>1, <1>2, <1>3, Zenon DEF RunInv, Running
  <2> QED
    BY <1>0, <1>1, <2>1, <2>2, <2>3 DEF Finished, CountedOff
<1>6. \A k \in Scc(plan) :
        /\ sccLeft'[k] = Cardinality({u \in Unit(plan) : plan.sccOf[u] = k} \ CountedOff')
        /\ sccLeft'[k] \in Nat
        /\ k \in published' <=> sccLeft'[k] = 0
  <2> SUFFICES ASSUME NEW k \in Scc(plan)
               PROVE  /\ sccLeft'[k] = Cardinality({u \in Unit(plan) : plan.sccOf[u] = k} \ CountedOff')
                      /\ sccLeft'[k] \in Nat
                      /\ k \in published' <=> sccLeft'[k] = 0
    BY Zenon
  <2>1. PICK S : S = {u \in Unit(plan) : plan.sccOf[u] = k}
    BY Zenon
  <2>2. IsFiniteSet(S)
    BY <1>2, <2>1, FS_Subset, Zenon DEF WellFormed
  <2>3. /\ sccLeft[k] = Cardinality(S \ CountedOff) /\ sccLeft[k] \in Nat
        /\ k \in published <=> sccLeft[k] = 0
    BY <1>2, <2>1, Zenon DEF CountInv, TypeOK
  <2>4. CASE k = c
    <3>1. x \in S
      BY <1>3, <1>c, <2>1, <2>4, Zenon
    <3>2. Cardinality(S \ CountedOff') = Cardinality(S \ CountedOff) - 1
      BY <1>5, <2>2, <3>1, OneLess, Zenon
    <3>3. Cardinality(S \ CountedOff') \in Nat
      BY <2>2, FS_Subset, FS_CardinalityType, Zenon
    <3>4. sccLeft'[k] = sccLeft[k] - 1
      BY <1>1, <1>2, <2>4, Zenon DEF TypeOK
    <3>5. k \in published' <=> (sccLeft[k] = 1 \/ k \in published)
      BY <1>1, <2>4, Zenon
    <3> QED
      BY <2>1, <2>3, <3>2, <3>3, <3>4, <3>5
  <2>5. CASE k # c
    <3>1. x \notin S
      BY <1>c, <2>1, <2>5, Zenon
    <3>2. S \ CountedOff' = S \ CountedOff
      BY <1>5, <3>1, Zenon
    <3>3. sccLeft'[k] = sccLeft[k] /\ (k \in published' <=> k \in published)
      BY <1>1, <1>2, <2>5, Zenon DEF TypeOK
    <3> QED
      BY <2>1, <2>3, <3>2, <3>3, Zenon
  <2> QED
    BY <2>4, <2>5, Zenon
<1>7. TypeOK'
  <2>1. sccLeft' \in [Scc(plan) -> Nat]
    BY <1>1, <1>2, <1>6, Zenon DEF TypeOK
  <2>2. published' \subseteq Scc(plan)
    BY <1>1, <1>2, <1>4, Zenon DEF TypeOK
  <2> QED
    BY <1>1, <1>2, <1>3, <2>1, <2>2, Zenon DEF TypeOK
<1>8. RunInv'
  <2>1. \A v \in Worker : pc'[v] \in Running \ {"finish"} => unit[v] \notin done
    BY <1>1, <1>2, <1>3, Zenon DEF RunInv, Running
  <2>2. \A v \in Worker : pc'[v] = "finish" => unit[v] \in done
    BY <1>1, <1>2, <1>3, Zenon DEF RunInv
  <2>3. \A v \in Worker : pc'[v] \in {"export", "publish", "close", "finish"} => unit[v] \in ranHere[v]
    BY <1>1, <1>2, <1>3, Zenon DEF RunInv
  <2> QED
    BY <1>1, <1>2, <1>3, <2>1, <2>2, <2>3, Zenon DEF RunInv
<1>9. CountInv'
  BY <1>1, <1>2, <1>5, <1>6, Zenon DEF CountInv
<1>10. HoldInv'
  <2>1. \A v \in Worker : Have(v)' = Have(v)
    BY <1>1, Zenon DEF Have
  <2>3. \A v \in Worker : pc'[v] = "import" => DependenciesFirst(plan, unit[v], Have(v), todo[v])
    BY <1>1, <1>2, <1>3, Zenon DEF HoldInv
  <2>4. \A v \in Worker : pc'[v] \in Running \ {"import"} => plan.deps[unit[v]] \subseteq Have(v)
    <3> SUFFICES ASSUME NEW v \in Worker, pc'[v] \in Running \ {"import"}
                 PROVE  pc[v] \in Running \ {"import"}
      BY <1>2, Zenon DEF HoldInv
    <3> QED
      BY <1>1, <1>3, Zenon DEF Running, SamePlace
  <2>5. \A v \in Worker : pc'[v] \in {"publish", "close", "finish"} /\ Rdeps(unit[v]) # {} => unit[v] \in exported
    BY <1>1, <1>2, <1>3, Zenon DEF HoldInv
  <2>7. \A v \in Worker : Have(v) \subseteq facts[v] /\ Closed(plan, Have(v))
    BY <1>2, Zenon DEF HoldInv
  <2> QED
    BY <1>1, <1>2, <1>3, <2>1, <2>3, <2>4, <2>5, <2>7, SMTT(30) DEF HoldInv
<1> QED
  BY <1>1, <1>2, <1>7, <1>8, <1>9, <1>10, Zenon DEF IInv, CoreInv

\* Closing the done channel moves a unit from the closing ones to those done;
\* it has not told its dependents yet.
LEMMA CloseDoneInv == ASSUME IInv, NEW w \in Worker, CloseDone(w) PROVE IInv'
<1>0. PICK x : x = unit[w]
  BY Zenon
<1>1. /\ pc[w] = "close" /\ pc' = [pc EXCEPT ![w] = "finish"]
      /\ done' = done \cup {x}
      /\ UNCHANGED <<plan, pending, ready, left, owner, sccLeft, published, exported, unit, todo, ranHere, imported,
                     facts>>
  BY <1>0, Zenon DEF CloseDone, shared, local
<1>2. plan \in Plan /\ TypeOK /\ RunInv /\ CountInv /\ HoldInv /\ None \notin Worker
  BY ScheduleAssumption, Zenon DEF IInv, CoreInv
<1>3. /\ pc' \in [Worker -> Running \cup {"claim", "asleep", "exited"}]
      /\ pc'[w] = "finish" /\ x \in Unit(plan) /\ owner[x] = w
      /\ \A v \in Worker \ {w} : SamePlace(v) /\ pc'[v] = pc[v]
      /\ \A v \in Worker \ {w} : pc[v] \in Running => unit[v] # x
      /\ \A d : Rdeps(d)' = Rdeps(d)
      /\ \A v \in Worker : unit'[v] # None <=> pc'[v] \in Running
      /\ \A v \in Worker : pc'[v] \in Running => owner[unit'[v]] = v
  <2>1. "close" \in Running /\ "finish" \in Running
    BY Zenon DEF Running
  <2>2. pc[w] = "close" /\ pc' = [pc EXCEPT ![w] = "finish"] /\ UNCHANGED <<plan, unit>>
    BY <1>1, Zenon
  <2>3. /\ pc' \in [Worker -> Running \cup {"claim", "asleep", "exited"}]
        /\ pc'[w] = "finish" /\ unit[w] \in Unit(plan) /\ owner[unit[w]] = w
        /\ \A v \in Worker \ {w} : SamePlace(v) /\ pc'[v] = pc[v]
        /\ \A v \in Worker \ {w} : pc[v] \in Running => unit[v] # unit[w]
        /\ \A d : Rdeps(d)' = Rdeps(d)
        /\ \A v \in Worker : unit'[v] # None <=> pc'[v] \in Running
        /\ \A v \in Worker : pc'[v] \in Running => owner[unit'[v]] = v
    BY <2>1, <2>2, MovesOn, Zenon
  <2> QED
    BY <1>0, <2>3, Zenon
<1>4. x \notin done /\ x \in ranHere[w] /\ (Rdeps(x) # {} => x \in exported)
  BY <1>0, <1>1, <1>2, Zenon DEF RunInv, HoldInv, Running
<1>5. Finished' = Finished /\ CountedOff' = CountedOff
  <2>1. {v \in Worker : pc'[v] = "finish"} = {v \in Worker : pc[v] = "finish"} \cup {w}
    BY <1>1, <1>3
  <2>2. {v \in Worker : pc'[v] = "close"} = {v \in Worker : pc[v] = "close"} \ {w}
    BY <1>1, <1>3, Zenon
  <2>3. Finished' = Finished
    BY <1>0, <1>1, <1>4, <2>1, Zenon DEF Finished
  <2>4. CountedOff' = (done \cup {x}) \cup {unit[v] : v \in {q \in Worker : pc[q] = "close"} \ {w}}
    BY <1>1, <2>2, Zenon DEF CountedOff
  <2>5. CountedOff = (done \cup {x}) \cup {unit[v] : v \in {q \in Worker : pc[q] = "close"} \ {w}}
    BY <1>0, <1>1, Zenon DEF CountedOff
  <2> QED
    BY <2>3, <2>4, <2>5, Zenon
<1>6. TypeOK'
  BY <1>1, <1>2, <1>3, Zenon DEF TypeOK
<1>7. RunInv'
  <2>1. \A v \in Worker : pc'[v] \in Running \ {"finish"} => unit[v] \notin done'
    <3> SUFFICES ASSUME NEW v \in Worker, pc'[v] \in Running \ {"finish"} PROVE unit[v] \notin done'
      BY Zenon
    <3>1. v # w
      BY <1>3, Zenon
    <3> QED
      BY <1>1, <1>2, <1>3, <3>1, Zenon DEF RunInv
  <2>2. \A v \in Worker : pc'[v] = "finish" => unit[v] \in done'
    BY <1>0, <1>1, <1>2, <1>3, Zenon DEF RunInv
  <2>3. \A v \in Worker : pc'[v] \in {"export", "publish", "close", "finish"} => unit[v] \in ranHere[v]
    BY <1>1, <1>2, <1>3, Zenon DEF RunInv
  <2>4. \A u \in done' : owner[u] # None /\ u \in ranHere[owner[u]]
    BY <1>1, <1>2, <1>3, <1>4 DEF RunInv
  <2> QED
    BY <1>1, <1>2, <1>3, <2>1, <2>2, <2>3, <2>4, Zenon DEF RunInv
<1>8. CountInv'
  BY <1>1, <1>2, <1>5, Zenon DEF CountInv
<1>9. HoldInv'
  <2>1. \A v \in Worker : Have(v)' = Have(v)
    BY <1>1, Zenon DEF Have
  <2>3. \A v \in Worker : pc'[v] = "import" => DependenciesFirst(plan, unit[v], Have(v), todo[v])
    BY <1>1, <1>2, <1>3, Zenon DEF HoldInv
  <2>4. \A v \in Worker : pc'[v] \in Running \ {"import"} => plan.deps[unit[v]] \subseteq Have(v)
    <3> SUFFICES ASSUME NEW v \in Worker, pc'[v] \in Running \ {"import"}
                 PROVE  pc[v] \in Running \ {"import"}
      BY <1>2, Zenon DEF HoldInv
    <3> QED
      BY <1>1, <1>3, Zenon DEF Running, SamePlace
  <2>5. \A v \in Worker : pc'[v] \in {"publish", "close", "finish"} /\ Rdeps(unit[v]) # {} => unit[v] \in exported
    BY <1>1, <1>2, <1>3, Zenon DEF HoldInv
  <2>6. \A d \in done' : Rdeps(d) # {} => d \in exported
    BY <1>1, <1>2, <1>4, Zenon DEF HoldInv
  <2>7. \A v \in Worker : Have(v) \subseteq facts[v] /\ Closed(plan, Have(v))
    BY <1>2, Zenon DEF HoldInv
  <2> QED
    BY <1>1, <1>3, <2>1, <2>3, <2>4, <2>5, <2>6, <2>7, SMTT(30) DEF HoldInv
<1> QED
  BY <1>1, <1>2, <1>6, <1>7, <1>8, <1>9, Zenon DEF IInv, CoreInv

-----------------------------------------------------------------------------
(* The theorems.                                                           *)

\* Every step keeps the invariant.
LEMMA StepInv == IInv /\ [Next]_vars => IInv'
<1> SUFFICES ASSUME IInv, [Next]_vars PROVE IInv'
  BY Zenon
<1>1. CASE UNCHANGED vars
  <2>1. UNCHANGED <<plan, pending, ready, left, owner, sccLeft, published, exported, done, pc, unit, todo, ranHere,
                    imported, facts>>
    BY <1>1, Zenon DEF vars, shared, progress, local
  <2>2. Finished' = Finished /\ CountedOff' = CountedOff
    BY <2>1, Zenon DEF Finished, CountedOff
  <2>3. (\A v : Have(v)' = Have(v)) /\ (\A d : Rdeps(d)' = Rdeps(d))
    BY <2>1, Zenon DEF Have, Rdeps
  <2>4. TypeOK'
    BY <2>1, Zenon DEF IInv, CoreInv, TypeOK
  <2>5. RunInv'
    BY <2>1, Zenon DEF IInv, CoreInv, RunInv
  <2>6. CountInv'
    BY <2>1, <2>2, Zenon DEF IInv, CoreInv, CountInv
  <2>7. HoldInv'
    BY <2>1, <2>3, Zenon DEF IInv, CoreInv, HoldInv
  <2> QED
    BY <2>1, <2>4, <2>5, <2>6, <2>7, Zenon DEF IInv, CoreInv
<1>2. CASE Joined
  BY <1>1, <1>2, Zenon DEF Joined
<1>3. CASE \E w \in Worker : Step(w)
  <2>1. PICK w \in Worker : Step(w)
    BY <1>3, Zenon
  <2> QED
    BY <2>1, ClaimInv, ClaimIdleInv, FinishInv, ImportInv, StartAnalysisInv, AnalyzeInv, ExportInv, PublishInv,
       CloseDoneInv, Zenon DEF Step
<1> QED
  BY <1>1, <1>2, <1>3, Zenon DEF Next

-----------------------------------------------------------------------------
(* What is left to claim, and who sleeps.                                  *)

\* A step that claims nothing, frees nothing and puts nobody to sleep.
LEMMA ClaimsFrame ==
    ASSUME ClaimsInv, TypeOK, None \notin Worker,
           UNCHANGED <<plan, pending, ready, left, owner, unit>>, done \subseteq done',
           \A v \in Worker : pc[v] \in Running => pc'[v] \in Running,
           \A v \in Worker : pc'[v] = "asleep" => pc[v] = "asleep"
    PROVE  ClaimsInv'
<1>1. \A u \in Unit(plan) : owner[u] # None => owner[u] \in Worker
  BY Zenon DEF TypeOK
<1>2. \A u \in Unit(plan) : owner[u] # None => u \in done' \/ (pc'[owner[u]] \in Running /\ unit[owner[u]] = u)
  BY <1>1, Zenon DEF ClaimsInv
<1> QED
  BY <1>2, Zenon DEF ClaimsInv

\* In the beginning everything is left and the units without dependencies are ready.
LEMMA InitClaims == Init => ClaimsInv
<1> SUFFICES ASSUME Init PROVE ClaimsInv
  OBVIOUS
<1>1. plan \in Plan /\ WellFormed(plan)
  BY ScheduleAssumption, Zenon DEF Init
<1>2. {u \in Unit(plan) : owner[u] = None} = Unit(plan) /\ \A u \in Unit(plan) : owner[u] = None
  BY Zenon DEF Init
<1>3. \A u \in Unit(plan) : pending[u] = 0 => u \in ready
  <2> SUFFICES ASSUME NEW u \in Unit(plan), pending[u] = 0 PROVE u \in ready
    OBVIOUS
  <2>1. IsFiniteSet(plan.deps[u]) /\ Cardinality(plan.deps[u]) = 0
    BY <1>1, FS_Subset, Zenon DEF WellFormed, Init
  <2> QED
    BY <2>1, FS_EmptySet, Zenon DEF Init
<1>4. \A w \in Worker : pc[w] # "asleep"
  BY DEF Init
<1> QED
  BY <1>2, <1>3, <1>4, Zenon DEF ClaimsInv, Init

\* The unit that is claimed leaves the heap; nobody slept over a heap that holds it.
LEMMA ClaimClaims ==
    ASSUME IInv, ClaimsInv, NEW w \in Worker, Claim(w)
    PROVE  ClaimsInv'
<1>1. PICK u \in ready :
        /\ ready' = ready \ {u}
        /\ left' = left - 1
        /\ owner' = [owner EXCEPT ![u] = w]
        /\ unit' = [unit EXCEPT ![w] = u]
  BY Zenon DEF Claim
<1>2. pc[w] = "claim" /\ pc' = AfterClaim(w) /\ UNCHANGED <<plan, pending, done>>
  BY Zenon DEF Claim, progress
<1>3. plan \in Plan /\ TypeOK /\ RunInv /\ WellFormed(plan) /\ None \notin Worker
  BY ScheduleAssumption, Zenon DEF IInv, CoreInv
<1>4. u \in Unit(plan) /\ owner[u] = None
  BY <1>3, Zenon DEF TypeOK, RunInv
<1>5. /\ owner'[u] = w /\ \A x \in Unit(plan) \ {u} : owner'[x] = owner[x]
      /\ unit'[w] = u /\ \A v \in Worker \ {w} : unit'[v] = unit[v]
  BY <1>1, <1>3, <1>4, Zenon DEF TypeOK
<1>6. /\ pc'[w] = "import"
      /\ \A v \in Worker \ {w} : pc'[v] = pc[v] \/ (pc[v] = "asleep" /\ pc'[v] = "claim")
  <2> DEFINE now == [pc EXCEPT ![w] = "import"]
  <2>1. now[w] = "import" /\ \A v \in Worker \ {w} : now[v] = pc[v]
    BY <1>3, Zenon DEF TypeOK
  <2>2. pc' = now \/ pc' = Awake(now)
    BY <1>2, Zenon DEF AfterClaim
  <2> HIDE DEF now
  <2>3. \A v \in Worker : Awake(now)[v] = IF now[v] = "asleep" THEN "claim" ELSE now[v]
    BY Zenon DEF Awake
  <2> QED
    BY <2>1, <2>2, <2>3, Zenon
<1>7. {x \in Unit(plan') : owner'[x] = None} = {x \in Unit(plan) : owner[x] = None} \ {u}
  BY <1>2, <1>3, <1>4, <1>5, Zenon
<1>8. left' = Cardinality({x \in Unit(plan') : owner'[x] = None})
  <2>1. PICK S : S = {x \in Unit(plan) : owner[x] = None}
    BY Zenon
  <2>2. IsFiniteSet(S) /\ u \in S
    BY <1>3, <1>4, <2>1, FS_Subset, Zenon DEF WellFormed
  <2>3. Cardinality(S \ {u}) = Cardinality(S) - 1
    BY <2>2, FS_RemoveElement, Zenon
  <2> QED
    BY <1>1, <1>7, <2>1, <2>3, Zenon DEF ClaimsInv
<1>9. \A x \in Unit(plan) : owner'[x] = None /\ pending'[x] = 0 => x \in ready'
  BY <1>1, <1>2, <1>3, <1>5, Zenon DEF ClaimsInv
<1>10. \A x \in Unit(plan) : owner'[x] # None =>
          x \in done' \/ (pc'[owner'[x]] \in Running /\ unit'[owner'[x]] = x)
  <2> SUFFICES ASSUME NEW x \in Unit(plan), owner'[x] # None, x \notin done'
               PROVE  pc'[owner'[x]] \in Running /\ unit'[owner'[x]] = x
    BY Zenon
  <2>1. CASE x = u
    BY <1>5, <1>6, <2>1, Zenon DEF Running
  <2>2. CASE x # u
    <3>1. owner'[x] = owner[x] /\ owner[x] \in Worker /\ pc[owner[x]] \in Running /\ unit[owner[x]] = x
      <4>1. owner'[x] = owner[x] /\ owner[x] # None /\ x \notin done
        BY <1>2, <1>5, <2>2, Zenon
      <4>2. owner[x] \in Worker
        BY <1>3, <4>1, Zenon DEF TypeOK
      <4> QED
        BY <4>1, <4>2, Zenon DEF ClaimsInv
    <3>2. owner[x] # w
      BY <1>2, <3>1, Zenon DEF Running
    <3>3. pc'[owner[x]] = pc[owner[x]]
      BY <1>6, <3>1, <3>2, Zenon DEF Running
    <3> QED
      BY <1>5, <3>1, <3>2, <3>3, Zenon
  <2> QED
    BY <2>1, <2>2, Zenon
<1>11. \A v \in Worker : pc'[v] # "asleep"
  BY <1>1, <1>6, Zenon DEF ClaimsInv
<1> QED
  BY <1>2, <1>8, <1>9, <1>10, <1>11, Zenon DEF ClaimsInv

\* A worker that finds nothing to claim ran nothing.
LEMMA IdleClaims ==
    ASSUME IInv, ClaimsInv, NEW w \in Worker, ClaimWaits(w) \/ ClaimEnds(w)
    PROVE  ClaimsInv'
<1>1. /\ pc[w] = "claim" /\ ready = {}
      /\ \/ pc' = [pc EXCEPT ![w] = "asleep"] /\ left > 0
         \/ pc' = [pc EXCEPT ![w] = "exited"]
      /\ UNCHANGED <<plan, pending, ready, left, owner, done, unit>>
  BY Zenon DEF ClaimWaits, ClaimEnds, shared, progress
<1>2. TypeOK /\ None \notin Worker
  BY ScheduleAssumption, Zenon DEF IInv, CoreInv
<1>3. \A v \in Worker : pc[v] \in Running => pc'[v] = pc[v]
  BY <1>1, <1>2, Zenon DEF TypeOK, Running
<1>4. \A v \in Worker : pc'[v] = "asleep" => ready = {} /\ left > 0
  BY <1>1, <1>2, ZenonT(40) DEF TypeOK, ClaimsInv
<1>5. \A u \in Unit(plan) : owner[u] # None => u \in done \/ (pc'[owner[u]] \in Running /\ unit[owner[u]] = u)
  <2>1. \A u \in Unit(plan) : owner[u] # None => owner[u] \in Worker
    BY <1>2, Zenon DEF TypeOK
  <2> QED
    BY <1>3, <2>1, Zenon DEF ClaimsInv
<1> QED
  BY <1>1, <1>4, <1>5, Zenon DEF ClaimsInv

\* The units that wait for nothing more enter the heap, and nobody sleeps on.
LEMMA FinishClaims ==
    ASSUME IInv, ClaimsInv, NEW w \in Worker, Finish(w)
    PROVE  ClaimsInv'
<1>1. /\ pc[w] = "finish"
      /\ pending' = [u \in Unit(plan) |-> IF u \in Rdeps(unit[w]) THEN pending[u] - 1 ELSE pending[u]]
      /\ ready' = ready \cup {u \in Rdeps(unit[w]) : pending[u] = 1}
      /\ pc' = Awake([pc EXCEPT ![w] = "claim"])
      /\ unit' = [unit EXCEPT ![w] = None]
      /\ UNCHANGED <<plan, left, owner, done>>
  BY Zenon DEF Finish, progress
<1>2. TypeOK /\ RunInv /\ None \notin Worker
  BY ScheduleAssumption, Zenon DEF IInv, CoreInv
<1>3. \A u \in Unit(plan) : owner[u] = None /\ pending'[u] = 0 => u \in ready'
  <2> SUFFICES ASSUME NEW u \in Unit(plan), owner[u] = None, pending'[u] = 0 PROVE u \in ready'
    OBVIOUS
  <2>1. CASE u \in Rdeps(unit[w])
    <3>1. pending[u] \in Nat /\ pending[u] - 1 = 0
      BY <1>1, <1>2, <2>1 DEF TypeOK
    <3>2. pending[u] = 1
      BY <3>1
    <3> QED
      BY <1>1, <2>1, <3>2, Zenon
  <2>2. CASE u \notin Rdeps(unit[w])
    BY <1>1, <2>2, Zenon DEF ClaimsInv
  <2> QED
    BY <2>1, <2>2, Zenon
<1>4. \A v \in Worker : pc'[v] # "asleep" /\ (v # w /\ pc[v] \in Running => pc'[v] = pc[v])
  BY <1>1, <1>2 DEF TypeOK, Awake, Running
<1>5. \A v \in Worker \ {w} : unit'[v] = unit[v]
  BY <1>1, <1>2, Zenon DEF TypeOK
<1>6. \A u \in Unit(plan) : owner[u] # None => u \in done \/ (pc'[owner[u]] \in Running /\ unit'[owner[u]] = u)
  <2> SUFFICES ASSUME NEW u \in Unit(plan), owner[u] # None, u \notin done
               PROVE  pc'[owner[u]] \in Running /\ unit'[owner[u]] = u
    BY Zenon
  <2>1. owner[u] \in Worker /\ pc[owner[u]] \in Running /\ unit[owner[u]] = u
    <3>1. owner[u] \in Worker
      BY <1>2, Zenon DEF TypeOK
    <3> QED
      BY <3>1, Zenon DEF ClaimsInv
  <2>2. owner[u] # w
    <3>1. unit[w] \in done
      BY <1>1, <1>2, Zenon DEF RunInv
    <3> QED
      BY <2>1, <3>1, Zenon
  <2> QED
    BY <1>4, <1>5, <2>1, <2>2, Zenon
<1> QED
  BY <1>1, <1>3, <1>4, <1>6, Zenon DEF ClaimsInv

\* Every other step runs a unit and claims none.
LEMMA StepClaims == IInv /\ ClaimsInv /\ [Next]_vars => ClaimsInv'
<1> SUFFICES ASSUME IInv, ClaimsInv, [Next]_vars PROVE ClaimsInv'
  BY Zenon
<1>0. TypeOK /\ None \notin Worker
  BY ScheduleAssumption, Zenon DEF IInv, CoreInv
<1>1. CASE UNCHANGED vars
  <2>1. UNCHANGED <<plan, pending, ready, left, owner, done, pc, unit>>
    BY <1>1, Zenon DEF vars, shared, progress
  <2> QED
    BY <1>0, <2>1, ClaimsFrame, Zenon
<1>2. ASSUME NEW w \in Worker,
             Import(w) \/ StartAnalysis(w) \/ Analyze(w) \/ Export(w) \/ Publish(w) \/ CloseDone(w)
      PROVE  ClaimsInv'
  <2>1. UNCHANGED <<plan, pending, ready, left, owner, unit>> /\ done \subseteq done'
    BY <1>2, Zenon DEF Import, StartAnalysis, Analyze, Export, Publish, CloseDone, shared, progress
  <2>2. pc[w] \in Running /\ (pc' = pc \/ \E q \in Running : pc' = [pc EXCEPT ![w] = q])
    BY <1>2, Zenon DEF Import, StartAnalysis, Analyze, Export, Publish, CloseDone, Running
  <2>3. /\ \A v \in Worker : pc[v] \in Running => pc'[v] \in Running
        /\ \A v \in Worker : pc'[v] = "asleep" => pc[v] = "asleep"
    BY <1>0, <2>2, Zenon DEF TypeOK, Running
  <2> QED
    BY <1>0, <2>1, <2>3, ClaimsFrame, Zenon
<1>3. CASE \E w \in Worker : Step(w)
  BY <1>2, <1>3, ClaimClaims, IdleClaims, FinishClaims, Zenon DEF Step
<1> QED
  BY <1>1, <1>3, Zenon DEF Next, Joined

\* runParallelBodies: the schedule's counters count what they stand for and a
\* claimed unit rests on finished ones, for any workers and any plan.
THEOREM ScheduleInvariant == Spec => []ScheduleInv
<1>1. Spec => [](IInv /\ ClaimsInv)
  <2> HIDE DEF IInv, ClaimsInv
  <2> QED
    BY InitInv, StepInv, InitClaims, StepClaims, PTL DEF Spec
<1>2. IInv /\ ClaimsInv => ScheduleInv
  BY Zenon DEF IInv, CoreInv, ScheduleInv
<1> QED
  BY <1>1, <1>2, PTL

\* Everything a unit under analysis rests on, and every sibling chunk of it,
\* has finished.
LEMMA RestsOnWholeCycles ==
    ASSUME IInv, NEW u \in Unit(plan), owner[u] # None, NEW d \in Reaches(plan, u)
    PROVE  plan.sccOf[d] \in published
<1> DEFINE S == {f \in Finished : \A e \in Unit(plan) : plan.sccOf[e] = plan.sccOf[f] => e \in Finished}
<1>1. plan \in Plan /\ TypeOK /\ RunInv /\ CountInv /\ WellFormed(plan)
  BY ScheduleAssumption, Zenon DEF IInv, CoreInv
<1>2. Finished \subseteq Unit(plan) /\ \A f \in Finished : owner[f] # None
  BY <1>1, Zenon DEF TypeOK, RunInv, Finished
<1>3. \A v \in Unit(plan) : owner[v] # None => plan.deps[v] \subseteq S
  <2> SUFFICES ASSUME NEW v \in Unit(plan), owner[v] # None, NEW f \in plan.deps[v] PROVE f \in S
    BY Zenon
  <2>1. plan.deps[v] \subseteq Finished
    BY <1>1, Zenon DEF CountInv
  <2>2. \A e \in Unit(plan) : plan.sccOf[e] = plan.sccOf[f] => e \in plan.deps[v]
    BY <1>1, <1>2, <2>1, Zenon DEF WellFormed
  <2> QED
    BY <2>1, <2>2, Zenon
<1>4. Closed(plan, S)
  BY <1>2, <1>3, Zenon DEF Closed
<1>5. S \in SUBSET Unit(plan) /\ plan.deps[u] \subseteq S
  BY <1>2, <1>3, Zenon
<1>6. d \in S
  <2> HIDE DEF S
  <2> QED
    BY <1>4, <1>5, ReachesLeast, Zenon
<1>7. {e \in Unit(plan) : plan.sccOf[e] = plan.sccOf[d]} \ CountedOff = {}
  BY <1>6, Zenon DEF Finished, CountedOff
<1>8. plan.sccOf[d] \in Scc(plan)
  BY <1>2, <1>6, Zenon DEF Scc
<1> QED
  BY <1>1, <1>7, <1>8, FS_EmptySet, Zenon DEF CountInv

\* runParallelBodies: whoever analyses a unit holds the facts of all it rests
\* on, and the function types of those cycles are published.
THEOREM ScheduleFactsComplete == Spec => []FactsComplete
<1>1. IInv => FactsComplete
  <2> SUFFICES ASSUME IInv, NEW w \in Worker, pc[w] = "analyze", NEW d \in Reaches(plan, unit[w])
               PROVE  d \in facts[w] /\ plan.sccOf[d] \in published
    BY Zenon DEF FactsComplete
  <2>1. /\ plan \in Plan /\ TypeOK /\ RunInv /\ HoldInv /\ None \notin Worker
    BY ScheduleAssumption, Zenon DEF IInv, CoreInv
  <2>2. unit[w] \in Unit(plan) /\ owner[unit[w]] # None
    BY <2>1 DEF RunInv, TypeOK, Running
  <2>3. plan.deps[unit[w]] \subseteq Have(w) /\ Closed(plan, Have(w)) /\ Have(w) \subseteq facts[w]
    BY <2>1, Zenon DEF HoldInv, Running
  <2>4. Have(w) \in SUBSET Unit(plan)
    BY <2>1, Zenon DEF TypeOK, Have
  <2>5. d \in Have(w)
    BY <2>3, <2>4, ReachesLeast, Zenon
  <2> QED
    BY <2>2, <2>3, <2>5, RestsOnWholeCycles, Zenon
<1>2. Spec => []IInv
  <2> HIDE DEF IInv
  <2> QED
    BY InitInv, StepInv, PTL DEF Spec
<1> QED
  BY <1>1, <1>2, PTL

\* publishSCC: the types of a cycle appear only after its last chunk.
THEOREM ScheduleCyclesStable == Spec => []CyclesStable
<1>1. IInv => CyclesStable
  <2> SUFFICES ASSUME IInv, NEW w \in Worker, pc[w] \in {"import", "analyze"}
               PROVE  plan.sccOf[unit[w]] \notin published
    BY Zenon DEF CyclesStable
  <2>1. PICK x : x = unit[w]
    BY Zenon
  <2>2. plan \in Plan /\ TypeOK /\ RunInv /\ CountInv /\ WellFormed(plan)
    BY ScheduleAssumption, Zenon DEF IInv, CoreInv
  <2>3. x \in Unit(plan) /\ owner[x] = w /\ x \notin done
    BY <2>1, <2>2 DEF RunInv, TypeOK, Running
  <2>4. \A v \in Worker : pc[v] = "close" => unit[v] # x
    BY <2>2, <2>3, Zenon DEF RunInv, Running
  <2>5. x \notin CountedOff
    BY <2>3, <2>4, Zenon DEF CountedOff
  <2>6. PICK c : c = plan.sccOf[x]
    BY Zenon
  <2>7. c \in Scc(plan)
    BY <2>3, <2>6, Zenon DEF Scc
  <2>8. PICK S : S = {u \in Unit(plan) : plan.sccOf[u] = c} \ CountedOff
    BY Zenon
  <2>9. x \in S /\ IsFiniteSet(S)
    BY <2>2, <2>3, <2>5, <2>6, <2>8, FS_Subset, Zenon DEF WellFormed
  <2>10. Cardinality(S) # 0
    BY <2>9, FS_EmptySet, Zenon
  <2> QED
    BY <2>1, <2>2, <2>6, <2>7, <2>8, <2>10, Zenon DEF CountInv
<1>2. Spec => []IInv
  <2> HIDE DEF IInv
  <2> QED
    BY InitInv, StepInv, PTL DEF Spec
<1> QED
  BY <1>1, <1>2, PTL

\* importUnit: the channel it waits for is closed, so no import blocks.
THEOREM ScheduleImportsReady == Spec => []ImportsReady
<1>1. IInv => ImportsReady
  <2> SUFFICES ASSUME IInv, NEW w \in Worker, pc[w] = "import", todo[w] # <<>>
               PROVE  Head(todo[w]) \in done
    BY Zenon DEF ImportsReady
  <2>1. plan \in Plan /\ TypeOK /\ RunInv /\ HoldInv /\ None \notin Worker
    BY ScheduleAssumption, Zenon DEF IInv, CoreInv
  <2>2. unit[w] \in Unit(plan) /\ owner[unit[w]] # None
    BY <2>1 DEF RunInv, TypeOK, Running
  <2>3. todo[w] \in Seq(Unit(plan)) /\ Len(todo[w]) >= 1 /\ Head(todo[w]) = todo[w][1]
    BY <2>1, SMTT(30) DEF TypeOK
  <2>4. Head(todo[w]) \in Reaches(plan, unit[w])
    BY <2>1, <2>3 DEF HoldInv, DependenciesFirst
  <2> QED
    BY <2>2, <2>4, ClaimedRestsOnFinished, Zenon DEF Finished
<1>2. Spec => []IInv
  <2> HIDE DEF IInv
  <2> QED
    BY InitInv, StepInv, PTL DEF Spec
<1> QED
  BY <1>1, <1>2, PTL

\* claim: a worker that waits on the condition variable is woken by a unit that
\* runs now.  If none ran, the first unclaimed unit of the plan would rest on
\* finished ones only, and would be in the heap that the worker found empty.
THEOREM ScheduleSleepers == Spec => []SleepersWaitForWork
<1>1. IInv /\ ClaimsInv => SleepersWaitForWork
  <2> SUFFICES ASSUME IInv, ClaimsInv, NEW w \in Worker, pc[w] = "asleep"
               PROVE  ready = {} /\ left > 0 /\ \E v \in Worker : pc[v] \in Running
    BY Zenon DEF SleepersWaitForWork
  <2>1. plan \in Plan /\ TypeOK /\ CountInv /\ WellFormed(plan)
    BY ScheduleAssumption, Zenon DEF IInv, CoreInv
  <2>2. ready = {} /\ left > 0
    BY Zenon DEF ClaimsInv
  <2>3. SUFFICES ASSUME \A v \in Worker : pc[v] \notin Running PROVE FALSE
    BY <2>2, Zenon
  <2>4. PICK S : S = {u \in Unit(plan) : owner[u] = None}
    BY Zenon
  <2>5. S # {}
    <3>1. S = {} => left = 0
      BY <2>4, FS_EmptySet, Zenon DEF ClaimsInv
    <3> QED
      BY <2>2, <3>1
  <2>6. PICK u \in S : \A d \in S : ~(d < u)
    <3>1. S \subseteq Nat
      BY <2>1, <2>4, Zenon DEF WellFormed
    <3>2. IsWellFoundedOn(OpToRel(<, Nat), Nat)
      BY NatLessThanWellFounded, Zenon
    <3>3. PICK x \in S : \A y \in S : ~(<<y, x>> \in OpToRel(<, Nat))
      BY <2>5, <3>1, <3>2, WFMin, Zenon
    <3> QED
      BY <3>1, <3>3, Zenon DEF OpToRel
  <2>7. u \in Unit(plan) /\ owner[u] = None
    BY <2>4, Zenon
  <2>8. plan.deps[u] \subseteq Finished
    <3> SUFFICES ASSUME NEW d \in plan.deps[u] PROVE d \in Finished
      OBVIOUS
    <3>1. d \in Unit(plan) /\ d < u
      BY <2>1, <2>7, Zenon DEF WellFormed
    <3>2. owner[d] # None
      BY <2>4, <2>6, <3>1, Zenon
    <3>3. owner[d] \in Worker
      BY <2>1, <3>1, <3>2, Zenon DEF TypeOK
    <3>4. d \in done
      BY <2>3, <3>1, <3>2, <3>3, Zenon DEF ClaimsInv
    <3> QED
      BY <2>3, <3>4, Zenon DEF Finished, Running
  <2>9. pending[u] = 0
    <3>1. plan.deps[u] \ Finished = {}
      BY <2>8, Zenon
    <3> QED
      BY <2>1, <2>7, <3>1, FS_EmptySet, Zenon DEF CountInv
  <2> QED
    BY <2>2, <2>7, <2>9, Zenon DEF ClaimsInv
<1>2. Spec => [](IInv /\ ClaimsInv)
  <2> HIDE DEF IInv, ClaimsInv
  <2> QED
    BY InitInv, StepInv, InitClaims, StepClaims, PTL DEF Spec
<1> QED
  BY <1>1, <1>2, PTL

=============================================================================
