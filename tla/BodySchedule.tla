----------------------------- MODULE BodySchedule -----------------------------
(***************************************************************************)
(* The parallel analysis of function bodies (semantic/parallel_bodies.go   *)
(* with the schedule of semantic/parallel_schedule.go).                    *)
(*                                                                         *)
(* Workers claim units from a ready heap, import the facts of everything   *)
(* the unit rests on, analyse it, export its facts, publish the function   *)
(* types of its cycle and release the units that waited for it.  Every     *)
(* worker has facts of its own; the schedule is shared under one mutex,    *)
(* and `done` channels order an export before the imports of it.           *)
(***************************************************************************)
EXTENDS Integers, Sequences, FiniteSets

CONSTANTS
    Worker,             \* the workers
    Plan,               \* the plans the analysis may start from
    None,               \* no unit
    DepClosure(_, _, _) \* the units to import before a unit, in order

Unit(p) == DOMAIN p.deps

\* A set of units that holds the dependencies of its members.
Closed(p, S) == \A d \in S : p.deps[d] \subseteq S

\* Everything that unit u transitively depends on: the least closed set that
\* holds its dependencies.
Reaches(p, u) == {d \in Unit(p) : \A S \in SUBSET Unit(p) : p.deps[u] \subseteq S /\ Closed(p, S) => d \in S}

\* What a plan promises: dependencies are other units of earlier positions, and
\* whoever uses one chunk of a cycle waits for all of its chunks.
WellFormed(p) ==
    /\ IsFiniteSet(Unit(p)) /\ Unit(p) \subseteq Nat
    /\ DOMAIN p.sccOf = Unit(p) /\ p.priority \in [Unit(p) -> Nat]
    /\ \A u \in Unit(p) : p.deps[u] \subseteq {d \in Unit(p) : d < u}
    /\ \A u \in Unit(p) : \A d \in p.deps[u] : p.sccOf[d] # p.sccOf[u]
    /\ \A u, d, e \in Unit(p) : d \in p.deps[u] /\ p.sccOf[e] = p.sccOf[d] => e \in p.deps[u]

\* What a list of imports promises a worker that holds the closed set `have`:
\* only what u rests on, each unit after those it depends on itself, and in the
\* end all dependencies of u.
DependenciesFirst(p, u, have, list) ==
    /\ list \in Seq(Unit(p))
    /\ \A i \in 1 .. Len(list) : list[i] \in Reaches(p, u)
    /\ \A i \in 1 .. Len(list) : p.deps[list[i]] \subseteq have \cup {list[j] : j \in 1 .. (i - 1)}
    /\ p.deps[u] \subseteq have \cup {list[j] : j \in 1 .. Len(list)}

\* What is known of the plans and of depClosure.
ASSUME ScheduleAssumption ==
    /\ \A p \in Plan : WellFormed(p)
    /\ None \notin Worker /\ \A p \in Plan : None \notin Unit(p)
    /\ \A p \in Plan : \A u \in Unit(p) : \A have \in SUBSET Unit(p) :
        Closed(p, have) => DependenciesFirst(p, u, have, DepClosure(p.deps, u, have))

VARIABLES
    plan,       \* the immutable part of bodySchedule
    pending,    \* unfinished dependencies per unit
    ready,      \* the ready heap
    left,       \* units not claimed yet
    owner,      \* bodySchedule.worker: who runs a unit
    sccLeft,    \* chunks of a cycle that have not ended
    published,  \* the cycles whose function types are published
    exported,   \* the units with exported facts
    done,       \* the units whose done channel is closed
    pc,         \* where each worker is
    unit,       \* the unit each worker runs
    todo,       \* the units each worker still has to import for it
    ranHere,    \* the units each worker has analysed
    imported,   \* importedUnits of each worker
    facts       \* the units whose facts each worker holds

shared == <<pending, ready, left, owner>>
progress == <<sccLeft, published, exported, done>>
local == <<todo, ranHere, imported, facts>>
vars == <<plan, shared, progress, pc, unit, local>>

Scc(p) == {p.sccOf[u] : u \in Unit(p)}
Rdeps(d) == {u \in Unit(plan) : d \in plan.deps[u]}
Have(w) == ranHere[w] \cup imported[w]

Init ==
    /\ plan \in Plan
    /\ pending = [u \in Unit(plan) |-> Cardinality(plan.deps[u])]
    /\ ready = {u \in Unit(plan) : plan.deps[u] = {}}
    /\ left = Cardinality(Unit(plan))
    /\ owner = [u \in Unit(plan) |-> None]
    /\ sccLeft = [c \in Scc(plan) |-> Cardinality({u \in Unit(plan) : plan.sccOf[u] = c})]
    /\ published = {} /\ exported = {} /\ done = {}
    /\ pc = [w \in Worker |-> "claim"]
    /\ unit = [w \in Worker |-> None]
    /\ todo = [w \in Worker |-> <<>>]
    /\ ranHere = [w \in Worker |-> {}]
    /\ imported = [w \in Worker |-> {}]
    /\ facts = [w \in Worker |-> {}]

-----------------------------------------------------------------------------
(* claim and finish, each under the mutex.                                 *)

\* readyHeap.Less: the longest remaining path first, then the plan's order.
Before(u, v) == plan.priority[u] > plan.priority[v] \/ (plan.priority[u] = plan.priority[v] /\ u < v)

\* Mutant: Signal instead of Broadcast.
AwakeOne(pcs) ==
    IF \E w \in Worker : pcs[w] = "asleep"
    THEN [pcs EXCEPT ![CHOOSE w \in Worker : pcs[w] = "asleep"] = "claim"]
    ELSE pcs

\* Broadcast: every sleeper goes back to the condition of its loop.
Awake(pcs) == [w \in Worker |-> IF pcs[w] = "asleep" THEN "claim" ELSE pcs[w]]

\* The last claim wakes the sleepers, so that they end.
AfterClaim(w) ==
    LET now == [pc EXCEPT ![w] = "import"]
    IN  IF left = 1 THEN Awake(now) ELSE now

Imports(w, u) == DepClosure(plan.deps, u, Have(w))

Claim(w) ==
    /\ pc[w] = "claim"
    /\ \E u \in ready :
        /\ \A v \in ready \ {u} : Before(u, v)
        /\ ready' = ready \ {u}
        /\ left' = left - 1
        /\ owner' = [owner EXCEPT ![u] = w]
        /\ unit' = [unit EXCEPT ![w] = u]
        /\ todo' = [todo EXCEPT ![w] = Imports(w, u)]
    /\ pc' = AfterClaim(w)
    /\ UNCHANGED <<plan, pending, progress, ranHere, imported, facts>>

ClaimWaits(w) ==
    /\ pc[w] = "claim" /\ ready = {} /\ left > 0
    /\ pc' = [pc EXCEPT ![w] = "asleep"]
    /\ UNCHANGED <<plan, shared, progress, unit, local>>

ClaimEnds(w) ==
    /\ pc[w] = "claim" /\ ready = {} /\ ~(left > 0)
    /\ pc' = [pc EXCEPT ![w] = "exited"]
    /\ UNCHANGED <<plan, shared, progress, unit, local>>

\* Mutant: a dependent is released when at most one dependency is left.
FinishEarly(w) ==
    /\ pc[w] = "finish"
    /\ LET freed == Rdeps(unit[w])
       IN  /\ pending' = [u \in Unit(plan) |-> IF u \in freed THEN pending[u] - 1 ELSE pending[u]]
           /\ ready' = ready \cup {u \in freed : pending[u] <= 2}
    /\ pc' = Awake([pc EXCEPT ![w] = "claim"])
    /\ unit' = [unit EXCEPT ![w] = None]
    /\ UNCHANGED <<plan, left, owner, progress, local>>

Finish(w) ==
    /\ pc[w] = "finish"
    /\ LET freed == Rdeps(unit[w])
       IN  /\ pending' = [u \in Unit(plan) |-> IF u \in freed THEN pending[u] - 1 ELSE pending[u]]
           /\ ready' = ready \cup {u \in freed : pending[u] = 1}
    /\ pc' = Awake([pc EXCEPT ![w] = "claim"])
    /\ unit' = [unit EXCEPT ![w] = None]
    /\ UNCHANGED <<plan, left, owner, progress, local>>

-----------------------------------------------------------------------------
(* importUnit, the analysis and exportUnit.                                *)

\* One round of the import loop; importUnit waits for the done channel.
Import(w) ==
    /\ pc[w] = "import" /\ todo[w] # <<>>
    /\ LET d == Head(todo[w])
       IN  IF owner[d] # w /\ d \notin imported[w]
           THEN /\ d \in done
                /\ imported' = [imported EXCEPT ![w] = @ \cup {d}]
                /\ facts' = [facts EXCEPT ![w] = @ \cup ({d} \cap exported)]
           ELSE UNCHANGED <<imported, facts>>
    /\ todo' = [todo EXCEPT ![w] = Tail(@)]
    /\ UNCHANGED <<plan, shared, progress, pc, unit, ranHere>>

\* Mutant: a chunk of a cycle counts as analysed once another chunk of it has finished.
StartAnalysisOnce(w) ==
    /\ pc[w] = "import" /\ todo[w] = <<>>
    /\ pc' = [pc EXCEPT ![w] = IF \E d \in done : plan.sccOf[d] = plan.sccOf[unit[w]]
                               THEN "export" ELSE "analyze"]
    /\ UNCHANGED <<plan, shared, progress, unit, local>>

StartAnalysis(w) ==
    /\ pc[w] = "import" /\ todo[w] = <<>>
    /\ pc' = [pc EXCEPT ![w] = "analyze"]
    /\ UNCHANGED <<plan, shared, progress, unit, local>>

Analyze(w) ==
    /\ pc[w] = "analyze"
    /\ ranHere' = [ranHere EXCEPT ![w] = @ \cup {unit[w]}]
    /\ facts' = [facts EXCEPT ![w] = @ \cup {unit[w]}]
    /\ pc' = [pc EXCEPT ![w] = "export"]
    /\ UNCHANGED <<plan, shared, progress, unit, todo, imported>>

\* Mutant: facts are exported only for units with several dependents.
ExportShared(w) ==
    /\ pc[w] = "export"
    /\ exported' = IF Cardinality(Rdeps(unit[w])) > 1 THEN exported \cup {unit[w]} ELSE exported
    /\ pc' = [pc EXCEPT ![w] = "publish"]
    /\ UNCHANGED <<plan, shared, sccLeft, published, done, unit, local>>

Export(w) ==
    /\ pc[w] = "export"
    /\ exported' = IF Rdeps(unit[w]) # {} THEN exported \cup {unit[w]} ELSE exported
    /\ pc' = [pc EXCEPT ![w] = "publish"]
    /\ UNCHANGED <<plan, shared, sccLeft, published, done, unit, local>>

\* Mutant: each chunk of a cycle publishes when it ends.
PublishEach(w) ==
    /\ pc[w] = "publish"
    /\ LET c == plan.sccOf[unit[w]]
       IN  /\ sccLeft' = [sccLeft EXCEPT ![c] = @ - 1]
           /\ published' = published \cup {c}
    /\ pc' = [pc EXCEPT ![w] = "close"]
    /\ UNCHANGED <<plan, shared, exported, done, unit, local>>

\* Under the mutex: the last chunk of a cycle publishes its function types.
Publish(w) ==
    /\ pc[w] = "publish"
    /\ LET c == plan.sccOf[unit[w]]
       IN  /\ sccLeft' = [sccLeft EXCEPT ![c] = @ - 1]
           /\ published' = IF sccLeft[c] = 1 THEN published \cup {c} ELSE published
    /\ pc' = [pc EXCEPT ![w] = "close"]
    /\ UNCHANGED <<plan, shared, exported, done, unit, local>>

CloseDone(w) ==
    /\ pc[w] = "close"
    /\ done' = done \cup {unit[w]}
    /\ pc' = [pc EXCEPT ![w] = "finish"]
    /\ UNCHANGED <<plan, shared, sccLeft, published, exported, unit, local>>

Step(w) ==
    \/ Claim(w) \/ ClaimWaits(w) \/ ClaimEnds(w) \/ Finish(w)
    \/ Import(w) \/ StartAnalysis(w) \/ Analyze(w) \/ Export(w) \/ Publish(w) \/ CloseDone(w)

\* wg.Wait has returned.
Joined ==
    /\ \A w \in Worker : pc[w] = "exited"
    /\ UNCHANGED vars

Next == (\E w \in Worker : Step(w)) \/ Joined

\* The Go scheduler runs every worker that can run.
Spec == Init /\ [][Next]_vars /\ \A w \in Worker : WF_vars(Step(w))

-----------------------------------------------------------------------------
(* Properties.                                                             *)

Running == {"import", "analyze", "export", "publish", "close", "finish"}

\* The units that have been counted off their cycle, and those whose
\* dependents have been told.
CountedOff == done \cup {unit[w] : w \in {v \in Worker : pc[v] = "close"}}
Finished == done \ {unit[w] : w \in {v \in Worker : pc[v] = "finish"}}

TypeOK ==
    /\ pending \in [Unit(plan) -> Nat] /\ left \in Int
    /\ ready \subseteq Unit(plan) /\ done \subseteq Unit(plan) /\ exported \subseteq Unit(plan)
    /\ owner \in [Unit(plan) -> Worker \cup {None}]
    /\ sccLeft \in [Scc(plan) -> Nat] /\ published \subseteq Scc(plan)
    /\ pc \in [Worker -> Running \cup {"claim", "asleep", "exited"}]
    /\ unit \in [Worker -> Unit(plan) \cup {None}]
    /\ todo \in [Worker -> Seq(Unit(plan))]
    /\ ranHere \in [Worker -> SUBSET Unit(plan)] /\ imported \in [Worker -> SUBSET Unit(plan)]
    /\ facts \in [Worker -> SUBSET Unit(plan)]

\* Who runs what: a unit has one worker from its claim on.
RunInv ==
    /\ \A w \in Worker : unit[w] # None <=> pc[w] \in Running
    /\ \A w \in Worker : pc[w] \in Running => owner[unit[w]] = w
    /\ \A w \in Worker : pc[w] \in Running \ {"finish"} => unit[w] \notin done
    /\ \A w \in Worker : pc[w] = "finish" => unit[w] \in done
    /\ \A u \in ready : owner[u] = None /\ pending[u] = 0
    /\ \A u \in done : owner[u] # None
    /\ \A w \in Worker : \A d \in ranHere[w] : owner[d] = w
    /\ \A w \in Worker : pc[w] \in {"export", "publish", "close", "finish"} => unit[w] \in ranHere[w]
    /\ \A u \in done : u \in ranHere[owner[u]]

\* What the counters count, and what follows for a unit that was claimed.
CountInv ==
    /\ \A u \in Unit(plan) : pending[u] = Cardinality(plan.deps[u] \ Finished)
    /\ \A u \in Unit(plan) : owner[u] # None => plan.deps[u] \subseteq Finished
    /\ \A c \in Scc(plan) : sccLeft[c] = Cardinality({u \in Unit(plan) : plan.sccOf[u] = c} \ CountedOff)
    /\ \A c \in Scc(plan) : c \in published <=> sccLeft[c] = 0

\* What a worker holds is closed under dependencies, and grows until it holds
\* all dependencies of its unit.
HoldInv ==
    /\ \A w \in Worker : pc[w] \in {"publish", "close", "finish"} /\ Rdeps(unit[w]) # {} => unit[w] \in exported
    /\ \A d \in done : Rdeps(d) # {} => d \in exported
    /\ \A w \in Worker : Have(w) \subseteq facts[w] /\ Closed(plan, Have(w))
    /\ \A w \in Worker : pc[w] = "import" => DependenciesFirst(plan, unit[w], Have(w), todo[w])
    /\ \A w \in Worker : pc[w] \in Running \ {"import"} => plan.deps[unit[w]] \subseteq Have(w)

\* Where the units are: `left` counts the unclaimed ones, those of them that wait
\* for nothing are in the heap, and a claimed one has ended or its worker runs it.
\* A worker sleeps only while the heap is empty and units are left.
ClaimsInv ==
    /\ left = Cardinality({u \in Unit(plan) : owner[u] = None})
    /\ \A u \in Unit(plan) : owner[u] = None /\ pending[u] = 0 => u \in ready
    /\ \A u \in Unit(plan) : owner[u] # None => u \in done \/ (pc[owner[u]] \in Running /\ unit[owner[u]] = u)
    /\ \A w \in Worker : pc[w] = "asleep" => ready = {} /\ left > 0

\* The inductive invariant.
ScheduleInv == TypeOK /\ RunInv /\ CountInv /\ HoldInv /\ ClaimsInv

\* A worker that analyses a unit holds the facts of everything the unit rests
\* on, and the function types of those cycles have been published in full.
FactsComplete ==
    \A w \in Worker : pc[w] = "analyze" =>
        \A d \in Reaches(plan, unit[w]) : d \in facts[w] /\ plan.sccOf[d] \in published

\* The function types of a cycle do not change while a chunk of it is analysed.
CyclesStable ==
    \A w \in Worker : pc[w] \in {"import", "analyze"} => plan.sccOf[unit[w]] \notin published

\* An import never waits: what a claimed unit rests on has finished.
ImportsReady ==
    \A w \in Worker : pc[w] = "import" /\ todo[w] # <<>> => Head(todo[w]) \in done

\* A worker sleeps only while others run units that will make more ready.
SleepersWaitForWork ==
    \A w \in Worker : pc[w] = "asleep" =>
        ready = {} /\ left > 0 /\ \E v \in Worker : pc[v] \in Running

\* Every body is analysed by exactly one worker and all workers come home.
AllAnalysed ==
    <>[](/\ \A w \in Worker : pc[w] = "exited"
         /\ \A u \in Unit(plan) : \E w \in Worker : u \in ranHere[w] /\ \A v \in Worker \ {w} : u \notin ranHere[v])

=============================================================================
