------------------------------ MODULE BodyPlan -------------------------------
(***************************************************************************)
(* The plan of the parallel body analysis (semantic/parallel_schedule.go): *)
(* from the call graph of the function bodies to units that workers run.   *)
(*                                                                         *)
(* Bodies are numbered 1..n in source order and `deps` gives the bodies    *)
(* that each body uses.  The plan is the input of BodySchedule.            *)
(***************************************************************************)
EXTENDS Integers, Sequences, FiniteSets, SequencesExt, FiniteSetsExt

Sorted(S) == SetToSortSeq(S, <)

-----------------------------------------------------------------------------
(* bodyGraph.sccs: Tarjan's algorithm with an explicit call stack.         *)

Unvisited == -1

Frame(deps, v) == [v |-> v, edges |-> Sorted(deps[v])]

\* A body is numbered and pushed on both stacks when it is reached.
Discover(deps, s, v) ==
    [s EXCEPT !.index[v] = s.next, !.low[v] = s.next, !.next = s.next + 1,
              !.st = Append(s.st, v), !.call = Append(s.call, Frame(deps, v))]

\* The next edge of the top frame.
FollowEdge(deps, s) ==
    LET f == Last(s.call)
        w == Head(f.edges)
        t == [s EXCEPT !.call[Len(s.call)].edges = Tail(f.edges)]
    IN  IF s.index[w] = Unvisited THEN Discover(deps, t, w)
        ELSE IF Contains(s.st, w) THEN [t EXCEPT !.low[f.v] = Min({s.low[f.v], s.index[w]})]
        ELSE t

\* The top frame has no edge left: its link goes to its caller, and the root
\* of a component pops the component from the stack.
Retreat(s) ==
    LET v == Last(s.call).v
        rest == Front(s.call)
        t == IF rest = <<>> THEN [s EXCEPT !.call = rest]
             ELSE [s EXCEPT !.call = rest, !.low[Last(rest).v] = Min({@, s.low[v]})]
        at == CHOOSE i \in DOMAIN s.st : s.st[i] = v
    IN  IF s.low[v] # s.index[v] THEN t
        ELSE [t EXCEPT !.st = SubSeq(s.st, 1, at - 1),
                       !.comps = Append(@, Sorted(Range(SubSeq(s.st, at, Len(s.st)))))]

RECURSIVE Walk(_, _)
Walk(deps, s) ==
    LET roots == {v \in DOMAIN deps : s.index[v] = Unvisited}
    IN  IF s.call # <<>>
        THEN Walk(deps, IF Last(s.call).edges # <<>> THEN FollowEdge(deps, s) ELSE Retreat(s))
        ELSE IF roots = {} THEN s.comps ELSE Walk(deps, Discover(deps, s, Min(roots)))

sccs(deps) ==
    Walk(deps, [index |-> [v \in DOMAIN deps |-> Unvisited], low |-> [v \in DOMAIN deps |-> 0],
                next |-> 0, st |-> <<>>, call |-> <<>>, comps |-> <<>>])

-----------------------------------------------------------------------------
(* planBodySchedule.                                                       *)

\* A component in runs of at most `chunk` bodies.
Chunks(comp, chunk) ==
    [k \in 1 .. ((Len(comp) + chunk - 1) \div chunk) |->
        SubSeq(comp, (k - 1) * chunk + 1, Min({k * chunk, Len(comp)}))]

\* The units that unit u waits for: every chunk of each foreign component used.
UnitDeps(deps, units, sccOf, u) ==
    {d \in DOMAIN units : sccOf[d] # sccOf[u]
        /\ \E e \in DOMAIN units, b \in Range(units[u]) :
            sccOf[e] = sccOf[d] /\ deps[b] \cap Range(units[e]) # {}}

\* The heaviest path of units from u to one that nobody waits for.
Priorities(udeps, weight) ==
    LET n == Len(weight)
        From(prio, u) == Max({0} \cup {prio[r] : r \in {x \in 1..n : u \in udeps[x]}}) + weight[u]
    IN  FoldLeft(LAMBDA prio, u : [prio EXCEPT ![u] = From(prio, u)],
                 [u \in 1..n |-> 0], Reverse([u \in 1..n |-> u]))

planBodySchedule(deps, weight, chunk) ==
    LET comps == sccs(deps)
        perComp == [c \in DOMAIN comps |-> Chunks(comps[c], chunk)]
        units == FlattenSeq(perComp)
        sccOf == FlattenSeq([c \in DOMAIN comps |-> [k \in DOMAIN perComp[c] |-> c]])
        udeps == [u \in DOMAIN units |-> UnitDeps(deps, units, sccOf, u)]
        uweight == [u \in DOMAIN units |-> FoldLeft(LAMBDA w, b : w + weight[b] + 50, 0, units[u])]
    IN  [units |-> units, sccOf |-> sccOf, deps |-> udeps, priority |-> Priorities(udeps, uweight)]

-----------------------------------------------------------------------------
(* depClosure: what a worker must import before unit u, dependencies first.*)

RECURSIVE Visit(_, _, _, _)
Visit(udeps, v, have, acc) ==
    FoldLeft(LAMBDA a, d :
        IF d \in a.seen THEN a
        ELSE LET marked == [a EXCEPT !.seen = @ \cup {d}]
             IN  IF d \in have THEN marked
                 ELSE [Visit(udeps, d, have, marked) EXCEPT !.out = Append(@, d)],
        acc, Sorted(udeps[v]))

depClosure(udeps, u, have) == Visit(udeps, u, have, [seen |-> {u}, out |-> <<>>]).out

=============================================================================
