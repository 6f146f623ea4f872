---------------------------- MODULE MCBodySchedule ----------------------------
(***************************************************************************)
(* BodySchedule for TLC, on the plans that BodyPlan makes of call graphs.  *)
(***************************************************************************)
EXTENDS BodySchedule, BodyPlan

\* All call graphs of three bodies.
SmallGraphs == [1..3 -> SUBSET (1..3)]

\* A caller of two diamonds; a cycle of three with a callee, a caller and a
\* caller's caller; two cycles of two, one above the other; a long chain beside
\* independent bodies.
LargeGraphs ==
    { <<{2, 3}, {4}, {4}, {5}, {}>>,
      <<{2}, {3}, {4, 5}, {2}, {}, {1}>>,
      <<{2, 3}, {1}, {4}, {3}, {2}>>,
      <<{2}, {3}, {4}, {}, {}, {5}>> }

MCPlan ==
    { planBodySchedule(g, [b \in DOMAIN g |-> b], chunk) :
        g \in {h \in SmallGraphs : \A b \in 1..3 : b \notin h[b]} \cup LargeGraphs, chunk \in {1, 2} }

=============================================================================
