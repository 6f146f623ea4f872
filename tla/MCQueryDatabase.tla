---------------------------- MODULE MCQueryDatabase ----------------------------
(***************************************************************************)
(* QueryDatabase for TLC, with a reference evaluation from scratch.        *)
(***************************************************************************)
EXTENDS QueryDatabase

CONSTANTS x, y, A, B, C,
          LastBatch    \* bound: the last revision in which several keys are asked for at once

MCInputKey == {x, y}
MCQueryKey == {A, B, C}
MCValue == {0, 1}
MCSize == [v \in MCValue |-> v]

Read(dep) == [op |-> "read", dep |-> dep]
Give(v) == [op |-> "return", value |-> v]
Halt == [op |-> "fail"]

\* Three evaluators whose dependencies depend on the data.  A asks B only while x
\* is 0; B asks A back when y is absent, so a cycle appears and disappears with
\* the inputs; C forgets most of what it reads, so its value is often unchanged
\* when its inputs are not; B reads y a second time.
MCStep(q, log) ==
    LET n == Len(log)
        s(i) == log[i].seen
    IN  CASE q = A /\ n = 0 -> Read(InputDep(x))
          [] q = A /\ n = 1 -> IF s(1) = 0 THEN Read(QueryDep(B))
                               ELSE IF s(1) = 1 THEN Read(QueryDep(C)) ELSE Give(0)
          [] q = A /\ n = 2 -> Give(s(2))
          [] q = B /\ n = 0 -> Read(InputDep(y))
          [] q = B /\ n = 1 -> IF s(1) = Absent THEN Read(QueryDep(A)) ELSE Read(QueryDep(C))
          [] q = B /\ n = 2 -> Read(InputDep(y))
          [] q = B /\ n = 3 -> IF s(3) = Absent THEN Halt ELSE Give((s(3) + s(2)) % 2)
          [] q = C /\ n = 0 -> Read(InputDep(y))
          [] q = C /\ n = 1 -> IF s(1) = 1 THEN Read(InputDep(x)) ELSE Give(0)
          [] q = C /\ n = 2 -> IF s(2) = 1 THEN Give(1) ELSE Give(0)

MCGrant == [inputs |-> MCInputKey,
            queries |-> [q \in MCQueryKey |-> [resultBytes |-> 1, dependencies |-> 4]]]

-----------------------------------------------------------------------------
(* Evaluation from scratch: no memos, no stamps.                           *)

RECURSIVE Fresh(_, _, _)
Fresh(q, log, callers) ==
    LET move == Step(q, log)
        On(seen) == Fresh(q, Append(log, [dep |-> move.dep, seen |-> seen]), callers)
    IN  CASE move.op = "fail" -> [ok |-> FALSE, kind |-> "evaluator"]
          [] move.op = "return" -> [ok |-> TRUE, value |-> move.value]
          [] ~IsQuery(move.dep) -> On(db.inputs[move.dep.key].value)
          [] move.dep.key \in callers \cup {q} -> [ok |-> FALSE, kind |-> "cycle"]
          [] OTHER -> LET r == Fresh(move.dep.key, <<>>, callers \cup {q})
                      IN  IF r.ok THEN On(r.value) ELSE r

\* The queries that an evaluation from scratch of q executes.
RECURSIVE Executes(_, _, _)
Executes(q, log, callers) ==
    LET move == Step(q, log)
        On(seen) == Executes(q, Append(log, [dep |-> move.dep, seen |-> seen]), callers)
    IN  CASE move.op # "read" -> {q}
          [] ~IsQuery(move.dep) -> On(db.inputs[move.dep.key].value)
          [] move.dep.key \in callers \cup {q} -> {q}
          [] OTHER -> LET r == Fresh(move.dep.key, <<>>, callers \cup {q})
                      IN  Executes(move.dep.key, <<>>, callers \cup {q})
                            \cup (IF r.ok THEN On(r.value) ELSE {q})

VARIABLE asked   \* history: the keys of the batch in progress

MCInit == Init /\ asked = <<>>
MCNext ==
    /\ Next
    /\ asked' = IF gate = Free THEN todo' ELSE IF gate' = Free THEN <<>> ELSE asked
    /\ Len(asked') > 1 => db.revision <= LastBatch
MCSpec == MCInit /\ [][MCNext]_<<vars, asked>>
MCFairSpec == MCSpec /\ WF_vars(Evaluating)

\* Every answer of a batch, value or error, is the one that evaluating its key from
\* scratch on the same inputs gives, unless the caller cancelled, and the answers
\* stay aligned with the keys whichever of them fail (EvaluateBatch: "one query
\* error does not prevent independent later queries from running").
AnswersFresh ==
    /\ Len(answers) + Len(todo) = Len(asked)
    /\ \A i \in DOMAIN answers :
          answers[i] # [ok |-> FALSE, kind |-> "cancelled"] =>
              answers[i] = Fresh(asked[i], <<>>, {})

\* Validation never executes a query that an evaluation from scratch of the same
\* root would not: dependencies are checked in the order they were read and the
\* check stops at the first that changed (evaluate: "break").
NoPhantomExecution ==
    \A i \in DOMAIN stack :
        stack[i].mode = "exec" => stack[i].key \in Executes(Head(todo), <<>>, {})
=============================================================================
