------------------------------- MODULE MCSession -------------------------------
(***************************************************************************)
(* Session for TLC, with a reference evaluation from scratch of the world  *)
(* that a handle stands for.                                               *)
(***************************************************************************)
EXTENDS Session

CONSTANTS x, y, A, B

MCInputKey == {x, y}
MCQueryKey == {A, B}
MCValue == {0, 1}
MCSize == [v \in MCValue |-> v + 1]
MCKeyBytes == [k \in MCInputKey \cup MCQueryKey |-> 1]
MCNothing == [inputs |-> {}, queries |-> [q \in MCQueryKey |-> None]]

Read(dep) == [op |-> "read", dep |-> dep]
Give(v) == [op |-> "return", value |-> v]

\* A follows x to B, to y or to nothing; B asks A when y is absent.
MCStep(q, log) ==
    LET n == Len(log)
        s(i) == log[i].seen
    IN  CASE q = A /\ n = 0 -> Read(InputDep(x))
          [] q = A /\ n = 1 -> IF s(1) = 0 THEN Read(QueryDep(B))
                               ELSE IF s(1) = 1 THEN Read(InputDep(y)) ELSE Give(0)
          [] q = A /\ n = 2 -> IF s(2) = 1 THEN Give(1) ELSE Give(0)
          [] q = B /\ n = 0 -> Read(InputDep(y))
          [] q = B /\ n = 1 -> IF s(1) = Absent THEN Read(QueryDep(A)) ELSE Give(s(1))
          [] q = B /\ n = 2 -> Give(s(2))

Pub(q, map, bytes, deps) ==
    [key |-> q, inputs |-> AsChanges(map), resultBytes |-> bytes, dependencies |-> deps]
Owns(k, v) == [i \in {k} |-> v]
OwnsBoth(v, w) == [i \in {x, y} |-> IF i = x THEN v ELSE w]

\* Publications of A: following B, following y (owning y too, or not, so that B may
\* take it away), with a small result reservation, with a small dependency reservation.
OfA == {Pub(A, Owns(x, 0), 2, 2), Pub(A, OwnsBoth(1, 1), 2, 2), Pub(A, Owns(x, 1), 2, 2),
        Pub(A, Owns(x, 0), 1, 2), Pub(A, Owns(x, 1), 2, 1)}
OfB == {Pub(B, Owns(y, v), 2, 1) : v \in {0, 1}}
         \cup {Pub(B, Owns(y, v), 2, 2) : v \in {0, Absent}}

MCBatch == {<<>>} \cup {<<p>> : p \in OfA \cup OfB} \cup {<<p, p>> : p \in OfB}
              \cup {<<a, b>> : a \in OfA, b \in OfB} \cup {<<b, a>> : a \in OfA, b \in OfB}
MCDelta == {[reset |-> r, upsert |-> u, remove |-> d] :
               r \in BOOLEAN, u \in {{}} \cup {{p} : p \in OfA \cup OfB} \cup {{a, b} : a \in OfA, b \in OfB},
               d \in {{}, {A}, {B}}}

\* A session that has room for one input only compacts after two retirements.
TightA == {Pub(A, Owns(x, v), 2, 2) : v \in {0, Absent}}
TightB == {Pub(B, Owns(y, 0), 2, 1), Pub(B, Owns(x, Absent), 1, 1)}
TightBatch == {<<>>} \cup {<<p>> : p \in TightA \cup TightB} \cup {<<a, b>> : a \in TightA, b \in TightB}
TightDelta == {[reset |-> FALSE, upsert |-> u, remove |-> d] :
                  u \in {{}} \cup {{p} : p \in TightA \cup TightB}, d \in {{}, {A}, {B}}}
TightLimits == [queries |-> 2, inputs |-> 1, edges |-> 2, dependencies |-> 4, bytes |-> 1300]

MCLimits == [queries |-> 2, inputs |-> 2, edges |-> 2, dependencies |-> 4, bytes |-> 1300]

-----------------------------------------------------------------------------
(* What a world means: evaluation from scratch, admission included.        *)

Reserved(q) == CHOOSE p \in world : p.key = q

RECURSIVE Fresh(_, _, _, _)
Fresh(q, log, deps, callers) ==
    LET move == Step(q, log)
        On(seen) == Fresh(q, Append(log, [dep |-> move.dep, seen |-> seen]),
                          deps \cup {move.dep}, callers)
        Error(kind) == [ok |-> FALSE, kind |-> kind]
    IN  CASE move.op = "return" ->
               IF Size[move.value] > Reserved(q).resultBytes THEN Error("result budget")
               ELSE [ok |-> TRUE, value |-> move.value]
          [] ~IsQuery(move.dep) /\ (\A c \in InputsOf(world) : c.key # move.dep.key) ->
               Error("unpublished input")
          [] IsQuery(move.dep) /\ (\A p \in world : p.key # move.dep.key) ->
               Error("unpublished query")
          [] Cardinality(deps \cup {move.dep}) > Reserved(q).dependencies ->
               Error("dependency budget")
          [] ~IsQuery(move.dep) ->
               On((CHOOSE c \in InputsOf(world) : c.key = move.dep.key).value)
          [] move.dep.key \in callers \cup {q} -> Error("cycle")
          [] OTHER -> LET r == Fresh(move.dep.key, <<>>, {}, callers \cup {q})
                      IN  IF r.ok THEN On(r.value) ELSE r

\* Whatever was published, evaluated, rejected or compacted before, a handle is
\* answered from the world of its own publication, exactly as evaluating from
\* scratch would, errors included; a handle other than the last publication's, or
\* any handle after a publication failed, is refused (Revision.Evaluate;
\* PublishPrepared: "Preparation failures therefore cannot leave an old handle
\* usable for a new environment").
AnswersOfWorld ==
    \A i \in DOMAIN answers :
        answers[i] # [ok |-> FALSE, kind |-> "cancelled"] =>
            answers[i] =
                IF served.handle # latest THEN [ok |-> FALSE, kind |-> "stale revision"]
                ELSE IF \A p \in world : p.key # served.key
                     THEN [ok |-> FALSE, kind |-> "unpublished query"]
                ELSE Fresh(served.key, <<>>, {}, {})
=============================================================================
