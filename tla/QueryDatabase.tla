----------------------------- MODULE QueryDatabase -----------------------------
(***************************************************************************)
(* The revisioned query database of compiler/src/incremental/database.go   *)
(* and database_transaction.go.                                            *)
(*                                                                         *)
(* One gate (a channel of capacity one) serialises every operation.  The   *)
(* writers (Apply, EvictQuery, RetireInputs, applyTransaction) do all      *)
(* their work under the gate without calling out, so each is one atomic    *)
(* action enabled when the gate is free.  An evaluation holds the gate     *)
(* over many steps: it is a stack machine whose frames are the recursive   *)
(* activations of Database.evaluate, with one action per step, so that a   *)
(* cancellation or an error can strike between any two of them.            *)
(*                                                                         *)
(* An evaluator is an arbitrary deterministic program: Step(q, log) is     *)
(* what the evaluator of q does next after the reads in log returned what  *)
(* log records.  Evaluators read all changing data through their Reader    *)
(* (database.go, comment on Database), which is what makes this complete.  *)
(***************************************************************************)
EXTENDS Integers, Sequences, FiniteSets

CONSTANTS
    InputKey,      \* keys under which inputs are stored
    QueryKey,      \* keys of queries
    Value,         \* present input values and query results
    Absent,        \* what a Reader sees of an input that is not present
    None,          \* "no entry" in a map
    Free,          \* the gate is not held
    Client,        \* goroutines that call Evaluate or EvaluateBatch
    Step(_, _),    \* the evaluators
    Size,          \* byte length of a value
    MaxBatch,      \* bound on the length of a batch
    InitialGrant,  \* what readers may do; everything, unless a session limits it
    MaxChanges,    \* bound on the length of a batch of changes
    MaxRevision    \* bound on the revision counter

Stored == Value \cup {Absent}

\* dependency: an input read or a query read (the Boolean field query).
Dep == [kind : {"input"}, key : InputKey] \cup [kind : {"query"}, key : QueryKey]
InputDep(k) == [kind |-> "input", key |-> k]
QueryDep(q) == [kind |-> "query", key |-> q]
IsQuery(dep) == dep.kind = "query"

\* One call of Reader.Input or Reader.Query, with what it returned.
ReadEvent == [dep : Dep, seen : Stored]

\* What an evaluator may do next.
Move == [op : {"read"}, dep : Dep] \cup [op : {"return"}, value : Value] \cup [op : {"fail"}]

\* The reservation under which a query is admitted (sessionQuery).
Reservation == [resultBytes : Nat, dependencies : Nat]

ASSUME KeyAssumption ==
    /\ Absent \notin Value
    /\ Free \notin Client
    /\ None \notin Reservation

ASSUME BoundAssumption == MaxBatch \in Nat /\ MaxChanges \in Nat /\ MaxRevision \in Nat

ASSUME SizeAssumption == Size \in [Value -> Nat]

\* inputAuthority, queryAuthority and the reservations of the admitted queries.
Grant == [inputs : SUBSET InputKey, queries : [QueryKey -> Reservation \cup {None}]]

ASSUME GrantAssumption == InitialGrant \in Grant

\* A cell of db.inputs.  The pair (value, present) of the code is one field:
\* value is "" whenever present is false, so the two carry the same information.
\* A key with changed = 0 has no entry in the map.
Cell == [value : Stored, changed : Nat]

\* A memo.  log is a history field: the reads of the execution that produced the
\* value, repeated reads included.  The code keeps only dependencies, and no
\* action of the model reads log.
Memo == [value : Value, dependencies : Seq(Dep), log : Seq(ReadEvent),
         verified : Nat, changed : Nat]

\* An activation of evaluate for a query: checking the dependencies of a known
\* memo, or running the evaluator.
Frame == [key : QueryKey, mode : {"check", "exec"}, pos : Nat \ {0},
          dependencies : Seq(Dep), log : Seq(ReadEvent)]

VARIABLES
    db,       \* the database: revision, inputs, results
    stack,    \* the activations of evaluate in progress, innermost last
    gate,     \* the holder of the gate, or Free
    todo,     \* the keys of the batch still to be evaluated
    answers,  \* the results of the batch so far
    grant     \* the admission the readers are bound by

vars == <<db, stack, gate, todo, answers, grant>>

-----------------------------------------------------------------------------
(* Writers, as functions of the database.                                  *)

New == [revision |-> 1,
        inputs   |-> [k \in InputKey |-> [value |-> Absent, changed |-> 0]],
        results  |-> [q \in QueryKey |-> None]]

NoChanges == [k \in {} |-> Absent]

Differs(d, pending) == {k \in DOMAIN pending : d.inputs[k].value # pending[k]}

\* Mutant: retiring an input that is absent already does not move its stamp.
WrittenUnlessAbsent(d, pending, retired, r) ==
    [k \in InputKey |->
        IF k \in retired /\ d.inputs[k].value # Absent THEN [value |-> Absent, changed |-> r]
        ELSE IF k \in Differs(d, pending) THEN [value |-> pending[k], changed |-> r]
        ELSE d.inputs[k]]

\* The inputs after writing pending and then retiring the keys in retired, all
\* stamped with revision r.
Written(d, pending, retired, r) ==
    [k \in InputKey |->
        IF k \in retired THEN [value |-> Absent, changed |-> r]
        ELSE IF k \in Differs(d, pending) THEN [value |-> pending[k], changed |-> r]
        ELSE d.inputs[k]]

\* Mutant: the written cells carry the revision before the batch.
applyPendingOldStamp(d, pending) ==
    IF Differs(d, pending) = {} THEN d
    ELSE [revision |-> d.revision + 1,
          inputs   |-> Written(d, pending, {}, d.revision),
          results  |-> d.results]

applyPending(d, pending) ==
    IF Differs(d, pending) = {} THEN d
    ELSE [revision |-> d.revision + 1,
          inputs   |-> Written(d, pending, {}, d.revision + 1),
          results  |-> d.results]

\* The map that Apply builds from its arguments: later entries for one key win.
LastWrites(pending, changes) ==
    \A k \in DOMAIN pending : \E i \in DOMAIN changes :
        /\ changes[i] = [key |-> k, value |-> pending[k]]
        /\ \A j \in DOMAIN changes : j > i => changes[j].key # k

\* Mutant: the memo goes, the revision stays.
EvictQueryKeepsRevision(d, q) == [d EXCEPT !.results[q] = None]

EvictQuery(d, q) ==
    IF d.results[q] = None THEN d
    ELSE [revision |-> d.revision + 1,
          inputs   |-> d.inputs,
          results  |-> [d.results EXCEPT ![q] = None]]

\* Mutant: the entry is deleted and leaves no tombstone, so that its stamp is zero again.
RetireInputsDeletes(d, keys) ==
    [d EXCEPT !.revision = IF keys = {} THEN @ ELSE @ + 1,
              !.inputs = [k \in InputKey |->
                  IF k \in keys THEN [value |-> Absent, changed |-> 0] ELSE d.inputs[k]]]

RetireInputs(d, keys) ==
    IF keys = {} THEN d
    ELSE [revision |-> d.revision + 1,
          inputs   |-> Written(d, NoChanges, keys, d.revision + 1),
          results  |-> d.results]

applyTransaction(d, pending, retired, evicted) ==
    IF /\ retired = {}
       /\ \A q \in evicted : d.results[q] = None
       /\ Differs(d, pending) = {}
    THEN d
    ELSE [revision |-> d.revision + 1,
          inputs   |-> Written(d, pending, retired, d.revision + 1),
          results  |-> [q \in QueryKey |-> IF q \in evicted THEN None ELSE d.results[q]]]

-----------------------------------------------------------------------------
(* Evaluation.                                                             *)

Hit(q) == db.results[q] # None /\ db.results[q].verified = db.revision

Admitted(q) == grant.queries[q] # None

\* What a Reader sees of a dependency; of a query, once it has been evaluated.
Seen(dep) == IF IsQuery(dep) THEN db.results[dep.key].value ELSE db.inputs[dep.key].value

\* The stamp that validation compares.
ChangedAt(dep) == IF IsQuery(dep) THEN db.results[dep.key].changed ELSE db.inputs[dep.key].changed

NewFrame(q, mode) == [key |-> q, mode |-> mode, pos |-> 1, dependencies |-> <<>>, log |-> <<>>]

Top == stack[Len(stack)]
SetTop(frame) == stack' = [stack EXCEPT ![Len(stack)] = frame]
Pop == stack' = SubSeq(stack, 1, Len(stack) - 1)

\* The map active of the code.
Active(q) == \E i \in DOMAIN stack : stack[i].key = q

\* Reader.hasDependency and Reader.remember: a list without repetitions.
hasDependency(deps, dep) == \E i \in DOMAIN deps : deps[i] = dep

\* Mutant: the dependency list loses the order of the reads.
rememberReversed(deps, dep) == IF hasDependency(deps, dep) THEN deps ELSE <<dep>> \o deps

remember(deps, dep) == IF hasDependency(deps, dep) THEN deps ELSE Append(deps, dep)

OverBudget(q, deps, dep) ==
    ~hasDependency(deps, dep) /\ Len(deps) >= grant.queries[q].dependencies

\* evaluate(q) past the memo hit: mark q active and check or execute it.
Enter(q) ==
    /\ ~Hit(q)
    /\ ~Active(q)
    /\ stack' = Append(stack, NewFrame(q, IF db.results[q] = None THEN "exec" ELSE "check"))
    /\ UNCHANGED <<db, gate, todo, answers, grant>>

\* An error.  evaluate hands a dependency's error up, and Reader.failure stops an
\* evaluator from suppressing it, so every activation up to the root fails.
Fail(kind) ==
    /\ stack' = <<>>
    /\ answers' = Append(answers, [ok |-> FALSE, kind |-> kind])
    /\ todo' = Tail(todo)
    /\ UNCHANGED <<db, gate, grant>>

\* ctx is cancelled: the current root and all later ones of the batch fail.
FailAll ==
    /\ stack' = <<>>
    /\ answers' = answers \o [i \in 1..Len(todo) |-> [ok |-> FALSE, kind |-> "cancelled"]]
    /\ todo' = <<>>
    /\ UNCHANGED <<db, gate, grant>>

Acquire(c, keys) ==
    /\ gate = Free
    /\ gate' = c
    /\ todo' = keys
    /\ answers' = <<>>
    /\ UNCHANGED <<db, stack, grant>>

\* Mutant: the gate is given back only when every key was answered.
ReleaseOnSuccess ==
    /\ gate # Free
    /\ stack = <<>>
    /\ todo = <<>>
    /\ IF \A i \in DOMAIN answers : answers[i].ok THEN gate' = Free /\ answers' = <<>>
       ELSE UNCHANGED <<gate, answers>>
    /\ UNCHANGED <<db, stack, todo, grant>>

Release ==
    /\ gate # Free
    /\ stack = <<>>
    /\ todo = <<>>
    /\ gate' = Free
    /\ answers' = <<>>
    /\ UNCHANGED <<db, stack, todo, grant>>

AtRoot == gate # Free /\ stack = <<>> /\ todo # <<>>
Checking == stack # <<>> /\ Top.mode = "check"
Executing == stack # <<>> /\ Top.mode = "exec"

\* The root call of evaluate, or its return.
EnterRoot == AtRoot /\ Enter(Head(todo))
AnswerRoot ==
    /\ AtRoot
    /\ Hit(Head(todo))
    /\ answers' = Append(answers, [ok |-> TRUE, value |-> db.results[Head(todo)].value])
    /\ todo' = Tail(todo)
    /\ UNCHANGED <<db, stack, gate, grant>>

\* Validation of a known memo, dependency by dependency.
TopMemo == db.results[Top.key]
CheckedDep == TopMemo.dependencies[Top.pos]
MoreToCheck == Top.pos <= Len(TopMemo.dependencies)

\* The dependency has been evaluated (if it is a query); compare its stamp.
CheckDep ==
    /\ Checking /\ MoreToCheck
    /\ IsQuery(CheckedDep) => Hit(CheckedDep.key)
    /\ SetTop(IF ChangedAt(CheckedDep) > TopMemo.verified
              THEN NewFrame(Top.key, "exec")
              ELSE [Top EXCEPT !.pos = Top.pos + 1])
    /\ UNCHANGED <<db, gate, todo, answers, grant>>

CheckEnter == Checking /\ MoreToCheck /\ IsQuery(CheckedDep) /\ Enter(CheckedDep.key)

CheckDone ==
    /\ Checking /\ ~MoreToCheck
    /\ db' = [db EXCEPT !.results[Top.key].verified = db.revision]
    /\ Pop
    /\ UNCHANGED <<gate, todo, answers, grant>>

\* Execution: the evaluator's next move, bound by the session's admission.
NextMove == Step(Top.key, Top.log)
IsRead == NextMove \in [op : {"read"}, dep : Dep]
IsReturn == NextMove \in [op : {"return"}, value : Value]

\* Why the Reader or the session's wrapper turns the move into an error, or "no".
Refusal ==
    CASE ~Admitted(Top.key) -> "unpublished query"
      [] NextMove.op = "fail" -> "evaluator"
      [] NextMove.op = "return" ->
           IF Size[NextMove.value] > grant.queries[Top.key].resultBytes
           THEN "result budget" ELSE "no"
      [] ~IsQuery(NextMove.dep) /\ NextMove.dep.key \notin grant.inputs -> "unpublished input"
      [] IsQuery(NextMove.dep) /\ ~Admitted(NextMove.dep.key) -> "unpublished query"
      [] OverBudget(Top.key, Top.dependencies, NextMove.dep) -> "dependency budget"
      [] IsQuery(NextMove.dep) /\ Active(NextMove.dep.key) -> "cycle"
      [] OTHER -> "no"

ExecEnter ==
    /\ Executing /\ IsRead /\ Refusal = "no"
    /\ IsQuery(NextMove.dep)
    /\ Enter(NextMove.dep.key)

ExecRead ==
    /\ Executing /\ IsRead /\ Refusal = "no"
    /\ IsQuery(NextMove.dep) => Hit(NextMove.dep.key)
    /\ SetTop([Top EXCEPT
           !.dependencies = remember(Top.dependencies, NextMove.dep),
           !.log = Append(Top.log, [dep |-> NextMove.dep, seen |-> Seen(NextMove.dep)])])
    /\ UNCHANGED <<db, gate, todo, answers, grant>>

\* The result replaces the memo; an equal value keeps its changed stamp.
ExecReturn ==
    /\ Executing /\ IsReturn /\ Refusal = "no"
    /\ LET same == TopMemo # None /\ TopMemo.value = NextMove.value
       IN  db' = [db EXCEPT !.results[Top.key] =
               [value |-> NextMove.value, dependencies |-> Top.dependencies,
                log |-> Top.log, verified |-> db.revision,
                changed |-> IF same THEN TopMemo.changed ELSE db.revision]]
    /\ Pop
    /\ UNCHANGED <<gate, todo, answers, grant>>

ExecFail == Executing /\ Refusal # "no" /\ Fail(Refusal)

\* evaluate(dep) on a query already active.
CheckCycle ==
    /\ Checking /\ MoreToCheck
    /\ IsQuery(CheckedDep) /\ Active(CheckedDep.key)
    /\ Fail("cycle")

\* ctx.Err() is looked at on entry to evaluate and after an evaluator returned.
Cancel ==
    /\ \/ AtRoot
       \/ Checking /\ MoreToCheck /\ IsQuery(CheckedDep)
       \/ Executing /\ IsRead /\ Refusal \in {"no", "cycle"} /\ IsQuery(NextMove.dep)
       \/ Executing /\ IsReturn /\ Refusal = "no"
    /\ FailAll

Evaluating ==
    \/ EnterRoot \/ AnswerRoot
    \/ CheckDep \/ CheckEnter \/ CheckDone \/ CheckCycle
    \/ ExecEnter \/ ExecRead \/ ExecReturn \/ ExecFail
    \/ Release

-----------------------------------------------------------------------------
(* The database used by one component at a time through its gate.          *)

Init ==
    /\ db = New
    /\ stack = <<>>
    /\ gate = Free
    /\ todo = <<>>
    /\ answers = <<>>
    /\ grant = InitialGrant

Change == [key : InputKey, value : Stored]

\* The writers take the gate, commit and release it.
Write(d) ==
    /\ gate = Free
    /\ db.revision < MaxRevision
    /\ db' = d
    /\ UNCHANGED <<stack, gate, todo, answers, grant>>

Apply(changes) ==
    \E pending \in [{changes[i].key : i \in DOMAIN changes} -> Stored] :
        LastWrites(pending, changes) /\ Write(applyPending(db, pending))

Evict(q) == Write(EvictQuery(db, q))
Retire(keys) == Write(RetireInputs(db, keys))

\* The caller has made retired disjoint from the changed keys.
Transact(pending, retired, evicted) ==
    /\ DOMAIN pending \cap retired = {}
    /\ Write(applyTransaction(db, pending, retired, evicted))

Batches(S, n) == UNION {[1..i -> S] : i \in 1..n}

Writing ==
    \/ \E changes \in Batches(Change, MaxChanges) : Apply(changes)
    \/ \E q \in QueryKey : Evict(q)
    \/ \E keys \in SUBSET InputKey : Retire(keys)
    \/ \E keys, retired \in SUBSET InputKey, evicted \in SUBSET QueryKey :
          \E pending \in [keys -> Stored] : Transact(pending, retired, evicted)

Requesting == \E c \in Client, keys \in Batches(QueryKey, MaxBatch) : Acquire(c, keys)

Next == Writing \/ Requesting \/ Evaluating \/ Cancel

Spec == Init /\ [][Next]_vars

\* A goroutine that holds the gate keeps running: nothing inside an evaluation
\* waits for another goroutine, and evaluators terminate.
FairSpec == Spec /\ WF_vars(Evaluating)

-----------------------------------------------------------------------------
(* Properties.                                                             *)

Database == [revision : Nat, inputs : [InputKey -> Cell],
             results : [QueryKey -> Memo \cup {None}]]

ErrorKind == {"cancelled", "cycle", "evaluator", "unpublished query", "unpublished input",
              "dependency budget", "result budget", "stale revision"}

Answer == [ok : {TRUE}, value : Value] \cup [ok : {FALSE}, kind : ErrorKind]

\* Every variable has the type of the code's field or local variable it models.
TypeOK ==
    /\ db \in Database
    /\ stack \in Seq(Frame)
    /\ gate \in Client \cup {Free}
    /\ todo \in Seq(QueryKey)
    /\ answers \in Seq(Answer)
    /\ grant \in Grant

\* What a read returned is what it would return now.
Current(e) ==
    IF IsQuery(e.dep)
    THEN Hit(e.dep.key) /\ db.results[e.dep.key].value = e.seen
    ELSE db.inputs[e.dep.key].value = e.seen

\* log is a run of the evaluator of q so far.
Run(q, log) ==
    \A i \in DOMAIN log : Step(q, SubSeq(log, 1, i - 1)) = [op |-> "read", dep |-> log[i].dep]

\* A memo verified in the current revision is the outcome of running its evaluator
\* on today's inputs and on memos that are themselves verified in this revision:
\* neither validation by stamps nor early cutoff ever serves a stale value
\* (database.go, evaluate).
VerifiedMemosCurrent ==
    \A q \in QueryKey : Hit(q) =>
        LET memo == db.results[q]
        IN  /\ Run(q, memo.log)
            /\ Step(q, memo.log) = [op |-> "return", value |-> memo.value]
            /\ \A i \in DOMAIN memo.log : Current(memo.log[i])

-----------------------------------------------------------------------------
(* The inductive invariant behind VerifiedMemosCurrent.                    *)

Memoized == {q \in QueryKey : db.results[q] # None}

StampsOrdered ==
    /\ \A k \in InputKey : db.inputs[k].changed <= db.revision
    /\ \A q \in Memoized : /\ db.results[q].changed <= db.results[q].verified
                           /\ db.results[q].verified <= db.revision

\* Every read of a run is among the dependencies that validation will check.
Covered(log, deps) == \A i \in DOMAIN log : hasDependency(deps, log[i].dep)

MemosExplained ==
    \A q \in Memoized :
        /\ Run(q, db.results[q].log)
        /\ Step(q, db.results[q].log) = [op |-> "return", value |-> db.results[q].value]
        /\ Covered(db.results[q].log, db.results[q].dependencies)

\* A dependency not stamped since stamp still has the value that was read.
Unchanged(e, stamp) ==
    /\ IsQuery(e.dep) => db.results[e.dep.key] # None
    /\ ChangedAt(e.dep) <= stamp

StampsTellChange ==
    \A q \in Memoized : \A i \in DOMAIN db.results[q].log :
        LET e == db.results[q].log[i]
        IN  Unchanged(e, db.results[q].verified) => Seen(e.dep) = e.seen

\* A verified memo rests on verified memos.
HitsRestOnHits ==
    \A q \in QueryKey : Hit(q) =>
        \A i \in DOMAIN db.results[q].log :
            LET dep == db.results[q].log[i].dep IN IsQuery(dep) => Hit(dep.key)

FrameOK(f) ==
    /\ ~Hit(f.key)
    /\ f.mode = "exec" =>
         /\ Run(f.key, f.log)
         /\ Covered(f.log, f.dependencies)
         /\ \A i \in DOMAIN f.log : Current(f.log[i])
    /\ f.mode = "check" =>
         /\ f.key \in Memoized
         /\ \A i \in DOMAIN db.results[f.key].dependencies : i < f.pos =>
              LET dep == db.results[f.key].dependencies[i]
              IN  /\ IsQuery(dep) => Hit(dep.key)
                  /\ ChangedAt(dep) <= db.results[f.key].verified

StackOK ==
    /\ stack # <<>> => gate # Free /\ todo # <<>>
    /\ \A i, j \in DOMAIN stack : stack[i].key = stack[j].key => i = j
    /\ \A i \in DOMAIN stack : FrameOK(stack[i])

\* What every step of the database preserves: stamps tell change, verified memos
\* rest on verified memos, and an activation of evaluate has read or checked only
\* what still stands (database.go, evaluate).
DatabaseInv ==
    TypeOK /\ StampsOrdered /\ MemosExplained /\ StampsTellChange /\ HitsRestOnHits /\ StackOK

\* An evaluation always comes to an end and gives the gate back (Evaluate,
\* EvaluateBatch: the deferred receive from the gate).
GateReleased == gate # Free ~> gate = Free
=============================================================================
