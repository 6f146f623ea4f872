------------------------ MODULE RetainedPermissions ------------------------
(***************************************************************************)
(* Permission rows across the updates of a retained analysis:              *)
(* semantic/retained_permissions.go and retained_permissions_reindex.go,   *)
(* with the body pass that precedes the solve (analyzer_functions.go), the *)
(* callers it analyzes again (retained_summary_invalidation.go) and the    *)
(* validation that follows (permissions_validation.go).                    *)
(*                                                                         *)
(* Analyzing a body gives its function a first row: its own permissions    *)
(* and those its callees have by then.  These initial rows are kept; the   *)
(* solve then makes the rows satisfy all equations.  An update analyzes    *)
(* the edited bodies against the initial rows of the others, and callers   *)
(* of a changed inferred summary against declared rows.  It solves from    *)
(* all of these, its roots, outward.  When a row has lost something, all   *)
(* that depend on the roots restart from their initial rows.               *)
(*                                                                         *)
(* One permission suffices, because rows are unions; rows are given by the *)
(* set of functions whose row holds it.  No function declares it.          *)
(*                                                                         *)
(* Left out: an update that is abandoned because the summaries of a cycle  *)
(* do not converge (the analysis is then dropped), and declarations that   *)
(* share a type or move to another scope, except that Structural allows    *)
(* any update to be solved in full as these are.                           *)
(***************************************************************************)
EXTENDS Integers, Sequences, SequencesExt, FiniteSetsExt

CONSTANTS N,            \* functions are among 1 .. N, in declaration order
          Programs,     \* the own permission and the calls of every declared function
          Structural,   \* whether an update may change more than functions
          MaxEdited,    \* bound: functions edited, added or removed by one update
          MaxUpdates    \* bound

ASSUME BoundAssumption == N \in Nat \ {0} /\ MaxUpdates \in Nat /\ MaxEdited \in 1 .. N
                          /\ Structural \in BOOLEAN

Funcs == 1 .. N

VARIABLES body,       \* the program
          rows,       \* the live rows
          initial,    \* the rows the bodies were left with, where a restart begins
          solved,     \* the rows as the last evaluation of each left them
          unsolved,   \* the functions that no evaluation has given a row yet
          readers,    \* pairs of a row and a function whose equation has read it
          converged,  \* whether the last solve reports that it has found a solution
          unsure,     \* history: since the last full solve, or in it, something may have
                      \* been left unsolved: it ran out of rounds or a row was read early
          validated,  \* the rows each function's diagnostics were made from
          edited, again, fresh, \* of the running update: the edited functions, the callers
                                \* analyzed again, the new functions
          changed, before, shrank,
          early,      \* history: an evaluation has read what body analysis left of a root
          work, evals, stage, updates

update == <<edited, again, fresh, changed, before, shrank, early, work, evals, stage>>
vars == <<body, rows, initial, solved, unsolved, readers, converged, unsure, validated, update, updates>>

Equation(prog, rs, f) == prog[f].own \/ prog[f].calls \cap rs # {}

Evaluated(prog, rs, f) == IF Equation(prog, rs, f) THEN rs \cup {f} ELSE rs \ {f}

\* The rows of fs, and the others' rows.
Merge(fs, rs, others) == (rs \cap fs) \cup (others \ fs)

InOrder(fs) == SelectSeq([f \in Funcs |-> f], LAMBDA f : f \in fs)

\* Bodies are analyzed in declaration order, each against the rows as they are by then.
AnalyzeBodies(prog, fs, rs) ==
  FoldLeft(LAMBDA acc, f : Evaluated(prog, acc, f), rs, InOrder(fs))

DeclaredRows == {}

Solves(prog, rs) == \A f \in DOMAIN prog : f \in rs <=> Equation(prog, rs, f)

\* Up to k evaluations of everything, until nothing changes.
RECURSIVE Sweeps(_, _, _)
Sweeps(prog, rs, k) ==
  IF k = 0 \/ Solves(prog, rs) THEN rs
  ELSE Sweeps(prog, AnalyzeBodies(prog, DOMAIN prog, rs), k - 1)

\* What the worklist makes of the rows it starts from.  A round evaluates whoever has read
\* a changed row; evaluating the others too would change nothing.
Worklist(prog, rs) == Sweeps(prog, rs, Cardinality(DOMAIN prog) + 4)

\* When the rounds run out, the pass that records the reads evaluates everything once more.
FullSolve(prog, rs) ==
  LET end == Worklist(prog, rs) IN IF Solves(prog, end) THEN end ELSE Sweeps(prog, end, 1)

AllReads(prog) == UNION {prog[f].calls \X {f} : f \in DOMAIN prog}

\* What the validation of a function looks at.
Seen(prog, rs, f) == (prog[f].calls \cup {f}) \cap rs

\* The functions of fs and all that read their rows, directly or not.
RECURSIVE Closure(_, _)
Closure(reads, fs) ==
  LET more == {p[2] : p \in {q \in reads : q[1] \in fs}} \ fs
  IN IF more = {} THEN fs ELSE Closure(reads, fs \cup more)

Init ==
  /\ body \in Programs
  /\ initial = AnalyzeBodies(body, DOMAIN body, DeclaredRows)
  /\ rows = FullSolve(body, initial) /\ solved = rows /\ unsolved = {}
  /\ readers = AllReads(body)
  /\ converged = Solves(body, Worklist(body, initial)) /\ unsure = ~converged
  /\ validated = [f \in DOMAIN body |-> Seen(body, rows, f)]
  /\ edited = {} /\ again = {} /\ fresh = {} /\ changed = {} /\ before = {}
  /\ shrank = FALSE /\ early = FALSE /\ work = <<>> /\ evals = 0 /\ stage = "ready"
  /\ updates = 0

-----------------------------------------------------------------------------
(* The bodies that an update analyzes.                                     *)

Cycle(prog, f) ==
  {g \in Closure(AllReads(prog), {f}) : f \in Closure(AllReads(prog), {g})}

\* The sets of callers that may be analyzed again after fs.  A function is when the summary
\* of a callee has changed, a cycle as a whole, and one that has been edited in any case.
\* Which summaries change is left open: they say nothing about permissions.
SummaryCallers(prog, fs) ==
  {ss \in SUBSET Closure(AllReads(prog), fs) :
     \A f \in ss : LET cycle == Cycle(prog, f) IN
       /\ cycle \subseteq ss
       /\ \/ cycle \cap fs # {} /\ (cycle # {f} \/ f \in prog[f].calls)
          \/ \E g \in cycle : prog[g].calls \cap ((fs \cup ss) \ cycle) # {}}

\* Such a caller sees the rows of earlier bodies that have run in this update, and declared
\* rows otherwise.  Callees come first, and in a cycle the earlier declaration, so that
\* declaration order gives the same rows, as do further rounds of a cycle.
AnalyzeCallers(prog, fs, ss, rs) ==
  FoldLeft(LAMBDA acc, f :
             LET ran == {g \in fs \cup ss : g < f}
             IN Merge({f}, Evaluated(prog, Merge(ran, acc, DeclaredRows), f), acc),
           rs, InOrder(ss))

\* The edited bodies run with their own rows as declared and the others' initial rows, and
\* then the callers.  Whoever is reset has its declared row and does not run.
withInitialRows(prog, fs, reset, ss) ==
  AnalyzeCallers(prog, fs, ss, AnalyzeBodies(prog, fs, Merge(fs \cup reset, DeclaredRows, initial)))

-----------------------------------------------------------------------------
(* The beginning of an update: fs are the bodies edited or added.          *)

Live == DOMAIN body
Gone == Live \ DOMAIN body'
New == DOMAIN body' \ Live

\* Only bodies have changed, or functions have been added behind all others.
Extends == Gone = {} /\ \A f \in New, g \in Live : f > g

\* Whoever has read the row of a removed function has a new body or is removed too.
Reindexes(fs) ==
  ~Extends /\ \A p \in readers : p[1] \in Gone /\ p[2] \notin Gone => p[2] \in fs

\* The solve begins with all roots.  Afterwards the others have their solved rows again.
Begin(fs, reset, ss) ==
  /\ LET roots == fs \cup reset \cup ss
         left == withInitialRows(body', fs, reset, ss)
     IN /\ rows' = Merge(roots, left, rows) \ Gone
        /\ initial' = Merge(roots, left, initial) \ Gone
        /\ work' \in SetToSeqs(roots)
  /\ solved' = solved \ Gone /\ before' = solved' /\ unsolved' = New
  /\ edited' = fs \cup reset /\ again' = ss /\ fresh' = New
  /\ changed' = {} /\ shrank' = FALSE /\ early' = FALSE
  /\ evals' = 0 /\ stage' = "solve" /\ updates' = updates + 1
  /\ UNCHANGED <<converged, unsure>>

UpdateBodies(fs, ss) ==
  /\ Extends
  /\ Begin(fs, {}, ss)
  /\ UNCHANGED <<readers, validated>>

\* Functions were removed, or added among the others: what depended on a removed one starts
\* from declared rows, and all diagnostics are forgotten.
UpdateReindexed(fs, ss) ==
  /\ Reindexes(fs)
  /\ Begin(fs, Closure(readers, Gone) \ Gone, ss)
  /\ readers' = {p \in readers : p[1] \notin Gone /\ p[2] \notin Gone}
  /\ validated' = <<>>

\* The equations cannot be taken over: a full solve, from the initial rows.  The callers'
\* rows of this update do not become initial ones here.
UpdateDeclarations(fs, ss) ==
  /\ Structural \/ ~(Extends \/ Reindexes(fs))
  /\ initial' = Merge(fs, withInitialRows(body', fs, {}, ss), initial) \ Gone
  /\ rows' = FullSolve(body', initial') /\ solved' = rows'
  /\ converged' = Solves(body', Worklist(body', initial')) /\ unsure' = ~converged'
  /\ readers' = AllReads(body')
  /\ validated' = [f \in DOMAIN body' |-> Seen(body', rows', f)]
  /\ updates' = updates + 1
  /\ UNCHANGED <<unsolved, update>>

-----------------------------------------------------------------------------
\* The update has ended.
End ==
  /\ edited' = {} /\ again' = {} /\ fresh' = {} /\ changed' = {} /\ before' = {}
  /\ shrank' = FALSE /\ early' = FALSE /\ work' = <<>> /\ evals' = 0 /\ stage' = "ready"

\* One evaluation.  What it reads is added to the graph before its readers are queued.
NewReaders(f) == readers \cup (body[f].calls \X {f})

Limit == 8 * Cardinality(Live) + 16

\* The row of g is what body analysis has left, and the last solve has left another.
LeftByBody(g) == g \notin unsolved /\ ~(g \in rows <=> g \in solved)

SolveStep ==
  /\ stage \in {"solve", "restart"} /\ work # <<>> /\ evals < Limit
  /\ LET f == Head(work)
         waiting == {r \in Live : <<f, r>> \in NewReaders(f)} \ Range(Tail(work))
     IN /\ rows' = Evaluated(body, rows, f)
        /\ readers' = NewReaders(f)
        /\ evals' = evals + 1
        /\ early' = (early \/ \E g \in body[f].calls \ {f} : LeftByBody(g))
        /\ IF f \notin unsolved /\ (f \in solved <=> f \in rows')
           THEN work' = Tail(work) /\ UNCHANGED <<solved, unsolved, changed, shrank>>
           ELSE /\ solved' = Merge({f}, rows', solved)
                /\ unsolved' = unsolved \ {f}
                /\ changed' = changed \cup ({f} \ fresh)
                /\ shrank' = (shrank \/ (f \in solved /\ f \notin rows'))
                /\ \E order \in SetToSeqs(waiting) : work' = Tail(work) \o order
  /\ UNCHANGED <<body, initial, converged, unsure, validated, edited, again, fresh, before, stage, updates>>

\* One evaluation too many: a full solve, with the rows the edited functions have got so far
\* as their initial ones.
GiveUp ==
  /\ stage \in {"solve", "restart"} /\ work # <<>> /\ evals = Limit
  /\ initial' = Merge(edited, Evaluated(body, rows, Head(work)), initial)
  /\ rows' = FullSolve(body, initial') /\ solved' = rows' /\ unsolved' = {}
  /\ converged' = Solves(body, Worklist(body, initial')) /\ unsure' = ~converged'
  /\ readers' = AllReads(body)
  /\ validated' = [f \in Live |-> Seen(body, rows', f)]
  /\ End
  /\ UNCHANGED <<body, updates>>

\* Everything that reads the row of a root, directly or not.
Cone == Closure(readers, edited \cup again)

\* Mutant: only the roots are evaluated after a restart.
RestartRoots ==
  /\ stage = "solve" /\ work = <<>> /\ shrank
  /\ rows' = Merge(Cone, initial, rows) /\ solved' = Merge(Cone, initial, solved)
  /\ work' \in SetToSeqs(edited \cup again)
  /\ stage' = "restart" /\ early' = FALSE
  /\ UNCHANGED <<body, initial, unsolved, readers, converged, unsure, validated,
                 edited, again, fresh, changed, before, shrank, evals, updates>>

Restart ==
  /\ stage = "solve" /\ work = <<>> /\ shrank
  /\ rows' = Merge(Cone, initial, rows) /\ solved' = Merge(Cone, initial, solved)
  /\ work' \in SetToSeqs(Cone)
  /\ stage' = "restart" /\ early' = FALSE
  /\ UNCHANGED <<body, initial, unsolved, readers, converged, unsure, validated,
                 edited, again, fresh, changed, before, shrank, evals, updates>>

\* Mutant: compared with the rows the restart began from.
ChangedSinceRestart ==
  IF stage = "restart" THEN {f \in Cone \ fresh : ~(f \in initial <=> f \in rows)} ELSE changed

\* After a restart a row has changed if it differs from the row before the update.
ChangedRows ==
  IF stage = "restart" THEN {f \in Cone \ fresh : ~(f \in before <=> f \in rows)} ELSE changed

\* Validation replays the diagnostics it has, unless a row has changed or the body has run.
Replayed(f) == f \in DOMAIN validated /\ f \notin edited \cup again /\ ChangedRows = {}

Validate ==
  /\ work = <<>>
  /\ stage = "restart" \/ (stage = "solve" /\ ~shrank)
  /\ validated' = [f \in Live |-> IF Replayed(f) THEN validated[f] ELSE Seen(body, rows, f)]
  /\ converged' = TRUE /\ unsure' = (unsure \/ early)
  /\ End
  /\ UNCHANGED <<body, rows, initial, solved, unsolved, readers, updates>>

Idle == stage = "ready" /\ updates = MaxUpdates /\ UNCHANGED vars

\* A body whose calls resolve differently, because a name was added or removed, is edited.
Edit(new) ==
  /\ stage = "ready" /\ updates < MaxUpdates
  /\ body' = new
  /\ LET fs == {f \in DOMAIN new : f \in New \/ new[f] # body[f]} IN
     /\ Cardinality(fs \cup Gone) \in 1 .. MaxEdited
     /\ \E ss \in SummaryCallers(new, fs) :
           UpdateBodies(fs, ss) \/ UpdateReindexed(fs, ss) \/ UpdateDeclarations(fs, ss)

Next ==
  \/ \E new \in Programs : Edit(new)
  \/ SolveStep \/ GiveUp \/ Restart \/ Validate \/ Idle

Spec == Init /\ [][Next]_vars

-----------------------------------------------------------------------------
Least == FullSolve(body, DeclaredRows)

\* After every update the rows satisfy all equations and the solver says so, however the
\* update was solved, in whatever order, and whatever was edited before; unless, since the
\* last full solve, an evaluation has read a row that body analysis left of another root, or
\* the full solve itself ran out of rounds.
UpdatesSolved ==
  stage = "ready" /\ ~unsure => converged /\ solved = rows /\ unsolved = {} /\ Solves(body, rows)

\* The diagnostics that are shown for a function are those of the rows it sees now, though
\* only the bodies that ran are validated again when the solve reports no changed row, and
\* the row of a new function does not count as changed.
ValidationCurrent ==
  stage = "ready" => \A f \in Live : validated[f] = Seen(body, rows, f)

\* What retained_permissions.go says of a restart: "the cone is solved to its least
\* fixpoint".  A permission that nobody needs any more leaves the rows.
RowsLeast == stage = "ready" => rows = Least

\* What retained_permissions.go says of an update: it "re-solves effects from the edited
\* functions outward, the same fixpoint the dense pass reaches".
SameFixpoint == stage = "ready" => Solves(body, rows)

=============================================================================
