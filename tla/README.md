# A verification of the Elisa compiler's incremental core and runtime concurrency

This directory models, model-checks and proves parts of the Elisa compiler
(`compiler/src`, Go) and of the runtime library it links into programs
(`compiler/runtime`, Elisa). Most of the compiler is a long sequential
transformation of trees; what is hard to test in it is state that survives from
one compilation to the next, and state that several threads or processes share.
Those are the parts taken up here, the most important ones first.

Contents: [inventory](#inventory), [models](#the-models),
[runs](#runs), [findings](#findings), [fairness](#fairness), [proofs](#proofs),
[what is not modelled](#not-modelled).

## Inventory

For each part: the state it keeps, the operations that change it, whom it
interacts with, what is hard about it, and what makes it correct.

### Incremental query database (`incremental/database.go`, `database_transaction.go`)

* State: `revision`; `inputs`, each with a value or absence and the revision in
  which it last changed; `results`, memos with value, ordered dependencies,
  `verified` and `changed` stamps; a gate (a channel of capacity one).
* Operations: `Apply`, `applySnapshot`, `EvictQuery`, `RetireInputs`,
  `applyTransaction`; `Evaluate` and `EvaluateBatch`, which recursively validate
  a memo's dependencies or run its evaluator.
* Interactions: evaluators run under the gate and come back through `Reader`; the
  session below wraps every evaluator.
* Hard: validation by stamps alone, with early cutoff (an equal result keeps its
  old stamp), data-dependent dependencies, cycles that come and go with the
  inputs, errors and cancellation in the middle of nested evaluations.
* Correct when: a memo verified now is what its evaluator would compute now; an
  answer equals evaluation from scratch, errors included; validation executes
  nothing that evaluation from scratch would not; the gate is always given back.

### Incremental session (`incremental/session.go`, `session_delta.go`)

* State: the admitted queries with their reservations, the published inputs,
  ownership in both directions after delta publications, the epoch, running
  totals of bytes, edges and dependencies, a retirement debt.
* Operations: `Publish`/`PublishPrepared` (a whole world), `PublishDelta`/
  `PublishDeltaPrepared` (an edit of it), `Revision.Evaluate`.
* Interactions: owns a database, and replaces it when the debt is too large.
* Hard: handles that outlive their publication; publications that fail after the
  epoch has advanced; indexes and totals that are adjusted and never recomputed;
  reservations that change while a memo is kept; compaction.
* Correct when: a handle is answered from exactly the world of its publication or
  refused; the indexes and totals equal what recomputing them would give; what is
  retained is bounded by the limits.

### Runtime worker pool and task groups (`elisacore_runtime_concurrency.elisa`)

* State: the pool (queue, `shutdown`, `outstanding_records`, `owner_closed`, a
  mutex, two condition variables), a record per task, a counted work state shared
  by a task and its waiter, a group of records.
* Operations: `pool_submit1`, the worker loop, `pool_await`, `task_group_add`,
  `task_group_wait_all`, `pool_shutdown`.
* Hard: nothing is garbage collected; handles may be awaited after the shutdown,
  so the last of owner and waiters destroys the mutex; two condition variables
  with one signalled and one broadcast.
* Correct when: no freed memory is touched, all memory is freed, no wake-up is
  lost, and every task, wait and shutdown ends.

### Runtime barrier (same file)

Two cells, `count` and `generation`; `barrier_wait` reads the generation,
arrives, and either resets and advances or spins. Hard: a fast participant
re-enters while slow ones still spin. Correct when it is a cyclic barrier.

### Runtime threads (same file)

`spawn1`, `poll_ready`, `join`, `detach` and `spawn_daemon` share a counted work
state between the thread and the holder of its handle. Hard: `detach` and
`poll_ready` race the thread's last release, and the release is a load and a
compare-exchange. Correct when the state is freed once, by the last to drop it,
and what `join` or a completed poll finds has been written.

### Parallel body analysis (`semantic/parallel_schedule.go`, `parallel_bodies.go`)

* State: the plan (units, dependencies, priorities), `pending`, a ready heap,
  `left`, `sccLeft`, and per worker what it has analysed and imported.
* Operations: `claim`, `importUnit`, the analysis, `exportUnit`, the publication
  of a cycle's function types, `finish`.
* Hard: chunks of one cycle run side by side; a worker skips what it imported for
  an earlier unit; sleepers depend on the last claim and on every finish.
* Correct when whoever analyses a unit holds the facts of all it rests on, the
  types of a cycle do not change under its chunks, and every unit is analysed.

### Permission rows of a retained analysis (`semantic/retained_permissions.go`)

* State: live rows, the rows as last solved, the initial rows of a restart, the
  graph of who reads which row, and the diagnostics of the last validation.
* Operations: an update analyses the edited and the new bodies, and again the
  callers whose callees' inferred summaries changed (`retained_summary_invalidation.go`).
  From these roots it solves outward; when a row shrinks, its cone restarts. Functions
  that are added behind all others extend the graph, others renumber it
  (`retained_permissions_reindex.go`); where that is not safe, all is solved again.
* Hard: work is queued in map order, roots hold rows that no solve has seen yet, and
  initial rows stem from several updates.
* Correct when the rows solve all equations, are least, and replayed diagnostics are
  those of the rows.

### Resumable initial analysis (`analysis_disk_build.go`, `semantic/analysis_build.go`)

Processes killed at a deadline analyse some declarations each and leave a
checkpoint and hints about slow declarations. Correct when nothing weakened by a
transient solver outcome is saved, the checkpoint never goes back, and a build
that is run again is completed in the end.

### Toolchain stamps (`toolchain_cache.go`)

A tool is hashed between two looks at its fingerprint and the stamp memoized.
Hard: the file is replaced or written while it is hashed. Correct when a stamp is
that of one complete content that the path selected.

### Other parts with state, not modelled here

* Object cache (`backend/incremental_object*.go`, `persistent_objects.go`): a
  bounded LRU of objects that belong to slots, with a disk tier.
* Build, runtime-object, test and analysis caches: content-keyed directories
  staged and renamed into place. Of the analysis cache the resumable build is
  modelled.
* Source token cache (`source_token_cache.go`): an LRU filled outside its lock.
* Partition workers (`backend/llvm_parallel_emit.go`): child processes cancelled
  on the first failure.
* Servers (`retained_server.go`, `compile_server*.go`): an idle exit that races
  late requests, a bounded cache of sessions.
* Arenas and region caches of the runtime, and its parallel loops.
* Tracked queries (`incremental/scc*.go`, `frame_catalog*.go`): evaluators that
  keep no state beside the database's memos.

### Everything else

Lexer, parser, AST, semantic rules, SMT encoding, LLVM lowering, linking, the
assembler, the interpreter, the state codec, the command line, and the runtime's
collections and text: sequential code over large data. `PROJECT.json` lists each
with the reason it is left out; of a directory with many files it names the
twelve largest.

## The models

| Module | Models | Composition |
| --- | --- | --- |
| `QueryDatabase` | the database | |
| `MCQueryDatabase` | three concrete evaluators; evaluation from scratch | extends `QueryDatabase` |
| `QueryDatabaseProofs` | theorems | extends `QueryDatabase` |
| `Session` | the session and its database | extends `QueryDatabase` |
| `MCSession` | concrete publications; evaluation from scratch of a world | extends `Session` |
| `ThreadPool` | pool, tasks, groups | |
| `ThreadPoolSteps`, `ThreadPoolProofs` | what each step preserves; theorems | extend `ThreadPool` |
| `Barrier` | `barrier_make`, `barrier_wait` | implements `BarrierSpec` |
| `BarrierSpec` | what a cyclic barrier promises | |
| `BarrierProofs` | theorems | extends `Barrier` |
| `Threads` | joinable threads | |
| `ThreadsProofs` | theorems | extends `Threads` |
| `BodyPlan` | components, chunks, dependencies, priorities as operators | |
| `BodySchedule` | the workers that run a plan | |
| `MCBodySchedule` | the schedule on the plans of small call graphs | extends `BodySchedule`, `BodyPlan` |
| `BodyScheduleProofs` | theorems | extends `BodySchedule` |
| `ToolchainStamp` | the memoized content stamp of a tool | |
| `MCToolchainStamp` | its symmetry | extends `ToolchainStamp` |
| `ToolchainStampProofs` | theorems | extends `ToolchainStamp` |
| `AnalysisBootstrap` | the resumable initial analysis | |
| `AnalysisBootstrapProofs` | theorems | extends `AnalysisBootstrap` |
| `RetainedPermissions` | permission rows across updates | |
| `MCRetainedPermissions` | the programs it is checked on | extends `RetainedPermissions` |

`PROJECT.json` maps each definition to its source lines. A definition whose
comment begins with "Mutant:" is a deliberately wrong variant of the definition
that follows it, used to show that a property can fail.

### `QueryDatabase`

`db` is the Go struct without its gate; `gate` names the goroutine that holds it.
The writers work entirely under the gate and call nothing out, so each is one
action (`Apply`, `Evict`, `Retire`, `Transact`), built from a function of the
database with the code's name. The no-change early returns are kept: they decide
whether the revision moves.

An evaluation holds the gate across many steps. `stack` is the recursion of
`Database.evaluate`: a frame in mode `check` is in the validation loop at
dependency `pos`; a frame in mode `exec` is inside its evaluator, with the
dependencies remembered so far. One action is one iteration of the loop, one read
by the evaluator, or one return, so cancellation and errors can come between any
two. `Fail` empties the stack, because `evaluate` hands errors up and
`Reader.failure` keeps an evaluator from suppressing one.

Evaluators are a constant operator: `Step(q, log)` is the next move of the
evaluator of `q` after the reads in `log`. This is any deterministic program that
reads changing data only through its `Reader`, which is what the comment on
`Database` demands. The `log` of a frame is the running evaluator's local state; the
`log` of a memo is history that no action reads.

Abstractions: a key is a model value; the pair (value, present) is one field,
since the code clears the value of an absent input; statistics and the
small-list/hash-set switch in `Reader.seen` are left out.

### `Session`

`grant` of `QueryDatabase` is the session's `live`, `queryKeys` and `inputKeys`.
The session gate is held throughout a publication, so `Publish`, `PublishDelta`
and `Rejected` are one action each. `Rejected` stands for every failure after the
gate: it advances the epoch, clears `ready` and leaves the data alone, as the code
does. The guards of `Publish` and `PublishDelta` are the code's checks; where one
fails, `Rejected` is the step that happens. Costs keep the code's constants.
`world`, `latest` and `issued` are history: the publications the session stands
for, the last handle, and the handles callers hold.

Left out: cloned strings and canonical keys (identity of storage only), the work
budgets of the preparation (a rejection like any other), `SessionStats`.

### `ThreadPool`

Fields of the pool are touched only under its mutex, so a critical section is one
action. What happens outside the lock (running the task, dropping a reference,
freeing a record, destroying the state) is a separate action, so every
interleaving of frees with others' critical sections is explored. `refs` counts
down from 2 as `ConcurrencyWorkStart1.refs`; the compare-and-exchange loop is one
atomic decrement. Both condition variables may wake spuriously. Destroying a mutex
directly after the last unlock by another thread is allowed by POSIX, so a thread
counts as done with the mutex once its critical section is over. The joins of
`pool_shutdown`, one worker at a time, are one action enabled when all have
exited: the owner does nothing else between them.

One owner submits, keeps handles in its group or moves them to a client, and
shuts down. A pool that several threads submit to is not modelled. Tasks do not
submit or await: `docs/09-concurrency-mini-spec.md` excludes deadlocks from
what the runtime guarantees.

### `Barrier`

One action per atomic access. The relaxed reset of the count is ordered before
the release of the generation, and each participant acquires the generation
before it arrives again, so interleaving semantics loses no behaviour. `total` is
the number of participants, the documented contract of `barrier_make`.

The refinement mapping reads the rounds entered and left off the generation each
participant last saw: a participant has entered round `g + 1` when it has arrived
and has left it when it is back at work.

### `Threads`

One action per access to the shared state; the release is its load and its
compare-exchange, so both sides may load 2 before either writes. `join_raw` is the
platform's and returns when the thread has exited. A handle is linear, so each has
one holder at a time.

### `BodySchedule` and `BodyPlan`

`claim` and `finish` run under the schedule's mutex and are one action each; an
import of one unit, the analysis, the export, the publication and the closing of
`done` are separate steps of a worker, so that other workers come between. Facts
are abstracted to the unit they belong to. The schedule takes its plans as a
constant with the assumptions that `ScheduleAssumption` names: dependencies are
earlier units of other cycles, whoever uses one chunk of a cycle depends on all,
and `depClosure` lists dependencies first. `MCBodySchedule` discharges them for
the plans that `BodyPlan` makes of its graphs: TLC evaluates the assumption. Which
body uses which is an input, and the merge of the workers' analyzers is left out.

### `ToolchainStamp`

A file is an inode with chunks and a change time, hashed chunk by chunk while
other programs write, replace and remove it. A change gets a time no fingerprint in
use has, which is what a file system with fine-grained change times does; the
platforms without stable fingerprints are left out.

### `AnalysisBootstrap`

Time is counted since the start of a process; a declaration or a check is
indivisible, and a process that would pass the deadline in one is killed in it.
Assumptions, named in `BuildAssumption`: each piece fits into a process of its own,
a final check fits into its margin (the comment at
`compiler/src/analysis_disk_build.go:363` takes final-check frames to be small), and
saving and storing take what the code reserves for them. Failed writes and a source
that changes during the build are left out.

### `RetainedPermissions`

Rows are unions, so one permission is enough: `rows` is the set of functions whose
row holds it. A program is a function from the declared functions to their own
permission and their calls; an update goes to another program. `UpdateBodies` is an
update of bodies, with or without appended functions, `UpdateReindexed` one that
removes functions or inserts some, and `UpdateDeclarations` one that neither covers.
Each runs the bodies as `withInitialRows` does: the edited ones against the initial
rows of the others, then, in `AnalyzeCallers`, the callers that are analysed again,
which see declared rows of whatever has not run. Which of the possible callers run
again is left open, because it depends on summaries of borrows and not on
permissions. Roots, readers and the cone are queued in any order, since the code
takes them from maps. A full solve is one step.

`early` and `unsure` are history. `early` says that an evaluation has read a row that
body analysis left of a root and that differs from its solved row; `unsure` that this
has happened in a finished update, or that the rounds ran out, since the last full
solve.

Left out: an update that is abandoned because the summaries of a cycle do not
converge, after which the analysis is dropped; rows that several declarations share
and declarations that move to another scope, except that with `Structural` any update
may be solved in full, as these are.

## Runs

| Run | Instance | Distinct states | Shows |
| --- | --- | --- | --- |
| `database` | 2 inputs, 3 queries, revisions to 3, change lists to 2, batches to 3 keys in revisions to 2, fair | 147,400 | `DatabaseInv`, `VerifiedMemosCurrent`, `AnswersFresh`, `NoPhantomExecution`, `GateReleased` |
| `session` | 2 inputs, 2 queries, 3 epochs, all deltas and batches over 9 publications | 298,904 | `DatabaseInv`, `WorldCoherent`, `DatabaseHoldsWorld`, `AnswersOfWorld` |
| `session_compaction` | room for one input, 4 epochs | 45,120 | `RetentionBounded`, `AnswersOfWorld` |
| `pool` | 2 workers, 3 tasks, an owner and a client, fair | 65,116 | `PoolInv`, `MemorySafe`, `OutstandingCounts`, `NothingLeaked`, `WorkConserving`, `TasksFinish`, `WaitsReturn`, `ShutdownReturns` |
| `barrier` | 3 participants, 3 rounds, fair | 175 | `BarrierInv`, `IsBarrier` |
| `threads` | 2 threads, fair | 1,849 | `WorkStateSafe`, `ResultsReady`, `StatesFreed`, `CompletionSticks` |
| `body_schedule` | 3 workers, plans of all graphs of 3 bodies and 4 larger ones, chunks of 1 and 2, fair | 387,153 | `ScheduleInv`, `FactsComplete`, `CyclesStable`, `ImportsReady`, `SleepersWaitForWork`, `AllAnalysed` |
| `toolchain_stamp` | 1 caller, 2 inodes of 2 chunks, 3 times | 424,348 | `StampInv`, `StampExact`, `NativeRespected` |
| `analysis_bootstrap` | 1 process, 3 declarations, 2 checks, a taint and a kill, fair | 3,605 | `BuildInv`, `NothingTaintedSaved`, `ProgressKept`, `Completes` |
| `retained_permissions` | 2 to 4 functions, cycles to 3, 2 updates that edit, add or remove up to 2 | 2,622,235 | `UpdatesSolved`, `ValidationCurrent` |
| `retained_cycle` | 3 functions, a cycle above a leaf, 1 update | violation | `RowsLeast` fails, see [findings](#findings) |
| `retained_roots` | 4 functions, a chain of calls, 1 update of 2 bodies | violation | `SameFixpoint` fails, see [findings](#findings) |

All but the last two pass, with deadlock checked. The two references, `Fresh` in the
MC modules, evaluate recursively with neither memos nor stamps.

Why the bounds are enough:

* Three revisions give a memo made, its inputs changed, and changed back, which is the
  shortest history in which early cutoff and a stale stamp can disagree. The three
  evaluators have data-dependent reads, a cycle that depends on an input, a repeated
  read, an error, and a value that often stays equal. One client is enough because the
  gate admits one holder at a time and clients keep no state between evaluations.
  Batches of three keys let a memo, an error or a cancellation of one root precede
  another's evaluation; `LastBatch` keeps them to two revisions, of which the second
  meets memos of the first. Longer histories and other evaluators are covered by the
  proof, which has no bound.
* Three epochs give a publication, an edit of it or a failure, and a publication after
  that. The publications include shared inputs, absent values, changed reservations
  and both kinds of exceeded budget; an input that is withdrawn while it is absent
  already tells apart a writer that skips such a withdrawal. In `session_compaction`
  the second retirement exceeds the debt, so the fourth epoch works on a compacted
  database.
* Two workers and three tasks let one worker find the queue emptied by the other with
  a task still to come; a group and a client let the last waiter be either thread,
  before or after the owner closes.
* Three participants give a first, a last and one in between; in three rounds a fast
  one meets slow ones of the round before twice.
* Two threads are independent of each other; what matters is that both sides of
  one are anywhere in their release loops, which one thread gives.
* Three bodies give every shape of a small call graph; the larger graphs add
  diamonds, a cycle dealt in several chunks with callers above and callees below,
  and cycles over cycles. With three workers one can sleep while two run.
* Two chunks are the fewest of which a mixture can be read; times come back once
  no fingerprint in use has them, so files change without end. One caller is
  enough because a mutex covers the whole of an attempt; the proof is for any
  number of them.
* Three declarations of times 1, 3 and 8 of a deadline of 11 let a process finish
  several, or only one, or be killed in one that began too late.
* Cycles of three and two updates give a row that shrinks in a cycle left by an
  earlier update. Two edits at once are the fewest in which one root reads another;
  two functions that may be missing give appended, inserted and removed ones, with
  readers edited or not.

## Findings

`retained_cycle`: the comment at `compiler/src/semantic/retained_permissions.go:427`
says "the cone is solved to its least fixpoint", and a test at
`retained_analysis_test.go:813` says that a removed effect "must leave its callers'
inferred rows too, including around a call cycle". The restart begins from the rows
that body analysis left. Those of an unedited caller hold what its callee's row held
when the caller was analysed; when that callee loses the permission by a body edit,
the initial rows of a cycle above it still hold it, and around the cycle it supports
itself. Around the cycle the order in which the cone is queued decides: of a leaf 1
and a cycle of 2, which calls 3, and 3, which calls 1 and 2, the order 1, 3, 2 gives
the least rows and 1, 2, 3 keeps the permission. The rows still solve the equations,
but not least.

`retained_roots`: the comment at `compiler/src/semantic/retained_permissions.go:7` says
"A body-only update then re-solves effects from the edited functions outward, the same
fixpoint the dense pass reaches from the retained rows". All roots hold the rows that
body analysis left, and are queued in map order. One that is evaluated first reads such
a row of another. When the other then evaluates to the row it had before the update,
line 402 goes on without queueing its readers. TLC's example: 1 calls 2, 2 calls 3, and
3 has the permission. An update edits 1, which still calls 2, and lets 4 call 1. Body
analysis leaves 1 without the permission, since the initial row of 2 does not hold it.
If 4 is evaluated first it finds nothing; 1 gets its old row back, and 4 stays without
a permission it needs.

`UpdatesSolved` is what holds beside these: the rows are solved after every update,
unless since the last full solve a root was read early, or that solve ran out of
rounds. After the latter an incremental solve may report convergence on rows that are
no solution; `PROJECT.json` lists this as a hazard without a property.

## Fairness

* Database: weak fairness of `Evaluating`. The goroutine that holds the gate keeps
  running, waits for nobody, and evaluators terminate. Nobody need call, write or
  cancel.
* Pool: weak fairness of each worker's, each waiter's and the owner's steps:
  threads are scheduled, tasks return, and a thread that asks for the mutex gets
  it. Nobody need submit, await or shut down. Spurious wake-ups have no fairness,
  so progress never relies on them.
* Barrier: weak fairness of a participant inside `barrier_wait`. A participant
  outside need not come.
* Threads: weak fairness of the thread's steps and of a release or a join that has
  begun. A holder may keep its handle for ever.
* Body schedule: weak fairness of each worker's steps: goroutines are scheduled and
  the analysis of a body ends.
* Initial analysis: weak fairness of the steps of a process, its start included:
  the message of an incomplete build says "rerun the same build to continue", and
  somebody does. Kills before the deadline are bounded by `MaxKills`.
* Toolchain stamps, session and permissions: no fairness; only safety is claimed.

## Proofs

TLAPS checks every proof down to its leaves.

### The database (`QueryDatabaseProofs`)

`DatabaseInvariant`: `Spec => []DatabaseInv`. `MemosNeverStale`:
`Spec => []VerifiedMemosCurrent`. Both hold for any keys, values, evaluators,
clients, grant and bounds. The assumptions are the named `ASSUME`s of
`QueryDatabase`: the special values `Absent`, `Free` and `None` are distinct from
what they are mixed with, bounds are natural numbers, sizes are natural numbers
and the grant is well typed.

`VerifiedMemosCurrent` is not inductive: it speaks of memos verified now, and a
step may verify an old one. `DatabaseInv` adds what that step relies on:

* `StampsOrdered`: changed ≤ verified ≤ revision.
* `MemosExplained`: each memo, verified or not, is the outcome of the run in its
  log, and each read of the run is among its dependencies.
* `StampsTellChange`: a dependency whose stamp is not later than the memo's
  verification still has the value that was read. This is the heart: early cutoff
  is sound because an equal value keeps an old stamp, and a changed one gets the
  current revision, which is later than any verification of an unverified memo.
* `HitsRestOnHits`: a verified memo's query dependencies are verified, so that
  re-execution of a memo cannot pull the ground from under a verified one.
* `StackOK`: active queries are not verified and distinct, an executing frame has
  read only what is current, a checking frame has checked what still stands.

The proof has a lemma per writer (through the functions of the database) and one
per evaluation step, under it one step per conjunct the action disturbs.

### The barrier (`BarrierProofs`)

`BarrierInvariant`: `Spec => []BarrierInv`. `BarrierRefines`:
`Spec => Rounds!Safety`, the safety part of `BarrierSpec`. Both hold for any
finite, non-empty set of participants and any bound on the rounds. `BarrierInv`
is inductive: the count is the number of participants that have arrived in this
generation, the one that completes it is unique, and nobody is more than one
generation behind. The refinement follows step by step: `Arrive` maps to `Enter`,
`Advance` and `Spin` to `Leave`, and `Load` and `Reset` to stuttering.

### The worker pool (`ThreadPoolSteps`, `ThreadPoolProofs`)

`PoolIsSound`: `Spec => []PoolInv`, for any finite, non-empty set of workers, any
finite set of tasks and any clients. `MemorySafe` alone is not inductive: that a
record is not freed under a worker follows from who holds references, and that
from where the task is. `PoolInv` says all of it:

* `QueueInv`: a task is in the queue once or with one worker, until it is done;
  done means that the result is written.
* `HandleInv`: a handle is with one thread and there in one place; the owner walks
  its group in order.
* `ReferenceInv`: `refs` is one for the pool, while the task is queued or running,
  plus one for the handle; the handle's holder frees the record.
* `ShutdownInv`: the flags say how far the owner has come, and once the owner has
  closed and nothing is outstanding one thread disposes of the state.
* `outstanding_records` is the number of records not yet waited for.

`PoolMemorySafe`, `OutstandingIsCounted` and `PoolLeaksNothing` follow from it in
each state. `WorkIsConserved` needs an induction of its own on top of it: a
submission adds one task and wakes one worker, a worker that takes a task shortens
the queue by one, and one falls asleep only over an empty queue. `ThreadPoolSteps`
holds the lemmas on sequences, frames, and the steps of workers, submission and
waiting; `ThreadPoolProofs` those that free records, close the pool and dispose of
it, and the theorems.

### Threads (`ThreadsProofs`)

`ThreadsInvariant`: `Spec => []ThreadsInv`, for any set of threads: the count is
the number of sides that have not dropped their reference, a side frees when the
other is done, and the thread writes, then publishes, then releases.
`ThreadsMemorySafe` and `ThreadsResultsReady` follow. `ThreadsCompletionSticks` is
the action property that an answer of `poll_ready` is never taken back.

### The body schedule (`BodyScheduleProofs`)

`ScheduleInvariant`: `Spec => []ScheduleInv`, for any workers and any plans that
satisfy `ScheduleAssumption`. Its parts: who runs what (`RunInv`), what `pending`
and `sccLeft` count (`CountInv`), that what a worker holds is closed under
dependencies and grows to all its unit rests on (`HoldInv`), and where the unclaimed
units are (`ClaimsInv`). `ScheduleFactsComplete` needs the closedness: a worker
skips what it imported before, which is right only because everything below was
imported too. `ScheduleCyclesStable` and `ScheduleImportsReady` follow from the
counts. `ScheduleSleepers`: if a worker sleeps, the first unclaimed unit waits for a
unit that is claimed and not finished, and whoever claimed it runs it. This is where the
assumption that dependencies are earlier units is used.

### Toolchain stamps (`ToolchainStampProofs`)

`StampInvariant`, `StampsExact`, `StampsNative`, for any callers, inodes, bytes and
times and any length of a file. The invariant: while a file keeps the fingerprint a
caller saw, what was read of it is what it holds, and the memo is right about any
file that has its fingerprint.

### The initial analysis (`AnalysisBootstrapProofs`)

`BuildIsSound` and `NothingTaintedIsSaved`, for any processes, also side by side,
and any times that satisfy `BuildAssumption`. `ProgressIsKept` assumes that no two
processes build at once: two at once overwrite each other's checkpoint. Its
strengthening is `Ahead`: until the state is stored, a running process has analysed
at least what the checkpoint has.

### Only model-checked

* Liveness is out of the prover's reach: `GateReleased`, `TasksFinish`,
  `WaitsReturn`, `ShutdownReturns`, `StatesFreed`, `AllAnalysed`, `Completes` and
  the fairness part of `IsBarrier`.
* What recursive definitions and folds compute needs induction over data.
  `AnswersFresh`, `NoPhantomExecution` and `AnswersOfWorld` compare with recursive
  evaluation. The session's admission and totals are folds and sums over the
  publications of a batch, so `WorldCoherent`, `DatabaseHoldsWorld`,
  `RetentionBounded` and `DatabaseInv` under `SessionSpec` stay with TLC.
  `UpdatesSolved` and `ValidationCurrent` speak of solves that are recursive.
* That the plans of `planBodySchedule` and the lists of `depClosure` satisfy
  `ScheduleAssumption` is evaluated by TLC on the graphs of `MCBodySchedule`.

## Not modelled

The parts with state that the [inventory](#other-parts-with-state-not-modelled-here)
lists are within TLC's reach and not modelled yet. Out of reach for good: the
semantic rules, the parser and the code generator (sequential, data-heavy, no small
state), the SMT and LLVM back ends (pure I/O around external programs), the
reflection-driven state codec, and printing.

`docs/117-incremental-build-system.md` describes the tracked-query engine in
prose; the models follow the code, and the two have not been compared point by
point.
