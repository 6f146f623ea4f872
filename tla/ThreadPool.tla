------------------------------ MODULE ThreadPool ------------------------------
(***************************************************************************)
(* The persistent worker pool of the language runtime:                     *)
(* compiler/runtime/elisacore_std/elisacore_runtime_concurrency.elisa.     *)
(*                                                                         *)
(* An owner creates the pool, submits tasks, keeps their handles in a task *)
(* group or moves them to other threads, and at last shuts the pool down.  *)
(* The handles outlive the shutdown: the pool's mutex and condition        *)
(* variables are freed by whichever of the owner and the last waiter comes *)
(* second.  Nothing is garbage collected, so the model keeps track of what *)
(* is allocated: the pool state, a record per task, and the work state     *)
(* (argument and result) that a task and its waiter share by counting.     *)
(*                                                                         *)
(* The fields of the pool state, the queue and done are only touched with  *)
(* the pool's mutex held, so a critical section, from ctx_pool_lock to the *)
(* matching unlock or wait, is one action.                                 *)
(***************************************************************************)
EXTENDS Integers, Sequences, FiniteSets, Functions

CONSTANTS
    Worker,   \* the worker threads
    Task,     \* the tasks that may be submitted
    Client,   \* threads that await single tasks
    Owner,    \* the thread that owns the pool and the task group
    NoTask

ASSUME PoolAssumption ==
    /\ Worker # {} /\ IsFiniteSet(Worker) /\ IsFiniteSet(Task)
    /\ Owner \notin Client /\ NoTask \notin Task

Waiter == Client \cup {Owner}

VARIABLES
    state,    \* ConcurrencyPoolState: alive, shutdown, outstanding_records, owner_closed
    queue,    \* qhead ... qtail
    record,   \* the PoolTaskRecord of a task: "none", "live" or "freed"
    done,     \* its field done
    refs,     \* ConcurrencyWorkStart1.refs; the work state is freed when it reaches 0
    result,   \* its result storage: "raw" or "written"
    worker,   \* where a worker is, and the task it holds
    waiter,   \* where the owner or a client is, and the task it waits for
    held,     \* handles moved to a client
    group,    \* the owner's TaskGroup.handle
    rest,     \* what task_group_wait_all_raw has still to wait for
    cleanup,  \* TaskGroup.cleanup
    handle    \* ThreadPool.handle: "open" or "null"

memory == <<record, done, refs, result>>
handles == <<held, group, rest, cleanup, handle>>
vars == <<state, queue, memory, worker, waiter, handles>>

Init ==
    /\ state = [alive |-> TRUE, shutdown |-> 0, outstanding |-> 0, ownerClosed |-> 0]
    /\ queue = <<>>
    /\ record = [t \in Task |-> "none"]
    /\ done = [t \in Task |-> 0]
    /\ refs = [t \in Task |-> 0]
    /\ result = [t \in Task |-> "raw"]
    /\ worker = [w \in Worker |-> [pc |-> "idle", task |-> NoTask]]
    /\ waiter = [p \in Waiter |-> [pc |-> "free", task |-> NoTask]]
    /\ held = [c \in Client |-> <<>>]
    /\ group = <<>>
    /\ rest = <<>>
    /\ cleanup = <<>>
    /\ handle = "open"

\* A reference to the work state is dropped.
Release(t) == refs' = [refs EXCEPT ![t] = @ - 1]

-----------------------------------------------------------------------------
(* Workers.                                                                *)

GoWorker(w, pc, t) == worker' = [worker EXCEPT ![w] = [pc |-> pc, task |-> t]]

\* The loop head under the lock: take a task, exit, or wait on work_cond.
TakeTask(w) ==
    /\ worker[w].pc = "idle"
    /\ queue # <<>>
    /\ queue' = Tail(queue)
    /\ GoWorker(w, "running", Head(queue))
    /\ UNCHANGED <<state, memory, waiter, handles>>

\* Mutant: a worker that sees the shutdown exits without draining the queue.
WaitForWorkDropsQueue(w) ==
    /\ worker[w].pc = "idle"
    /\ queue = <<>> \/ state.shutdown = 1
    /\ GoWorker(w, IF state.shutdown = 0 THEN "asleep" ELSE "exited", NoTask)
    /\ UNCHANGED <<state, queue, memory, waiter, handles>>

WaitForWork(w) ==
    /\ worker[w].pc = "idle"
    /\ queue = <<>>
    /\ GoWorker(w, IF state.shutdown = 0 THEN "asleep" ELSE "exited", NoTask)
    /\ UNCHANGED <<state, queue, memory, waiter, handles>>

\* pthread_cond_wait may return without a signal.
WakeSpuriously(w) ==
    /\ worker[w].pc = "asleep"
    /\ GoWorker(w, "idle", NoTask)
    /\ UNCHANGED <<state, queue, memory, waiter, handles>>

\* ctx_concurrency_work1_entry: the body, the result, the task's reference.
RunBody(w) ==
    /\ worker[w].pc = "running"
    /\ result' = [result EXCEPT ![worker[w].task] = "written"]
    /\ GoWorker(w, "returning", worker[w].task)
    /\ UNCHANGED <<state, queue, record, done, refs, waiter, handles>>

LeaveBody(w) ==
    /\ worker[w].pc = "returning"
    /\ Release(worker[w].task)
    /\ GoWorker(w, "finishing", worker[w].task)
    /\ UNCHANGED <<state, queue, record, done, result, waiter, handles>>

\* A broadcast on done_cond wakes every waiter.
WakeWaiters ==
    waiter' = [p \in Waiter |->
        IF waiter[p].pc = "asleep" THEN [waiter[p] EXCEPT !.pc = "check"] ELSE waiter[p]]

\* Mutant: done_cond is signalled, not broadcast.
FinishSignals(w) ==
    /\ worker[w].pc = "finishing"
    /\ done' = [done EXCEPT ![worker[w].task] = 1]
    /\ IF \E p \in Waiter : waiter[p].pc = "asleep"
       THEN \E p \in Waiter : waiter[p].pc = "asleep" /\ waiter' = [waiter EXCEPT ![p].pc = "check"]
       ELSE UNCHANGED waiter
    /\ GoWorker(w, "idle", NoTask)
    /\ UNCHANGED <<state, queue, record, refs, result, handles>>

\* Publish completion under the lock.
Finish(w) ==
    /\ worker[w].pc = "finishing"
    /\ done' = [done EXCEPT ![worker[w].task] = 1]
    /\ WakeWaiters
    /\ GoWorker(w, "idle", NoTask)
    /\ UNCHANGED <<state, queue, record, refs, result, handles>>

Working(w) == TakeTask(w) \/ WaitForWork(w) \/ RunBody(w) \/ LeaveBody(w) \/ Finish(w)

-----------------------------------------------------------------------------
(* The owner and the clients.                                              *)

GoWaiter(p, pc, t) == waiter' = [waiter EXCEPT ![p] = [pc |-> pc, task |-> t]]

Asleep == {w \in Worker : worker[w].pc = "asleep"}

\* A signal on work_cond wakes one worker, if one is waiting.
SignalWork ==
    IF Asleep = {} THEN UNCHANGED worker
    ELSE \E w \in Asleep : GoWorker(w, "idle", NoTask)

\* Mutant: the record is queued without being counted.
EnqueueUncounted(t, p) ==
    /\ waiter[Owner].pc = "free"
    /\ handle = "open"
    /\ record[t] = "none"
    /\ record' = [record EXCEPT ![t] = "live"]
    /\ refs' = [refs EXCEPT ![t] = 2]
    /\ queue' = Append(queue, t)
    /\ IF p = Owner THEN group' = <<t>> \o group /\ held' = held
       ELSE held' = [held EXCEPT ![p] = Append(@, t)] /\ group' = group
    /\ UNCHANGED <<state, done, result, waiter, rest, cleanup, handle>>

\* The new task's record enters the queue; its handle joins the owner's group or is
\* moved to a client.
Enqueue(t, p) ==
    /\ waiter[Owner].pc = "free"
    /\ handle = "open"
    /\ record[t] = "none"
    /\ record' = [record EXCEPT ![t] = "live"]
    /\ refs' = [refs EXCEPT ![t] = 2]
    /\ state' = [state EXCEPT !.outstanding = @ + 1]
    /\ queue' = Append(queue, t)
    /\ IF p = Owner THEN group' = <<t>> \o group /\ held' = held
       ELSE held' = [held EXCEPT ![p] = Append(@, t)] /\ group' = group
    /\ UNCHANGED <<done, result, waiter, rest, cleanup, handle>>

\* Mutant: a worker is signalled only when the queue was empty.
SubmitSignalsWhenEmpty(t, p) ==
    Enqueue(t, p) /\ IF queue = <<>> THEN SignalWork ELSE UNCHANGED worker

\* pool_submit1, then task_group_add or a move of the handle.
Submit(t, p) == Enqueue(t, p) /\ SignalWork

\* pool_await on a handle that the client holds.
BeginAwait(c) ==
    /\ waiter[c].pc = "free"
    /\ held[c] # <<>>
    /\ GoWaiter(c, "check", Head(held[c]))
    /\ held' = [held EXCEPT ![c] = Tail(@)]
    /\ UNCHANGED <<state, queue, memory, worker, group, rest, cleanup, handle>>

\* task_group_wait_all.
BeginWaitAll ==
    /\ waiter[Owner].pc = "free"
    /\ group # <<>>
    /\ GoWaiter(Owner, "check", Head(group))
    /\ rest' = Tail(group)
    /\ UNCHANGED <<state, queue, memory, worker, held, group, cleanup, handle>>

\* ctx_pool_wait_record_done under the lock: sleep on done_cond until done is set.
WaitForDone(p) ==
    /\ waiter[p].pc = "check"
    /\ done[waiter[p].task] = 0
    /\ GoWaiter(p, "asleep", waiter[p].task)
    /\ UNCHANGED <<state, queue, memory, worker, handles>>

WakeWaiterSpuriously(p) ==
    /\ waiter[p].pc = "asleep"
    /\ GoWaiter(p, "check", waiter[p].task)
    /\ UNCHANGED <<state, queue, memory, worker, handles>>

\* Mutant: the last waiter leaves the pool state to the owner.
CountDownNeverDisposes(p) ==
    /\ waiter[p].pc = "check"
    /\ done[waiter[p].task] = 1
    /\ state' = [state EXCEPT !.outstanding = @ - 1]
    /\ GoWaiter(p, "waited", waiter[p].task)
    /\ UNCHANGED <<queue, memory, worker, handles>>

\* The wait is over; the last one after the owner has closed disposes of the state.
CountDown(p) ==
    /\ waiter[p].pc = "check"
    /\ done[waiter[p].task] = 1
    /\ state' = [state EXCEPT !.outstanding = @ - 1]
    /\ GoWaiter(p, IF state.ownerClosed = 1 /\ state.outstanding = 1 THEN "dispose" ELSE "waited",
                waiter[p].task)
    /\ UNCHANGED <<queue, memory, worker, handles>>

\* ctx_pool_state_destroy by a waiter.
Dispose(p) ==
    /\ waiter[p].pc = "dispose"
    /\ state' = [state EXCEPT !.alive = FALSE]
    /\ GoWaiter(p, "waited", waiter[p].task)
    /\ UNCHANGED <<queue, memory, worker, handles>>

\* A single await frees the record, then takes the result and drops its reference.
FreeRecord(c) ==
    /\ c # Owner
    /\ waiter[c].pc = "waited"
    /\ record' = [record EXCEPT ![waiter[c].task] = "freed"]
    /\ GoWaiter(c, "result", waiter[c].task)
    /\ UNCHANGED <<state, queue, done, refs, result, worker, handles>>

\* Mutant: the waiter drops the task's reference too.
TakeResultTwice(c) ==
    /\ waiter[c].pc = "result"
    /\ refs' = [refs EXCEPT ![waiter[c].task] = @ - 2]
    /\ GoWaiter(c, "free", NoTask)
    /\ UNCHANGED <<state, queue, record, done, result, worker, handles>>

TakeResult(c) ==
    /\ waiter[c].pc = "result"
    /\ Release(waiter[c].task)
    /\ GoWaiter(c, "free", NoTask)
    /\ UNCHANGED <<state, queue, record, done, result, worker, handles>>

\* The group goes on to its next record, and keeps them all until the last is done.
NextOfGroup ==
    /\ waiter[Owner].pc = "waited"
    /\ IF rest # <<>>
       THEN /\ GoWaiter(Owner, "check", Head(rest))
            /\ rest' = Tail(rest)
            /\ UNCHANGED <<group, cleanup>>
       ELSE /\ GoWaiter(Owner, "cleanup", NoTask)
            /\ cleanup' = group \o cleanup
            /\ group' = <<>>
            /\ rest' = rest
    /\ UNCHANGED <<state, queue, memory, worker, held, handle>>

\* ctx_task_group_release_all, one record at a time.
ReleaseGroup ==
    /\ waiter[Owner].pc = "cleanup"
    /\ IF cleanup # <<>>
       THEN /\ Release(Head(cleanup))
            /\ record' = [record EXCEPT ![Head(cleanup)] = "freed"]
            /\ cleanup' = Tail(cleanup)
            /\ UNCHANGED waiter
       ELSE GoWaiter(Owner, "free", NoTask) /\ UNCHANGED <<refs, record, cleanup>>
    /\ UNCHANGED <<state, queue, done, result, worker, held, group, rest, handle>>

-----------------------------------------------------------------------------
(* Shutdown.                                                               *)

\* Mutant: the sleeping workers are not told.
ShutdownSilent ==
    /\ waiter[Owner].pc = "free"
    /\ handle = "open"
    /\ state' = [state EXCEPT !.shutdown = 1]
    /\ GoWaiter(Owner, "join", NoTask)
    /\ UNCHANGED <<queue, memory, worker, handles>>

\* pool_shutdown: set the flag and broadcast work_cond.
Shutdown ==
    /\ waiter[Owner].pc = "free"
    /\ handle = "open"
    /\ state' = [state EXCEPT !.shutdown = 1]
    /\ worker' = [w \in Worker |->
           IF w \in Asleep THEN [worker[w] EXCEPT !.pc = "idle"] ELSE worker[w]]
    /\ GoWaiter(Owner, "join", NoTask)
    /\ UNCHANGED <<queue, memory, handles>>

\* Every worker has been joined.
Join ==
    /\ waiter[Owner].pc = "join"
    /\ \A w \in Worker : worker[w].pc = "exited"
    /\ GoWaiter(Owner, "close", NoTask)
    /\ UNCHANGED <<state, queue, memory, worker, handles>>

\* Mutant: the owner disposes of the state whatever is outstanding.
CloseIgnoresWaiters ==
    /\ waiter[Owner].pc = "close"
    /\ state' = [state EXCEPT !.ownerClosed = 1]
    /\ GoWaiter(Owner, "destroy", NoTask)
    /\ UNCHANGED <<queue, memory, worker, handles>>

\* owner_closed under the lock: the owner disposes if no record is outstanding.
Close ==
    /\ waiter[Owner].pc = "close"
    /\ state' = [state EXCEPT !.ownerClosed = 1]
    /\ GoWaiter(Owner, IF state.outstanding = 0 THEN "destroy" ELSE "closing", NoTask)
    /\ UNCHANGED <<queue, memory, worker, handles>>

\* pool.handle <- null, after disposing of the state if that is the owner's task.
Closed ==
    /\ waiter[Owner].pc \in {"destroy", "closing"}
    /\ state' = [state EXCEPT !.alive = @ /\ waiter[Owner].pc # "destroy"]
    /\ handle' = "null"
    /\ GoWaiter(Owner, "free", NoTask)
    /\ UNCHANGED <<queue, memory, worker, held, group, rest, cleanup>>

Waiting(p) == WaitForDone(p) \/ CountDown(p) \/ Dispose(p) \/ FreeRecord(p) \/ TakeResult(p)

Owning == NextOfGroup \/ ReleaseGroup \/ Join \/ Close \/ Closed

Starting ==
    \/ \E t \in Task, p \in Waiter : Submit(t, p)
    \/ \E c \in Client : BeginAwait(c)
    \/ BeginWaitAll
    \/ Shutdown

\* The owner has closed the pool and every handle has been consumed.
Over ==
    /\ handle = "null"
    /\ \A p \in Waiter : waiter[p].pc = "free"
    /\ \A c \in Client : held[c] = <<>>
    /\ group = <<>>

Next ==
    \/ Starting
    \/ \E w \in Worker : Working(w) \/ WakeSpuriously(w)
    \/ \E p \in Waiter : Waiting(p) \/ WakeWaiterSpuriously(p)
    \/ Owning
    \/ Over /\ UNCHANGED vars

Spec == Init /\ [][Next]_vars

\* Threads keep running, tasks return, and a thread that waits for the mutex gets
\* it; callers need not submit, await or shut down.
FairSpec ==
    /\ Spec
    /\ \A w \in Worker : WF_vars(Working(w))
    /\ \A p \in Waiter : WF_vars(Waiting(p))
    /\ WF_vars(Owning)

-----------------------------------------------------------------------------
(* Properties.                                                             *)

Submitted == {t \in Task : record[t] # "none"}

\* The record of t is still to be waited for.
Pending(t) ==
    \/ \E c \in Client : \E i \in DOMAIN held[c] : held[c][i] = t
    \/ \E p \in Waiter : waiter[p].task = t /\ waiter[p].pc \in {"check", "asleep"}
    \/ \E i \in DOMAIN rest : rest[i] = t
    \/ waiter[Owner].pc \notin {"check", "asleep", "dispose", "waited"}
         /\ \E i \in DOMAIN group : group[i] = t

\* Every variable has the type of the field it models.
TypeOK ==
    /\ state \in [alive : BOOLEAN, shutdown : {0, 1}, outstanding : Nat, ownerClosed : {0, 1}]
    /\ queue \in Seq(Task)
    /\ record \in [Task -> {"none", "live", "freed"}]
    /\ done \in [Task -> {0, 1}]
    /\ refs \in [Task -> 0..2]
    /\ result \in [Task -> {"raw", "written"}]
    /\ worker \in [Worker -> [pc : {"idle", "asleep", "running", "returning", "finishing", "exited"},
                              task : Task \cup {NoTask}]]
    /\ waiter \in [Waiter -> [pc : {"free", "check", "asleep", "dispose", "waited", "result",
                                    "cleanup", "join", "close", "destroy", "closing"},
                              task : Task \cup {NoTask}]]
    /\ held \in [Client -> Seq(Task)]
    /\ group \in Seq(Task) /\ rest \in Seq(Task) /\ cleanup \in Seq(Task)
    /\ handle \in {"open", "null"}

\* Client or owner p keeps the handle of t.
Holds(p, t) ==
    IF p = Owner THEN t \in Range(group) \cup Range(cleanup)
    ELSE t \in Range(held[p]) \/ waiter[p].task = t

Held(t) == \E p \in Waiter : Holds(p, t)

\* The pool has its reference to the work state of t.
Unreturned(t) ==
    \/ t \in Range(queue)
    \/ \E w \in Worker : worker[w].task = t /\ worker[w].pc \in {"running", "returning"}

Outstanding == {t \in Task : Pending(t)}

Disposing(p) == waiter[p].pc \in {"dispose", "destroy"}

\* A task is in the queue once, or with one worker, until it is done.
QueueInv ==
    /\ IsInjective(queue)
    /\ \A w \in Worker :
          /\ worker[w].task = NoTask <=> worker[w].pc \in {"idle", "asleep", "exited"}
          /\ worker[w].task \notin Range(queue)
          /\ worker[w].pc \in {"returning", "finishing"} => result[worker[w].task] = "written"
          /\ \A v \in Worker : worker[v].task = worker[w].task /\ worker[w].task # NoTask => v = w
    /\ \A t \in Task : done[t] = 1 =>
          /\ result[t] = "written" /\ t \notin Range(queue)
          /\ \A w \in Worker : worker[w].task # t

\* A handle is with one thread, and there in one place; the owner waits for its
\* group in order, and goes on when a task is done.
HandleInv ==
    /\ \A p, q \in Waiter, t \in Task : Holds(p, t) /\ Holds(q, t) => p = q
    /\ \A p \in Waiter :
          /\ waiter[p].task = NoTask <=>
               waiter[p].pc \in {"free", "cleanup", "join", "close", "destroy", "closing"}
          /\ waiter[p].pc \in {"dispose", "waited", "result"} => done[waiter[p].task] = 1
    /\ \A c \in Client :
          /\ IsInjective(held[c]) /\ waiter[c].task \notin Range(held[c])
          /\ waiter[c].pc \in {"free", "check", "asleep", "dispose", "waited", "result"}
    /\ waiter[Owner].pc # "result"
    /\ IsInjective(group) /\ IsInjective(rest) /\ IsInjective(cleanup)
    /\ IF waiter[Owner].task = NoTask THEN rest = <<>>
       ELSE /\ waiter[Owner].task \in Range(group) \ Range(rest)
            /\ Range(rest) \subseteq Range(group)
            /\ \A t \in Range(group) \ Range(rest) : t # waiter[Owner].task => done[t] = 1
    /\ IF waiter[Owner].pc = "cleanup" THEN group = <<>> ELSE cleanup = <<>>
    /\ \A t \in Range(cleanup) : done[t] = 1

\* refs counts the pool and the handle; the record is freed by the handle's holder.
ReferenceInv ==
    \A t \in Task :
       /\ refs[t] = (IF Unreturned(t) THEN 1 ELSE 0) + (IF Held(t) THEN 1 ELSE 0)
       /\ record[t] = "none" =>
            /\ done[t] = 0 /\ ~Held(t) /\ t \notin Range(queue)
            /\ \A w \in Worker : worker[w].task # t
       /\ record[t] = "live" => Held(t)
       /\ record[t] = "freed" => done[t] = 1
       /\ \A p \in Waiter : Holds(p, t) =>
            (record[t] = "freed" <=> waiter[p].task = t /\ waiter[p].pc = "result")

\* The owner closes the pool when the workers are gone; once it has, the pool state
\* is disposed of as soon as nothing is outstanding, by one thread.
ShutdownInv ==
    /\ handle = "null" => waiter[Owner].pc \notin {"join", "close", "destroy", "closing"}
    /\ state.shutdown = 1 <=>
         handle = "null" \/ waiter[Owner].pc \in {"join", "close", "destroy", "closing"}
    /\ state.ownerClosed = 1 <=> handle = "null" \/ waiter[Owner].pc \in {"destroy", "closing"}
    /\ \A w \in Worker : worker[w].pc = "exited" => state.shutdown = 1 /\ queue = <<>>
    /\ state.ownerClosed = 1 \/ waiter[Owner].pc = "close" =>
         \A w \in Worker : worker[w].pc = "exited"
    /\ (\E p \in Waiter : Disposing(p)) => state.alive
    /\ ~state.alive \/ (\E p \in Waiter : Disposing(p)) <=>
         state.ownerClosed = 1 /\ state.outstanding = 0
    /\ \A p, q \in Waiter : Disposing(p) /\ Disposing(q) => p = q
    /\ \A p \in Waiter : waiter[p].pc = "destroy" => p = Owner

\* The inductive invariant of the pool.
PoolInv ==
    /\ TypeOK
    /\ QueueInv
    /\ HandleInv
    /\ ReferenceInv
    /\ ShutdownInv
    /\ state.outstanding = Cardinality(Outstanding)

\* No thread ever touches freed memory: the pool state outlives every worker and
\* everyone who is or will be waiting, is destroyed once, a record outlives its
\* place in the queue, its worker and its waiters, and a result is taken after it
\* was written and before it is freed (ctx_pool_state_destroy: "The pool owner and
\* every outstanding completion record share this state").
MemorySafe ==
    /\ ~state.alive =>
         /\ \A w \in Worker : worker[w].pc = "exited"
         /\ \A p \in Waiter : waiter[p].pc \notin {"check", "asleep", "dispose", "join", "close", "destroy"}
         /\ \A t \in Task : ~Pending(t)
    /\ Cardinality({p \in Waiter : waiter[p].pc \in {"dispose", "destroy"}}) <= 1
    /\ \A t \in Task : record[t] = "freed" =>
         /\ \A i \in DOMAIN queue : queue[i] # t
         /\ \A w \in Worker : worker[w].task # t
         /\ ~Pending(t)
         /\ \A i \in DOMAIN cleanup : cleanup[i] # t
    /\ \A w \in Worker : worker[w].pc \in {"running", "returning"} => refs[worker[w].task] > 0
    /\ \A c \in Client : waiter[c].pc = "result" =>
         refs[waiter[c].task] > 0 /\ result[waiter[c].task] = "written"

\* outstanding_records counts the records whose wait has not finished.
OutstandingCounts == state.outstanding = Cardinality(Outstanding)

\* When the owner has closed the pool and every handle has been consumed, nothing
\* is left allocated: whoever came last destroyed the pool state.
NothingLeaked ==
    Over => ~state.alive /\ \A t \in Submitted : record[t] = "freed" /\ refs[t] = 0

\* As long as some worker sleeps, enough others are awake for all queued tasks: no
\* signal on work_cond is lost or misdirected (pool_submit_raw signals one worker).
WorkConserving ==
    Asleep # {} => Len(queue) <= Cardinality({w \in Worker : worker[w].pc = "idle"})

\* Every submitted task is eventually done, also when the pool is being shut down.
TasksFinish == \A t \in Task : record[t] = "live" ~> done[t] = 1

\* pool_await and task_group_wait_all return.
WaitsReturn == \A p \in Waiter : waiter[p].pc = "check" ~> waiter[p].pc = "free"

\* pool_shutdown returns: every worker notices and can be joined.
ShutdownReturns == waiter[Owner].pc = "join" ~> handle = "null"
=============================================================================
