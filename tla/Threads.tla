------------------------------- MODULE Threads --------------------------------
(***************************************************************************)
(* Joinable threads of the language runtime: spawn1, poll_ready, join and  *)
(* detach in elisacore_runtime_concurrency.elisa.                          *)
(*                                                                         *)
(* A thread and the holder of its handle share one ConcurrencyWorkStart1,  *)
(* which holds the argument, the result and a count of two references.     *)
(* Each side drops its reference with a compare-exchange loop; the side    *)
(* that takes the count to zero frees the state.  The handle is linear, so *)
(* at any time one thread holds it and acts as the "holder" below.         *)
(***************************************************************************)
EXTENDS Integers

CONSTANTS
    Thread,    \* the threads that may be spawned
    NotSeen    \* "no value loaded yet" of a compare-exchange loop

ASSUME ThreadsAssumption == NotSeen \notin Int

Side == {"thread", "holder"}

VARIABLES
    pc,         \* where each side of each thread is
    memory,     \* the work state: "none", "live" or "freed"
    refs,       \* ConcurrencyWorkStart1.refs
    completed,  \* ConcurrencyWorkStart1.completed
    result,     \* the result storage: "raw" or "written"
    seen,       \* the value a side's release loop has loaded
    polled      \* the last answer of poll_ready

state == <<memory, refs, completed, result>>
vars == <<pc, state, seen, polled>>

Init ==
    /\ pc = [t \in Thread |-> [thread |-> "none", holder |-> "none"]]
    /\ memory = [t \in Thread |-> "none"]
    /\ refs = [t \in Thread |-> 0]
    /\ completed = [t \in Thread |-> 0]
    /\ result = [t \in Thread |-> "raw"]
    /\ seen = [t \in Thread |-> [thread |-> NotSeen, holder |-> NotSeen]]
    /\ polled = [t \in Thread |-> FALSE]

At(t, side, place) == pc[t][side] = place
Go(t, side, place) == pc' = [pc EXCEPT ![t][side] = place]

-----------------------------------------------------------------------------
(* The holder of the handle.                                               *)

\* spawn1: ctx_concurrency_work1_new and spawn_raw.
Spawn(t) ==
    /\ At(t, "holder", "none")
    /\ memory' = [memory EXCEPT ![t] = "live"]
    /\ refs' = [refs EXCEPT ![t] = 2]
    /\ pc' = [pc EXCEPT ![t] = [thread |-> "body", holder |-> "holds"]]
    /\ UNCHANGED <<completed, result, seen, polled>>

PollReady(t) ==
    /\ At(t, "holder", "holds")
    /\ polled' = [polled EXCEPT ![t] = completed[t] = 1]
    /\ UNCHANGED <<pc, state, seen>>

\* Mutant: join does not wait for the thread.
JoinNoWait(t) ==
    /\ At(t, "holder", "holds")
    /\ Go(t, "holder", "take")
    /\ UNCHANGED <<state, seen, polled>>

\* join_raw returns when the thread has exited.
Join(t) ==
    /\ At(t, "holder", "holds")
    /\ At(t, "thread", "done")
    /\ Go(t, "holder", "take")
    /\ UNCHANGED <<state, seen, polled>>

\* ctx_concurrency_work1_take_result up to its release.
TakeResult(t) ==
    /\ At(t, "holder", "take")
    /\ Go(t, "holder", "load")
    /\ UNCHANGED <<state, seen, polled>>

\* detach, and spawn_daemon after its spawn1.
Detach(t) ==
    /\ At(t, "holder", "holds")
    /\ Go(t, "holder", "load")
    /\ UNCHANGED <<state, seen, polled>>

-----------------------------------------------------------------------------
(* The thread: ctx_concurrency_work1_entry.                                *)

RunBody(t) ==
    /\ At(t, "thread", "body")
    /\ result' = [result EXCEPT ![t] = "written"]
    /\ Go(t, "thread", "publish")
    /\ UNCHANGED <<memory, refs, completed, seen, polled>>

Publish(t) ==
    /\ At(t, "thread", "publish")
    /\ completed' = [completed EXCEPT ![t] = 1]
    /\ Go(t, "thread", "load")
    /\ UNCHANGED <<memory, refs, result, seen, polled>>

-----------------------------------------------------------------------------
(* ctx_concurrency_work1_release, by either side.                          *)

LoadRefs(t, side) ==
    /\ At(t, side, "load")
    /\ seen' = [seen EXCEPT ![t][side] = refs[t]]
    /\ Go(t, side, "exchange")
    /\ UNCHANGED <<state, polled>>

\* Mutant: the count is stored without comparing it with what was loaded.
ExchangeStores(t, side) ==
    /\ At(t, side, "exchange")
    /\ refs' = [refs EXCEPT ![t] = seen[t][side] - 1]
    /\ Go(t, side, IF seen[t][side] - 1 = 0 THEN "free" ELSE "done")
    /\ seen' = [seen EXCEPT ![t][side] = NotSeen]
    /\ UNCHANGED <<memory, completed, result, polled>>

\* Mutant: whoever drops a reference frees the state.
ExchangeFrees(t, side) ==
    /\ At(t, side, "exchange")
    /\ refs[t] = seen[t][side]
    /\ refs' = [refs EXCEPT ![t] = @ - 1]
    /\ Go(t, side, "free")
    /\ seen' = [seen EXCEPT ![t][side] = NotSeen]
    /\ UNCHANGED <<memory, completed, result, polled>>

\* Mutant: whoever drops a reference resets the completion word for the next use.
ExchangeClears(t, side) ==
    /\ At(t, side, "exchange")
    /\ \/ /\ refs[t] = seen[t][side]
          /\ refs' = [refs EXCEPT ![t] = @ - 1]
          /\ completed' = [completed EXCEPT ![t] = 0]
          /\ Go(t, side, IF refs[t] - 1 = 0 THEN "free" ELSE "done")
       \/ /\ refs[t] # seen[t][side]
          /\ Go(t, side, "load")
          /\ UNCHANGED <<refs, completed>>
    /\ seen' = [seen EXCEPT ![t][side] = NotSeen]
    /\ UNCHANGED <<memory, result, polled>>

Exchange(t, side) ==
    /\ At(t, side, "exchange")
    /\ \/ /\ refs[t] = seen[t][side]
          /\ refs' = [refs EXCEPT ![t] = @ - 1]
          /\ Go(t, side, IF refs[t] - 1 = 0 THEN "free" ELSE "done")
       \/ /\ refs[t] # seen[t][side]
          /\ Go(t, side, "load")
          /\ UNCHANGED refs
    /\ seen' = [seen EXCEPT ![t][side] = NotSeen]
    /\ UNCHANGED <<memory, completed, result, polled>>

Free(t, side) ==
    /\ At(t, side, "free")
    /\ memory' = [memory EXCEPT ![t] = "freed"]
    /\ Go(t, side, "done")
    /\ UNCHANGED <<refs, completed, result, seen, polled>>

Release(t, side) == LoadRefs(t, side) \/ Exchange(t, side) \/ Free(t, side)

\* Both handles are spent and both threads are gone.
Finished ==
    /\ \A t \in Thread : At(t, "holder", "done") /\ At(t, "thread", "done")
    /\ UNCHANGED vars

Next ==
    \/ \E t \in Thread :
        \/ Spawn(t) \/ PollReady(t) \/ Join(t) \/ TakeResult(t) \/ Detach(t)
        \/ RunBody(t) \/ Publish(t)
        \/ \E side \in Side : Release(t, side)
    \/ Finished

\* The scheduler runs a thread that can run; a holder may keep its handle.
Fairness ==
    \A t \in Thread :
        /\ WF_vars(RunBody(t)) /\ WF_vars(Publish(t)) /\ WF_vars(TakeResult(t))
        /\ \A side \in Side : WF_vars(Release(t, side))

Spec == Init /\ [][Next]_vars /\ Fairness

-----------------------------------------------------------------------------
(* Properties.                                                             *)

TypeOK ==
    /\ pc \in [Thread -> [thread : {"none", "body", "publish", "load", "exchange", "free", "done"},
                          holder : {"none", "holds", "take", "load", "exchange", "free", "done"}]]
    /\ memory \in [Thread -> {"none", "live", "freed"}]
    /\ refs \in [Thread -> 0..2]
    /\ completed \in [Thread -> 0..1]
    /\ result \in [Thread -> {"raw", "written"}]
    /\ seen \in [Thread -> [thread : 0..2 \cup {NotSeen}, holder : 0..2 \cup {NotSeen}]]
    /\ polled \in [Thread -> BOOLEAN]

\* A place where the side reads, writes or frees the work state.
Touching(t, side) == pc[t][side] \notin {"none", "done"}

\* Nobody reads, writes or frees a work state that has been freed, and no two
\* sides free it: compare-exchange loop, detach and poll_ready included.
WorkStateSafe ==
    \A t \in Thread :
        /\ \A side \in Side : Touching(t, side) => memory[t] = "live"
        /\ ~ (At(t, "thread", "free") /\ At(t, "holder", "free"))

\* join takes a result that has been written, and a poll that answered
\* complete means that the result is there to be read.
ResultsReady ==
    \A t \in Thread : (At(t, "holder", "take") \/ polled[t]) => result[t] = "written"

\* One reference while a side has not yet dropped its own.
Reference(t, side) == IF pc[t][side] \in {"none", "free", "done"} THEN 0 ELSE 1

\* The inductive invariant.  The count of a work state is the number of sides
\* that have not dropped their reference yet; a side frees it when the other is
\* done with it; the thread writes the result, then publishes, then releases.
ThreadsInv ==
    /\ TypeOK
    /\ \A t \in Thread :
        /\ At(t, "holder", "none") <=> At(t, "thread", "none")
        /\ At(t, "holder", "none") <=> memory[t] = "none"
        /\ refs[t] = Reference(t, "thread") + Reference(t, "holder")
        /\ memory[t] = "freed" => At(t, "thread", "done") /\ At(t, "holder", "done")
        /\ At(t, "thread", "free") => At(t, "holder", "done")
        /\ At(t, "holder", "free") => At(t, "thread", "done")
        /\ \A side \in Side : At(t, side, "exchange") => seen[t][side] \in 1..2
        /\ pc[t].thread \notin {"none", "body"} => result[t] = "written"
        /\ polled[t] => completed[t] = 1
        /\ completed[t] = 1 <=> pc[t].thread \notin {"none", "body", "publish"}
        /\ At(t, "holder", "take") => At(t, "thread", "done")

\* A handle that was joined or detached frees its state once the thread ends.
StatesFreed ==
    \A t \in Thread : (pc[t].holder \in {"take", "load", "exchange", "free", "done"}) ~> (memory[t] = "freed")

\* Once poll_ready has answered complete it never answers otherwise.
CompletionSticks == [][\A t \in Thread : polled[t] => polled'[t]]_vars

=============================================================================
