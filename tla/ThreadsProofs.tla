---------------------------- MODULE ThreadsProofs -----------------------------
(***************************************************************************)
(* For any set of threads, the counted work state that a thread shares     *)
(* with the holder of its handle is never touched after it was freed.      *)
(***************************************************************************)
EXTENDS Threads, TLAPS

\* The initial state satisfies the invariant.
LEMMA InitInv == Init => ThreadsInv
BY DEF Init, ThreadsInv, TypeOK, At, Side, Reference

\* Every step of spawn1, poll_ready, join, detach and the thread's entry
\* preserves the invariant.
LEMMA StepInv == ThreadsInv /\ [Next]_vars => ThreadsInv'
<1> SUFFICES ASSUME ThreadsInv, [Next]_vars PROVE ThreadsInv'
  OBVIOUS
<1> USE ThreadsAssumption DEF ThreadsInv, TypeOK, At, Go, Side, Reference, state
<1>1. ASSUME NEW t \in Thread, Spawn(t) PROVE ThreadsInv'
  BY <1>1 DEF Spawn
<1>2. ASSUME NEW t \in Thread, PollReady(t) PROVE ThreadsInv'
  BY <1>2 DEF PollReady
<1>3. ASSUME NEW t \in Thread, Join(t) PROVE ThreadsInv'
  BY <1>3 DEF Join
<1>4. ASSUME NEW t \in Thread, TakeResult(t) PROVE ThreadsInv'
  BY <1>4 DEF TakeResult
<1>5. ASSUME NEW t \in Thread, Detach(t) PROVE ThreadsInv'
  BY <1>5 DEF Detach
<1>6. ASSUME NEW t \in Thread, RunBody(t) PROVE ThreadsInv'
  BY <1>6 DEF RunBody
<1>7. ASSUME NEW t \in Thread, Publish(t) PROVE ThreadsInv'
  BY <1>7 DEF Publish
<1>8. ASSUME NEW t \in Thread, NEW side \in Side, LoadRefs(t, side) PROVE ThreadsInv'
  <2>1. CASE side = "thread"
    BY <1>8, <2>1, SMTT(30) DEF LoadRefs
  <2>2. CASE side = "holder"
    BY <1>8, <2>2, SMTT(30) DEF LoadRefs
  <2> QED
    BY <2>1, <2>2, SMTT(30)
<1>9. ASSUME NEW t \in Thread, NEW side \in Side, Exchange(t, side) PROVE ThreadsInv'
  <2>1. CASE refs[t] = seen[t][side] /\ side = "thread"
    <3>1. /\ refs' = [refs EXCEPT ![t] = @ - 1]
          /\ pc' = [pc EXCEPT ![t].thread = IF refs[t] - 1 = 0 THEN "free" ELSE "done"]
          /\ seen' = [seen EXCEPT ![t].thread = NotSeen]
          /\ UNCHANGED <<memory, completed, result, polled>>
          /\ pc[t].thread = "exchange"
      BY <1>9, <2>1, Zenon DEF Exchange
    <3>2. TypeOK'
      BY <3>1
    <3> QED
      BY <3>1, <3>2
  <2>2. CASE refs[t] = seen[t][side] /\ side = "holder"
    <3>1. /\ refs' = [refs EXCEPT ![t] = @ - 1]
          /\ pc' = [pc EXCEPT ![t].holder = IF refs[t] - 1 = 0 THEN "free" ELSE "done"]
          /\ seen' = [seen EXCEPT ![t].holder = NotSeen]
          /\ UNCHANGED <<memory, completed, result, polled>>
          /\ pc[t].holder = "exchange"
      BY <1>9, <2>2, Zenon DEF Exchange
    <3>2. TypeOK'
      BY <3>1
    <3> QED
      BY <3>1, <3>2
  <2>3. CASE refs[t] # seen[t][side] /\ side = "thread"
    <3>1. /\ UNCHANGED refs
          /\ pc' = [pc EXCEPT ![t].thread = "load"]
          /\ seen' = [seen EXCEPT ![t].thread = NotSeen]
          /\ UNCHANGED <<memory, completed, result, polled>>
          /\ pc[t].thread = "exchange"
      BY <1>9, <2>3, Zenon DEF Exchange
    <3>2. TypeOK'
      BY <3>1
    <3> QED
      BY <3>1, <3>2
  <2>4. CASE refs[t] # seen[t][side] /\ side = "holder"
    <3>1. /\ UNCHANGED refs
          /\ pc' = [pc EXCEPT ![t].holder = "load"]
          /\ seen' = [seen EXCEPT ![t].holder = NotSeen]
          /\ UNCHANGED <<memory, completed, result, polled>>
          /\ pc[t].holder = "exchange"
      BY <1>9, <2>4, Zenon DEF Exchange
    <3>2. TypeOK'
      BY <3>1
    <3> QED
      BY <3>1, <3>2
  <2> QED
    BY <2>1, <2>2, <2>3, <2>4, SMTT(30)
<1>10. ASSUME NEW t \in Thread, NEW side \in Side, Free(t, side) PROVE ThreadsInv'
  <2>1. CASE side = "thread"
    BY <1>10, <2>1 DEF Free
  <2>2. CASE side = "holder"
    BY <1>10, <2>2 DEF Free
  <2> QED
    BY <2>1, <2>2, SMTT(30)
<1>11. CASE UNCHANGED vars
  BY <1>11 DEF vars
<1> HIDE DEF ThreadsInv
<1> QED
  BY <1>1, <1>2, <1>3, <1>4, <1>5, <1>6, <1>7, <1>8, <1>9, <1>10, <1>11
  DEF Next, Release, Finished

\* Every reachable state satisfies the inductive invariant.
THEOREM ThreadsInvariant == Spec => []ThreadsInv
BY InitInv, StepInv, PTL DEF Spec

\* No reachable state has a side about to touch, or to free again, a work
\* state that was freed.
THEOREM ThreadsMemorySafe == Spec => []WorkStateSafe
<1>1. ThreadsInv => WorkStateSafe
  <2> SUFFICES ASSUME ThreadsInv, NEW t \in Thread
               PROVE  /\ Touching(t, "thread") => memory[t] = "live"
                      /\ Touching(t, "holder") => memory[t] = "live"
                      /\ ~ (At(t, "thread", "free") /\ At(t, "holder", "free"))
    BY Zenon DEF WorkStateSafe, Side
  <2> QED
    BY DEF ThreadsInv, TypeOK, Touching, At
<1> QED
  BY <1>1, ThreadsInvariant, PTL

\* join and a poll that answered complete find a result that was written.
THEOREM ThreadsResultsReady == Spec => []ResultsReady
<1>1. ThreadsInv => ResultsReady
  BY SMTT(30) DEF ThreadsInv, TypeOK, ResultsReady, At
<1> QED
  BY <1>1, ThreadsInvariant, PTL

\* poll_ready reads a completion word that the thread sets once and nobody
\* clears, so a caller that has been told "complete" is never told otherwise.
THEOREM ThreadsCompletionSticks == Spec => CompletionSticks
<1>1. ThreadsInv /\ [Next]_vars => [\A t \in Thread : polled[t] => polled'[t]]_vars
  <2> SUFFICES ASSUME ThreadsInv, [Next]_vars, NEW t \in Thread, polled[t]
               PROVE  polled'[t] \/ UNCHANGED vars
    OBVIOUS
  <2>1. ASSUME NEW u \in Thread, PollReady(u) PROVE polled'[t]
    BY <2>1 DEF PollReady, ThreadsInv, TypeOK
  <2>2. CASE UNCHANGED polled
    BY <2>2
  <2> QED
    BY <2>1, <2>2
    DEF Next, Spawn, Join, TakeResult, Detach, RunBody, Publish, Release, LoadRefs, Exchange, Free, Finished
<1> QED
  BY <1>1, ThreadsInvariant, PTL DEF Spec, CompletionSticks

=============================================================================
