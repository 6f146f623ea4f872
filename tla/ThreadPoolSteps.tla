--------------------------- MODULE ThreadPoolSteps ----------------------------
(***************************************************************************)
(* The steps of workers, submitters and waiters of the pool, and of the    *)
(* last waiter that counts a task down, preserve PoolInv for any numbers   *)
(* of workers, tasks and clients.                                          *)
(***************************************************************************)
EXTENDS ThreadPool, FiniteSetTheorems, SequenceTheorems, TLAPS

(* The empty queue, and only it, has no elements. *)
LEMMA RangeEmpty ==
    /\ Range(<<>>) = {} /\ IsInjective(<<>>)
    /\ \A S : \A s \in Seq(S) : s # <<>> => Range(s) # {}
<1>1. Range(<<>>) = {} /\ IsInjective(<<>>)
  BY SMTT(60) DEF Range, IsInjective
<1>2. ASSUME NEW S, NEW s \in Seq(S), s # <<>> PROVE Range(s) # {}
  <2>1. Len(s) \in Nat \ {0} /\ DOMAIN s = 1 .. Len(s)
    BY <1>2, EmptySeq, LenProperties, Zenon
  <2>2. 1 \in DOMAIN s
    BY <2>1, SMTT(60)
  <2>3. s[1] \in Range(s)
    BY <2>2, Zenon DEF Range
  <2> QED
    BY <2>3, Zenon
<1> QED
  BY <1>1, <1>2, Zenon

(* A new element at the end. *)
LEMMA RangeAppend ==
    ASSUME NEW S, NEW s \in Seq(S), NEW e \in S
    PROVE  /\ Append(s, e) \in Seq(S) /\ Len(Append(s, e)) = Len(s) + 1
           /\ Range(Append(s, e)) = Range(s) \cup {e}
           /\ IsInjective(s) /\ e \notin Range(s) => IsInjective(Append(s, e))
<1>1. /\ Append(s, e) \in Seq(S) /\ Len(Append(s, e)) = Len(s) + 1
      /\ \A i \in 1 .. Len(s) : Append(s, e)[i] = s[i]
      /\ Append(s, e)[Len(s) + 1] = e
  BY AppendProperties, SMTT(60)
<1>2. Len(s) \in Nat /\ DOMAIN s = 1 .. Len(s) /\ DOMAIN Append(s, e) = 1 .. Len(s) + 1
  BY <1>1, LenProperties, Zenon
<1>3. \A i \in 1 .. Len(s) + 1 : i \in 1 .. Len(s) \/ i = Len(s) + 1
  BY <1>2, SMTT(60)
<1>4. \A i \in 1 .. Len(s) : i \in 1 .. Len(s) + 1
  BY <1>2, SMTT(60)
<1>5. Range(Append(s, e)) = Range(s) \cup {e}
  <2>1. Len(s) + 1 \in 1 .. Len(s) + 1
    BY <1>2, SMTT(60)
  <2> QED
    BY <1>1, <1>2, <1>3, <1>4, <2>1, Zenon DEF Range
<1>6. ASSUME IsInjective(s), e \notin Range(s) PROVE IsInjective(Append(s, e))
  BY <1>1, <1>2, <1>3, <1>6, Zenon DEF Range, IsInjective
<1> QED
  BY <1>1, <1>5, <1>6, Zenon

(* The first element is taken. *)
LEMMA RangeTail ==
    ASSUME NEW S, NEW s \in Seq(S), s # <<>>, IsInjective(s)
    PROVE  /\ Head(s) \in S /\ Tail(s) \in Seq(S) /\ Len(Tail(s)) = Len(s) - 1
           /\ Head(s) \in Range(s)
           /\ Range(Tail(s)) = Range(s) \ {Head(s)}
           /\ IsInjective(Tail(s))
<1>1. /\ Head(s) \in S /\ Tail(s) \in Seq(S) /\ Len(Tail(s)) = Len(s) - 1
      /\ \A i \in 1 .. Len(Tail(s)) : Tail(s)[i] = s[i+1]
  BY HeadTailProperties, Zenon
<1>2. /\ Len(s) \in Nat \ {0} /\ DOMAIN s = 1 .. Len(s) /\ DOMAIN Tail(s) = 1 .. Len(s) - 1
      /\ Head(s) = s[1]
  BY <1>1, LenProperties, EmptySeq, SMTT(60)
<1>3. \A i \in 1 .. Len(s) : i = 1 \/ (i - 1 \in 1 .. Len(s) - 1 /\ Tail(s)[i - 1] = s[i])
  BY <1>1, <1>2, SMTT(60)
<1>4. \A i \in 1 .. Len(s) - 1 : i + 1 \in 1 .. Len(s) /\ i + 1 # 1 /\ Tail(s)[i] = s[i + 1]
  BY <1>1, <1>2, SMTT(60)
<1>5. Head(s) \in Range(s)
  BY <1>2, SMTT(60) DEF Range
<1>6. \A x \in Range(s) : x = Head(s) \/ x \in Range(Tail(s))
  BY <1>2, <1>3, ZenonT(60) DEF Range
<1>7. \A x \in Range(Tail(s)) : x \in Range(s) /\ x # Head(s)
  BY <1>2, <1>4, SMTT(60) DEF Range, IsInjective
<1>8. IsInjective(Tail(s))
  BY <1>2, <1>4, SMTT(60) DEF IsInjective
<1> QED
  BY <1>1, <1>5, <1>6, <1>7, <1>8, Zenon

(* Two sequences without a common element. *)
LEMMA RangeConcat ==
    ASSUME NEW S, NEW s \in Seq(S), NEW u \in Seq(S)
    PROVE  /\ s \o u \in Seq(S)
           /\ Range(s \o u) = Range(s) \cup Range(u)
           /\ IsInjective(s) /\ IsInjective(u) /\ Range(s) \cap Range(u) = {} =>
                IsInjective(s \o u)
<1>1. s \o u \in Seq(S) /\ Range(s \o u) = Range(s) \cup Range(u)
  BY ConcatProperties, RangeConcatenation, ZenonT(60)
<1>2. ASSUME IsInjective(s), IsInjective(u), Range(s) \cap Range(u) = {}
      PROVE  IsInjective(s \o u)
  <2>1. /\ Len(s) \in Nat /\ Len(u) \in Nat
        /\ DOMAIN s = 1 .. Len(s) /\ DOMAIN u = 1 .. Len(u)
        /\ DOMAIN (s \o u) = 1 .. Len(s) + Len(u)
    BY <1>1, LenProperties, ConcatProperties, Zenon
  <2>2. \A i \in 1 .. Len(s) + Len(u) : (s \o u)[i] = IF i <= Len(s) THEN s[i] ELSE u[i - Len(s)]
    BY ConcatProperties, Zenon
  <2>3. \A i \in 1 .. Len(s) + Len(u) :
           \/ i \in DOMAIN s /\ (s \o u)[i] = s[i] /\ (s \o u)[i] \in Range(s)
           \/ /\ i - Len(s) \in DOMAIN u /\ (s \o u)[i] = u[i - Len(s)]
              /\ (s \o u)[i] \in Range(u)
    BY <2>1, <2>2, SMTT(60) DEF Range
  <2> QED
    BY <1>2, <2>1, <2>3, SMTT(60) DEF IsInjective
<1> QED
  BY <1>1, <1>2, Zenon

(* A new element in front. *)
LEMMA RangeCons ==
    ASSUME NEW S, NEW s \in Seq(S), NEW e \in S
    PROVE  /\ <<e>> \o s \in Seq(S)
           /\ Range(<<e>> \o s) = Range(s) \cup {e}
           /\ IsInjective(s) /\ e \notin Range(s) => IsInjective(<<e>> \o s)
<1>0. <<e>> \in Seq(S) /\ Len(<<e>>) = 1 /\ <<e>>[1] = e
  OBVIOUS
<1>a. DOMAIN <<e>> = {1}
  <2>1. DOMAIN <<e>> = 1 .. 1
    BY <1>0, LenProperties, Zenon
  <2>2. 1 .. 1 = {1}
    OBVIOUS
  <2> QED
    BY <2>1, <2>2, Zenon
<1> DEFINE u == <<e>>
<1>b. u[1] = e /\ DOMAIN u = {1}
  BY <1>0, <1>a, Zenon
<1> HIDE DEF u
<1>1. Range(u) = {e} /\ IsInjective(u)
  BY <1>b, Zenon DEF Range, IsInjective
<1>2. /\ u \o s \in Seq(S)
      /\ Range(u \o s) = Range(u) \cup Range(s)
      /\ IsInjective(s) /\ e \notin Range(s) => IsInjective(u \o s)
  <2>1. u \in Seq(S)
    BY <1>0, Zenon DEF u
  <2> QED
    BY <1>1, <2>1, RangeConcat, ZenonT(60)
<1> QED
  BY <1>1, <1>2, Zenon DEF u

------------------------------------------------------------------------------
(* A pool that was just created. *)
LEMMA InitPoolInv == Init => PoolInv
<1> SUFFICES ASSUME Init PROVE PoolInv
  BY Zenon
<1> USE RangeEmpty, PoolAssumption DEF Init
<1>1. TypeOK
  BY SMTT(60) DEF TypeOK, Waiter
<1>2. QueueInv
  BY SMTT(60) DEF QueueInv
<1>3. HandleInv
  BY Zenon DEF HandleInv, Holds, Waiter
<1>4. ReferenceInv
  BY SMTT(60) DEF ReferenceInv, Held, Holds, Waiter, Unreturned
<1>5. ShutdownInv
  BY SMTT(60) DEF ShutdownInv, Waiter, Disposing
<1>6. state.outstanding = Cardinality(Outstanding)
  <2>1. Outstanding = {}
    BY SMTT(60) DEF Outstanding, Pending, Waiter
  <2> QED
    BY <2>1, FS_EmptySet, Zenon
<1> QED
  BY <1>1, <1>2, <1>3, <1>4, <1>5, <1>6, Zenon DEF PoolInv

(* What the workers do leaves the handles where they are. *)
LEMMA HandlesFrame ==
    ASSUME UNCHANGED <<waiter, held, group, rest, cleanup>>
    PROVE  /\ \A p, t : Holds(p, t)' = Holds(p, t)
           /\ \A t : Held(t)' = Held(t)
           /\ Outstanding' = Outstanding
           /\ HandleInv /\ UNCHANGED done => HandleInv'
BY SMTT(60) DEF Holds, Held, Outstanding, Pending, HandleInv

(* What the waiters do leaves the queue and the workers as they are. *)
LEMMA QueueFrame ==
    ASSUME UNCHANGED <<queue, worker>>
    PROVE  /\ \A t : Unreturned(t)' = Unreturned(t)
           /\ QueueInv /\ UNCHANGED <<result, done>> => QueueInv'
BY Zenon DEF Unreturned, QueueInv

(* A worker takes a task from the queue. *)
LEMMA TakeTaskStep ==
    ASSUME PoolInv, NEW w \in Worker, TakeTask(w)
    PROVE  PoolInv'
<1> USE PoolAssumption DEF PoolInv
<1>1. /\ worker[w].pc = "idle" /\ queue # <<>> /\ queue' = Tail(queue)
      /\ worker' = [worker EXCEPT ![w] = [pc |-> "running", task |-> Head(queue)]]
      /\ UNCHANGED <<state, record, done, refs, result, waiter, held, group, rest, cleanup, handle>>
  BY Zenon DEF TakeTask, GoWorker, memory, handles
<1>2. /\ Head(queue) \in Task /\ queue' \in Seq(Task) /\ Head(queue) \in Range(queue)
      /\ Range(queue') = Range(queue) \ {Head(queue)} /\ IsInjective(queue')
  BY <1>1, RangeTail, Zenon DEF TypeOK, QueueInv
<1>3. TypeOK'
  BY <1>1, <1>2, Zenon DEF TypeOK
<1>4. QueueInv'
  BY <1>1, <1>2, SMTT(60) DEF TypeOK, QueueInv
<1>5. HandleInv' /\ Outstanding' = Outstanding /\ \A t : Held(t)' = Held(t)
  BY <1>1, HandlesFrame, Zenon
<1>6. \A t \in Task : Unreturned(t)' = Unreturned(t)
  BY <1>1, <1>2, SMTT(60) DEF TypeOK, QueueInv, Unreturned
<1>7. ReferenceInv'
  BY <1>1, <1>2, <1>5, <1>6, HandlesFrame, SMTT(60) DEF ReferenceInv, TypeOK
<1>8. ShutdownInv'
  BY <1>1, Zenon DEF ShutdownInv, Disposing, TypeOK
<1> QED
  BY <1>1, <1>3, <1>4, <1>5, <1>7, <1>8, Zenon

(* A worker goes to sleep, wakes up or exits. *)
LEMMA SleepStep ==
    ASSUME PoolInv, NEW w \in Worker, WaitForWork(w) \/ WakeSpuriously(w)
    PROVE  PoolInv'
<1> USE PoolAssumption DEF PoolInv
<1>1. PICK pc \in {"idle", "asleep", "exited"} :
          /\ worker' = [worker EXCEPT ![w] = [pc |-> pc, task |-> NoTask]]
          /\ pc = "exited" => state.shutdown = 1 /\ queue = <<>>
  BY Zenon DEF WaitForWork, WakeSpuriously, GoWorker, TypeOK
<1>2. /\ worker[w].pc \in {"idle", "asleep"}
      /\ UNCHANGED <<state, queue, record, done, refs, result, waiter, held, group, rest, cleanup, handle>>
  BY Zenon DEF WaitForWork, WakeSpuriously, memory, handles
<1>3. TypeOK'
  BY <1>1, <1>2, Zenon DEF TypeOK
<1>4. QueueInv'
  BY <1>1, <1>2, SMTT(60) DEF TypeOK, QueueInv
<1>5. HandleInv' /\ Outstanding' = Outstanding /\ \A t : Held(t)' = Held(t)
  BY <1>2, HandlesFrame, Zenon
<1>6. \A t \in Task : Unreturned(t)' = Unreturned(t)
  BY <1>1, <1>2, Zenon DEF TypeOK, QueueInv, Unreturned
<1>7. ReferenceInv'
  BY <1>1, <1>2, <1>5, <1>6, HandlesFrame, SMTT(60) DEF ReferenceInv, TypeOK
<1>8. ShutdownInv'
  BY <1>1, <1>2, ZenonT(60) DEF ShutdownInv, Disposing, TypeOK
<1> QED
  BY <1>2, <1>3, <1>4, <1>5, <1>7, <1>8, Zenon

(* A worker with a task is alone with it. *)
LEMMA Busy ==
    ASSUME TypeOK, QueueInv, NEW w \in Worker,
           worker[w].pc \in {"running", "returning", "finishing"}
    PROVE  LET t == worker[w].task IN
           /\ t \in Task /\ t # NoTask /\ done[t] = 0 /\ t \notin Range(queue)
           /\ worker[w].pc \in {"returning", "finishing"} => result[t] = "written"
           /\ \A v \in Worker : worker[v].task = t => v = w
<1>1. worker[w].task \in Task /\ worker[w].task # NoTask
  BY Zenon DEF TypeOK, QueueInv
<1>2. done[worker[w].task] # 1
  BY <1>1, Zenon DEF QueueInv
<1>3. done[worker[w].task] = 0
  BY <1>1, <1>2, Zenon DEF TypeOK
<1> QED
  BY <1>1, <1>3, Zenon DEF QueueInv

(* The body of a task runs, and the pool's reference is dropped. *)
LEMMA BodyStep ==
    ASSUME PoolInv, NEW w \in Worker, RunBody(w) \/ LeaveBody(w)
    PROVE  PoolInv'
<1> USE PoolAssumption DEF PoolInv
<1>a. PICK t \in Task : worker[w].task = t
  BY Busy, Zenon DEF RunBody, LeaveBody
<1>0. /\ worker[w].pc \in {"running", "returning"} /\ done[t] = 0 /\ t \notin Range(queue)
      /\ t # NoTask /\ \A v \in Worker : worker[v].task = t => v = w
  BY <1>a, Busy, Zenon DEF RunBody, LeaveBody
<1>1. CASE RunBody(w)
  <2>1. /\ worker[w].pc = "running" /\ result' = [result EXCEPT ![t] = "written"]
        /\ worker' = [worker EXCEPT ![w] = [pc |-> "returning", task |-> t]]
        /\ UNCHANGED <<state, queue, record, done, refs, waiter, held, group, rest, cleanup, handle>>
    BY <1>1, <1>a, Zenon DEF RunBody, GoWorker, handles
  <2>3. TypeOK'
    BY <1>0, <2>1, Zenon DEF TypeOK
  <2>4. QueueInv'
    BY <1>0, <2>1, <1>a, SMTT(60) DEF TypeOK, QueueInv
  <2>5. HandleInv' /\ Outstanding' = Outstanding /\ \A u : Held(u)' = Held(u)
    BY <2>1, HandlesFrame, Zenon
  <2>6. \A u \in Task : Unreturned(u)' = Unreturned(u)
    BY <2>1, <1>a, ZenonT(60) DEF TypeOK, QueueInv, Unreturned
  <2>7. ReferenceInv'
    BY <2>1, <2>5, <2>6, <1>a, HandlesFrame, SMTT(60) DEF ReferenceInv, TypeOK
  <2>8. ShutdownInv'
    BY <2>1, ZenonT(60) DEF ShutdownInv, Disposing, TypeOK
  <2> QED
    BY <2>1, <2>3, <2>4, <2>5, <2>7, <2>8, Zenon
<1>2. CASE LeaveBody(w)
  <2>1. /\ worker[w].pc = "returning" /\ refs' = [refs EXCEPT ![t] = @ - 1]
        /\ worker' = [worker EXCEPT ![w] = [pc |-> "finishing", task |-> t]]
        /\ UNCHANGED <<state, queue, record, done, result, waiter, held, group, rest, cleanup, handle>>
    BY <1>2, <1>a, Zenon DEF LeaveBody, GoWorker, Release, handles
  <2>4. QueueInv'
    BY <1>0, <2>1, <1>a, SMTT(60) DEF TypeOK, QueueInv
  <2>5. HandleInv' /\ Outstanding' = Outstanding /\ \A u : Held(u)' = Held(u)
    BY <2>1, HandlesFrame, Zenon
  <2>d. \A v \in Worker : worker'[v].task = t => worker'[v].pc = "finishing"
    BY <1>0, <2>1, Zenon DEF TypeOK
  <2>6. Unreturned(t) /\ ~Unreturned(t)'
    BY <1>0, <2>1, <1>a, <2>d, Zenon DEF Unreturned
  <2>b. \A u \in Task : u # t => Unreturned(u)' = Unreturned(u)
    BY <1>0, <2>1, <1>a, ZenonT(60) DEF TypeOK, QueueInv, Unreturned
  <2>c. refs[t] \in {1, 2}
    BY <1>0, <2>6, SMTT(60) DEF ReferenceInv
  <2>3. TypeOK'
    BY <1>0, <2>1, <2>c, SMTT(60) DEF TypeOK
  <2>e. \A u \in Task : /\ refs'[u] = IF u = t THEN refs[u] - 1 ELSE refs[u]
                        /\ refs[u] \in Int
                        /\ \A v \in Worker : worker'[v].task = worker[v].task
    BY <2>1, <1>a, SMTT(60) DEF TypeOK
  <2>7. ReferenceInv'
    BY <1>0, <2>1, <2>5, <2>6, <2>b, <2>e, HandlesFrame, SMTT(60) DEF ReferenceInv
  <2>8. ShutdownInv'
    BY <2>1, Zenon DEF ShutdownInv, Disposing, TypeOK
  <2> QED
    BY <2>1, <2>3, <2>4, <2>5, <2>7, <2>8, Zenon
<1> QED
  BY <1>1, <1>2, Zenon

(* A task is done, and everyone who waits for one looks again. *)
LEMMA FinishStep ==
    ASSUME PoolInv, NEW w \in Worker, Finish(w)
    PROVE  PoolInv'
<1> USE PoolAssumption DEF PoolInv
<1>a. PICK t \in Task : worker[w].task = t
  BY Busy, Zenon DEF Finish
<1>1. /\ worker[w].pc = "finishing" /\ done' = [done EXCEPT ![t] = 1]
      /\ worker' = [worker EXCEPT ![w] = [pc |-> "idle", task |-> NoTask]]
      /\ waiter' = [p \in Waiter |->
             IF waiter[p].pc = "asleep" THEN [waiter[p] EXCEPT !.pc = "check"] ELSE waiter[p]]
      /\ UNCHANGED <<state, queue, record, refs, result, held, group, rest, cleanup, handle>>
  BY <1>a, Zenon DEF Finish, GoWorker, WakeWaiters, handles
<1>0. done[t] = 0 /\ t \notin Range(queue) /\ result[t] = "written"
  BY <1>1, <1>a, Busy, Zenon
<1>d. t # NoTask /\ \A v \in Worker : worker[v].task = t => v = w
  BY <1>1, <1>a, Busy, Zenon
<1>b. \A p \in Waiter : /\ waiter'[p].task = waiter[p].task
                        /\ waiter[p].pc # "asleep" => waiter'[p].pc = waiter[p].pc
                        /\ waiter[p].pc = "asleep" => waiter'[p].pc = "check"
  BY <1>1, Zenon DEF TypeOK
<1>c. Owner \in Waiter /\ Client \subseteq Waiter
  BY Zenon DEF Waiter
<1>3. TypeOK'
  <2>1. waiter' \in [Waiter -> [pc : {"free", "check", "asleep", "dispose", "waited", "result",
                                    "cleanup", "join", "close", "destroy", "closing"},
                              task : Task \cup {NoTask}]]
    BY <1>1, ZenonT(60) DEF TypeOK
  <2> QED
    BY <1>0, <1>1, <2>1, Zenon DEF TypeOK
<1>4. QueueInv'
  <2>1. \A v \in Worker : v # w => worker'[v] = worker[v]
    BY <1>1, Zenon DEF TypeOK
  <2>2. worker'[w].pc = "idle" /\ worker'[w].task = NoTask /\ NoTask \notin Range(queue)
    BY <1>1, RangeOfSeq, Zenon DEF TypeOK
  <2>3. \A u \in Task : done'[u] = IF u = t THEN 1 ELSE done[u]
    BY <1>1, Zenon DEF TypeOK
  <2>4. \A v \in Worker : worker'[v].task # t
    BY <1>d, <2>1, <2>2, Zenon
  <2> QED
    BY <1>0, <1>1, <1>a, <1>d, <2>1, <2>2, <2>3, <2>4, SMTT(60) DEF QueueInv
<1>5. \A p \in Waiter : \A u : Holds(p, u)' = Holds(p, u)
  BY <1>1, <1>b, Zenon DEF Holds
<1>6. \A u : Held(u)' = Held(u)
  BY <1>5, Zenon DEF Held
<1>7. HandleInv'
  BY <1>0, <1>1, <1>5, <1>b, <1>c, SMTT(60) DEF HandleInv, TypeOK
<1>8. Outstanding' = Outstanding
  BY <1>1, <1>b, <1>c, SMTT(60) DEF Outstanding, Pending
<1>9. \A u \in Task : Unreturned(u)' = Unreturned(u)
  BY <1>1, <1>a, Zenon DEF TypeOK, QueueInv, Unreturned
<1>10. ReferenceInv'
  BY <1>0, <1>1, <1>5, <1>6, <1>9, <1>a, <1>b, SMTT(60) DEF ReferenceInv, TypeOK
<1>11. ShutdownInv'
  BY <1>1, <1>b, <1>c, ZenonT(60) DEF ShutdownInv, Disposing, TypeOK
<1> QED
  BY <1>1, <1>3, <1>4, <1>7, <1>8, <1>10, <1>11, Zenon

(* Who is still to wait for a task has its handle, in terms of the elements *)
(* of the sequences.                                                        *)
LEMMA PendingWhere ==
    ASSUME TypeOK, NEW t \in Task
    PROVE  Pending(t) <=>
             \/ \E c \in Client : t \in Range(held[c])
             \/ \E p \in Waiter : waiter[p].task = t /\ waiter[p].pc \in {"check", "asleep"}
             \/ t \in Range(rest)
             \/ waiter[Owner].pc \notin {"check", "asleep", "dispose", "waited"} /\ t \in Range(group)
BY Zenon DEF Pending, Range

(* The same of the next state. *)
LEMMA PendingWhereNext ==
    ASSUME TypeOK', NEW t \in Task
    PROVE  Pending(t)' <=>
             \/ \E c \in Client : t \in Range(held'[c])
             \/ \E p \in Waiter : waiter'[p].task = t /\ waiter'[p].pc \in {"check", "asleep"}
             \/ t \in Range(rest')
             \/ waiter'[Owner].pc \notin {"check", "asleep", "dispose", "waited"} /\ t \in Range(group')
BY SMTT(60) DEF TypeOK, Pending, Range

(* A pending task has a holder. *)
LEMMA PendingHeld ==
    ASSUME TypeOK, HandleInv, NEW t \in Task, Pending(t)
    PROVE  Held(t)
<1>0. Owner \in Waiter /\ Client \subseteq Waiter /\ Owner \notin Client /\ t # NoTask
  BY PoolAssumption, Zenon DEF Waiter
<1>1. CASE \E c \in Client : t \in Range(held[c])
  BY <1>0, <1>1, Zenon DEF Held, Holds
<1>2. CASE \E p \in Waiter : waiter[p].task = t /\ waiter[p].pc \in {"check", "asleep"}
  <2>1. PICK p \in Waiter : waiter[p].task = t
    BY <1>2, Zenon
  <2>2. CASE p = Owner
    <3>1. t \in Range(group)
      BY <1>0, <2>1, <2>2, Zenon DEF HandleInv
    <3> QED
      BY <1>0, <3>1, Zenon DEF Held, Holds
  <2>3. CASE p # Owner
    BY <2>1, <2>3, Zenon DEF Held, Holds
  <2> QED
    BY <2>2, <2>3, Zenon
<1>3. CASE t \in Range(rest)
  <2>1. t \in Range(group)
    BY <1>3, RangeEmpty, Zenon DEF HandleInv
  <2> QED
    BY <1>0, <2>1, Zenon DEF Held, Holds
<1>4. CASE t \in Range(group)
  BY <1>0, <1>4, Zenon DEF Held, Holds
<1> QED
  BY <1>1, <1>2, <1>3, <1>4, PendingWhere, Zenon

(* outstanding_records never counts more than there are tasks. *)
LEMMA OutstandingFinite == IsFiniteSet(Outstanding) /\ Cardinality(Outstanding) \in Nat
<1>1. Outstanding \in SUBSET Task /\ IsFiniteSet(Task)
  BY PoolAssumption, Zenon DEF Outstanding
<1>2. IsFiniteSet(Outstanding)
  BY <1>1, FS_Subset, Zenon
<1> QED
  BY <1>2, FS_CardinalityType, Zenon

(* The owner submits a task and moves its handle. *)
LEMMA SubmitStep ==
    ASSUME PoolInv, NEW t \in Task, NEW p \in Waiter, Submit(t, p)
    PROVE  PoolInv'
<1> USE PoolAssumption DEF PoolInv
<1>0. Owner \in Waiter /\ Client \subseteq Waiter /\ t # NoTask /\ (p # Owner => p \in Client)
  BY Zenon DEF Waiter
<1>1. /\ waiter[Owner].pc = "free" /\ handle = "open" /\ record[t] = "none"
      /\ record' = [record EXCEPT ![t] = "live"]
      /\ refs' = [refs EXCEPT ![t] = 2]
      /\ state' = [state EXCEPT !.outstanding = @ + 1]
      /\ queue' = Append(queue, t)
      /\ UNCHANGED <<done, result, waiter, rest, cleanup, handle>>
  BY Zenon DEF Submit, Enqueue
<1>2. /\ p = Owner => group' = <<t>> \o group /\ held' = held
      /\ p # Owner => held' = [held EXCEPT ![p] = Append(@, t)] /\ group' = group
  BY Zenon DEF Submit, Enqueue
<1>3. /\ worker' \in [Worker -> [pc : {"idle", "asleep", "running", "returning", "finishing", "exited"},
                                 task : Task \cup {NoTask}]]
      /\ \A w \in Worker :
           /\ worker'[w].task = worker[w].task
           /\ worker'[w].pc = worker[w].pc \/ (worker[w].pc = "asleep" /\ worker'[w].pc = "idle")
  <2>1. CASE UNCHANGED worker
    BY <2>1, Zenon DEF TypeOK
  <2>2. ASSUME NEW w \in Worker, worker[w].pc = "asleep",
               worker' = [worker EXCEPT ![w] = [pc |-> "idle", task |-> NoTask]]
        PROVE  <1>3!1 /\ <1>3!2
    BY <2>2, ZenonT(60) DEF TypeOK, QueueInv
  <2> QED
    BY <2>1, <2>2, Zenon DEF Submit, SignalWork, Asleep, GoWorker
<1>4. done[t] = 0 /\ ~Held(t) /\ t \notin Range(queue) /\ \A w \in Worker : worker[w].task # t
  BY <1>1, Zenon DEF ReferenceInv
<1>5. /\ queue' \in Seq(Task) /\ Range(queue') = Range(queue) \cup {t} /\ IsInjective(queue')
  BY <1>1, <1>4, RangeAppend, SMTT(60) DEF TypeOK, QueueInv
<1>6. \A c \in Client : /\ held'[c] \in Seq(Task) /\ IsInjective(held'[c])
                        /\ Range(held'[c]) = IF c = p THEN Range(held[c]) \cup {t} ELSE Range(held[c])
  <2> SUFFICES ASSUME NEW c \in Client
               PROVE  /\ held'[c] \in Seq(Task) /\ IsInjective(held'[c])
                      /\ Range(held'[c]) = IF c = p THEN Range(held[c]) \cup {t} ELSE Range(held[c])
    BY Zenon
  <2>1. held[c] \in Seq(Task) /\ IsInjective(held[c]) /\ t \notin Range(held[c])
    BY <1>0, <1>4, ZenonT(60) DEF TypeOK, HandleInv, Held, Holds
  <2>2. CASE c = p
    <3>1. held'[c] = Append(held[c], t)
      BY <1>2, <2>2, Zenon DEF TypeOK
    <3> QED
      BY <2>1, <2>2, <3>1, RangeAppend, SMTT(60)
  <2>3. CASE c # p
    <3>1. held'[c] = held[c]
      BY <1>0, <1>2, <2>3, Zenon DEF TypeOK
    <3> QED
      BY <2>1, <2>3, <3>1, Zenon
  <2> QED
    BY <2>2, <2>3, Zenon
<1>7. /\ group' \in Seq(Task) /\ IsInjective(group')
      /\ Range(group') = IF p = Owner THEN Range(group) \cup {t} ELSE Range(group)
  <2>1. group \in Seq(Task) /\ IsInjective(group) /\ t \notin Range(group)
    BY <1>0, <1>4, Zenon DEF TypeOK, HandleInv, Held, Holds
  <2>2. CASE p = Owner
    <3> DEFINE g == <<t>> \o group
    <3>1. g \in Seq(Task) /\ Range(g) = Range(group) \cup {t} /\ IsInjective(g)
      BY <2>1, RangeCons, ZenonT(60)
    <3>2. group' = g
      BY <1>2, <2>2, Zenon
    <3> HIDE DEF g
    <3> QED
      BY <2>2, <3>1, <3>2, Zenon
  <2>3. CASE p # Owner
    BY <1>2, <2>1, <2>3, Zenon
  <2> QED
    BY <2>2, <2>3, Zenon
<1>8. TypeOK'
  <2>1. held' \in [Client -> Seq(Task)]
    BY <1>0, <1>2, <1>6, Zenon DEF TypeOK
  <2>2. state' \in [alive : BOOLEAN, shutdown : {0, 1}, outstanding : Nat, ownerClosed : {0, 1}]
    <3>1. state.outstanding + 1 \in Nat
      BY SMTT(60) DEF TypeOK
    <3> QED
      BY <1>1, <3>1, Zenon DEF TypeOK
  <2> QED
    BY <1>1, <1>3, <1>5, <1>7, <2>1, <2>2, SMTT(60) DEF TypeOK
<1>9. QueueInv'
  <2>1. \A w \in Worker :
           /\ worker'[w].task = NoTask <=> worker'[w].pc \in {"idle", "asleep", "exited"}
           /\ worker'[w].pc \in {"returning", "finishing"} => worker'[w].pc = worker[w].pc
    BY <1>3, Zenon DEF QueueInv
  <2>2. \A w \in Worker : worker'[w].task \notin Range(queue')
    BY <1>3, <1>4, <1>5, SMTT(60) DEF QueueInv
  <2>3. \A u \in Task : done'[u] = 1 => u \notin Range(queue')
    BY <1>1, <1>4, <1>5, SMTT(60) DEF QueueInv
  <2>4. \A w, v \in Worker : worker'[v].task = worker'[w].task /\ worker'[w].task # NoTask => v = w
    BY <1>3, SMTT(60) DEF QueueInv
  <2>5. \A w \in Worker : worker'[w].pc \in {"returning", "finishing"} => result'[worker'[w].task] = "written"
    BY <1>1, <1>3, <2>1, Zenon DEF QueueInv
  <2>6. \A u \in Task : done'[u] = 1 => result'[u] = "written" /\ \A w \in Worker : worker'[w].task # u
    BY <1>1, <1>3, SMTT(60) DEF QueueInv
  <2> QED
    BY <1>5, <2>1, <2>2, <2>3, <2>4, <2>5, <2>6, Zenon DEF QueueInv
<1>10. \A q \in Waiter, u \in Task : Holds(q, u)' <=> Holds(q, u) \/ (q = p /\ u = t)
  BY <1>1, <1>6, <1>7, Zenon DEF Holds, Waiter
<1>11. \A u \in Task : Held(u)' <=> Held(u) \/ u = t
  BY <1>10, Zenon DEF Held
<1>12. HandleInv'
  <2>1. \A q, r \in Waiter, u \in Task : Holds(q, u)' /\ Holds(r, u)' => q = r
    BY <1>4, <1>10, SMTT(60) DEF HandleInv, Held
  <2>2. waiter[Owner].task = NoTask /\ rest = <<>> /\ cleanup = <<>>
    BY <1>0, <1>1, Zenon DEF HandleInv
  <2>3. \A c \in Client : waiter[c].task # t
    BY <1>0, <1>4, Zenon DEF Held, Holds
  <2> QED
    BY <1>1, <1>6, <1>7, <2>1, <2>2, <2>3, ZenonT(60) DEF HandleInv
<1>13. \A u \in Task : Unreturned(u)' <=> Unreturned(u) \/ u = t
  BY <1>3, <1>5, ZenonT(60) DEF Unreturned
<1>14. ReferenceInv'
  <2>1. \A u \in Task : u # t => refs'[u] = refs[u] /\ record'[u] = record[u]
    BY <1>1, Zenon DEF TypeOK
  <2>2. refs'[t] = 2 /\ record'[t] = "live"
    BY <1>1, Zenon DEF TypeOK
  <2>3. ~Unreturned(t)
    BY <1>4, Zenon DEF Unreturned
  <2>4. \A q \in Waiter : ~(waiter[q].task = t)
    <3>1. waiter[Owner].task = NoTask
      BY <1>0, <1>1, Zenon DEF HandleInv
    <3> QED
      BY <1>0, <1>4, <3>1, Zenon DEF Held, Holds, Waiter
  <2> QED
    BY <1>1, <1>3, <1>4, <1>5, <1>10, <1>11, <1>13, <2>1, <2>2, <2>3, <2>4, SMTT(60) DEF ReferenceInv
<1>15. ShutdownInv'
  <2>1. /\ state.shutdown = 0 /\ state.ownerClosed = 0
        /\ state'.shutdown = 0 /\ state'.ownerClosed = 0 /\ state'.alive = state.alive
    BY <1>1, Zenon DEF ShutdownInv, TypeOK
  <2> QED
    BY <1>1, <1>3, <2>1, SMTT(60) DEF ShutdownInv, Disposing
<1>16. Outstanding' = Outstanding \cup {t} /\ t \notin Outstanding
  <2>1. t \notin Outstanding
    BY <1>4, PendingHeld, Zenon DEF Outstanding
  <2>3. \A u \in Task : Pending(u)' <=> Pending(u) \/ u = t
    BY <1>0, <1>1, <1>6, <1>7, <1>8, PendingWhere, PendingWhereNext, Zenon
  <2> QED
    BY <2>1, <2>3, Zenon DEF Outstanding
<1>17. state'.outstanding = Cardinality(Outstanding')
  <2>1. state'.outstanding = state.outstanding + 1
    BY <1>1, Zenon DEF TypeOK
  <2> QED
    BY <1>16, <2>1, OutstandingFinite, FS_AddElement, Zenon
<1> QED
  BY <1>8, <1>9, <1>12, <1>14, <1>15, <1>17, Zenon

------------------------------------------------------------------------------
(* A waiter that stays, or is not among those who close the pool, does not *)
(* disturb the shutdown.                                                   *)
LEMMA ShutdownFrame ==
    ASSUME ShutdownInv, NEW p \in Waiter,
           \A q \in Waiter : q # p => waiter'[q] = waiter[q],
           waiter[p].pc \notin {"dispose", "join", "close", "destroy", "closing"},
           waiter'[p].pc \notin {"dispose", "join", "close", "destroy", "closing"},
           UNCHANGED <<state, queue, worker, handle>>
    PROVE  ShutdownInv'
<1>1. \A q \in Waiter : /\ Disposing(q)' = Disposing(q)
                        /\ waiter'[q].pc = "destroy" <=> waiter[q].pc = "destroy"
                        /\ waiter'[q].pc = "close" <=> waiter[q].pc = "close"
                        /\ waiter'[q].pc = "join" <=> waiter[q].pc = "join"
                        /\ waiter'[q].pc = "closing" <=> waiter[q].pc = "closing"
  BY SMTT(60) DEF Disposing
<1>2. Owner \in Waiter
  BY Zenon DEF Waiter
<1> QED
  BY <1>1, <1>2, Zenon DEF ShutdownInv

(* A client begins to wait for the first of its handles. *)
LEMMA BeginAwaitStep ==
    ASSUME PoolInv, NEW c \in Client, BeginAwait(c)
    PROVE  PoolInv'
<1> USE PoolAssumption DEF PoolInv
<1>0. Owner \in Waiter /\ c \in Waiter /\ c # Owner /\ Client \subseteq Waiter
  BY Zenon DEF Waiter
<1>1. /\ waiter[c].pc = "free" /\ held[c] # <<>>
      /\ waiter' = [waiter EXCEPT ![c] = [pc |-> "check", task |-> Head(held[c])]]
      /\ held' = [held EXCEPT ![c] = Tail(held[c])]
      /\ UNCHANGED <<state, queue, record, done, refs, result, worker, group, rest, cleanup, handle>>
  BY Zenon DEF BeginAwait, GoWaiter, memory
<1>2. held[c] \in Seq(Task) /\ IsInjective(held[c]) /\ waiter[c].task = NoTask
  BY <1>0, <1>1, Zenon DEF TypeOK, HandleInv
<1>3. PICK t \in Task : t = Head(held[c])
  BY <1>1, <1>2, RangeTail, Zenon
<1>4. /\ t \in Range(held[c]) /\ Tail(held[c]) \in Seq(Task) /\ IsInjective(Tail(held[c]))
      /\ Range(Tail(held[c])) = Range(held[c]) \ {t}
  BY <1>1, <1>2, <1>3, RangeTail, Zenon
<1>5. \A d \in Client : /\ held'[d] \in Seq(Task) /\ IsInjective(held'[d])
                        /\ Range(held'[d]) = IF d = c THEN Range(held[d]) \ {t} ELSE Range(held[d])
  BY <1>1, <1>4, Zenon DEF TypeOK, HandleInv
<1>6. /\ waiter'[c].pc = "check" /\ waiter'[c].task = t
      /\ \A q \in Waiter : q # c => waiter'[q] = waiter[q]
  BY <1>0, <1>1, <1>3, Zenon DEF TypeOK
<1>7. TypeOK'
  BY <1>1, <1>3, <1>4, Zenon DEF TypeOK
<1>8. QueueInv' /\ \A u : Unreturned(u)' = Unreturned(u)
  BY <1>1, QueueFrame, Zenon
<1>9. \A q \in Waiter, u \in Task : Holds(q, u)' <=> Holds(q, u)
  BY <1>0, <1>1, <1>2, <1>4, <1>5, <1>6, ZenonT(60) DEF Holds, Waiter
<1>10. \A u \in Task : Held(u)' <=> Held(u)
  BY <1>9, Zenon DEF Held
<1>11. HandleInv'
  <2>1. \A q, r \in Waiter, u \in Task : Holds(q, u)' /\ Holds(r, u)' => q = r
    BY <1>9, Zenon DEF HandleInv
  <2>2. \A d \in Client : IsInjective(held'[d]) /\ waiter'[d].task \notin Range(held'[d])
    BY <1>0, <1>5, <1>6, Zenon DEF HandleInv
  <2>3. t # NoTask
    BY Zenon
  <2> QED
    BY <1>0, <1>1, <1>6, <2>1, <2>2, <2>3, SMTT(60) DEF HandleInv
<1>12. ReferenceInv'
  <2>1. \A u \in Task : Holds(c, u) => record[u] # "freed"
    BY <1>0, <1>1, Zenon DEF ReferenceInv
  <2>2. \A u \in Task : /\ Unreturned(u)' <=> Unreturned(u)
                        /\ record'[u] = record[u] /\ refs'[u] = refs[u] /\ done'[u] = done[u]
    BY <1>1, <1>8, Zenon
  <2>3. \A u \in Task : refs'[u] = (IF Unreturned(u)' THEN 1 ELSE 0) + (IF Held(u)' THEN 1 ELSE 0)
    <3> SUFFICES ASSUME NEW u \in Task
                 PROVE  refs'[u] = (IF Unreturned(u)' THEN 1 ELSE 0) + (IF Held(u)' THEN 1 ELSE 0)
      BY Zenon
    <3>1. refs[u] = (IF Unreturned(u) THEN 1 ELSE 0) + (IF Held(u) THEN 1 ELSE 0)
      BY Zenon DEF ReferenceInv
    <3>2. refs'[u] = refs[u] /\ (Unreturned(u)' <=> Unreturned(u)) /\ (Held(u)' <=> Held(u))
      BY <1>10, <2>2, Zenon
    <3> QED
      BY <3>1, <3>2, Zenon
  <2>4. \A u \in Task :
          /\ record'[u] = "none" =>
               /\ done'[u] = 0 /\ ~Held(u)' /\ u \notin Range(queue')
               /\ \A w \in Worker : worker'[w].task # u
          /\ record'[u] = "live" => Held(u)'
          /\ record'[u] = "freed" => done'[u] = 1
    BY <1>1, <1>10, <2>2, ZenonT(40) DEF ReferenceInv
  <2>5. \A q \in Waiter, u \in Task : Holds(q, u)' =>
          (record'[u] = "freed" <=> waiter'[q].task = u /\ waiter'[q].pc = "result")
    <3> SUFFICES ASSUME NEW q \in Waiter, NEW u \in Task, Holds(q, u)'
                 PROVE  record'[u] = "freed" <=> waiter'[q].task = u /\ waiter'[q].pc = "result"
      BY Zenon
    <3>1. Holds(q, u) /\ record'[u] = record[u]
      BY <1>9, <2>2, Zenon
    <3>2. CASE q = c
      BY <1>6, <2>1, <3>1, <3>2, Zenon
    <3>3. CASE q # c
      <4>1. waiter'[q] = waiter[q]
        BY <1>6, <3>3, Zenon
      <4>2. record[u] = "freed" <=> waiter[q].task = u /\ waiter[q].pc = "result"
        BY <3>1, ZenonT(40) DEF ReferenceInv
      <4> QED
        BY <3>1, <4>1, <4>2, Zenon
    <3> QED
      BY <3>2, <3>3, Zenon
  <2> QED
    BY <2>3, <2>4, <2>5, ZenonT(40) DEF ReferenceInv
<1>13. ShutdownInv'
  BY <1>0, <1>1, <1>6, ShutdownFrame, Zenon
<1>14. Outstanding' = Outstanding
  <2>1. \A u \in Task : Pending(u)' <=> Pending(u)
    BY <1>0, <1>1, <1>2, <1>4, <1>5, <1>6, <1>7, PendingWhere, PendingWhereNext, SMTT(60)
  <2> QED
    BY <2>1, Zenon DEF Outstanding
<1> QED
  BY <1>1, <1>7, <1>8, <1>11, <1>12, <1>13, <1>14, Zenon

(* The owner begins to wait for its group. *)
LEMMA BeginWaitAllStep ==
    ASSUME PoolInv, BeginWaitAll
    PROVE  PoolInv'
<1> USE PoolAssumption DEF PoolInv
<1>0. Owner \in Waiter /\ Client \subseteq Waiter /\ Owner \notin Client
  BY Zenon DEF Waiter
<1>1. /\ waiter[Owner].pc = "free" /\ group # <<>>
      /\ waiter' = [waiter EXCEPT ![Owner] = [pc |-> "check", task |-> Head(group)]]
      /\ rest' = Tail(group)
      /\ UNCHANGED <<state, queue, record, done, refs, result, worker, held, group, cleanup, handle>>
  BY Zenon DEF BeginWaitAll, GoWaiter, memory
<1>2. /\ group \in Seq(Task) /\ IsInjective(group) /\ waiter[Owner].task = NoTask /\ rest = <<>>
      /\ cleanup = <<>>
  BY <1>0, <1>1, Zenon DEF TypeOK, HandleInv
<1>3. PICK t \in Task : t = Head(group)
  BY <1>1, <1>2, RangeTail, Zenon
<1>4. /\ t \in Range(group) /\ rest' \in Seq(Task) /\ IsInjective(rest')
      /\ Range(rest') = Range(group) \ {t}
  BY <1>1, <1>2, <1>3, RangeTail, Zenon
<1>6. /\ waiter'[Owner].pc = "check" /\ waiter'[Owner].task = t /\ t # NoTask
      /\ \A q \in Waiter : q # Owner => waiter'[q] = waiter[q]
  BY <1>0, <1>1, <1>3, Zenon DEF TypeOK
<1>7. TypeOK'
  BY <1>1, <1>3, <1>4, Zenon DEF TypeOK
<1>8. QueueInv' /\ \A u : Unreturned(u)' = Unreturned(u)
  BY <1>1, QueueFrame, Zenon
<1>9. \A q \in Waiter, u \in Task : Holds(q, u)' <=> Holds(q, u)
  BY <1>0, <1>1, <1>6, Zenon DEF Holds, Waiter
<1>10. \A u \in Task : Held(u)' <=> Held(u)
  BY <1>9, Zenon DEF Held
<1>11. HandleInv'
  <2>1. \A q, r \in Waiter, u \in Task : Holds(q, u)' /\ Holds(r, u)' => q = r
    BY <1>9, Zenon DEF HandleInv
  <2>2. \A d \in Client : waiter'[d] = waiter[d]
    BY <1>0, <1>6, Zenon
  <2> QED
    BY <1>0, <1>1, <1>2, <1>4, <1>6, <2>1, <2>2, ZenonT(60) DEF HandleInv
<1>12. ReferenceInv'
  <2>1. \A u \in Task : Holds(Owner, u) => record[u] # "freed"
    BY <1>0, <1>1, Zenon DEF ReferenceInv
  <2> QED
    BY <1>1, <1>6, <1>8, <1>9, <1>10, <2>1, SMTT(60) DEF ReferenceInv
<1>13. ShutdownInv'
  BY <1>0, <1>1, <1>6, ShutdownFrame, Zenon
<1>14. Outstanding' = Outstanding
  <2>1. \A u \in Task : Pending(u)' <=> Pending(u)
    BY <1>0, <1>1, <1>2, <1>4, <1>6, <1>7, RangeEmpty, PendingWhere, PendingWhereNext, SMTT(60)
  <2> QED
    BY <2>1, Zenon DEF Outstanding
<1> QED
  BY <1>1, <1>7, <1>8, <1>11, <1>12, <1>13, <1>14, Zenon

(* Looking at done, going to sleep and waking up keep what is pending. *)
LEMMA WaitStep ==
    ASSUME PoolInv, NEW p \in Waiter, WaitForDone(p) \/ WakeWaiterSpuriously(p)
    PROVE  PoolInv'
<1> USE PoolAssumption DEF PoolInv
<1>0. Owner \in Waiter /\ Client \subseteq Waiter
  BY Zenon DEF Waiter
<1>1. PICK pc \in {"check", "asleep"} :
          waiter' = [waiter EXCEPT ![p] = [pc |-> pc, task |-> waiter[p].task]]
  BY Zenon DEF WaitForDone, WakeWaiterSpuriously, GoWaiter
<1>2. /\ waiter[p].pc \in {"check", "asleep"}
      /\ UNCHANGED <<state, queue, record, done, refs, result, worker, held, group, rest, cleanup, handle>>
  BY Zenon DEF WaitForDone, WakeWaiterSpuriously, memory, handles
<1>6. /\ waiter'[p].pc \in {"check", "asleep"} /\ waiter'[p].task = waiter[p].task
      /\ \A q \in Waiter : q # p => waiter'[q] = waiter[q]
  BY <1>1, Zenon DEF TypeOK
<1>7. TypeOK'
  BY <1>1, <1>2, Zenon DEF TypeOK
<1>8. QueueInv' /\ \A u : Unreturned(u)' = Unreturned(u)
  BY <1>2, QueueFrame, Zenon
<1>9. \A q \in Waiter, u \in Task : Holds(q, u)' <=> Holds(q, u)
  BY <1>2, <1>6, Zenon DEF Holds
<1>10. \A u \in Task : Held(u)' <=> Held(u)
  BY <1>9, Zenon DEF Held
<1>11. HandleInv'
  <2>1. \A q, r \in Waiter, u \in Task : Holds(q, u)' /\ Holds(r, u)' => q = r
    BY <1>9, Zenon DEF HandleInv
  <2>2. \A q \in Waiter : waiter'[q].task = waiter[q].task
    BY <1>6, Zenon
  <2> QED
    BY <1>0, <1>2, <1>6, <2>1, <2>2, ZenonT(60) DEF HandleInv
<1>12. ReferenceInv'
  BY <1>2, <1>6, <1>8, <1>9, <1>10, SMTT(60) DEF ReferenceInv
<1>13. ShutdownInv'
  BY <1>2, <1>6, ShutdownFrame, Zenon
<1>14. Outstanding' = Outstanding
  <2>1. \A u \in Task : Pending(u)' <=> Pending(u)
    BY <1>0, <1>2, <1>6, <1>7, PendingWhere, PendingWhereNext, ZenonT(60)
  <2> QED
    BY <2>1, Zenon DEF Outstanding
<1> QED
  BY <1>2, <1>7, <1>8, <1>11, <1>12, <1>13, <1>14, Zenon

(* A wait is over: the record is no longer counted, and the last one to    *)
(* wait after the owner has closed disposes of the state.                  *)
LEMMA CountDownStep ==
    ASSUME PoolInv, NEW p \in Waiter, CountDown(p)
    PROVE  PoolInv'
<1> USE PoolAssumption DEF PoolInv
<1>0. Owner \in Waiter /\ Client \subseteq Waiter /\ \A q \in Waiter : q = Owner \/ q \in Client
  BY Zenon DEF Waiter
<1>1. /\ waiter[p].pc = "check" /\ done[waiter[p].task] = 1
      /\ state' = [state EXCEPT !.outstanding = @ - 1]
      /\ waiter' = [waiter EXCEPT ![p] =
           [pc |-> IF state.ownerClosed = 1 /\ state.outstanding = 1 THEN "dispose" ELSE "waited",
            task |-> waiter[p].task]]
      /\ UNCHANGED <<queue, record, done, refs, result, worker, held, group, rest, cleanup, handle>>
  BY Zenon DEF CountDown, GoWaiter, memory, handles
<1>2. PICK t \in Task : t = waiter[p].task
  BY <1>1, Zenon DEF TypeOK, HandleInv
<1>3. Holds(p, t) /\ t # NoTask
  BY <1>0, <1>1, <1>2, Zenon DEF Holds, HandleInv
<1>4. /\ t \in Outstanding /\ state.outstanding \in Nat \ {0}
      /\ state.outstanding = Cardinality(Outstanding)
  <2>1. t \in Outstanding
    BY <1>1, <1>2, PendingWhere, Zenon DEF Outstanding
  <2>2. Cardinality(Outstanding) # 0
    BY <2>1, OutstandingFinite, FS_EmptySet, Zenon
  <2> QED
    BY <2>1, <2>2, OutstandingFinite, Zenon
<1>5. /\ state'.outstanding = state.outstanding - 1 /\ state'.alive = state.alive
      /\ state'.shutdown = state.shutdown /\ state'.ownerClosed = state.ownerClosed
      /\ state' \in [alive : BOOLEAN, shutdown : {0, 1}, outstanding : Nat, ownerClosed : {0, 1}]
  <2>1. state.outstanding - 1 \in Nat
    BY <1>4, SMTT(60)
  <2> QED
    BY <1>1, <2>1, Zenon DEF TypeOK
<1>6. /\ waiter'[p].pc = IF state.ownerClosed = 1 /\ state.outstanding = 1 THEN "dispose" ELSE "waited"
      /\ waiter'[p].task = t
      /\ \A q \in Waiter : q # p => waiter'[q] = waiter[q]
  BY <1>1, <1>2, Zenon DEF TypeOK
<1>7. TypeOK'
  BY <1>1, <1>5, Zenon DEF TypeOK
<1>8. QueueInv' /\ \A u : Unreturned(u)' = Unreturned(u)
  BY <1>1, QueueFrame, Zenon
<1>9. \A q \in Waiter, u \in Task : Holds(q, u)' <=> Holds(q, u)
  BY <1>1, <1>2, <1>6, Zenon DEF Holds
<1>10. \A u \in Task : Held(u)' <=> Held(u)
  BY <1>9, Zenon DEF Held
<1>11. HandleInv'
  <2>1. \A q, r \in Waiter, u \in Task : Holds(q, u)' /\ Holds(r, u)' => q = r
    BY <1>9, Zenon DEF HandleInv
  <2>2. \A q \in Waiter : waiter'[q].task = waiter[q].task
    BY <1>2, <1>6, Zenon
  <2> QED
    BY <1>0, <1>1, <1>2, <1>3, <1>6, <2>1, <2>2, SMTT(60) DEF HandleInv
<1>12. ReferenceInv'
  BY <1>1, <1>2, <1>6, <1>8, <1>9, <1>10, SMTT(60) DEF ReferenceInv
<1>13. ShutdownInv'
  <2>1. state.alive /\ \A q \in Waiter : ~Disposing(q)
    BY <1>4, Zenon DEF ShutdownInv
  <2>2. \A q \in Waiter : q # p => ~Disposing(q)'
    BY <1>6, <2>1, Zenon DEF Disposing
  <2>3. Disposing(p)' <=> state'.ownerClosed = 1 /\ state'.outstanding = 0
    BY <1>4, <1>5, <1>6, SMTT(60) DEF Disposing
  <2>4. /\ waiter'[Owner].pc \in {"join", "close", "destroy", "closing"} <=>
             waiter[Owner].pc \in {"join", "close", "destroy", "closing"}
        /\ waiter'[Owner].pc \in {"destroy", "closing"} <=> waiter[Owner].pc \in {"destroy", "closing"}
        /\ waiter'[Owner].pc = "close" <=> waiter[Owner].pc = "close"
        /\ \A q \in Waiter : waiter'[q].pc = "destroy" => waiter[q].pc = "destroy"
    BY <1>0, <1>1, <1>6, SMTT(60)
  <2> QED
    BY <1>1, <1>5, <2>1, <2>2, <2>3, <2>4, ZenonT(60) DEF ShutdownInv
<1>14. Outstanding' = Outstanding \ {t}
  <2>1. ~Pending(t)'
    <3>1. \A q \in Waiter : waiter'[q].task = t /\ waiter'[q].pc \in {"check", "asleep"} => q = p
      <4>1. ASSUME NEW q \in Waiter, waiter[q].task = t PROVE Holds(q, t)
        BY <1>0, <1>3, <4>1, Zenon DEF Holds, HandleInv
      <4> QED
        BY <1>3, <1>6, <4>1, SMTT(60) DEF HandleInv
    <3>2. \A c \in Client : t \notin Range(held[c])
      <4>1. \A c \in Client : t \in Range(held[c]) => c = p
        BY <1>0, <1>3, Zenon DEF HandleInv, Holds
      <4> QED
        BY <1>2, <4>1, Zenon DEF HandleInv
    <3>3. t \notin Range(rest)
      <4>1. CASE p = Owner
        BY <1>2, <1>3, <4>1, Zenon DEF HandleInv
      <4>2. CASE p # Owner
        BY <1>0, <1>3, <4>2, RangeEmpty, Zenon DEF HandleInv, Holds
      <4> QED
        BY <4>1, <4>2, Zenon
    <3>4. ~(waiter'[Owner].pc \notin {"check", "asleep", "dispose", "waited"} /\ t \in Range(group))
      <4>1. CASE p = Owner
        BY <1>6, <4>1, Zenon
      <4>2. CASE p # Owner
        BY <1>0, <1>3, <4>2, Zenon DEF HandleInv, Holds
      <4> QED
        BY <4>1, <4>2, Zenon
    <3> QED
      BY <1>1, <1>6, <1>7, <3>1, <3>2, <3>3, <3>4, PendingWhereNext, SMTT(60)
  <2>2. \A u \in Task : u # t => (Pending(u)' <=> Pending(u))
    BY <1>0, <1>1, <1>2, <1>6, <1>7, PendingWhere, PendingWhereNext, ZenonT(60)
  <2> QED
    BY <2>1, <2>2, Zenon DEF Outstanding
<1>15. state'.outstanding = Cardinality(Outstanding')
  BY <1>4, <1>5, <1>14, OutstandingFinite, FS_RemoveElement, Zenon
<1> QED
  BY <1>7, <1>8, <1>11, <1>12, <1>13, <1>15, Zenon

=============================================================================
