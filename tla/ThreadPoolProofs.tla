--------------------------- MODULE ThreadPoolProofs ---------------------------
(***************************************************************************)
(* The remaining steps of the pool, those that free records and handles    *)
(* and the owner's shutdown; then what PoolInv and one more induction give *)
(* for any numbers of workers, tasks and clients.                          *)
(***************************************************************************)
EXTENDS ThreadPoolSteps

(* The last waiter destroys the pool state. *)
LEMMA DisposeStep ==
    ASSUME PoolInv, NEW p \in Waiter, Dispose(p)
    PROVE  PoolInv'
<1> USE PoolAssumption DEF PoolInv
<1>0. Owner \in Waiter /\ Client \subseteq Waiter
  BY Zenon DEF Waiter
<1>1. /\ waiter[p].pc = "dispose" /\ state' = [state EXCEPT !.alive = FALSE]
      /\ waiter' = [waiter EXCEPT ![p] = [pc |-> "waited", task |-> waiter[p].task]]
      /\ UNCHANGED <<queue, record, done, refs, result, worker, held, group, rest, cleanup, handle>>
  BY Zenon DEF Dispose, GoWaiter, memory, handles
<1>5. /\ state'.outstanding = state.outstanding /\ ~state'.alive
      /\ state'.shutdown = state.shutdown /\ state'.ownerClosed = state.ownerClosed
      /\ state' \in [alive : BOOLEAN, shutdown : {0, 1}, outstanding : Nat, ownerClosed : {0, 1}]
  BY <1>1, Zenon DEF TypeOK
<1>6. /\ waiter'[p].pc = "waited" /\ waiter'[p].task = waiter[p].task
      /\ \A q \in Waiter : q # p => waiter'[q] = waiter[q]
  BY <1>1, Zenon DEF TypeOK
<1>7. TypeOK'
  BY <1>1, <1>5, Zenon DEF TypeOK
<1>8. QueueInv' /\ \A u : Unreturned(u)' = Unreturned(u)
  BY <1>1, QueueFrame, Zenon
<1>9. \A q \in Waiter, u \in Task : Holds(q, u)' <=> Holds(q, u)
  BY <1>1, <1>6, Zenon DEF Holds
<1>10. \A u \in Task : Held(u)' <=> Held(u)
  BY <1>9, Zenon DEF Held
<1>11. HandleInv'
  <2>1. \A q, r \in Waiter, u \in Task : Holds(q, u)' /\ Holds(r, u)' => q = r
    BY <1>9, Zenon DEF HandleInv
  <2>2. \A q \in Waiter : waiter'[q].task = waiter[q].task
    BY <1>6, Zenon
  <2> QED
    BY <1>0, <1>1, <1>6, <2>1, <2>2, SMTT(60) DEF HandleInv
<1>12. ReferenceInv'
  BY <1>1, <1>6, <1>8, <1>9, <1>10, SMTT(60) DEF ReferenceInv
<1>13. ShutdownInv'
  <2>1. Disposing(p)
    BY <1>1, Zenon DEF Disposing
  <2>2. \A q \in Waiter : ~Disposing(q)'
    BY <1>6, <2>1, Zenon DEF Disposing, ShutdownInv
  <2>4. /\ waiter'[Owner].pc \in {"join", "close", "destroy", "closing"} <=>
             waiter[Owner].pc \in {"join", "close", "destroy", "closing"}
        /\ waiter'[Owner].pc \in {"destroy", "closing"} <=> waiter[Owner].pc \in {"destroy", "closing"}
        /\ waiter'[Owner].pc = "close" <=> waiter[Owner].pc = "close"
        /\ \A q \in Waiter : waiter'[q].pc = "destroy" => waiter[q].pc = "destroy"
    BY <1>0, <1>1, <1>6, Zenon
  <2> QED
    BY <1>1, <1>5, <2>1, <2>2, <2>4, Zenon DEF ShutdownInv
<1>14. Outstanding' = Outstanding
  <2>1. \A u \in Task : Pending(u)' <=> Pending(u)
    BY <1>0, <1>1, <1>6, <1>7, PendingWhere, PendingWhereNext, ZenonT(60)
  <2> QED
    BY <2>1, Zenon DEF Outstanding
<1> QED
  BY <1>5, <1>7, <1>8, <1>11, <1>12, <1>13, <1>14, Zenon

(* A client frees the record of its task. *)
LEMMA FreeRecordStep ==
    ASSUME PoolInv, NEW c \in Waiter, FreeRecord(c)
    PROVE  PoolInv'
<1> USE PoolAssumption DEF PoolInv
<1>0. Owner \in Waiter /\ Client \subseteq Waiter /\ c # Owner
  BY Zenon DEF Waiter, FreeRecord
<1>1. /\ waiter[c].pc = "waited" /\ record' = [record EXCEPT ![waiter[c].task] = "freed"]
      /\ waiter' = [waiter EXCEPT ![c] = [pc |-> "result", task |-> waiter[c].task]]
      /\ UNCHANGED <<state, queue, done, refs, result, worker, held, group, rest, cleanup, handle>>
  BY Zenon DEF FreeRecord, GoWaiter, handles
<1>2. PICK t \in Task : t = waiter[c].task
  BY <1>1, Zenon DEF TypeOK, HandleInv
<1>3. Holds(c, t) /\ done[t] = 1
  BY <1>0, <1>1, <1>2, Zenon DEF Holds, HandleInv
<1>6. /\ waiter'[c].pc = "result" /\ waiter'[c].task = t
      /\ \A q \in Waiter : q # c => waiter'[q] = waiter[q]
      /\ \A q \in Waiter : waiter'[q].task = waiter[q].task
  BY <1>1, <1>2, Zenon DEF TypeOK
<1>7. TypeOK'
  BY <1>1, <1>2, Zenon DEF TypeOK
<1>8. QueueInv' /\ \A u : Unreturned(u)' = Unreturned(u)
  BY <1>1, QueueFrame, Zenon
<1>9. \A q \in Waiter, u \in Task : Holds(q, u)' <=> Holds(q, u)
  BY <1>1, <1>6, Zenon DEF Holds
<1>10. \A u \in Task : Held(u)' <=> Held(u)
  BY <1>9, Zenon DEF Held
<1>11. HandleInv'
  <2>1. \A q, r \in Waiter, u \in Task : Holds(q, u)' /\ Holds(r, u)' => q = r
    BY <1>9, Zenon DEF HandleInv
  <2> QED
    BY <1>0, <1>1, <1>2, <1>3, <1>6, <2>1, SMTT(60) DEF HandleInv
<1>12. ReferenceInv'
  <2>1. record'[t] = "freed" /\ \A u \in Task : u # t => record'[u] = record[u]
    BY <1>1, <1>2, Zenon DEF TypeOK
  <2>2. \A q \in Waiter : Holds(q, t) => q = c
    BY <1>3, Zenon DEF HandleInv
  <2>3. \A q \in Waiter : Holds(q, t)' =>
            (record'[t] = "freed" <=> waiter'[q].task = t /\ waiter'[q].pc = "result")
    BY <1>6, <1>9, <2>1, <2>2, Zenon
  <2>4. \A u \in Task, q \in Waiter : u # t /\ Holds(q, u)' =>
            (record'[u] = "freed" <=> waiter'[q].task = u /\ waiter'[q].pc = "result")
    BY <1>2, <1>6, <1>9, <2>1, SMTT(60) DEF ReferenceInv
  <2> QED
    BY <1>1, <1>3, <1>8, <1>10, <2>1, <2>3, <2>4, SMTT(60) DEF ReferenceInv
<1>13. ShutdownInv'
  BY <1>1, <1>6, ShutdownFrame, Zenon
<1>14. Outstanding' = Outstanding
  <2>1. \A u \in Task : Pending(u)' <=> Pending(u)
    BY <1>0, <1>1, <1>6, <1>7, PendingWhere, PendingWhereNext, ZenonT(60)
  <2> QED
    BY <2>1, Zenon DEF Outstanding
<1> QED
  BY <1>1, <1>7, <1>8, <1>11, <1>12, <1>13, <1>14, Zenon

(* A client takes the result and drops the last use of the handle. *)
LEMMA TakeResultStep ==
    ASSUME PoolInv, NEW c \in Waiter, TakeResult(c)
    PROVE  PoolInv'
<1> USE PoolAssumption DEF PoolInv
<1>1. /\ waiter[c].pc = "result" /\ refs' = [refs EXCEPT ![waiter[c].task] = @ - 1]
      /\ waiter' = [waiter EXCEPT ![c] = [pc |-> "free", task |-> NoTask]]
      /\ UNCHANGED <<state, queue, record, done, result, worker, held, group, rest, cleanup, handle>>
  BY Zenon DEF TakeResult, GoWaiter, Release, handles
<1>0. Owner \in Waiter /\ Client \subseteq Waiter /\ c # Owner /\ c \in Client
  BY <1>1, Zenon DEF Waiter, HandleInv
<1>2. PICK t \in Task : t = waiter[c].task
  BY <1>1, Zenon DEF TypeOK, HandleInv
<1>3. Holds(c, t) /\ done[t] = 1 /\ record[t] = "freed" /\ t \notin Range(held[c])
  BY <1>0, <1>1, <1>2, SMTT(60) DEF Holds, HandleInv, ReferenceInv
<1>6. /\ waiter'[c].pc = "free" /\ waiter'[c].task = NoTask
      /\ \A q \in Waiter : q # c => waiter'[q] = waiter[q]
  BY <1>1, <1>2, Zenon DEF TypeOK
<1>a. refs[t] \in {1, 2}
  <2>1. Held(t)
    BY <1>3, Zenon DEF Held
  <2> QED
    BY <2>1, SMTT(60) DEF ReferenceInv
<1>7. TypeOK'
  BY <1>1, <1>2, <1>a, SMTT(60) DEF TypeOK
<1>8. QueueInv' /\ \A u : Unreturned(u)' = Unreturned(u)
  BY <1>1, QueueFrame, Zenon
<1>9. \A q \in Waiter, u \in Task : Holds(q, u)' <=> Holds(q, u) /\ u # t
  <2>1. \A q \in Waiter, u \in Task : q # c => (Holds(q, u)' <=> Holds(q, u))
    BY <1>1, <1>6, Zenon DEF Holds
  <2>2. \A q \in Waiter : Holds(q, t) => q = c
    BY <1>3, Zenon DEF HandleInv
  <2>3. \A u \in Task : Holds(c, u)' <=> Holds(c, u) /\ u # t
    BY <1>0, <1>1, <1>2, <1>3, <1>6, Zenon DEF Holds
  <2> QED
    BY <2>1, <2>2, <2>3, Zenon
<1>10. \A u \in Task : Held(u)' <=> Held(u) /\ u # t
  BY <1>9, Zenon DEF Held
<1>11. HandleInv'
  <2>1. \A q, r \in Waiter, u \in Task : Holds(q, u)' /\ Holds(r, u)' => q = r
    BY <1>9, Zenon DEF HandleInv
  <2>2. \A d \in Client : NoTask \notin Range(held[d])
    BY RangeOfSeq, Zenon DEF TypeOK
  <2> QED
    BY <1>0, <1>1, <1>6, <2>1, <2>2, SMTT(60) DEF HandleInv
<1>12. ReferenceInv'
  <2>1. \A u \in Task : /\ refs'[u] = IF u = t THEN refs[u] - 1 ELSE refs[u]
                        /\ refs[u] \in Int
    BY <1>1, <1>2, SMTT(60) DEF TypeOK
  <2>2. Held(t)
    BY <1>3, Zenon DEF Held
  <2>3. \A u \in Task, q \in Waiter : Holds(q, u)' =>
            (record'[u] = "freed" <=> waiter'[q].task = u /\ waiter'[q].pc = "result")
    <3>1. \A q \in Waiter, u \in Task : u # t =>
             ((waiter'[q].task = u /\ waiter'[q].pc = "result") <=>
              (waiter[q].task = u /\ waiter[q].pc = "result"))
      BY <1>2, <1>6, Zenon
    <3> QED
      BY <1>1, <1>9, <3>1, SMTT(60) DEF ReferenceInv
  <2>4. \A u \in Task : refs'[u] = (IF Unreturned(u)' THEN 1 ELSE 0) + (IF Held(u)' THEN 1 ELSE 0)
    BY <1>8, <1>10, <2>1, <2>2, SMTT(60) DEF ReferenceInv
  <2>5. \A u \in Task : record'[u] = "none" =>
            /\ done'[u] = 0 /\ ~Held(u)' /\ u \notin Range(queue')
            /\ \A w \in Worker : worker'[w].task # u
    BY <1>1, <1>10, Zenon DEF ReferenceInv
  <2>6. \A u \in Task : (record'[u] = "live" => Held(u)') /\ (record'[u] = "freed" => done'[u] = 1)
    BY <1>1, <1>3, <1>10, Zenon DEF ReferenceInv
  <2> QED
    BY <2>3, <2>4, <2>5, <2>6, Zenon DEF ReferenceInv
<1>13. ShutdownInv'
  BY <1>1, <1>6, ShutdownFrame, Zenon
<1>14. Outstanding' = Outstanding
  <2>1. \A u \in Task : Pending(u)' <=> Pending(u)
    BY <1>0, <1>1, <1>6, <1>7, PendingWhere, PendingWhereNext, ZenonT(60)
  <2> QED
    BY <2>1, Zenon DEF Outstanding
<1> QED
  BY <1>1, <1>7, <1>8, <1>11, <1>12, <1>13, <1>14, Zenon

(* The owner goes on to the next of its group, or to the cleanup. *)
LEMMA NextOfGroupStep ==
    ASSUME PoolInv, NextOfGroup
    PROVE  PoolInv'
<1> USE PoolAssumption DEF PoolInv
<1>0. Owner \in Waiter /\ Client \subseteq Waiter /\ Owner \notin Client
  BY Zenon DEF Waiter
<1>1. /\ waiter[Owner].pc = "waited"
      /\ UNCHANGED <<state, queue, record, done, refs, result, worker, held, handle>>
  BY Zenon DEF NextOfGroup, memory
<1>2. /\ waiter[Owner].task \in Range(group) \ Range(rest) /\ Range(rest) \subseteq Range(group)
      /\ \A u \in Range(group) \ Range(rest) : done[u] = 1
      /\ cleanup = <<>> /\ IsInjective(group) /\ IsInjective(rest)
      /\ group \in Seq(Task) /\ rest \in Seq(Task) /\ waiter[Owner].task # NoTask
  BY <1>0, <1>1, Zenon DEF HandleInv, TypeOK
<1>3. QueueInv' /\ \A u : Unreturned(u)' = Unreturned(u)
  BY <1>1, QueueFrame, Zenon
<1>4. \A u \in Task : Holds(Owner, u) => record[u] # "freed"
  BY <1>0, <1>1, Zenon DEF ReferenceInv
<1>a. ASSUME rest # <<>>
      PROVE  PoolInv'
  <2>1. /\ waiter' = [waiter EXCEPT ![Owner] = [pc |-> "check", task |-> Head(rest)]]
        /\ rest' = Tail(rest) /\ UNCHANGED <<group, cleanup>>
    BY <1>a, Zenon DEF NextOfGroup, GoWaiter
  <2>2. PICK t \in Task : t = Head(rest)
    BY <1>2, <1>a, RangeTail, Zenon
  <2>3. /\ t \in Range(rest) /\ rest' \in Seq(Task) /\ IsInjective(rest')
        /\ Range(rest') = Range(rest) \ {t}
    BY <1>2, <1>a, <2>1, <2>2, RangeTail, Zenon
  <2>6. /\ waiter'[Owner].pc = "check" /\ waiter'[Owner].task = t /\ t # NoTask
        /\ \A q \in Waiter : q # Owner => waiter'[q] = waiter[q]
    BY <1>0, <2>1, <2>2, Zenon DEF TypeOK
  <2>7. TypeOK'
    BY <1>1, <2>1, <2>2, <2>3, Zenon DEF TypeOK
  <2>9. \A q \in Waiter, u \in Task : Holds(q, u)' <=> Holds(q, u)
    BY <1>0, <1>1, <2>1, <2>6, Zenon DEF Holds, Waiter
  <2>10. \A u \in Task : Held(u)' <=> Held(u)
    BY <2>9, Zenon DEF Held
  <2>11. HandleInv'
    <3>1. \A q, r \in Waiter, u \in Task : Holds(q, u)' /\ Holds(r, u)' => q = r
      BY <2>9, Zenon DEF HandleInv
    <3>2. \A d \in Client : waiter'[d] = waiter[d]
      BY <1>0, <2>6, Zenon
    <3>3. /\ t \in Range(group) \ Range(rest') /\ Range(rest') \subseteq Range(group)
          /\ \A u \in Range(group) \ Range(rest') : u # t => done[u] = 1
      BY <1>2, <2>3, Zenon
    <3> QED
      BY <1>0, <1>1, <1>2, <2>1, <2>3, <2>6, <3>1, <3>2, <3>3, ZenonT(60) DEF HandleInv
  <2>12. ReferenceInv'
    BY <1>1, <1>3, <1>4, <2>6, <2>9, <2>10, SMTT(60) DEF ReferenceInv
  <2>13. ShutdownInv'
    BY <1>0, <1>1, <2>6, ShutdownFrame, Zenon
  <2>14. Outstanding' = Outstanding
    <3>1. \A u \in Task : Pending(u)' <=> Pending(u)
      BY <1>0, <1>1, <1>2, <2>1, <2>3, <2>6, <2>7, PendingWhere, PendingWhereNext, SMTT(60)
    <3> QED
      BY <3>1, Zenon DEF Outstanding
  <2> QED
    BY <1>1, <1>3, <2>7, <2>11, <2>12, <2>13, <2>14, Zenon
<1>b. ASSUME rest = <<>>
      PROVE  PoolInv'
  <2>1. /\ waiter' = [waiter EXCEPT ![Owner] = [pc |-> "cleanup", task |-> NoTask]]
        /\ cleanup' = group \o cleanup /\ group' = <<>> /\ rest' = rest
    BY <1>b, Zenon DEF NextOfGroup, GoWaiter
  <2>2. cleanup' = group
    BY <1>2, <2>1, ConcatEmptySeq, Zenon
  <2>6. /\ waiter'[Owner].pc = "cleanup" /\ waiter'[Owner].task = NoTask
        /\ \A q \in Waiter : q # Owner => waiter'[q] = waiter[q]
    BY <1>0, <2>1, Zenon DEF TypeOK
  <2>7. TypeOK'
    <3>1. group' \in Seq(Task) /\ cleanup' \in Seq(Task) /\ rest' \in Seq(Task)
      BY <1>2, <2>1, <2>2, SMTT(60)
    <3>2. waiter' = [waiter EXCEPT ![Owner] = [pc |-> "cleanup", task |-> NoTask]]
      BY <2>1, Zenon
    <3> QED
      BY <1>1, <3>1, <3>2, Zenon DEF TypeOK
  <2>9. \A q \in Waiter, u \in Task : Holds(q, u)' <=> Holds(q, u)
    <3>1. \A u : Holds(Owner, u)' <=> Holds(Owner, u)
      BY <1>2, <2>1, <2>2, RangeEmpty, Zenon DEF Holds
    <3> QED
      BY <1>0, <1>1, <2>6, <3>1, Zenon DEF Holds, Waiter
  <2>10. \A u \in Task : Held(u)' <=> Held(u)
    BY <2>9, Zenon DEF Held
  <2>11. HandleInv'
    <3>1. \A q, r \in Waiter, u \in Task : Holds(q, u)' /\ Holds(r, u)' => q = r
      BY <2>9, Zenon DEF HandleInv
    <3>2. \A d \in Client : waiter'[d] = waiter[d]
      BY <1>0, <2>6, Zenon
    <3>3. \A u \in Range(cleanup') : done[u] = 1
      BY <1>2, <1>b, <2>2, RangeEmpty, Zenon
    <3> QED
      BY <1>0, <1>1, <1>2, <1>b, <2>1, <2>2, <2>6, <3>1, <3>2, <3>3, RangeEmpty, ZenonT(60) DEF HandleInv
  <2>12. ReferenceInv'
    BY <1>1, <1>3, <1>4, <2>6, <2>9, <2>10, SMTT(60) DEF ReferenceInv
  <2>13. ShutdownInv'
    BY <1>0, <1>1, <2>6, ShutdownFrame, Zenon
  <2>14. Outstanding' = Outstanding
    <3>1. \A u \in Task : Pending(u)' <=> Pending(u)
      BY <1>0, <1>1, <2>1, <2>6, <2>7, RangeEmpty, PendingWhere, PendingWhereNext, SMTT(60)
    <3> QED
      BY <3>1, Zenon DEF Outstanding
  <2> QED
    BY <1>1, <1>3, <2>7, <2>11, <2>12, <2>13, <2>14, Zenon
<1> QED
  BY <1>a, <1>b, Zenon

(* The owner frees what it has waited for. *)
LEMMA ReleaseGroupStep ==
    ASSUME PoolInv, ReleaseGroup
    PROVE  PoolInv'
<1> USE PoolAssumption DEF PoolInv
<1>0. Owner \in Waiter /\ Client \subseteq Waiter /\ Owner \notin Client
  BY Zenon DEF Waiter
<1>1. /\ waiter[Owner].pc = "cleanup"
      /\ UNCHANGED <<state, queue, done, result, worker, held, group, rest, handle>>
  BY Zenon DEF ReleaseGroup
<1>2. /\ waiter[Owner].task = NoTask /\ group = <<>> /\ rest = <<>>
      /\ cleanup \in Seq(Task) /\ IsInjective(cleanup)
  BY <1>0, <1>1, Zenon DEF HandleInv, TypeOK
<1>3. QueueInv' /\ \A u : Unreturned(u)' = Unreturned(u)
  BY <1>1, QueueFrame, Zenon
<1>a. ASSUME cleanup # <<>>
      PROVE  PoolInv'
  <2>1. PICK t \in Task : t = Head(cleanup)
    BY <1>2, <1>a, RangeTail, Zenon
  <2>2. /\ refs' = [refs EXCEPT ![t] = @ - 1] /\ record' = [record EXCEPT ![t] = "freed"]
        /\ cleanup' = Tail(cleanup) /\ UNCHANGED waiter
    BY <1>a, <2>1, Zenon DEF ReleaseGroup, Release
  <2>3. /\ t \in Range(cleanup) /\ cleanup' \in Seq(Task) /\ IsInjective(cleanup')
        /\ Range(cleanup') = Range(cleanup) \ {t} /\ done[t] = 1
    BY <1>2, <1>a, <2>1, <2>2, RangeTail, Zenon DEF HandleInv
  <2>4. Holds(Owner, t) /\ Held(t)
    BY <1>0, <2>3, Zenon DEF Holds, Held
  <2>5. refs[t] \in {1, 2}
    BY <2>4, SMTT(60) DEF ReferenceInv
  <2>7. TypeOK'
    BY <1>1, <2>2, <2>3, <2>5, SMTT(60) DEF TypeOK
  <2>8. \A q \in Waiter : Holds(q, t) => q = Owner
    BY <1>0, <2>4, Zenon DEF HandleInv
  <2>9. \A q \in Waiter, u \in Task : Holds(q, u)' <=> Holds(q, u) /\ u # t
    <3>1. \A u : Holds(Owner, u)' <=> Holds(Owner, u) /\ u # t
      BY <1>1, <1>2, <2>3, RangeEmpty, Zenon DEF Holds
    <3>2. \A q \in Waiter, u \in Task : q # Owner => (Holds(q, u)' <=> Holds(q, u))
      BY <1>1, <2>2, Zenon DEF Holds
    <3> QED
      BY <2>8, <3>1, <3>2, Zenon
  <2>10. \A u \in Task : Held(u)' <=> Held(u) /\ u # t
    BY <2>9, Zenon DEF Held
  <2>11. HandleInv'
    <3>1. \A q, r \in Waiter, u \in Task : Holds(q, u)' /\ Holds(r, u)' => q = r
      BY <2>9, Zenon DEF HandleInv
    <3> QED
      BY <1>1, <1>2, <2>2, <2>3, <3>1, Zenon DEF HandleInv
  <2>12. ReferenceInv'
    <3>1. \A u \in Task : /\ refs'[u] = IF u = t THEN refs[u] - 1 ELSE refs[u]
                          /\ record'[u] = IF u = t THEN "freed" ELSE record[u]
                          /\ refs[u] \in Int
      BY <2>2, SMTT(60) DEF TypeOK
    <3> QED
      BY <1>1, <1>3, <2>2, <2>3, <2>4, <2>9, <2>10, <3>1, SMTT(60) DEF ReferenceInv
  <2>13. ShutdownInv'
    BY <1>0, <1>1, <2>2, ShutdownFrame, Zenon
  <2>14. Outstanding' = Outstanding
    <3>1. \A u \in Task : Pending(u)' <=> Pending(u)
      BY <1>1, <2>2, <2>7, PendingWhere, PendingWhereNext, Zenon
    <3> QED
      BY <3>1, Zenon DEF Outstanding
  <2> QED
    BY <1>1, <1>3, <2>7, <2>11, <2>12, <2>13, <2>14, Zenon
<1>b. ASSUME cleanup = <<>>
      PROVE  PoolInv'
  <2>1. /\ waiter' = [waiter EXCEPT ![Owner] = [pc |-> "free", task |-> NoTask]]
        /\ UNCHANGED <<refs, record, cleanup>>
    BY <1>b, Zenon DEF ReleaseGroup, GoWaiter
  <2>6. /\ waiter'[Owner].pc = "free" /\ waiter'[Owner].task = NoTask
        /\ \A q \in Waiter : q # Owner => waiter'[q] = waiter[q]
    BY <1>0, <2>1, Zenon DEF TypeOK
  <2>7. TypeOK'
    BY <1>1, <2>1, Zenon DEF TypeOK
  <2>9. \A q \in Waiter, u \in Task : Holds(q, u)' <=> Holds(q, u)
    BY <1>1, <2>1, <2>6, Zenon DEF Holds
  <2>10. \A u \in Task : Held(u)' <=> Held(u)
    BY <2>9, Zenon DEF Held
  <2>11. HandleInv'
    <3>1. \A q, r \in Waiter, u \in Task : Holds(q, u)' /\ Holds(r, u)' => q = r
      BY <2>9, Zenon DEF HandleInv
    <3>2. \A d \in Client : waiter'[d] = waiter[d]
      BY <1>0, <2>6, Zenon
    <3> QED
      BY <1>0, <1>1, <1>2, <1>b, <2>1, <2>6, <3>1, <3>2, ZenonT(60) DEF HandleInv
  <2>12. ReferenceInv'
    <3>1. \A u \in Task : ~Holds(Owner, u)
      BY <1>2, <1>b, RangeEmpty, Zenon DEF Holds
    <3> QED
      BY <1>1, <1>3, <2>1, <2>6, <2>9, <2>10, <3>1, SMTT(60) DEF ReferenceInv
  <2>13. ShutdownInv'
    BY <1>0, <1>1, <2>6, ShutdownFrame, Zenon
  <2>14. Outstanding' = Outstanding
    <3>1. \A u \in Task : Pending(u)' <=> Pending(u)
      BY <1>0, <1>1, <1>2, <2>1, <2>6, <2>7, PendingWhere, PendingWhereNext, Zenon
    <3> QED
      BY <3>1, Zenon DEF Outstanding
  <2> QED
    BY <1>1, <1>3, <2>1, <2>7, <2>11, <2>12, <2>13, <2>14, Zenon
<1> QED
  BY <1>a, <1>b, Zenon

(* The owner moves on in the shutdown: only its own place, the flags and    *)
(* the workers change.                                                      *)
LEMMA OwnerMoves ==
    ASSUME PoolInv, waiter[Owner].task = NoTask, waiter[Owner].pc # "cleanup",
           NEW pc \in {"free", "join", "close", "destroy", "closing"},
           waiter' = [waiter EXCEPT ![Owner] = [pc |-> pc, task |-> NoTask]],
           UNCHANGED <<record, done, held, group, rest, cleanup>>
    PROVE  /\ HandleInv' /\ Outstanding' = Outstanding
           /\ \A u \in Task : Held(u)' <=> Held(u)
           /\ \A q \in Waiter, u \in Task : Holds(q, u)' <=> Holds(q, u)
           /\ \A q \in Waiter, u \in Task :
                Holds(q, u) => (waiter'[q].task = u /\ waiter'[q].pc = "result" <=>
                                waiter[q].task = u /\ waiter[q].pc = "result")
           /\ waiter'[Owner].pc = pc /\ \A q \in Waiter : q # Owner => waiter'[q] = waiter[q]
<1> USE PoolAssumption DEF PoolInv
<1>0. Owner \in Waiter /\ Client \subseteq Waiter /\ Owner \notin Client
  BY Zenon DEF Waiter
<1>1. /\ waiter'[Owner].pc = pc /\ waiter'[Owner].task = NoTask
      /\ \A q \in Waiter : q # Owner => waiter'[q] = waiter[q]
  BY <1>0, Zenon DEF TypeOK
<1>2. \A q \in Waiter, u \in Task : Holds(q, u)' <=> Holds(q, u)
  BY <1>1, Zenon DEF Holds
<1>3. \A u \in Task : Held(u)' <=> Held(u)
  BY <1>2, Zenon DEF Held
<1>4. /\ rest = <<>> /\ cleanup = <<>>
      /\ waiter[Owner].pc \notin {"check", "asleep", "dispose", "waited", "result"}
  BY <1>0, Zenon DEF HandleInv
<1>5. HandleInv'
  <2>1. \A q, r \in Waiter, u \in Task : Holds(q, u)' /\ Holds(r, u)' => q = r
    BY <1>2, Zenon DEF HandleInv
  <2>2. \A d \in Client : waiter'[d] = waiter[d]
    BY <1>0, <1>1, Zenon
  <2> QED
    BY <1>0, <1>1, <1>4, <2>1, <2>2, ZenonT(60) DEF HandleInv
<1>6. Outstanding' = Outstanding
  <2>1. ASSUME NEW u \in Task PROVE Pending(u)' <=> Pending(u)
    <3>1. (\E q \in Waiter : waiter'[q].task = u /\ waiter'[q].pc \in {"check", "asleep"}) <=>
          (\E q \in Waiter : waiter[q].task = u /\ waiter[q].pc \in {"check", "asleep"})
      BY <1>0, <1>1, Zenon
    <3> QED
      BY <1>1, <1>4, <3>1, Zenon DEF Pending
  <2> QED
    BY <2>1, Zenon DEF Outstanding
<1> QED
  BY <1>1, <1>2, <1>3, <1>4, <1>5, <1>6, Zenon

(* The steps of pool_shutdown. *)
LEMMA ShutdownStep ==
    ASSUME PoolInv, Shutdown \/ Join \/ Close \/ Closed
    PROVE  PoolInv'
<1> USE PoolAssumption DEF PoolInv
<1>0. Owner \in Waiter
  BY Zenon DEF Waiter
<1>a. /\ waiter[Owner].pc \in {"free", "join", "close", "destroy", "closing"}
      /\ UNCHANGED <<queue, record, done, refs, result, held, group, rest, cleanup>>
  BY Zenon DEF Shutdown, Join, Close, Closed, memory, handles
<1>b. waiter[Owner].task = NoTask
  BY <1>0, <1>a, Zenon DEF HandleInv
<1>c. PICK pc \in {"free", "join", "close", "destroy", "closing"} :
          waiter' = [waiter EXCEPT ![Owner] = [pc |-> pc, task |-> NoTask]]
  BY Zenon DEF Shutdown, Join, Close, Closed, GoWaiter
<1>d. /\ HandleInv' /\ Outstanding' = Outstanding
      /\ \A u \in Task : Held(u)' <=> Held(u)
      /\ \A q \in Waiter, u \in Task : Holds(q, u)' <=> Holds(q, u)
      /\ \A q \in Waiter, u \in Task :
            Holds(q, u) => (waiter'[q].task = u /\ waiter'[q].pc = "result" <=>
                            waiter[q].task = u /\ waiter[q].pc = "result")
      /\ waiter'[Owner].pc = pc /\ \A q \in Waiter : q # Owner => waiter'[q] = waiter[q]
  BY <1>a, <1>b, <1>c, OwnerMoves, Zenon
<1>e. /\ worker' \in [Worker -> [pc : {"idle", "asleep", "running", "returning", "finishing", "exited"},
                                 task : Task \cup {NoTask}]]
      /\ \A w \in Worker :
           /\ worker'[w].task = worker[w].task
           /\ worker'[w].pc = worker[w].pc \/ (worker[w].pc = "asleep" /\ worker'[w].pc = "idle")
  <2>1. CASE UNCHANGED worker
    BY <2>1, Zenon DEF TypeOK
  <2>2. CASE worker' = [w \in Worker |->
             IF w \in Asleep THEN [worker[w] EXCEPT !.pc = "idle"] ELSE worker[w]]
    BY <2>2, ZenonT(60) DEF TypeOK, Asleep
  <2> QED
    BY <2>1, <2>2, Zenon DEF Shutdown, Join, Close, Closed
<1>f. QueueInv'
  BY <1>a, <1>e, SMTT(60) DEF QueueInv
<1>g. \A u \in Task : Unreturned(u)' <=> Unreturned(u)
  BY <1>a, <1>e, ZenonT(60) DEF Unreturned
<1>h. ReferenceInv'
  BY <1>a, <1>d, <1>e, <1>g, SMTT(60) DEF ReferenceInv
<1>i. /\ state' \in [alive : BOOLEAN, shutdown : {0, 1}, outstanding : Nat, ownerClosed : {0, 1}]
      /\ state'.outstanding = state.outstanding
  <2>1. CASE Shutdown
    BY <2>1, Zenon DEF Shutdown, TypeOK
  <2>2. CASE Join
    BY <2>2, Zenon DEF Join, TypeOK
  <2>3. CASE Close
    BY <2>3, Zenon DEF Close, TypeOK
  <2>4. CASE Closed
    BY <2>4, Zenon DEF Closed, TypeOK
  <2> QED
    BY <2>1, <2>2, <2>3, <2>4, Zenon
<1>j. TypeOK'
  BY <1>0, <1>a, <1>c, <1>e, <1>i, Zenon DEF TypeOK, Shutdown, Join, Close, Closed, handles
<1>k. ShutdownInv'
  <2>1. \A q \in Waiter : q # Owner => Disposing(q)' = Disposing(q)
    BY <1>d, Zenon DEF Disposing
  <2>2. CASE Shutdown
    <3>1. /\ waiter[Owner].pc = "free" /\ handle = "open" /\ UNCHANGED <<handle, queue>>
          /\ waiter'[Owner].pc = "join" /\ state'.shutdown = 1
          /\ state'.alive = state.alive /\ state'.ownerClosed = state.ownerClosed
      BY <1>0, <2>2, Zenon DEF Shutdown, GoWaiter, TypeOK, handles
    <3> QED
      BY <1>0, <1>d, <1>e, <1>i, <2>1, <3>1, SMTT(60) DEF ShutdownInv, Disposing
  <2>3. CASE Join
    <3>1. /\ waiter[Owner].pc = "join" /\ UNCHANGED <<state, handle, queue, worker>>
          /\ waiter'[Owner].pc = "close" /\ \A w \in Worker : worker[w].pc = "exited"
      BY <1>0, <2>3, Zenon DEF Join, GoWaiter, TypeOK, handles
    <3> QED
      BY <1>0, <1>d, <2>1, <3>1, SMTT(60) DEF ShutdownInv, Disposing
  <2>4. CASE Close
    <3>1. /\ waiter[Owner].pc = "close" /\ UNCHANGED <<handle, queue, worker>>
          /\ waiter'[Owner].pc = IF state.outstanding = 0 THEN "destroy" ELSE "closing"
          /\ state'.ownerClosed = 1 /\ state'.alive = state.alive /\ state'.shutdown = state.shutdown
      BY <1>0, <2>4, Zenon DEF Close, GoWaiter, TypeOK, handles
    <3>2. handle = "open" /\ state.ownerClosed = 0 /\ state.alive /\ \A q \in Waiter : ~Disposing(q)
      BY <1>0, <3>1, Zenon DEF ShutdownInv, TypeOK
    <3>3. Disposing(Owner)' <=> state.outstanding = 0
      BY <3>1, Zenon DEF Disposing
    <3> QED
      BY <1>0, <1>d, <1>i, <2>1, <3>1, <3>2, <3>3, SMTT(60) DEF ShutdownInv
  <2>5. CASE Closed
    <3>1. /\ waiter[Owner].pc \in {"destroy", "closing"} /\ UNCHANGED <<queue, worker>>
          /\ waiter'[Owner].pc = "free" /\ handle' = "null"
          /\ state'.ownerClosed = state.ownerClosed /\ state'.shutdown = state.shutdown
          /\ state'.alive <=> state.alive /\ waiter[Owner].pc # "destroy"
      BY <1>0, <2>5, Zenon DEF Closed, GoWaiter, TypeOK, memory
    <3>2. ~Disposing(Owner)' /\ (Disposing(Owner) <=> waiter[Owner].pc = "destroy")
      BY <3>1, Zenon DEF Disposing
    <3>3. state.ownerClosed = 1 /\ state.shutdown = 1
      BY <3>1, Zenon DEF ShutdownInv
    <3> QED
      BY <1>0, <1>d, <1>i, <2>1, <3>1, <3>2, <3>3, SMTT(60) DEF ShutdownInv
  <2> QED
    BY <2>2, <2>3, <2>4, <2>5, Zenon
<1> QED
  BY <1>d, <1>f, <1>h, <1>i, <1>j, <1>k, Zenon

------------------------------------------------------------------------------
(* The invariant holds for any numbers of workers, tasks and clients: a    *)
(* task is queued once and run by one worker, its handle has one holder,   *)
(* refs and outstanding_records count what they should, and the pool state *)
(* is disposed of by one thread, after everyone else is through with it.   *)
THEOREM PoolIsSound == Spec => []PoolInv
<1>1. PoolInv /\ [Next]_vars => PoolInv'
  <2> SUFFICES ASSUME PoolInv, [Next]_vars PROVE PoolInv'
    BY Zenon
  <2>1. CASE UNCHANGED vars
    <3>1. UNCHANGED <<state, queue, record, done, refs, result, worker, waiter, held, group, rest,
                      cleanup, handle>>
      BY <2>1, Zenon DEF vars, memory, handles
    <3>2. /\ \A p, t : Holds(p, t)' = Holds(p, t)
          /\ \A t : Held(t)' = Held(t) /\ Unreturned(t)' = Unreturned(t)
          /\ Outstanding' = Outstanding /\ HandleInv' /\ QueueInv'
      BY <3>1, HandlesFrame, QueueFrame, Zenon DEF PoolInv
    <3> QED
      BY <3>1, <3>2, SMTT(60) DEF PoolInv, TypeOK, ReferenceInv, ShutdownInv, Disposing
  <2>2. CASE Starting
    BY <2>2, SubmitStep, BeginAwaitStep, BeginWaitAllStep, ShutdownStep, Zenon DEF Starting
  <2>3. ASSUME NEW w \in Worker, Working(w) \/ WakeSpuriously(w) PROVE PoolInv'
    BY <2>3, TakeTaskStep, SleepStep, BodyStep, FinishStep, Zenon DEF Working
  <2>4. ASSUME NEW p \in Waiter, Waiting(p) \/ WakeWaiterSpuriously(p) PROVE PoolInv'
    BY <2>4, WaitStep, CountDownStep, DisposeStep, FreeRecordStep, TakeResultStep, Zenon DEF Waiting
  <2>5. CASE Owning
    BY <2>5, NextOfGroupStep, ReleaseGroupStep, ShutdownStep, Zenon DEF Owning
  <2> QED
    BY <2>1, <2>2, <2>3, <2>4, <2>5, Zenon DEF Next
<1> QED
  BY <1>1, InitPoolInv, PTL DEF Spec

(* Nothing is touched after it was freed, and the pool state is destroyed  *)
(* once.                                                                   *)
THEOREM PoolMemorySafe == Spec => []MemorySafe
<1>1. PoolInv => MemorySafe
  <2> SUFFICES ASSUME PoolInv PROVE MemorySafe
    BY Zenon
  <2> USE PoolAssumption DEF PoolInv
  <2>0. Owner \in Waiter /\ Client \subseteq Waiter /\ \A p \in Waiter : p = Owner \/ p \in Client
    BY Zenon DEF Waiter
  <2>1. ASSUME ~state.alive
        PROVE  /\ \A w \in Worker : worker[w].pc = "exited"
               /\ \A p \in Waiter : waiter[p].pc \notin {"check", "asleep", "dispose", "join", "close", "destroy"}
               /\ \A t \in Task : ~Pending(t)
    <3>1. /\ state.ownerClosed = 1 /\ state.outstanding = 0 /\ \A p \in Waiter : ~Disposing(p)
          /\ \A w \in Worker : worker[w].pc = "exited"
      BY <2>1, Zenon DEF ShutdownInv
    <3>2. Outstanding = {}
      BY <3>1, OutstandingFinite, FS_EmptySet, Zenon
    <3>3. \A t \in Task : ~Pending(t)
      BY <3>2, Zenon DEF Outstanding
    <3>4. \A p \in Waiter : waiter[p].pc \notin {"check", "asleep"}
      <4>1. ASSUME NEW p \in Waiter, waiter[p].pc \in {"check", "asleep"} PROVE FALSE
        <5>1. waiter[p].task \in Task
          BY <4>1, Zenon DEF HandleInv, TypeOK
        <5> QED
          BY <3>3, <4>1, <5>1, Zenon DEF Pending
      <4> QED
        BY <4>1, Zenon
    <3>5. \A p \in Waiter : waiter[p].pc \notin {"join", "close"}
      <4>1. waiter[Owner].pc \notin {"join", "close"}
        BY <3>1, Zenon DEF ShutdownInv
      <4> QED
        BY <2>0, <4>1, Zenon DEF HandleInv
    <3> QED
      BY <3>1, <3>3, <3>4, <3>5, Zenon DEF Disposing
  <2>2. Cardinality({p \in Waiter : waiter[p].pc \in {"dispose", "destroy"}}) <= 1
    <3> DEFINE D == {p \in Waiter : waiter[p].pc \in {"dispose", "destroy"}}
    <3>1. CASE D = {}
      BY <3>1, FS_EmptySet, SMTT(60)
    <3>2. CASE D # {}
      <4>1. PICK p \in D : TRUE
        BY <3>2, Zenon
      <4>2. D = {p}
        BY <4>1, Zenon DEF ShutdownInv, Disposing
      <4> QED
        BY <4>2, FS_Singleton, SMTT(60)
    <3> QED
      BY <3>1, <3>2, Zenon
  <2>3. ASSUME NEW t \in Task, record[t] = "freed"
        PROVE  /\ \A i \in DOMAIN queue : queue[i] # t
               /\ \A w \in Worker : worker[w].task # t
               /\ ~Pending(t)
               /\ \A i \in DOMAIN cleanup : cleanup[i] # t
    <3>1. t \notin Range(queue) /\ \A w \in Worker : worker[w].task # t
      BY <2>3, Zenon DEF ReferenceInv, QueueInv
    <3>2. \A p \in Waiter : Holds(p, t) => waiter[p].task = t /\ waiter[p].pc = "result" /\ p # Owner
      BY <2>0, <2>3, SMTT(60) DEF ReferenceInv, HandleInv
    <3>3. t \notin Range(group) \cup Range(cleanup)
      BY <2>0, <3>2, Zenon DEF Holds
    <3>4. \A c \in Client : t \notin Range(held[c])
      BY <2>0, <3>2, ZenonT(60) DEF Holds, HandleInv
    <3>5. \A p \in Waiter : waiter[p].task = t => waiter[p].pc = "result"
      <4>1. \A p \in Waiter : waiter[p].task = t => Holds(p, t)
        BY <2>0, SMTT(60) DEF Holds, HandleInv
      <4> QED
        BY <3>2, <4>1, Zenon
    <3>6. t \notin Range(rest)
      BY <3>3, RangeEmpty, Zenon DEF HandleInv
    <3>7. ~Pending(t)
      BY <3>3, <3>4, <3>5, <3>6, PendingWhere, Zenon
    <3> QED
      BY <3>1, <3>3, <3>7, Zenon DEF Range
  <2>4. ASSUME NEW w \in Worker, worker[w].pc \in {"running", "returning"}
        PROVE  refs[worker[w].task] > 0
    <3>1. PICK t \in Task : t = worker[w].task
      BY <2>4, Busy, Zenon
    <3>2. Unreturned(t)
      BY <2>4, <3>1, Zenon DEF Unreturned
    <3> QED
      BY <3>1, <3>2, SMTT(60) DEF ReferenceInv
  <2>5. ASSUME NEW c \in Client, waiter[c].pc = "result"
        PROVE  refs[waiter[c].task] > 0 /\ result[waiter[c].task] = "written"
    <3>1. PICK t \in Task : t = waiter[c].task
      BY <2>0, <2>5, Zenon DEF HandleInv, TypeOK
    <3>2. Held(t)
      BY <2>0, <3>1, Zenon DEF Held, Holds
    <3>3. done[t] = 1
      BY <2>0, <2>5, <3>1, Zenon DEF HandleInv
    <3> QED
      BY <3>1, <3>2, <3>3, SMTT(60) DEF ReferenceInv, QueueInv
  <2> QED
    BY <2>1, <2>2, <2>3, <2>4, <2>5, Zenon DEF MemorySafe
<1> QED
  BY <1>1, PoolIsSound, PTL

(* outstanding_records is the number of records still to be waited for. *)
THEOREM OutstandingIsCounted == Spec => []OutstandingCounts
<1>1. PoolInv => OutstandingCounts
  BY Zenon DEF PoolInv, OutstandingCounts
<1> QED
  BY <1>1, PoolIsSound, PTL

(* When the owner has closed the pool and every handle was consumed, the   *)
(* pool state, every record and every work state has been freed.           *)
THEOREM PoolLeaksNothing == Spec => []NothingLeaked
<1>1. PoolInv => NothingLeaked
  <2> SUFFICES ASSUME PoolInv, Over
               PROVE  ~state.alive /\ \A t \in Submitted : record[t] = "freed" /\ refs[t] = 0
    BY Zenon DEF NothingLeaked
  <2> USE PoolAssumption DEF PoolInv
  <2>0. Owner \in Waiter /\ Client \subseteq Waiter /\ \A p \in Waiter : p = Owner \/ p \in Client
    BY Zenon DEF Waiter
  <2>1. /\ handle = "null" /\ \A p \in Waiter : waiter[p].pc = "free" /\ waiter[p].task = NoTask
        /\ \A c \in Client : held[c] = <<>>
        /\ group = <<>> /\ cleanup = <<>>
    BY <2>0, Zenon DEF Over, HandleInv
  <2>2. \A t \in Task : ~Held(t)
    BY <2>0, <2>1, RangeEmpty, Zenon DEF Held, Holds
  <2>3. Outstanding = {}
    BY <2>2, PendingHeld, Zenon DEF Outstanding
  <2>4. state.outstanding = 0
    BY <2>3, FS_EmptySet, Zenon
  <2>5. state.ownerClosed = 1 /\ \A p \in Waiter : ~Disposing(p)
    BY <2>1, Zenon DEF ShutdownInv, Disposing
  <2>6. ~state.alive
    BY <2>4, <2>5, Zenon DEF ShutdownInv
  <2>7. ASSUME NEW t \in Submitted PROVE record[t] = "freed" /\ refs[t] = 0
    <3>1. t \in Task /\ record[t] = "freed"
      BY <2>2, SMTT(60) DEF Submitted, ReferenceInv, TypeOK
    <3>2. ~Unreturned(t)
      BY <3>1, SMTT(60) DEF ReferenceInv, QueueInv, Unreturned
    <3> QED
      BY <2>2, <3>1, <3>2, SMTT(60) DEF ReferenceInv
  <2> QED
    BY <2>6, <2>7, Zenon
<1> QED
  BY <1>1, PoolIsSound, PTL

------------------------------------------------------------------------------
(* The workers that are about to look at the queue. *)
Idle == {w \in Worker : worker[w].pc = "idle"}

(* There are finitely many of them. *)
LEMMA IdleFinite == IsFiniteSet(Idle) /\ Cardinality(Idle) \in Nat
<1>1. Idle \in SUBSET Worker /\ IsFiniteSet(Worker)
  BY PoolAssumption, Zenon DEF Idle
<1>2. IsFiniteSet(Idle)
  BY <1>1, FS_Subset, Zenon
<1> QED
  BY <1>2, FS_CardinalityType, Zenon

(* The same of the next state. *)
LEMMA IdleFiniteNext == IsFiniteSet(Idle') /\ Cardinality(Idle') \in Nat
<1>1. Idle' \in SUBSET Worker /\ IsFiniteSet(Worker)
  BY PoolAssumption, Zenon DEF Idle
<1>2. IsFiniteSet(Idle')
  BY <1>1, FS_Subset, Zenon
<1> QED
  BY <1>2, FS_CardinalityType, Zenon

(* A step that neither adds a task nor takes an idle worker away. *)
LEMMA ConservingFrame ==
    ASSUME TypeOK, WorkConserving, UNCHANGED queue, Idle \subseteq Idle', Asleep' \subseteq Asleep
    PROVE  WorkConserving'
<1>1. Cardinality(Idle) <= Cardinality(Idle')
  BY IdleFiniteNext, FS_Subset, Zenon
<1>2. Len(queue) \in Nat
  BY SMTT(60) DEF TypeOK
<1>3. Asleep # {} => Len(queue) <= Cardinality(Idle)
  BY Zenon DEF WorkConserving, Idle
<1>4. Asleep' # {} => Len(queue') <= Cardinality(Idle')
  BY <1>1, <1>2, <1>3, IdleFinite, IdleFiniteNext, SMTT(60)
<1> QED
  BY <1>4, Zenon DEF WorkConserving, Idle, Asleep

(* One worker goes from pc to another place, the others stay. *)
LEMMA WorkerMoves ==
    ASSUME TypeOK, NEW w \in Worker, NEW pc, NEW t, GoWorker(w, pc, t)
    PROVE  /\ Idle' = IF pc = "idle" THEN Idle \cup {w} ELSE Idle \ {w}
           /\ Asleep' = IF pc = "asleep" THEN Asleep \cup {w} ELSE Asleep \ {w}
BY SMTT(60) DEF TypeOK, GoWorker, Idle, Asleep

(* Every queued task has an idle worker of its own as long as some worker  *)
(* sleeps: one signal per submitted task is enough, and none is lost.      *)
THEOREM WorkIsConserved == Spec => []WorkConserving
<1>1. Init => WorkConserving
  BY SMTT(60) DEF Init, WorkConserving, Asleep
<1>2. PoolInv /\ WorkConserving /\ [Next]_vars => WorkConserving'
  <2> SUFFICES ASSUME PoolInv, WorkConserving, [Next]_vars PROVE WorkConserving'
    BY Zenon
  <2>0. TypeOK /\ Len(queue) \in Nat /\ (Asleep # {} => Len(queue) <= Cardinality(Idle))
    BY SMTT(60) DEF PoolInv, TypeOK, WorkConserving, Idle
  <2>a. WorkConserving' <=> (Asleep' # {} => Len(queue') <= Cardinality(Idle'))
    BY Zenon DEF WorkConserving, Idle, Asleep
  <2>1. CASE UNCHANGED <<queue, worker>>
    BY <2>0, <2>1, ConservingFrame, Zenon DEF Idle, Asleep
  <2>2. ASSUME NEW t \in Task, NEW p \in Waiter, Submit(t, p) PROVE WorkConserving'
    <3>1. Len(queue') = Len(queue) + 1
      BY <2>0, <2>2, RangeAppend, SMTT(60) DEF Submit, Enqueue, TypeOK
    <3>2. CASE Asleep = {}
      <4>1. Asleep' = {}
        BY <2>2, <3>2, Zenon DEF Submit, SignalWork, Asleep
      <4> QED
        BY <2>a, <4>1, Zenon
    <3>3. CASE Asleep # {}
      <4>1. PICK w \in Asleep : GoWorker(w, "idle", NoTask)
        BY <2>2, <3>3, Zenon DEF Submit, SignalWork
      <4>2. w \in Worker /\ w \notin Idle
        BY <4>1, Zenon DEF Asleep, Idle
      <4>3. Idle' = Idle \cup {w}
        BY <2>0, <4>1, <4>2, WorkerMoves, Zenon
      <4>4. Cardinality(Idle') = Cardinality(Idle) + 1
        BY <4>2, <4>3, IdleFinite, FS_AddElement, Zenon
      <4> QED
        BY <2>0, <2>a, <3>1, <3>3, <4>4, IdleFinite, SMTT(60)
    <3> QED
      BY <3>2, <3>3, Zenon
  <2>3. CASE Shutdown
    <3>1. Asleep' = {}
      BY <2>0, <2>3, Zenon DEF Shutdown, Asleep, TypeOK
    <3> QED
      BY <2>a, <3>1, Zenon
  <2>4. ASSUME NEW w \in Worker, TakeTask(w) PROVE WorkConserving'
    <3>1. GoWorker(w, "running", Head(queue)) /\ w \in Idle /\ queue # <<>> /\ queue' = Tail(queue)
      BY <2>4, Zenon DEF TakeTask, Idle
    <3>2. Idle' = Idle \ {w} /\ Asleep' = Asleep \ {w}
      BY <2>0, <3>1, WorkerMoves, SMTT(60)
    <3>3. Cardinality(Idle') = Cardinality(Idle) - 1
      BY <3>1, <3>2, IdleFinite, FS_RemoveElement, Zenon
    <3>4. Len(queue') = Len(queue) - 1
      BY <2>0, <3>1, HeadTailProperties, Zenon DEF TypeOK
    <3> QED
      BY <2>0, <2>a, <3>2, <3>3, <3>4, IdleFinite, SMTT(60)
  <2>5. ASSUME NEW w \in Worker, WaitForWork(w) PROVE WorkConserving'
    <3>1. queue' = <<>>
      BY <2>5, Zenon DEF WaitForWork
    <3> QED
      BY <2>a, <3>1, IdleFiniteNext, SMTT(60)
  <2>6. ASSUME NEW w \in Worker, WakeSpuriously(w) \/ Finish(w) PROVE WorkConserving'
    <3>1. GoWorker(w, "idle", NoTask) /\ UNCHANGED queue
      BY <2>6, Zenon DEF WakeSpuriously, Finish
    <3>2. Idle \subseteq Idle' /\ Asleep' \subseteq Asleep
      BY <2>0, <3>1, WorkerMoves, Zenon
    <3> QED
      BY <2>0, <3>1, <3>2, ConservingFrame, Zenon
  <2>7. ASSUME NEW w \in Worker, RunBody(w) \/ LeaveBody(w) PROVE WorkConserving'
    <3>1. PICK pc \in {"returning", "finishing"} : GoWorker(w, pc, worker[w].task)
      BY <2>7, Zenon DEF RunBody, LeaveBody
    <3>2. w \notin Idle /\ UNCHANGED queue
      BY <2>7, Zenon DEF RunBody, LeaveBody, Idle
    <3>3. Idle \subseteq Idle' /\ Asleep' \subseteq Asleep
      BY <2>0, <3>1, <3>2, WorkerMoves, Zenon
    <3> QED
      BY <2>0, <3>2, <3>3, ConservingFrame, Zenon
  <2>8. ASSUME NEW p \in Waiter, Waiting(p) \/ WakeWaiterSpuriously(p) \/ BeginAwait(p)
        PROVE  UNCHANGED <<queue, worker>>
    BY <2>8, Zenon DEF Waiting, WaitForDone, CountDown, Dispose, FreeRecord, TakeResult,
                WakeWaiterSpuriously, BeginAwait
  <2>9. CASE Owning \/ BeginWaitAll
    <3>1. UNCHANGED <<queue, worker>>
      BY <2>9, Zenon DEF Owning, NextOfGroup, ReleaseGroup, Join, Close, Closed, BeginWaitAll
    <3> QED
      BY <2>1, <3>1, Zenon
  <2>10. CASE UNCHANGED vars
    BY <2>1, <2>10, Zenon DEF vars
  <2> QED
    BY <2>1, <2>2, <2>3, <2>4, <2>5, <2>6, <2>7, <2>8, <2>9, <2>10, Zenon
       DEF Next, Starting, Working, Waiter
<1> QED
  BY <1>1, <1>2, PoolIsSound, PTL DEF Spec

===============================================================================
