-------------------------- MODULE QueryDatabaseProofs --------------------------
(***************************************************************************)
(* Proofs about the query database, for every set of keys, values, clients *)
(* and every family of evaluators.                                         *)
(***************************************************************************)
EXTENDS QueryDatabase, SequenceTheorems, TLAPS

-----------------------------------------------------------------------------
(* Writers.                                                                *)

\* e is d after some writers: what they touched carries a stamp younger than d.
LaterVersion(d, e) ==
    \/ e = d
    \/ /\ e.revision > d.revision
       /\ \A k \in InputKey :
            \/ e.inputs[k] = d.inputs[k]
            \/ e.inputs[k].changed > d.revision /\ e.inputs[k].changed <= e.revision
       /\ \A q \in QueryKey : e.results[q] = d.results[q] \/ e.results[q] = None

\* Written yields cells, and those it touches carry its stamp.
LEMMA WrittenType ==
    ASSUME NEW d \in Database, NEW K \in SUBSET InputKey, NEW pending \in [K -> Stored],
           NEW retired \in SUBSET InputKey, NEW r \in Nat
    PROVE  /\ Written(d, pending, retired, r) \in [InputKey -> Cell]
           /\ \A k \in InputKey : \/ Written(d, pending, retired, r)[k] = d.inputs[k]
                                  \/ Written(d, pending, retired, r)[k].changed = r
BY Zenon DEF Written, Differs, Database, Cell, Stored

\* Apply and applySnapshot commit a later version.
LEMMA applyPendingVersion ==
    ASSUME NEW d \in Database, NEW K \in SUBSET InputKey, NEW pending \in [K -> Stored]
    PROVE  applyPending(d, pending) \in Database /\ LaterVersion(d, applyPending(d, pending))
<1>1. d.revision + 1 \in Nat BY DEF Database
<1> QED
  BY <1>1, WrittenType DEF applyPending, LaterVersion, Database

\* EvictQuery commits a later version.
LEMMA EvictQueryVersion ==
    ASSUME NEW d \in Database, NEW q \in QueryKey
    PROVE  EvictQuery(d, q) \in Database /\ LaterVersion(d, EvictQuery(d, q))
BY DEF EvictQuery, LaterVersion, Database

\* RetireInputs commits a later version.
LEMMA RetireInputsVersion ==
    ASSUME NEW d \in Database, NEW keys \in SUBSET InputKey
    PROVE  RetireInputs(d, keys) \in Database /\ LaterVersion(d, RetireInputs(d, keys))
<1>1. d.revision + 1 \in Nat BY DEF Database
<1> DEFINE w == Written(d, NoChanges, keys, d.revision + 1)
<1>3. /\ w \in [InputKey -> Cell]
      /\ \A k \in InputKey : w[k] = d.inputs[k] \/ w[k].changed = d.revision + 1
  BY <1>1, Zenon DEF Written, Differs, NoChanges, Database, Cell, Stored
<1> HIDE DEF w
<1>4. RetireInputs(d, keys) = IF keys = {} THEN d
         ELSE [revision |-> d.revision + 1, inputs |-> w, results |-> d.results]
  BY Zenon DEF RetireInputs, w
<1> QED
  BY <1>1, <1>3, <1>4 DEF LaterVersion, Database

\* applyTransaction commits a later version.
LEMMA applyTransactionVersion ==
    ASSUME NEW d \in Database, NEW K \in SUBSET InputKey, NEW pending \in [K -> Stored],
           NEW retired \in SUBSET InputKey, NEW evicted \in SUBSET QueryKey
    PROVE  /\ applyTransaction(d, pending, retired, evicted) \in Database
           /\ LaterVersion(d, applyTransaction(d, pending, retired, evicted))
<1>1. d.revision + 1 \in Nat BY DEF Database
<1> QED
  BY <1>1, WrittenType DEF applyTransaction, LaterVersion, Database

\* A step that changes no variable of the database keeps its invariant.
LEMMA Stuttering ==
    ASSUME DatabaseInv, UNCHANGED vars
    PROVE  DatabaseInv'
<1> USE DEF vars, DatabaseInv
<1>1. TypeOK' BY Zenon DEF TypeOK
<1>2. StampsOrdered' BY Zenon DEF StampsOrdered, Memoized
<1>3. MemosExplained' BY Zenon DEF MemosExplained, Memoized
<1>4. StampsTellChange' BY Zenon DEF StampsTellChange, Memoized, Unchanged, Seen, ChangedAt
<1>5. HitsRestOnHits' BY Zenon DEF HitsRestOnHits, Hit
<1>6. StackOK'
  <2>1. ASSUME NEW f, FrameOK(f)
        PROVE  FrameOK(f)'
    <3>1. \A q : Hit(q)' <=> Hit(q) BY DEF Hit
    <3>2. \A e : Current(e) => Current(e)' BY <3>1 DEF Current
    <3>3. \A dep : ChangedAt(dep)' = ChangedAt(dep) BY DEF ChangedAt
    <3>4. Memoized' = Memoized BY Zenon DEF Memoized
    <3> QED BY <2>1, <3>1, <3>2, <3>3, <3>4, Zenon DEF FrameOK
  <2> QED BY <2>1, Zenon DEF StackOK
<1> QED BY <1>1, <1>2, <1>3, <1>4, <1>5, <1>6, Zenon

\* A writer keeps the invariant: whatever rested on a touched cell or a dropped
\* memo is no longer verified, because the revision moved.
LEMMA WriteStep ==
    ASSUME DatabaseInv, NEW d \in Database, LaterVersion(db, d), Write(d)
    PROVE  DatabaseInv'
<1> USE DEF Write
<1>1. stack = <<>> /\ stack' = <<>>
  BY Zenon DEF DatabaseInv, StackOK
<1>2. CASE d = db
  <2>1. UNCHANGED vars BY <1>2, Zenon DEF vars
  <2> QED BY <2>1, Stuttering, Zenon
<1>3. CASE d # db
  <2>0. /\ TypeOK /\ StampsOrdered /\ MemosExplained /\ StampsTellChange
        /\ db \in Database
    BY Zenon DEF DatabaseInv, TypeOK
  <2>1. /\ db'.revision > db.revision
        /\ \A k \in InputKey : \/ db'.inputs[k] = db.inputs[k]
                               \/ db'.inputs[k].changed > db.revision /\ db'.inputs[k].changed <= db'.revision
        /\ \A q \in Memoized' : q \in Memoized /\ db'.results[q] = db.results[q]
    BY <1>3, Zenon DEF LaterVersion, Memoized
  <2>2. TypeOK' BY <2>0, Zenon DEF TypeOK
  <2>3. /\ db.revision \in Nat /\ db'.revision \in Nat
        /\ \A k \in InputKey : db.inputs[k].changed \in Nat /\ db'.inputs[k].changed \in Nat
        /\ \A q \in Memoized : /\ db.results[q].verified \in Nat /\ db.results[q].changed \in Nat
                               /\ db.results[q].log \in Seq(ReadEvent)
    BY <2>0, <2>2, Zenon DEF TypeOK, Database, Cell, Memo, Memoized
  <2>4. StampsOrdered'
    BY <2>0, <2>1, <2>3, SMTT(30) DEF StampsOrdered
  <2>5. MemosExplained'
    BY <2>0, <2>1, Zenon DEF MemosExplained
  <2>6. \A q \in QueryKey : ~Hit(q)'
    BY <2>0, <2>1, <2>3 DEF Hit, Memoized, StampsOrdered
  <2>7. HitsRestOnHits' BY <2>6, Zenon DEF HitsRestOnHits
  <2>8. StackOK' BY <1>1 DEF StackOK
  <2>9. StampsTellChange'
    <3> SUFFICES ASSUME NEW q \in Memoized', NEW i \in DOMAIN db'.results[q].log,
                        Unchanged(db.results[q].log[i], db.results[q].verified)'
                 PROVE  (Seen(db.results[q].log[i].dep) = db.results[q].log[i].seen)'
      BY Zenon DEF StampsTellChange
    <3>1. q \in Memoized /\ db'.results[q] = db.results[q] BY <2>1
    <3> DEFINE e == db.results[q].log[i]
    <3>2. e \in ReadEvent BY <3>1, <2>3
    <3>3. CASE IsQuery(e.dep)
      <4>1. e.dep.key \in QueryKey BY <3>2, <3>3 DEF ReadEvent, Dep, IsQuery
      <4>2. db'.results[e.dep.key] # None BY <3>1, <3>3, Zenon DEF Unchanged
      <4>3. db'.results[e.dep.key] = db.results[e.dep.key] /\ db.results[e.dep.key] # None
        BY <4>1, <4>2, <2>1, Zenon DEF Memoized
      <4> QED BY <3>1, <3>3, <4>3, <2>0, ZenonT(60) DEF StampsTellChange, Unchanged, Seen, ChangedAt
    <3>4. CASE ~IsQuery(e.dep)
      <4>1. e.dep.key \in InputKey BY <3>2, <3>4 DEF ReadEvent, Dep, IsQuery
      <4>2. db'.inputs[e.dep.key].changed <= db.results[q].verified
        BY <3>1, <3>4, Zenon DEF Unchanged, ChangedAt
      <4>0. db.results[q].verified <= db.revision
        BY <2>0, <3>1, Zenon DEF StampsOrdered
      <4> HIDE DEF e
      <4>3. db'.inputs[e.dep.key] = db.inputs[e.dep.key]
        BY <2>1, <2>3, <3>1, <4>0, <4>1, <4>2, SMTT(30)
      <4> USE DEF e
      <4> QED BY <3>1, <3>4, <4>2, <4>3, <2>0, Zenon DEF StampsTellChange, Unchanged, Seen, ChangedAt
    <3> QED BY <3>3, <3>4, Zenon
  <2> QED BY <2>2, <2>4, <2>5, <2>7, <2>8, <2>9, Zenon DEF DatabaseInv
<1> QED BY <1>2, <1>3, Zenon

-----------------------------------------------------------------------------
(* Evaluation steps that leave the database alone.                         *)

MemoInv == StampsOrdered /\ MemosExplained /\ StampsTellChange /\ HitsRestOnHits

\* What the invariant says of memos depends on the database alone.
LEMMA MemoInvKept ==
    ASSUME MemoInv, db' = db
    PROVE  MemoInv'
<1> USE DEF MemoInv
<1>1. StampsOrdered' BY Zenon DEF StampsOrdered, Memoized
<1>2. MemosExplained' BY Zenon DEF MemosExplained, Memoized
<1>3. StampsTellChange' BY Zenon DEF StampsTellChange, Memoized, Unchanged, Seen, ChangedAt
<1>4. HitsRestOnHits' BY Zenon DEF HitsRestOnHits, Hit
<1> QED BY <1>1, <1>2, <1>3, <1>4, Zenon

\* So does what it says of one activation.
LEMMA FrameKept ==
    ASSUME db' = db, NEW f, FrameOK(f)
    PROVE  FrameOK(f)'
BY Zenon DEF FrameOK, Hit, Memoized, Current, ChangedAt

\* The innermost activation is a frame.
LEMMA TypedTop ==
    ASSUME stack \in Seq(Frame), stack # <<>>
    PROVE  /\ Len(stack) \in Nat \ {0}
           /\ DOMAIN stack = 1..Len(stack)
           /\ Len(stack) \in DOMAIN stack
           /\ Top \in Frame
<1>1. Len(stack) \in Nat \ {0} BY EmptySeq
<1> QED BY <1>1, ElementOfSeq, LenProperties DEF Top

\* A recursive call of evaluate starts an activation that has read nothing.
LEMMA EnterStep ==
    ASSUME DatabaseInv, NEW q \in QueryKey, Enter(q), gate # Free, todo # <<>>
    PROVE  DatabaseInv'
<1>1. PICK f \in Frame : f = NewFrame(q, IF db.results[q] = None THEN "exec" ELSE "check")
  <2>1. <<>> \in Seq(Dep) /\ <<>> \in Seq(ReadEvent) BY EmptySeq
  <2>2. \A mode \in {"check", "exec"} : NewFrame(q, mode) \in Frame
    BY <2>1 DEF NewFrame, Frame
  <2> QED BY <2>2, Zenon
<1>2. stack \in Seq(Frame) /\ db' = db /\ stack' = Append(stack, f)
  BY <1>1, Zenon DEF DatabaseInv, TypeOK, Enter
<1>3. /\ stack' \in Seq(Frame)
      /\ DOMAIN stack = 1..Len(stack) /\ DOMAIN stack' = 1..(Len(stack) + 1)
      /\ Len(stack) \in Nat
      /\ \A i \in DOMAIN stack : stack'[i] = stack[i]
      /\ stack'[Len(stack) + 1] = f
  BY <1>1, <1>2, AppendProperties, LenProperties
<1>4. TypeOK' BY <1>3, Zenon DEF DatabaseInv, TypeOK, Enter
<1>5. FrameOK(f)'
  <2>1. f.key = q /\ f.pos = 1 /\ f.log = <<>> /\ f.dependencies = <<>>
        /\ (f.mode = "check" => db.results[q] # None)
    BY <1>1, Zenon DEF NewFrame
  <2>2. db.results[q] # None => db.results[q].dependencies \in Seq(Dep)
    BY Zenon DEF DatabaseInv, TypeOK, Database, Memo
  <2>3. ~Hit(q) /\ q \in QueryKey BY DEF Enter
  <2>4. ~Hit(f.key)' BY <1>2, <2>1, <2>3, Zenon DEF Hit
  <2>5. DOMAIN f.log = {} BY <2>1
  <2>6. Run(f.key, f.log) /\ Covered(f.log, f.dependencies) BY <2>5 DEF Run, Covered
  <2>7. f.mode = "check" => /\ (f.key \in Memoized)'
                            /\ \A i \in DOMAIN db'.results[f.key].dependencies : ~(i < f.pos)
    BY <1>2, <2>1, <2>2, <2>3, LenProperties DEF Memoized
  <2> QED BY <2>4, <2>5, <2>6, <2>7, Zenon DEF FrameOK
<1>6. StackOK'
  <2>1. \A i \in DOMAIN stack' : FrameOK(stack[i])'
    BY <1>2, <1>3, <1>5, FrameKept DEF DatabaseInv, StackOK
  <2>2. \A i \in DOMAIN stack : stack[i].key # f.key
    BY <1>1, Zenon DEF Enter, Active, NewFrame
  <2>3. \A i, j \in DOMAIN stack' : stack'[i].key = stack'[j].key => i = j
    BY <1>3, <2>2 DEF DatabaseInv, StackOK
  <2> QED BY <2>1, <2>3, Zenon DEF StackOK, Enter
<1> QED BY <1>2, <1>4, <1>6, MemoInvKept, Zenon DEF DatabaseInv, MemoInv

\* An error is an answer.
LEMMA ErrorAnswer ==
    ASSUME NEW kind \in ErrorKind
    PROVE  [ok |-> FALSE, kind |-> kind] \in Answer
BY Zenon DEF Answer

\* Errors, cancellation, and the calls that open and close an evaluation.
LEMMA FailStep ==
    ASSUME DatabaseInv, NEW kind \in ErrorKind, Fail(kind), todo # <<>>
    PROVE  DatabaseInv'
<1>1. db' = db /\ stack' = <<>> BY DEF Fail
<1>2. TypeOK'
  <2>1. [ok |-> FALSE, kind |-> kind] \in Answer BY ErrorAnswer
  <2>2. answers' \in Seq(Answer)
    BY <2>1, AppendProperties, Zenon DEF DatabaseInv, TypeOK, Fail
  <2>3. todo' \in Seq(QueryKey)
    BY HeadTailProperties, Zenon DEF DatabaseInv, TypeOK, Fail
  <2> QED BY <2>2, <2>3, EmptySeq, Zenon DEF DatabaseInv, TypeOK, Fail
<1>3. StackOK' BY <1>1 DEF StackOK
<1> QED BY <1>1, <1>2, <1>3, MemoInvKept, Zenon DEF DatabaseInv, MemoInv

\* Cancellation answers the rest of the batch and stores nothing.
LEMMA FailAllStep ==
    ASSUME DatabaseInv, FailAll
    PROVE  DatabaseInv'
<1>1. db' = db /\ stack' = <<>> BY DEF FailAll
<1>2. TypeOK'
  <2> DEFINE rest == [i \in 1..Len(todo) |-> [ok |-> FALSE, kind |-> "cancelled"]]
  <2>1. Len(todo) \in Nat BY LenProperties DEF DatabaseInv, TypeOK
  <2>2. [ok |-> FALSE, kind |-> "cancelled"] \in Answer
    <3>1. "cancelled" \in ErrorKind BY DEF ErrorKind
    <3> QED BY <3>1, ErrorAnswer, Zenon
  <2>3. rest \in Seq(Answer) BY <2>1, <2>2, SeqDef
  <2>4. answers' \in Seq(Answer)
    BY <2>3, ConcatProperties, Zenon DEF DatabaseInv, TypeOK, FailAll
  <2> QED BY <2>4, EmptySeq, Zenon DEF DatabaseInv, TypeOK, FailAll
<1>3. StackOK' BY <1>1 DEF StackOK
<1> QED BY <1>1, <1>2, <1>3, MemoInvKept, Zenon DEF DatabaseInv, MemoInv

\* Taking the gate starts a batch.
LEMMA AcquireStep ==
    ASSUME DatabaseInv, NEW c \in Client, NEW keys \in Batches(QueryKey, MaxBatch), Acquire(c, keys)
    PROVE  DatabaseInv'
<1>1. stack = <<>> /\ stack' = <<>> /\ db' = db BY DEF Acquire, DatabaseInv, StackOK
<1>2. keys \in Seq(QueryKey) BY SeqDef, BoundAssumption DEF Batches
<1>3. TypeOK' BY <1>2, EmptySeq, Zenon DEF DatabaseInv, TypeOK, Acquire
<1>4. StackOK' BY <1>1 DEF StackOK
<1> QED BY <1>1, <1>3, <1>4, MemoInvKept, Zenon DEF DatabaseInv, MemoInv

\* Giving the gate back ends it.
LEMMA ReleaseStep ==
    ASSUME DatabaseInv, Release
    PROVE  DatabaseInv'
<1>1. stack = <<>> /\ stack' = <<>> /\ db' = db BY DEF Release
<1>2. TypeOK' BY EmptySeq, Zenon DEF DatabaseInv, TypeOK, Release
<1>3. StackOK' BY <1>1 DEF StackOK
<1> QED BY <1>1, <1>2, <1>3, MemoInvKept, Zenon DEF DatabaseInv, MemoInv

\* A verified memo answers the root.
LEMMA AnswerRootStep ==
    ASSUME DatabaseInv, AnswerRoot
    PROVE  DatabaseInv'
<1>1. stack = <<>> /\ stack' = <<>> /\ db' = db BY DEF AnswerRoot, AtRoot
<1>2. Head(todo) \in QueryKey /\ todo' \in Seq(QueryKey)
  BY HeadTailProperties, Zenon DEF DatabaseInv, TypeOK, AnswerRoot, AtRoot
<1>3. db.results[Head(todo)].value \in Value
  BY <1>2, Zenon DEF DatabaseInv, TypeOK, AnswerRoot, Hit, Database, Memo
<1>4. answers' \in Seq(Answer)
  BY <1>3, AppendProperties, Zenon DEF DatabaseInv, TypeOK, AnswerRoot, Answer
<1>5. TypeOK' BY <1>1, <1>2, <1>4, Zenon DEF DatabaseInv, TypeOK, AnswerRoot
<1>6. StackOK' BY <1>1 DEF StackOK
<1> QED BY <1>1, <1>5, <1>6, MemoInvKept, Zenon DEF DatabaseInv, MemoInv

\* A step that replaces the innermost activation.
LEMMA SetTopStep ==
    ASSUME DatabaseInv, stack # <<>>, NEW f \in Frame, f.key = Top.key, FrameOK(f),
           SetTop(f), UNCHANGED <<db, gate, todo, answers, grant>>
    PROVE  DatabaseInv'
<1>1. stack \in Seq(Frame) BY DEF DatabaseInv, TypeOK
<1>2. Len(stack) \in 1..Len(stack) /\ DOMAIN stack = 1..Len(stack) BY <1>1, TypedTop
<1>3. /\ stack' \in Seq(Frame)
      /\ DOMAIN stack' = DOMAIN stack
      /\ \A i \in DOMAIN stack : stack'[i] = IF i = Len(stack) THEN f ELSE stack[i]
  BY <1>1, <1>2, ExceptSeq, LenProperties, Zenon DEF SetTop
<1>4. TypeOK' BY <1>3, Zenon DEF DatabaseInv, TypeOK
<1>5. \A i \in DOMAIN stack' : FrameOK(stack[i])'
  BY <1>3, FrameKept, Zenon DEF DatabaseInv, StackOK
<1>6. \A i, j \in DOMAIN stack' : stack'[i].key = stack'[j].key => i = j
  BY <1>2, <1>3, Zenon DEF DatabaseInv, StackOK, Top
<1>7. StackOK' BY <1>5, <1>6, Zenon DEF DatabaseInv, StackOK
<1> QED BY <1>4, <1>7, MemoInvKept, Zenon DEF DatabaseInv, MemoInv

\* The dependency under validation is one of the memo's, and its memo is typed.
LEMMA CheckedDepType ==
    ASSUME DatabaseInv, Checking, MoreToCheck
    PROVE  /\ TopMemo \in Memo /\ TopMemo.dependencies \in Seq(Dep)
           /\ CheckedDep \in Dep
           /\ Top.pos \in Nat /\ TopMemo.verified \in Nat
<1>1. Top \in Frame /\ FrameOK(Top) /\ Top.mode = "check"
  BY TypedTop, Zenon DEF DatabaseInv, TypeOK, StackOK, Top, Checking
<1>2. TopMemo \in Memo
  BY <1>1, Zenon DEF FrameOK, Memoized, DatabaseInv, TypeOK, Database, Frame, TopMemo
<1>3. Top.pos \in Nat \ {0} BY <1>1 DEF Frame
<1>4. TopMemo.dependencies \in Seq(Dep) BY <1>2 DEF Memo
<1>5. Top.pos \in 1..Len(TopMemo.dependencies)
  BY <1>3, <1>4, LenProperties DEF MoreToCheck
<1>6. CheckedDep \in Dep BY <1>4, <1>5, ElementOfSeq DEF CheckedDep
<1> QED BY <1>2, <1>3, <1>4, <1>6, Zenon DEF Memo

\* Validating one dependency either passes it or starts the evaluator.
LEMMA CheckDepStep ==
    ASSUME DatabaseInv, CheckDep
    PROVE  DatabaseInv'
<1>1. stack \in Seq(Frame) /\ stack # <<>> BY DEF DatabaseInv, TypeOK, CheckDep, Checking
<1>2. Top \in Frame /\ FrameOK(Top) /\ Top.mode = "check"
  BY <1>1, TypedTop, Zenon DEF DatabaseInv, StackOK, Top, CheckDep, Checking
<1>3. PICK t : t = Top BY Zenon
<1>4. CASE ChangedAt(CheckedDep) > TopMemo.verified
  <2>1. PICK f : f = NewFrame(t.key, "exec") BY Zenon
  <2>2. f \in Frame /\ f.key = Top.key /\ f.mode = "exec" /\ DOMAIN f.log = {}
    <3>1. <<>> \in Seq(Dep) /\ <<>> \in Seq(ReadEvent) BY EmptySeq
    <3> QED BY <1>2, <1>3, <2>1, <3>1 DEF NewFrame, Frame
  <2>3. FrameOK(f) BY <1>2, <2>2, Zenon DEF FrameOK, Run, Covered
  <2>4. SetTop(f) BY <1>3, <1>4, <2>1, Zenon DEF CheckDep
  <2> QED BY <1>1, <2>2, <2>3, <2>4, SetTopStep, Zenon DEF CheckDep
<1>5. CASE ~(ChangedAt(CheckedDep) > TopMemo.verified)
  <2>1. PICK f : f = [t EXCEPT !.pos = t.pos + 1] BY Zenon
  <2>2. f \in Frame /\ f.key = Top.key /\ f.mode = "check" /\ f.pos = Top.pos + 1
    BY <1>2, <1>3, <2>1 DEF Frame
  <2>3. /\ TopMemo \in Memo /\ TopMemo.dependencies \in Seq(Dep)
        /\ CheckedDep \in Dep
        /\ Top.pos \in Nat /\ TopMemo.verified \in Nat
    BY CheckedDepType, Zenon DEF CheckDep
  <2>4. ChangedAt(CheckedDep) \in Nat
    BY <2>3, Zenon DEF CheckDep, Hit, ChangedAt, IsQuery, Dep, DatabaseInv, TypeOK, Database, Memo, Cell
  <2>5. ChangedAt(CheckedDep) <= TopMemo.verified BY <1>5, <2>3, <2>4
  <2>6. \A i \in DOMAIN TopMemo.dependencies : i < f.pos => i < Top.pos \/ i = Top.pos
    BY <2>2, <2>3, LenProperties
  <2>7. FrameOK(f)
    BY <1>2, <2>2, <2>5, <2>6, Zenon DEF FrameOK, TopMemo, CheckedDep, CheckDep
  <2>8. SetTop(f) BY <1>3, <1>5, <2>1, Zenon DEF CheckDep
  <2> QED BY <1>1, <2>2, <2>7, <2>8, SetTopStep, Zenon DEF CheckDep
<1> QED BY <1>4, <1>5, Zenon

\* A run of an evaluator, extended by the read it asked for, is a run.
LEMMA RunExtends ==
    ASSUME NEW q, NEW log \in Seq(ReadEvent), NEW e \in ReadEvent, Run(q, log),
           Step(q, log) = [op |-> "read", dep |-> e.dep]
    PROVE  Run(q, Append(log, e))
<1> DEFINE longer == Append(log, e)
<1>1. /\ longer \in Seq(ReadEvent) /\ Len(longer) = Len(log) + 1 /\ Len(log) \in Nat
      /\ \A i \in 1..Len(log) : longer[i] = log[i]
      /\ longer[Len(log) + 1] = e
      /\ DOMAIN longer = 1..(Len(log) + 1) /\ DOMAIN log = 1..Len(log)
  BY AppendProperties, LenProperties
<1>2. ASSUME NEW i \in 1..(Len(log) + 1)
      PROVE  SubSeq(longer, 1, i - 1) = SubSeq(log, 1, i - 1)
  <2>1. \A j \in 1..(i - 1) : longer[j] \in ReadEvent /\ log[j] \in ReadEvent /\ longer[j] = log[j]
    BY <1>1, ElementOfSeq
  <2> HIDE DEF longer
  <2> DEFINE a == SubSeq(longer, 1, i - 1)
             b == SubSeq(log, 1, i - 1)
  <2>2. /\ a \in Seq(ReadEvent) /\ Len(a) = IF 1 <= i - 1 THEN i - 1 - 1 + 1 ELSE 0
        /\ \A j \in 1..(i - 1 - 1 + 1) : a[j] = longer[1 + j - 1]
    BY <2>1, <1>1, SubSeqProperties
  <2>3. /\ b \in Seq(ReadEvent) /\ Len(b) = IF 1 <= i - 1 THEN i - 1 - 1 + 1 ELSE 0
        /\ \A j \in 1..(i - 1 - 1 + 1) : b[j] = log[1 + j - 1]
    BY <2>1, <1>1, SubSeqProperties
  <2> HIDE DEF a, b
  <2>4. Len(a) = Len(b) /\ \A j \in 1..Len(a) : a[j] = b[j]
    BY <1>1, <2>1, <2>2, <2>3
  <2>5. a = b BY <2>2, <2>3, <2>4, SeqEqual, Zenon
  <2> QED BY <2>5, Zenon DEF a, b
<1>3. SubSeq(log, 1, Len(log) + 1 - 1) = log
  BY <1>1, SubSeqFull
<1> HIDE DEF longer
<1>4. ASSUME NEW i \in 1..(Len(log) + 1)
      PROVE  Step(q, SubSeq(longer, 1, i - 1)) = [op |-> "read", dep |-> longer[i].dep]
  <2>1. CASE i = Len(log) + 1
    <3>1. SubSeq(longer, 1, i - 1) = log BY <1>2, <1>3, <2>1
    <3>2. longer[i] = e BY <1>1, <2>1, Zenon
    <3> QED BY <3>1, <3>2, Zenon
  <2>2. CASE i # Len(log) + 1
    <3>1. i \in DOMAIN log BY <1>1, <2>2
    <3> QED BY <1>1, <1>2, <3>1, Zenon DEF Run
  <2> QED BY <2>1, <2>2, Zenon
<1>5. Run(q, longer) BY <1>1, <1>4, Zenon DEF Run
<1> QED BY <1>5, Zenon DEF longer

\* remember keeps every read among the dependencies.
LEMMA CoverageExtends ==
    ASSUME NEW log \in Seq(ReadEvent), NEW deps \in Seq(Dep), NEW e \in ReadEvent, Covered(log, deps)
    PROVE  /\ remember(deps, e.dep) \in Seq(Dep)
           /\ Covered(Append(log, e), remember(deps, e.dep))
<1> DEFINE known == remember(deps, e.dep)
<1>0. e.dep \in Dep BY DEF ReadEvent
<1>1. /\ known \in Seq(Dep)
      /\ hasDependency(known, e.dep)
      /\ \A d : hasDependency(deps, d) => hasDependency(known, d)
  <2>1. CASE hasDependency(deps, e.dep) BY <2>1, Zenon DEF remember
  <2>2. CASE ~hasDependency(deps, e.dep)
    <3>1. known = Append(deps, e.dep) BY <2>2, Zenon DEF remember
    <3>2. /\ Append(deps, e.dep) \in Seq(Dep)
          /\ DOMAIN Append(deps, e.dep) = 1..(Len(deps) + 1)
          /\ DOMAIN deps = 1..Len(deps) /\ Len(deps) \in Nat
          /\ \A i \in 1..Len(deps) : Append(deps, e.dep)[i] = deps[i]
          /\ Append(deps, e.dep)[Len(deps) + 1] = e.dep
      BY <1>0, AppendProperties, LenProperties
    <3> HIDE DEF known
    <3> QED BY <3>1, <3>2 DEF hasDependency
  <2> QED BY <2>1, <2>2, Zenon
<1> HIDE DEF known
<1>2. /\ DOMAIN Append(log, e) = 1..(Len(log) + 1) /\ DOMAIN log = 1..Len(log) /\ Len(log) \in Nat
      /\ \A i \in 1..Len(log) : Append(log, e)[i] = log[i]
      /\ Append(log, e)[Len(log) + 1] = e
  BY AppendProperties, LenProperties
<1>3. Covered(Append(log, e), known) BY <1>1, <1>2 DEF Covered
<1> QED BY <1>1, <1>3, Zenon DEF known

\* A read extends the run of the innermost activation by a current value.
LEMMA ExecReadStep ==
    ASSUME DatabaseInv, ExecRead
    PROVE  DatabaseInv'
<1>1. stack \in Seq(Frame) /\ stack # <<>> BY DEF DatabaseInv, TypeOK, ExecRead, Executing
<1>2. Top \in Frame /\ FrameOK(Top) /\ Top.mode = "exec"
  BY <1>1, TypedTop, Zenon DEF DatabaseInv, StackOK, Top, ExecRead, Executing
<1>3. PICK t : t = Top BY Zenon
<1>4. PICK e : e = [dep |-> NextMove.dep, seen |-> Seen(NextMove.dep)] BY Zenon
<1>5. e \in ReadEvent /\ Current(e) /\ e.dep = NextMove.dep
  <2>1. NextMove.dep \in Dep BY DEF ExecRead, IsRead
  <2>2. Seen(NextMove.dep) \in Stored
    BY <2>1, Zenon DEF ExecRead, Seen, Hit, IsQuery, Dep, DatabaseInv, TypeOK, Database, Memo, Cell, Stored
  <2> QED BY <1>4, <2>1, <2>2, Zenon DEF ReadEvent, Current, Seen, ExecRead
<1>6. Step(t.key, t.log) = [op |-> "read", dep |-> e.dep]
  BY <1>3, <1>5, Zenon DEF ExecRead, IsRead, NextMove
<1>7. t.log \in Seq(ReadEvent) /\ t.dependencies \in Seq(Dep) /\ Run(t.key, t.log)
      /\ Covered(t.log, t.dependencies) /\ \A i \in DOMAIN t.log : Current(t.log[i])
  BY <1>2, <1>3, Zenon DEF Frame, FrameOK
<1>8. PICK f : f = [t EXCEPT !.dependencies = remember(t.dependencies, e.dep),
                            !.log = Append(t.log, e)] BY Zenon
<1>9. /\ f \in Frame /\ f.key = Top.key /\ f.mode = "exec"
      /\ f.dependencies = remember(t.dependencies, e.dep)
      /\ f.log = Append(t.log, e)
  <2>1. /\ remember(t.dependencies, e.dep) \in Seq(Dep)
        /\ Append(t.log, e) \in Seq(ReadEvent)
    BY <1>5, <1>7, CoverageExtends, AppendProperties, Zenon
  <2> QED BY <1>2, <1>3, <1>8, <2>1, Zenon DEF Frame
<1>10. FrameOK(f)
  <2>1. Run(f.key, f.log) BY <1>3, <1>5, <1>6, <1>7, <1>9, RunExtends, Zenon
  <2>2. Covered(f.log, f.dependencies) BY <1>5, <1>7, <1>9, CoverageExtends, Zenon
  <2>3. \A i \in DOMAIN f.log : Current(f.log[i])
    <3>1. /\ DOMAIN f.log = 1..(Len(t.log) + 1) /\ DOMAIN t.log = 1..Len(t.log)
          /\ Len(t.log) \in Nat
          /\ \A i \in 1..Len(t.log) : f.log[i] = t.log[i]
          /\ f.log[Len(t.log) + 1] = e
      BY <1>5, <1>7, <1>9, AppendProperties, LenProperties
    <3> QED BY <1>5, <1>7, <3>1, SMTT(30)
  <2> QED BY <1>2, <1>9, <2>1, <2>2, <2>3, Zenon DEF FrameOK
<1>11. SetTop(f) BY <1>3, <1>4, <1>5, <1>8, Zenon DEF ExecRead
<1> QED BY <1>1, <1>9, <1>10, <1>11, SetTopStep, Zenon DEF ExecRead

-----------------------------------------------------------------------------
(* Evaluation steps that store or revalidate a memo.                       *)

\* Without its innermost activation the stack keeps the others.
LEMMA PopStack ==
    ASSUME stack \in Seq(Frame), stack # <<>>, Pop
    PROVE  /\ stack' \in Seq(Frame)
           /\ DOMAIN stack' = 1..(Len(stack) - 1)
           /\ \A i \in DOMAIN stack' : i \in DOMAIN stack /\ i # Len(stack) /\ stack'[i] = stack[i]
<1>0. Len(stack) \in Nat \ {0} /\ DOMAIN stack = 1..Len(stack) BY TypedTop
<1> PICK n : n = Len(stack) BY Zenon
<1>1. n \in Nat /\ n = Len(stack) /\ n >= 1 /\ DOMAIN stack = 1..n BY <1>0
<1>2. \A i \in 1..(n - 1) : i \in 1..n /\ i # n BY <1>1
<1>3. \A i \in 1..(n - 1) : stack[i] \in Frame BY <1>1, <1>2, ElementOfSeq
<1>4. stack' = SubSeq(stack, 1, n - 1) BY <1>1, Zenon DEF Pop
<1>5. /\ stack' \in Seq(Frame)
      /\ Len(stack') = IF 1 <= n - 1 THEN n - 1 - 1 + 1 ELSE 0
      /\ \A i \in 1..(n - 1 - 1 + 1) : stack'[i] = stack[1 + i - 1]
  BY <1>1, <1>3, <1>4, SubSeqProperties
<1>6. Len(stack') = n - 1 BY <1>1, <1>5
<1>7. DOMAIN stack' = 1..(n - 1) BY <1>5, <1>6, LenProperties, Zenon
<1>8. \A i \in 1..(n - 1) : stack'[i] = stack[i] BY <1>1, <1>5
<1> QED BY <1>1, <1>2, <1>5, <1>7, <1>8, Zenon

\* The innermost activation, of q, ends with memo m verified in this revision.
LEMMA MemoStep ==
    ASSUME DatabaseInv, stack # <<>>, NEW q, q = Top.key, NEW m \in Memo,
           m.verified = db.revision, m.changed <= db.revision,
           Run(q, m.log), Step(q, m.log) = [op |-> "return", value |-> m.value],
           Covered(m.log, m.dependencies),
           \A i \in DOMAIN m.log : Current(m.log[i]),
           \/ m.changed = db.revision
           \/ /\ db.results[q] # None
              /\ m.changed = db.results[q].changed
              /\ m.value = db.results[q].value,
           db' = [db EXCEPT !.results[q] = m], Pop,
           UNCHANGED <<gate, todo, answers, grant>>
    PROVE  DatabaseInv'
<1>0. stack \in Seq(Frame) /\ db \in Database BY DEF DatabaseInv, TypeOK
<1>1. Top \in Frame /\ FrameOK(Top) /\ q \in QueryKey /\ ~Hit(q)
  BY <1>0, TypedTop, Zenon DEF DatabaseInv, StackOK, Top, Frame, FrameOK
<1>2. /\ db' \in Database /\ db'.revision = db.revision /\ db'.inputs = db.inputs
      /\ \A p \in QueryKey : db'.results[p] = IF p = q THEN m ELSE db.results[p]
  BY <1>0, <1>1, Zenon DEF Database
<1>3. \A p \in QueryKey : Hit(p) => p # q /\ Hit(p)' /\ db'.results[p] = db.results[p]
  BY <1>1, <1>2, Zenon DEF Hit
<1>4. \A p \in QueryKey : p # q => (Hit(p)' <=> Hit(p)) /\ db'.results[p] = db.results[p]
  BY <1>2, Zenon DEF Hit
<1>5. ASSUME NEW e \in ReadEvent, Current(e)
      PROVE  Current(e)' /\ Seen(e.dep)' = e.seen /\ (IsQuery(e.dep) => Hit(e.dep.key)')
  <2>1. CASE IsQuery(e.dep)
    <3>1. e.dep.key \in QueryKey BY <2>1 DEF ReadEvent, Dep, IsQuery
    <3> QED BY <1>3, <1>5, <2>1, <3>1, Zenon DEF Current, Seen
  <2>2. CASE ~IsQuery(e.dep) BY <1>2, <1>5, <2>2, Zenon DEF Current, Seen
  <2> QED BY <2>1, <2>2, Zenon
<1>6. \A i \in DOMAIN m.log : m.log[i] \in ReadEvent
  BY ElementOfSeq, LenProperties, Zenon DEF Memo
<1>7. \A p \in Memoized : \A i \in DOMAIN db.results[p].log : db.results[p].log[i] \in ReadEvent
  BY <1>0, ElementOfSeq, LenProperties DEF Memoized, Database, Memo
<1>8. TypeOK' BY <1>0, <1>2, PopStack, Zenon DEF DatabaseInv, TypeOK
<1>9. StampsOrdered'
  <2>1. \A k \in InputKey : db'.inputs[k].changed <= db'.revision
    BY <1>2, Zenon DEF DatabaseInv, StampsOrdered
  <2>2. \A p \in Memoized' : /\ db'.results[p].changed <= db'.results[p].verified
                            /\ db'.results[p].verified <= db'.revision
    <3> SUFFICES ASSUME NEW p \in Memoized'
                 PROVE  /\ db'.results[p].changed <= db'.results[p].verified
                        /\ db'.results[p].verified <= db'.revision
      BY Zenon
    <3>1. CASE p = q
      <4>1. db.revision <= db.revision BY <1>0 DEF Database
      <4> QED BY <1>1, <1>2, <3>1, <4>1, Zenon
    <3>2. CASE p # q
      <4>1. p \in Memoized /\ db'.results[p] = db.results[p] BY <1>2, <3>2 DEF Memoized
      <4> QED BY <1>2, <4>1, Zenon DEF DatabaseInv, StampsOrdered
    <3> QED BY <3>1, <3>2, Zenon
  <2> QED BY <2>1, <2>2, Zenon DEF StampsOrdered
<1>10. MemosExplained'
  BY <1>2 DEF DatabaseInv, MemosExplained, Memoized
<1>11. HitsRestOnHits'
  <2> SUFFICES ASSUME NEW p \in QueryKey, Hit(p)', NEW i \in DOMAIN db'.results[p].log,
                      IsQuery(db'.results[p].log[i].dep)
               PROVE  Hit(db.results[p].log[i].dep.key)'
    BY Zenon DEF HitsRestOnHits
  <2>1. CASE p = q BY <1>1, <1>2, <1>5, <1>6, <2>1, Zenon
  <2>2. CASE p # q
    <3>1. Hit(p) /\ db'.results[p] = db.results[p] BY <1>4, <2>2
    <3>2. p \in Memoized BY <3>1 DEF Hit, Memoized
    <3>3. Hit(db.results[p].log[i].dep.key) BY <3>1, Zenon DEF DatabaseInv, HitsRestOnHits
    <3>4. db.results[p].log[i].dep.key \in QueryKey
      BY <1>7, <3>1, <3>2, Zenon DEF ReadEvent, Dep, IsQuery
    <3> QED BY <1>3, <3>1, <3>3, <3>4, Zenon
  <2> QED BY <2>1, <2>2, Zenon
<1>12. StampsTellChange'
  <2> SUFFICES ASSUME NEW p \in Memoized', NEW i \in DOMAIN db'.results[p].log,
                      Unchanged(db.results[p].log[i], db.results[p].verified)'
               PROVE  (Seen(db.results[p].log[i].dep) = db.results[p].log[i].seen)'
    BY Zenon DEF StampsTellChange
  <2>1. CASE p = q BY <1>1, <1>2, <1>5, <1>6, <2>1, Zenon
  <2>2. CASE p # q
    <3>1. p \in QueryKey /\ p \in Memoized /\ db'.results[p] = db.results[p]
      BY <1>4, <2>2, Zenon DEF Memoized
    <3>2. PICK e : e = db.results[p].log[i] BY Zenon
    <3>3. e \in ReadEvent BY <1>7, <3>1, <3>2, SMTT(30)
    <3>4. CASE IsQuery(e.dep) /\ e.dep.key = q
      <4>1. m.changed <= db.results[p].verified
        BY <1>1, <1>2, <3>1, <3>2, <3>4, Zenon DEF Unchanged, ChangedAt
      <4>2. ~Hit(p) BY <1>1, <3>1, <3>2, <3>4, Zenon DEF DatabaseInv, HitsRestOnHits
      <4>3. db.results[p].verified < db.revision
        BY <1>0, <3>1, <4>2 DEF Hit, DatabaseInv, StampsOrdered, Memoized, Database, Memo
      <4>4. m.changed # db.revision
        BY <1>0, <3>1, <4>1, <4>3 DEF Memoized, Database, Memo
      <4>5. Unchanged(e, db.results[p].verified)
        BY <1>2, <3>4, <4>1, <4>4, Zenon DEF Unchanged, ChangedAt
      <4>6. Seen(e.dep) = e.seen
        BY <3>1, <3>2, <4>5, Zenon DEF DatabaseInv, StampsTellChange
      <4> QED BY <1>1, <1>2, <3>1, <3>2, <3>4, <4>4, <4>6, Zenon DEF Seen
    <3>5. CASE ~(IsQuery(e.dep) /\ e.dep.key = q)
      <4>1. IsQuery(e.dep) => e.dep.key \in QueryKey
        BY <3>3, Zenon DEF ReadEvent, Dep, IsQuery
      <4>2. /\ Seen(e.dep)' = Seen(e.dep) /\ ChangedAt(e.dep)' = ChangedAt(e.dep)
            /\ IsQuery(e.dep) => db'.results[e.dep.key] = db.results[e.dep.key]
        BY <1>2, <3>5, <4>1 DEF Seen, ChangedAt
      <4>3. Unchanged(e, db.results[p].verified)
        BY <3>1, <3>2, <4>2, Zenon DEF Unchanged
      <4>4. Seen(e.dep) = e.seen
        BY <3>1, <3>2, <4>3, Zenon DEF DatabaseInv, StampsTellChange
      <4> QED BY <3>1, <3>2, <4>2, <4>4, Zenon
    <3> QED BY <3>4, <3>5, Zenon
  <2> QED BY <2>1, <2>2, Zenon
<1>13. ASSUME NEW f \in Frame, f.key # q, FrameOK(f)
       PROVE  FrameOK(f)'
  <2>1. f.key \in QueryKey /\ f.log \in Seq(ReadEvent) BY DEF Frame
  <2>2. ~Hit(f.key)' /\ db'.results[f.key] = db.results[f.key]
    BY <1>4, <1>13, <2>1, Zenon DEF FrameOK
  <2>3. f.mode = "exec" => \A i \in DOMAIN f.log : Current(f.log[i])'
    BY <1>5, <1>13, <2>1, ElementOfSeq, LenProperties, Zenon DEF FrameOK
  <2>4. ASSUME f.mode = "check"
        PROVE  /\ (f.key \in Memoized)'
               /\ \A i \in DOMAIN db.results[f.key].dependencies : i < f.pos =>
                    \E dep \in Dep : /\ dep = db.results[f.key].dependencies[i]
                                     /\ IsQuery(dep) => Hit(dep.key)'
                                     /\ ChangedAt(dep)' <= db.results[f.key].verified
    <3>1. f.key \in Memoized BY <1>13, <2>4 DEF FrameOK
    <3>2. db.results[f.key].dependencies \in Seq(Dep)
      BY <1>0, <3>1, Zenon DEF Memoized, Database, Memo
    <3>3. ASSUME NEW dep \in Dep, IsQuery(dep) => Hit(dep.key)
          PROVE  (IsQuery(dep) => Hit(dep.key)') /\ ChangedAt(dep)' = ChangedAt(dep)
      BY <1>2, <1>3, <3>3 DEF ChangedAt, Dep, IsQuery
    <3>4. \A i \in DOMAIN db.results[f.key].dependencies : db.results[f.key].dependencies[i] \in Dep
      BY <3>2, ElementOfSeq, LenProperties, Zenon
    <3>5. (f.key \in Memoized)' BY <2>2, <3>1 DEF Memoized
    <3>6. ASSUME NEW i \in DOMAIN db.results[f.key].dependencies, i < f.pos
          PROVE  \E dep \in Dep : /\ dep = db.results[f.key].dependencies[i]
                                  /\ IsQuery(dep) => Hit(dep.key)'
                                  /\ ChangedAt(dep)' <= db.results[f.key].verified
      <4>1. PICK dep \in Dep : dep = db.results[f.key].dependencies[i] BY <3>4
      <4>2. (IsQuery(dep) => Hit(dep.key)) /\ ChangedAt(dep) <= db.results[f.key].verified
        BY <1>13, <2>4, <3>6, <4>1, Zenon DEF FrameOK
      <4>3. (IsQuery(dep) => Hit(dep.key)') /\ ChangedAt(dep)' = ChangedAt(dep)
        BY <3>3, <4>2, Zenon
      <4> QED BY <4>1, <4>2, <4>3, Zenon
    <3> QED BY <3>5, <3>6, Zenon
  <2>5. f.mode = "exec" => Covered(f.log, f.dependencies) /\ Run(f.key, f.log)
    BY <1>13, Zenon DEF FrameOK
  <2>6. ASSUME f.mode = "check", NEW i \in DOMAIN db'.results[f.key].dependencies, i < f.pos
        PROVE  (LET dep == db.results[f.key].dependencies[i]
                IN  /\ IsQuery(dep) => Hit(dep.key)
                    /\ ChangedAt(dep) <= db.results[f.key].verified)'
    <3>1. PICK dep \in Dep : /\ dep = db'.results[f.key].dependencies[i]
                             /\ IsQuery(dep) => Hit(dep.key)'
                             /\ ChangedAt(dep)' <= db'.results[f.key].verified
      BY <2>2, <2>4, <2>6, Zenon
    <3> QED BY <3>1, Zenon DEF Hit, ChangedAt, IsQuery
  <2> QED BY <2>2, <2>3, <2>4, <2>5, <2>6, Zenon DEF FrameOK
<1>14. StackOK'
  <2>1. \A i \in DOMAIN stack : stack[i] \in Frame BY <1>0, ElementOfSeq, LenProperties
  <2>2. \A i \in DOMAIN stack' : stack'[i] = stack[i] /\ i \in DOMAIN stack /\ stack[i].key # q
    BY <1>0, PopStack, TypedTop, Zenon DEF DatabaseInv, StackOK, Top
  <2>3. \A i \in DOMAIN stack' : FrameOK(stack[i])'
    BY <1>13, <2>1, <2>2, Zenon DEF DatabaseInv, StackOK
  <2>4. gate # Free /\ todo # <<>> BY DEF DatabaseInv, StackOK
  <2> QED BY <2>2, <2>3, <2>4, Zenon DEF DatabaseInv, StackOK
<1> QED BY <1>8, <1>9, <1>10, <1>11, <1>12, <1>14, Zenon DEF DatabaseInv

\* A memo all of whose dependencies passed is current, and may be stamped so.
LEMMA CheckDoneStep ==
    ASSUME DatabaseInv, CheckDone
    PROVE  DatabaseInv'
<1>1. stack \in Seq(Frame) /\ stack # <<>> BY DEF DatabaseInv, TypeOK, CheckDone, Checking
<1>2. Top \in Frame /\ FrameOK(Top) /\ Top.mode = "check"
  BY <1>1, TypedTop, Zenon DEF DatabaseInv, StackOK, Top, CheckDone, Checking
<1>3. PICK q : q = Top.key BY Zenon
<1>4. PICK old : old = db.results[q] BY Zenon
<1>5. q \in QueryKey /\ q \in Memoized /\ old \in Memo
  BY <1>2, <1>3, <1>4, Zenon DEF Frame, FrameOK, Memoized, DatabaseInv, TypeOK, Database
<1>6. PICK m : m = [old EXCEPT !.verified = db.revision] BY Zenon
<1>7. /\ m \in Memo /\ m.verified = db.revision /\ m.changed = old.changed /\ m.value = old.value
      /\ m.log = old.log /\ m.dependencies = old.dependencies
  BY <1>5, <1>6, Zenon DEF Memo, DatabaseInv, TypeOK, Database
<1>8. m.changed <= db.revision
  BY <1>4, <1>5, <1>7 DEF DatabaseInv, StampsOrdered, TypeOK, Database, Memo
<1>9. Run(q, m.log) /\ Step(q, m.log) = [op |-> "return", value |-> m.value]
      /\ Covered(m.log, m.dependencies)
  BY <1>4, <1>5, <1>7, Zenon DEF DatabaseInv, MemosExplained
<1>10. ASSUME NEW i \in DOMAIN m.log
       PROVE  Current(m.log[i])
  <2>1. PICK j \in DOMAIN old.dependencies : old.dependencies[j] = m.log[i].dep
    BY <1>7, <1>9, Zenon DEF Covered, hasDependency
  <2>2. j < Top.pos
    <3>1. old.dependencies \in Seq(Dep) BY <1>5 DEF Memo
    <3>2. j \in 1..Len(old.dependencies) /\ Len(old.dependencies) \in Nat BY <3>1, LenProperties
    <3>3. ~(Top.pos <= Len(old.dependencies)) /\ Top.pos \in Nat
      BY <1>2, <1>3, <1>4, Zenon DEF CheckDone, MoreToCheck, TopMemo, Frame
    <3> QED BY <3>2, <3>3
  <2>3. /\ IsQuery(m.log[i].dep) => Hit(m.log[i].dep.key)
        /\ ChangedAt(m.log[i].dep) <= old.verified
    BY <1>2, <1>3, <1>4, <2>1, <2>2, Zenon DEF FrameOK
  <2>4. Unchanged(m.log[i], old.verified) BY <2>3, Zenon DEF Unchanged, Hit
  <2>5. Seen(m.log[i].dep) = m.log[i].seen
    BY <1>4, <1>5, <1>7, <2>4, Zenon DEF DatabaseInv, StampsTellChange
  <2> QED BY <2>3, <2>5, Zenon DEF Current, Seen
<1>11. db' = [db EXCEPT !.results[q] = m]
  BY <1>3, <1>4, <1>5, <1>6, Zenon DEF CheckDone, DatabaseInv, TypeOK, Database
<1> QED
  BY <1>1, <1>3, <1>4, <1>5, <1>7, <1>8, <1>9, <1>10, <1>11, MemoStep, Zenon DEF CheckDone, Memoized

\* An evaluator that returns stores a current memo, early cutoff included.
LEMMA ExecReturnStep ==
    ASSUME DatabaseInv, ExecReturn
    PROVE  DatabaseInv'
<1>1. stack \in Seq(Frame) /\ stack # <<>> BY DEF DatabaseInv, TypeOK, ExecReturn, Executing
<1>2. Top \in Frame /\ FrameOK(Top) /\ Top.mode = "exec"
  BY <1>1, TypedTop, Zenon DEF DatabaseInv, StackOK, Top, ExecReturn, Executing
<1>3. PICK t : t = Top BY Zenon
<1>4. PICK v : v = NextMove.value BY Zenon
<1>5. v \in Value /\ Step(t.key, t.log) = [op |-> "return", value |-> v]
  BY <1>3, <1>4, Zenon DEF ExecReturn, IsReturn, NextMove
<1>6. t.key \in QueryKey /\ t.log \in Seq(ReadEvent) /\ t.dependencies \in Seq(Dep)
  BY <1>2, <1>3, Zenon DEF Frame
<1>7. PICK stamp : stamp = IF TopMemo # None /\ TopMemo.value = NextMove.value
                           THEN TopMemo.changed ELSE db.revision
  BY Zenon
<1>8. db.revision \in Nat /\ (TopMemo # None => TopMemo \in Memo /\ TopMemo.changed <= db.revision)
  <2>1. db.revision \in Nat /\ (TopMemo # None => TopMemo \in Memo)
    BY <1>3, <1>6, Zenon DEF TopMemo, DatabaseInv, TypeOK, Database
  <2>2. TopMemo # None => /\ TopMemo.changed <= TopMemo.verified
                          /\ TopMemo.verified <= db.revision
    BY <1>3, <1>6, Zenon DEF TopMemo, DatabaseInv, StampsOrdered, Memoized
  <2> QED BY <2>1, <2>2 DEF Memo
<1>9. stamp \in Nat /\ stamp <= db.revision BY <1>7, <1>8 DEF Memo
<1>10. PICK m : m = [value |-> v, dependencies |-> t.dependencies, log |-> t.log,
                    verified |-> db.revision, changed |-> stamp]
  BY Zenon
<1>11. m \in Memo /\ m.value = v /\ m.dependencies = t.dependencies /\ m.log = t.log
       /\ m.verified = db.revision /\ m.changed = stamp
  BY <1>5, <1>6, <1>8, <1>9, <1>10, Zenon DEF Memo
<1>q. PICK q : q = t.key BY Zenon
<1>12. /\ Run(q, m.log) /\ Covered(m.log, m.dependencies)
       /\ \A i \in DOMAIN m.log : Current(m.log[i])
  BY <1>2, <1>3, <1>11, <1>q, Zenon DEF FrameOK
<1>13. \/ m.changed = db.revision
       \/ /\ db.results[q] # None
          /\ m.changed = db.results[q].changed
          /\ m.value = db.results[q].value
  BY <1>3, <1>4, <1>7, <1>11, <1>q, Zenon DEF TopMemo
<1>14. db' = [db EXCEPT !.results[q] = m]
  BY <1>3, <1>4, <1>7, <1>10, <1>q, Zenon DEF ExecReturn
<1>15. Pop /\ UNCHANGED <<gate, todo, answers, grant>> BY DEF ExecReturn
<1>16. /\ q = Top.key /\ m.changed <= db.revision
       /\ Step(q, m.log) = [op |-> "return", value |-> m.value]
  BY <1>3, <1>5, <1>9, <1>11, <1>q, Zenon
<1>17. m \in Memo /\ m.verified = db.revision BY <1>11
<1> QED
  BY <1>1, <1>12, <1>13, <1>14, <1>15, <1>16, <1>17, MemoStep, Zenon

\* Every refusal is an error of the code.
LEMMA RefusalType == Refusal = "no" \/ Refusal \in ErrorKind
BY DEF Refusal, ErrorKind

-----------------------------------------------------------------------------
(* Every step.                                                             *)

\* Every writer keeps the invariant.
LEMMA WritingStep ==
    ASSUME DatabaseInv, Writing
    PROVE  DatabaseInv'
<1>0. db \in Database BY DEF DatabaseInv, TypeOK
<1>1. ASSUME NEW changes \in Batches(Change, MaxChanges), Apply(changes)
      PROVE  DatabaseInv'
  <2>1. \A i \in DOMAIN changes : changes[i] \in Change BY DEF Batches
  <2> DEFINE K == {changes[i].key : i \in DOMAIN changes}
  <2>2. K \in SUBSET InputKey BY <2>1 DEF Change
  <2> HIDE DEF K
  <2>3. PICK pending \in [K -> Stored] : Write(applyPending(db, pending)) BY <1>1 DEF Apply, K
  <2> QED BY <1>0, <2>2, <2>3, applyPendingVersion, WriteStep, Zenon
<1>2. ASSUME NEW q \in QueryKey, Evict(q)
      PROVE  DatabaseInv'
  BY <1>0, <1>2, EvictQueryVersion, WriteStep, Zenon DEF Evict
<1>3. ASSUME NEW keys \in SUBSET InputKey, Retire(keys)
      PROVE  DatabaseInv'
  BY <1>0, <1>3, RetireInputsVersion, WriteStep, Zenon DEF Retire
<1>4. ASSUME NEW keys \in SUBSET InputKey, NEW retired \in SUBSET InputKey,
             NEW evicted \in SUBSET QueryKey, NEW pending \in [keys -> Stored],
             Transact(pending, retired, evicted)
      PROVE  DatabaseInv'
  <2>1. /\ applyTransaction(db, pending, retired, evicted) \in Database
        /\ LaterVersion(db, applyTransaction(db, pending, retired, evicted))
    BY <1>0, applyTransactionVersion, Zenon
  <2>2. Write(applyTransaction(db, pending, retired, evicted)) BY <1>4, Zenon DEF Transact
  <2> QED BY <2>1, <2>2, WriteStep, Zenon
<1> QED BY <1>1, <1>2, <1>3, <1>4, Zenon DEF Writing

\* Every step of an evaluation keeps the invariant.
LEMMA EvaluatingStep ==
    ASSUME DatabaseInv, Evaluating
    PROVE  DatabaseInv'
<1>0. stack # <<>> => gate # Free /\ todo # <<>> BY DEF DatabaseInv, StackOK
<1>1. CASE EnterRoot
  <2>1. Head(todo) \in QueryKey
    BY <1>1, HeadTailProperties, Zenon DEF DatabaseInv, TypeOK, EnterRoot, AtRoot
  <2> QED BY <1>1, <2>1, EnterStep, Zenon DEF EnterRoot, AtRoot
<1>2. CASE CheckEnter
  <2>1. CheckedDep.key \in QueryKey
    BY <1>2, CheckedDepType, Zenon DEF CheckEnter, Dep, IsQuery
  <2> QED BY <1>0, <1>2, <2>1, EnterStep, Zenon DEF CheckEnter, Checking
<1>3. CASE ExecEnter
  <2>1. NextMove.dep.key \in QueryKey BY <1>3 DEF ExecEnter, IsRead, Dep, IsQuery
  <2> QED BY <1>0, <1>3, <2>1, EnterStep, Zenon DEF ExecEnter, Executing
<1>4. CASE ExecFail
  BY <1>0, <1>4, RefusalType, FailStep, Zenon DEF ExecFail, Executing
<1>5. CASE CheckCycle
  <2>1. "cycle" \in ErrorKind BY DEF ErrorKind
  <2> QED BY <1>0, <1>5, <2>1, FailStep, Zenon DEF CheckCycle, Checking
<1> QED
  BY <1>1, <1>2, <1>3, <1>4, <1>5, AnswerRootStep, CheckDepStep, CheckDoneStep, ExecReadStep,
     ExecReturnStep, ReleaseStep, Zenon DEF Evaluating

\* Every step of every operation preserves the invariant of the database.
THEOREM DatabaseInvariant == Spec => []DatabaseInv
<1>1. Init => DatabaseInv
  <2> SUFFICES ASSUME Init PROVE DatabaseInv BY Zenon
  <2>1. TypeOK
    BY EmptySeq, GrantAssumption, Zenon DEF Init, TypeOK, New, Database, Cell, Stored
  <2>2. Memoized = {} BY Zenon DEF Init, New, Memoized
  <2>3. StampsOrdered BY <2>2 DEF Init, New, StampsOrdered
  <2>4. HitsRestOnHits BY Zenon DEF HitsRestOnHits, Hit, Init, New
  <2>5. StackOK BY DEF StackOK, Init
  <2> QED BY <2>1, <2>2, <2>3, <2>4, <2>5, Zenon DEF DatabaseInv, MemosExplained, StampsTellChange
<1>2. DatabaseInv /\ [Next]_vars => DatabaseInv'
  <2> SUFFICES ASSUME DatabaseInv, [Next]_vars PROVE DatabaseInv' BY Zenon
  <2>1. CASE Requesting BY <2>1, AcquireStep, Zenon DEF Requesting
  <2>2. CASE Cancel BY <2>2, FailAllStep, Zenon DEF Cancel
  <2> QED BY <2>1, <2>2, WritingStep, EvaluatingStep, Stuttering, Zenon DEF Next
<1> QED BY <1>1, <1>2, PTL DEF Spec

\* A memo verified in the current revision is the outcome of running its evaluator on
\* the current inputs, for every family of evaluators and every history of writes,
\* evictions, errors and cancellations (evaluate in database.go).
THEOREM MemosNeverStale == Spec => []VerifiedMemosCurrent
<1>1. DatabaseInv => VerifiedMemosCurrent
  <2> SUFFICES ASSUME DatabaseInv, NEW q \in QueryKey, Hit(q)
               PROVE  /\ Run(q, db.results[q].log)
                      /\ Step(q, db.results[q].log) = [op |-> "return", value |-> db.results[q].value]
                      /\ \A i \in DOMAIN db.results[q].log : Current(db.results[q].log[i])
    BY Zenon DEF VerifiedMemosCurrent
  <2>1. q \in Memoized BY DEF Memoized, Hit
  <2>2. ASSUME NEW i \in DOMAIN db.results[q].log
        PROVE  Current(db.results[q].log[i])
    <3>1. PICK e : e = db.results[q].log[i] BY Zenon
    <3>2. e \in ReadEvent
      BY <2>1, <3>1, ElementOfSeq, LenProperties, Zenon DEF Memoized, DatabaseInv, TypeOK, Database, Memo
    <3>3. IsQuery(e.dep) => Hit(e.dep.key) BY <3>1, Zenon DEF DatabaseInv, HitsRestOnHits
    <3>4. ChangedAt(e.dep) <= db.results[q].verified
      <4>1. CASE IsQuery(e.dep)
        <5>1. e.dep.key \in Memoized
          BY <3>2, <3>3, <4>1, Zenon DEF ReadEvent, Dep, IsQuery, Hit, Memoized
        <5>2. db.results[e.dep.key].changed <= db.results[e.dep.key].verified
          BY <5>1, Zenon DEF DatabaseInv, StampsOrdered
        <5> QED BY <3>3, <4>1, <5>2, Zenon DEF Hit, ChangedAt
      <4>2. CASE ~IsQuery(e.dep)
        BY <3>2, <4>2, Zenon DEF ReadEvent, Dep, IsQuery, Hit, ChangedAt, DatabaseInv, StampsOrdered
      <4> QED BY <4>1, <4>2, Zenon
    <3>5. Seen(e.dep) = e.seen
      BY <2>1, <3>1, <3>3, <3>4, Zenon DEF DatabaseInv, StampsTellChange, Unchanged, Hit
    <3> QED BY <3>1, <3>3, <3>5, Zenon DEF Current, Seen
  <2> QED BY <2>1, <2>2, Zenon DEF DatabaseInv, MemosExplained
<1> QED BY <1>1, DatabaseInvariant, PTL
=============================================================================
