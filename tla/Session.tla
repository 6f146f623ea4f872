-------------------------------- MODULE Session --------------------------------
(***************************************************************************)
(* The incremental session of compiler/src/incremental/session.go and      *)
(* session_delta.go: it publishes worlds of inputs and admitted queries    *)
(* into a QueryDatabase, and serves evaluations only to the handle of the  *)
(* latest publication.                                                     *)
(*                                                                         *)
(* The session has a gate of its own, held by a publication from before    *)
(* its preparation callback to its end and by an evaluation throughout, so *)
(* a publication is one atomic action.  The gate of the database below it  *)
(* is then always free, and gate stands for both.                          *)
(*                                                                         *)
(* The admission tables live, queryKeys and inputKeys are the variable     *)
(* grant of QueryDatabase; a world is the variable world, which the code   *)
(* does not keep: the publications that the session has promised to serve. *)
(***************************************************************************)
EXTENDS QueryDatabase, FiniteSetsExt, SequencesExt

CONSTANTS
    KeyBytes,     \* byte length of the strings of a key
    Limits,       \* Queries, Inputs, InputEdges, Dependencies, Bytes
    Batch,        \* the snapshots a caller may publish: sequences of publications
    Delta,        \* the deltas a caller may publish
    MaxEpoch      \* bound on the epoch counter

\* One query's reservation and owned inputs.  The inputs are a set: a repeated
\* change is dropped by the code before anything depends on it.
Publication == [key : QueryKey, inputs : SUBSET Change, resultBytes : Nat, dependencies : Nat]

ASSUME SessionAssumption ==
    /\ KeyBytes \in [InputKey \cup QueryKey -> Nat]
    /\ Limits \in [queries : Nat \ {0}, inputs : Nat, edges : Nat, dependencies : Nat,
                   bytes : Nat \ {0}]
    /\ Batch \subseteq Seq(Publication)
    /\ Delta \subseteq [reset : BOOLEAN, upsert : SUBSET Publication, remove : SUBSET QueryKey]
    /\ MaxEpoch \in Nat
    /\ IsFiniteSet(InputKey) /\ IsFiniteSet(QueryKey) /\ IsFiniteSet(Value)

VARIABLES
    inputs,    \* s.inputs: the published value of every published input
    delta,     \* s.delta: ownership in both directions, or None after a full publication
    epoch,     \* s.epoch
    ready,     \* s.ready
    usage,     \* s.bytes, s.edges, s.dependencies
    debt,      \* s.debtBytes, s.debtInputs
    world,     \* history: the publications that the retained data stand for
    latest,    \* history: the handle that the last publication returned, or None
    issued,    \* history: the handles callers hold, a handle being its epoch; 0 is the zero Revision
    served     \* the handle and the key of the evaluation in progress, or None

dbVars == <<db, stack, gate, todo, answers, grant>>
sessionVars == <<inputs, delta, epoch, ready, usage, debt, world, latest, issued>>
allVars == <<dbVars, sessionVars, served>>

-----------------------------------------------------------------------------
(* Costs and reservations.                                                 *)

Live == {q \in QueryKey : Admitted(q)}

SizeOf(v) == IF v = Absent THEN 0 ELSE Size[v]
keyCost(k) == KeyBytes[k] + 128
inputCost(c) == keyCost(c.key) + SizeOf(c.value)

\* Both ways of publishing charge every input once, to whoever brings it first.
InputsCost(changes) == MapThenSumSet(inputCost, changes)

\* What full and delta publications charge for a query with n owned inputs.
fullQueryCost(q, r, n) == keyCost(q) + r.resultBytes + 96 * r.dependencies + 40 * n
deltaQueryCost(q, r, n) == keyCost(q) + 128 + r.resultBytes + 96 * r.dependencies + 96 * n

ReservationOf(p) == [resultBytes |-> p.resultBytes, dependencies |-> p.dependencies]

\* Changes that agree on every key.
Consistent(changes) == \A a, b \in changes : a.key = b.key => a.value = b.value

AsMap(changes) ==
    [k \in {c.key : c \in changes} |-> (CHOOSE c \in changes : c.key = k).value]
AsChanges(map) == {[key |-> k, value |-> map[k]] : k \in DOMAIN map}

InputsOf(pubs) == UNION {p.inputs : p \in pubs}

-----------------------------------------------------------------------------
(* Full publication.                                                       *)

\* The whole batch agrees on its inputs and on its queries.
Coherent(pubs) ==
    /\ Consistent(InputsOf(pubs))
    /\ \A a, b \in pubs : a.key = b.key => a = b

NothingAdmitted == [pubs |-> {}, bytes |-> 0, edges |-> 0, dependencies |-> 0]

\* A query is admitted if it fits beside those admitted before it, else skipped.
Admit(acc, p) ==
    LET fresh == p.inputs \ InputsOf(acc.pubs)
        next == [pubs         |-> acc.pubs \cup {p},
                 bytes        |-> acc.bytes + fullQueryCost(p.key, p, Cardinality(p.inputs))
                                    + InputsCost(fresh),
                 edges        |-> acc.edges + Cardinality(p.inputs),
                 dependencies |-> acc.dependencies + p.dependencies]
        fits == /\ Cardinality(next.pubs) <= Limits.queries
                /\ Cardinality(InputsOf(next.pubs)) <= Limits.inputs
                /\ next.edges <= Limits.edges
                /\ next.dependencies <= Limits.dependencies
                /\ next.bytes <= Limits.bytes
    IN  IF fits THEN next ELSE acc

\* Queries already live come first, in the order of the batch.
Admission(batch) ==
    LET order == FoldLeft(remember, <<>>, batch)
        Retained(p) == p.key \in Live
        Added(p) == p.key \notin Live
    IN  FoldLeft(Admit, NothingAdmitted, SelectSeq(order, Retained) \o SelectSeq(order, Added))

GrantOf(pubs) ==
    [inputs  |-> {c.key : c \in InputsOf(pubs)},
     queries |-> [q \in QueryKey |->
        IF \E p \in pubs : p.key = q THEN ReservationOf(CHOOSE p \in pubs : p.key = q) ELSE None]]

\* Mutant: the memos go, the revision stays.
EvictQueriesKeepRevision(d, keys) ==
    [d EXCEPT !.results = [q \in QueryKey |-> IF q \in keys THEN None ELSE d.results[q]]]

\* EvictQuery for every key of a set, in any order.
EvictQueries(d, keys) ==
    LET memos == {q \in keys : d.results[q] # None}
    IN  [revision |-> d.revision + Cardinality(memos),
         inputs   |-> d.inputs,
         results  |-> [q \in QueryKey |-> IF q \in memos THEN None ELSE d.results[q]]]

\* Mutant: a query that stays live keeps its memo whatever its reservation.
DisplacedGone(queries) == {q \in Live : queries[q] = None}

\* Live queries that disappear or whose reservation changes.
Displaced(queries) == {q \in Live : queries[q] # grant.queries[q]}

KeysCost(keys) == MapThenSumSet(keyCost, keys)

\* Mutant: only bytes are counted against the retirement debt.
OverDebtBytes(d) == d.bytes > Limits.bytes

OverDebt(d) == d.bytes > Limits.bytes \/ d.inputs > Limits.inputs

NoDebt == [bytes |-> 0, inputs |-> 0]

\* A publication past its cancellation points installs its world and its handle.
Installed(pubs) ==
    /\ epoch' = epoch + 1
    /\ ready' = TRUE
    /\ world' = pubs
    /\ latest' = epoch + 1
    /\ issued' = issued \cup {epoch + 1}
    /\ UNCHANGED <<stack, gate, todo, answers, served>>

Begin == gate = Free /\ epoch < MaxEpoch

Publish(batch) ==
    LET chosen == Admission(batch)
        grantNext == GrantOf(chosen.pubs)
        inputsNext == AsMap(InputsOf(chosen.pubs))
        retired == DOMAIN inputs \ DOMAIN inputsNext
        gone == {q \in Live : grantNext.queries[q] = None}
        debtNext == [bytes  |-> debt.bytes + KeysCost(retired) + KeysCost(gone),
                     inputs |-> debt.inputs + Cardinality(retired)]
        base == IF OverDebt(debtNext) THEN New
                ELSE RetireInputs(EvictQueries(db, Displaced(grantNext.queries)), retired)
    IN  /\ Begin
        /\ Coherent(Range(batch))
        /\ grant' = grantNext
        /\ inputs' = inputsNext
        /\ delta' = None
        /\ usage' = [bytes |-> chosen.bytes, edges |-> chosen.edges,
                     dependencies |-> chosen.dependencies]
        /\ debt' = IF OverDebt(debtNext) THEN NoDebt ELSE debtNext
        /\ db' = applyPending(base, inputsNext)
        /\ Installed(chosen.pubs)

\* Mutant: a failed publication leaves the old generation in place.
RejectedKeepsGeneration == Begin /\ latest' = None /\ epoch' = epoch
    /\ UNCHANGED <<dbVars, inputs, delta, ready, usage, debt, world, issued, served>>

\* The generation ends before the inputs are built, so a publication that fails
\* (preparation, cancellation, conflict, budget) leaves no usable handle, and all
\* data as it was.
Rejected ==
    /\ Begin
    /\ epoch' = epoch + 1
    /\ ready' = FALSE
    /\ latest' = None
    /\ UNCHANGED <<dbVars, inputs, delta, usage, debt, world, issued, served>>

-----------------------------------------------------------------------------
(* Delta publication.                                                      *)

NoOwners == [owned |-> [q \in QueryKey |-> {}], refs |-> [k \in InputKey |-> {}]]

Emptied == [live |-> [q \in QueryKey |-> None], inputs |-> NoChanges, owners |-> NoOwners,
            usage |-> [bytes |-> 0, edges |-> 0, dependencies |-> 0]]

\* The retained world that a delta edits.
Base(dl) ==
    IF dl.reset THEN Emptied
    ELSE [live |-> grant.queries, inputs |-> inputs, usage |-> usage,
          owners |-> IF delta = None THEN NoOwners ELSE delta]

\* A full publication keeps no owners, so a delta after one must start afresh.
HasOwners(dl) == dl.reset \/ delta # None \/ (Live = {} /\ DOMAIN inputs = {})

Planned(dl) == dl.remove \cup {p.key : p \in dl.upsert}

\* Every owner is replaced or removed once, and asserts every input once.
WellFormed(dl) ==
    /\ \A p \in dl.upsert : Consistent(p.inputs) /\ p.key \notin dl.remove
    /\ \A a, b \in dl.upsert : a.key = b.key => a = b

\* The inputs whose owners change.
Touched(b, dl) ==
    UNION {b.owners.owned[q] : q \in {p \in Planned(dl) : b.live[p] # None}}
        \cup {c.key : c \in InputsOf(dl.upsert)}

\* Untouched owners of k keep asserting its value.
Asserted(b, dl, k) ==
    {c \in InputsOf(dl.upsert) : c.key = k}
        \cup (IF b.owners.refs[k] \subseteq Planned(dl) THEN {}
              ELSE {[key |-> k, value |-> b.inputs[k]]})

\* The cells that the touched inputs have after the delta, and those without one.
Cells(b, dl) == UNION {Asserted(b, dl, k) : k \in Touched(b, dl)}
RetiredBy(b, dl) == {k \in Touched(b, dl) \cap DOMAIN b.inputs : Asserted(b, dl, k) = {}}

\* Mutant: a replaced owner stays in the reverse index of the inputs it gave up.
OwnersKeepRefs(b, dl) ==
    [owned |-> [q \in QueryKey |->
        IF q \in Planned(dl) THEN {c.key : c \in InputsOf({p \in dl.upsert : p.key = q})}
        ELSE b.owners.owned[q]],
     refs |-> [k \in InputKey |->
        b.owners.refs[k] \cup {p.key : p \in {o \in dl.upsert : \E c \in o.inputs : c.key = k}}]]

\* Owners and reverse index after the delta.
Owners(b, dl) ==
    [owned |-> [q \in QueryKey |->
        IF q \in Planned(dl) THEN {c.key : c \in InputsOf({p \in dl.upsert : p.key = q})}
        ELSE b.owners.owned[q]],
     refs |-> [k \in InputKey |->
        (b.owners.refs[k] \ Planned(dl))
            \cup {p.key : p \in {o \in dl.upsert : \E c \in o.inputs : c.key = k}}]]

LiveAfter(b, dl) ==
    [q \in QueryKey |->
        IF \E p \in dl.upsert : p.key = q THEN ReservationOf(CHOOSE p \in dl.upsert : p.key = q)
        ELSE IF q \in dl.remove THEN None ELSE b.live[q]]

\* Usage after the delta: all old reservations out, then the new ones in.
UsageAfter(b, dl) ==
    LET old == {q \in Planned(dl) : b.live[q] # None}
        Owned(q) == Cardinality(b.owners.owned[q])
        OldCost(q) == deltaQueryCost(q, b.live[q], Owned(q))
        OldDependencies(q) == b.live[q].dependencies
        NewCost(p) == deltaQueryCost(p.key, p, Cardinality(p.inputs))
        NewEdges(p) == Cardinality(p.inputs)
        NewDependencies(p) == p.dependencies
        oldCells == {c \in AsChanges(b.inputs) : c.key \in Touched(b, dl)}
    IN  [bytes |-> b.usage.bytes - MapThenSumSet(OldCost, old) - InputsCost(oldCells)
                     + MapThenSumSet(NewCost, dl.upsert) + InputsCost(Cells(b, dl)),
         edges |-> b.usage.edges - MapThenSumSet(Owned, old)
                     + MapThenSumSet(NewEdges, dl.upsert),
         dependencies |-> b.usage.dependencies - MapThenSumSet(OldDependencies, old)
                     + MapThenSumSet(NewDependencies, dl.upsert)]

InputsAfter(b, dl) ==
    LET cells == Cells(b, dl)
    IN  AsMap(cells \cup {c \in AsChanges(b.inputs) : c.key \notin Touched(b, dl)})

\* All or nothing.
WithinLimits(used, live, map) ==
    /\ used.bytes <= Limits.bytes
    /\ used.edges <= Limits.edges
    /\ used.dependencies <= Limits.dependencies
    /\ Cardinality({q \in QueryKey : live[q] # None}) <= Limits.queries
    /\ Cardinality(DOMAIN map) <= Limits.inputs

\* Retired keys and dropped ownership edges add to the debt.
DebtAfter(b, dl) ==
    LET old == {q \in Planned(dl) : b.live[q] # None}
        Dropped(q) == 96 * Cardinality(b.owners.owned[q] \ Owners(b, dl).owned[q])
        removed == old \cap dl.remove
        retired == RetiredBy(b, dl)
    IN  [bytes  |-> debt.bytes + MapThenSumSet(Dropped, old) + KeysCost(removed)
                      + 128 * Cardinality(removed) + KeysCost(retired),
         inputs |-> debt.inputs + Cardinality(retired)]

PublishDelta(dl) ==
    LET b == Base(dl)
        compact == dl.reset \/ OverDebt(DebtAfter(b, dl))
        evicted == {q \in QueryKey : b.live[q] # None /\ LiveAfter(b, dl)[q] # b.live[q]}
        kept == IF dl.reset THEN {} ELSE {p \in world : p.key \notin Planned(dl)}
    IN  /\ Begin
        /\ HasOwners(dl) /\ WellFormed(dl) /\ Consistent(Cells(b, dl))
        /\ WithinLimits(UsageAfter(b, dl), LiveAfter(b, dl), InputsAfter(b, dl))
        /\ inputs' = InputsAfter(b, dl)
        /\ grant' = [inputs |-> DOMAIN InputsAfter(b, dl), queries |-> LiveAfter(b, dl)]
        /\ delta' = Owners(b, dl)
        /\ usage' = UsageAfter(b, dl)
        /\ debt' = IF compact THEN NoDebt ELSE DebtAfter(b, dl)
        /\ db' = IF compact THEN applyPending(New, InputsAfter(b, dl))
                 ELSE applyTransaction(db, AsMap(Cells(b, dl)), RetiredBy(b, dl), evicted)
        /\ Installed(kept \cup dl.upsert)

-----------------------------------------------------------------------------
(* Evaluation through a handle.                                            *)

\* The session's answer without asking the database, or None.
Turned(handle, q) ==
    IF ~ready \/ handle # epoch THEN [ok |-> FALSE, kind |-> "stale revision"]
    ELSE IF ~Admitted(q) THEN [ok |-> FALSE, kind |-> "unpublished query"]
    ELSE None

Evaluate(c, handle, q) ==
    /\ gate = Free
    /\ gate' = c
    /\ served' = [handle |-> handle, key |-> q]
    /\ IF Turned(handle, q) = None THEN todo' = <<q>> /\ answers' = <<>>
       ELSE todo' = <<>> /\ answers' = <<Turned(handle, q)>>
    /\ UNCHANGED <<db, stack, grant, sessionVars>>

\* The database's own steps, on the session's behalf.
Work == Evaluating \/ Cancel

Serving ==
    /\ Work
    /\ served' = IF gate' = Free THEN None ELSE served
    /\ UNCHANGED sessionVars

SessionInit ==
    /\ Init
    /\ inputs = NoChanges
    /\ delta = None
    /\ epoch = 0
    /\ ready = FALSE
    /\ usage = [bytes |-> 0, edges |-> 0, dependencies |-> 0]
    /\ debt = NoDebt
    /\ world = {}
    /\ latest = None
    /\ issued = {0}
    /\ served = None

Publishing ==
    \/ \E batch \in Batch : Publish(batch)
    \/ \E dl \in Delta : PublishDelta(dl)
    \/ Rejected

SessionNext ==
    \/ Publishing
    \/ \E c \in Client, handle \in issued, q \in QueryKey : Evaluate(c, handle, q)
    \/ Serving

SessionSpec == SessionInit /\ [][SessionNext]_allVars

-----------------------------------------------------------------------------
(* Properties.                                                             *)

\* Every index of the session describes the world that callers have published: the
\* value of each input is the one all its owners assert, the reverse index mirrors
\* the owners, and the running totals that deltas adjust equal what summing over
\* all publications gives (PublishDeltaPrepared, "never scans unrelated
\* publications").
WorldCoherent ==
    LET QueryCost(p) == IF delta = None THEN fullQueryCost(p.key, p, Cardinality(p.inputs))
                        ELSE deltaQueryCost(p.key, p, Cardinality(p.inputs))
        Edges(p) == Cardinality(p.inputs)
        Dependencies(p) == p.dependencies
    IN  /\ Coherent(world)
        /\ AsChanges(inputs) = InputsOf(world)
        /\ grant = GrantOf(world)
        /\ delta # None => delta = [owned |-> [q \in QueryKey |->
                                       {c.key : c \in InputsOf({p \in world : p.key = q})}],
                                    refs |-> [k \in InputKey |->
                                       {p.key : p \in {o \in world : \E c \in o.inputs : c.key = k}}]]
        /\ usage = [bytes |-> MapThenSumSet(QueryCost, world) + InputsCost(InputsOf(world)),
                    edges |-> MapThenSumSet(Edges, world),
                    dependencies |-> MapThenSumSet(Dependencies, world)]

\* The database holds the published inputs and nothing else, and memos only of
\* admitted queries within the reservation under which they are admitted now
\* (PublishPrepared and PublishDeltaPrepared evict a query whose reservation
\* changed).
DatabaseHoldsWorld ==
    /\ \A k \in InputKey :
          db.inputs[k].value = IF k \in DOMAIN inputs THEN inputs[k] ELSE Absent
    /\ \A q \in Memoized :
          /\ Admitted(q)
          /\ Size[db.results[q].value] <= grant.queries[q].resultBytes
          /\ Len(db.results[q].dependencies) <= grant.queries[q].dependencies

\* What the session retains is bounded by its limits: the memos and inputs by the
\* accounted bytes, the tombstones of retired inputs by the retirement debt, and
\* both by Limits (Limits: "Retired key metadata is compacted before its additional
\* debt exceeds Bytes or Inputs").
RetentionBounded ==
    LET MemoBytes(q) == keyCost(q) + Size[db.results[q].value]
                          + 96 * Len(db.results[q].dependencies)
        entries == {k \in InputKey : db.inputs[k].changed > 0}
    IN  /\ MapThenSumSet(MemoBytes, Memoized) + InputsCost(AsChanges(inputs)) <= usage.bytes
        /\ Cardinality(entries) <= Cardinality(DOMAIN inputs) + debt.inputs
        /\ WithinLimits(usage, grant.queries, inputs)
        /\ debt.bytes <= Limits.bytes /\ debt.inputs <= Limits.inputs
=============================================================================
