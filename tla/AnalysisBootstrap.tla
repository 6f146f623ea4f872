-------------------------- MODULE AnalysisBootstrap --------------------------
(***************************************************************************)
(* The initial analysis of a program that takes longer than a process may  *)
(* run (analysis_disk_build.go, semantic/analysis_build.go): processes     *)
(* that are killed at a deadline analyze some declarations, save a         *)
(* checkpoint, and leave the rest to the next run of the same build.       *)
(*                                                                         *)
(* Time is counted in units since the start of a process.  A declaration   *)
(* or a final check is indivisible: a process whose piece would end after  *)
(* the deadline is killed in it.  The late return-borrow frames, which can *)
(* be interrupted like the other final checks, are final checks here.      *)
(* All processes build the same source under the same identity.            *)
(***************************************************************************)
EXTENDS Integers

CONSTANTS Processes,
          Declarations,     \* how many there are
          Checks,           \* how many final checks there are
          BodyTimes,        \* how long a declaration may take
          CheckTimes,       \* how long a final check may take
          Deadline,         \* analysisBootstrapDeadline, enforced from outside
          Startup,          \* loading, parsing and restoring
          SaveTime,         \* encoding and writing a checkpoint
          StoreTime,        \* storing the completed state, and code generation
          Margin,           \* analysisBootstrapMargin
          CheckMargin,      \* a third of it
          Automatic,        \* whether a run goes on from bodies to checks
          MaxTaints,        \* at most this many transient solver outcomes
          MaxKills          \* and this many processes killed before the deadline

(* A step has some time, and every piece fits into a process of its own.   *)
ASSUME BuildAssumption ==
       /\ Declarations \in Nat \ {0} /\ Checks \in Nat \ {0}
       /\ Deadline \in Nat /\ Startup \in Nat /\ SaveTime \in Nat /\ StoreTime \in Nat
       /\ Margin \in Nat /\ CheckMargin \in Nat
       /\ Startup + SaveTime + Margin < Deadline
       /\ Startup + StoreTime + CheckMargin < Deadline
       /\ \A n \in BodyTimes : n \in Nat \ {0} /\ Startup + n + SaveTime <= Deadline
       /\ \A n \in CheckTimes : n \in Nat \ {0} /\ n <= CheckMargin
       /\ Automatic \in BOOLEAN

VARIABLES body,      \* how long each declaration takes
          check,     \* how long each final check takes
          building,  \* the checkpoint on disk
          slow,      \* the declarations the .slow file names
          stored,    \* whether the completed state is on disk
          proc,      \* the processes
          taints, kills

vars == <<body, check, building, slow, stored, proc, taints, kills>>

NoBuild == [next |-> 0, post |-> 0, saved |-> FALSE]

(* next and post count the finished declarations and checks; count and     *)
(* bodies those of the step; stop and limit are the step's bounds.         *)
Off == [at |-> "off", t |-> 0, next |-> 0, post |-> 0, checkpointCurrent |-> FALSE,
        cleanCheckpointAvailable |-> FALSE, tainted |-> FALSE, start |-> 0, budget |-> 0,
        count |-> 0, bodies |-> 0, stop |-> Declarations, limit |-> 0]

Init ==
    /\ body \in [0 .. Declarations - 1 -> BodyTimes]
    /\ check \in [0 .. Checks - 1 -> CheckTimes]
    /\ building = NoBuild /\ slow = {} /\ stored = FALSE
    /\ proc = [p \in Processes |-> Off]
    /\ taints = 0 /\ kills = 0

Exit(p) == proc' = [proc EXCEPT ![p] = Off]

----------------------------------------------------------------------------
(* Mutant: the cursor of the declarations is not restored. *)
RestoresChecksOnly ==
    [Off EXCEPT !.post = building.post, !.checkpointCurrent = building.saved,
                !.cleanCheckpointAvailable = building.saved]

(* Mutant: every run begins with the source. *)
StartsOver == Off

(* The build a process begins with: the checkpoint's, if there is one. *)
Restored ==
    [Off EXCEPT !.next = building.next, !.post = building.post,
                !.checkpointCurrent = building.saved,
                !.cleanCheckpointAvailable = building.saved]

(* A run that finds no completed state. *)
Start(p) ==
    /\ proc[p].at = "off" /\ ~stored
    /\ proc' = [proc EXCEPT ![p] = [Restored EXCEPT !.at = "budget", !.t = Startup]]
    /\ UNCHANGED <<body, check, building, slow, stored, taints, kills>>

(* What a step must leave of the process's time. *)
Reserve(finalChecks) == IF finalChecks THEN StoreTime + CheckMargin ELSE SaveTime + Margin

(* analysisBootstrapBudget; 0 for none. *)
Budget(s, finalChecks) ==
    IF s.t + Reserve(finalChecks) >= Deadline THEN 0 ELSE Deadline - s.t - Reserve(finalChecks)

(* Mutant: no hint is ever found. *)
NoHint(next) == Declarations

(* analysisBootstrapSlowHint: the first declaration from next on that was  *)
(* running at the deadline of an earlier step.                             *)
SlowHint(next) ==
    LET later == {i \in slow : i >= next} IN
    IF later = {} THEN Declarations ELSE CHOOSE i \in later : \A j \in later : i <= j

(* A known slow declaration gets a step to itself. *)
StepLimit(next, hint) == IF hint = next /\ next < Declarations THEN 1 ELSE 0

BeginStep(p) ==
    LET s == proc[p]
        budget == Budget(s, s.next = Declarations)
    IN
    /\ s.at = "budget"
    /\ IF budget = 0 THEN proc' = [proc EXCEPT ![p].at = "last"]
       ELSE proc' = [proc EXCEPT ![p] = [s EXCEPT
               !.at = "step", !.start = s.t, !.budget = budget, !.count = 0, !.bodies = 0,
               !.stop = SlowHint(s.next), !.limit = StepLimit(s.next, SlowHint(s.next)),
               !.checkpointCurrent = FALSE]]
    /\ UNCHANGED <<body, check, building, slow, stored, taints, kills>>

(* The step's count or time is used up; its first piece runs anyway. *)
Exhausted(s) ==
    s.count > 0 /\ ((s.limit > 0 /\ s.count >= s.limit) \/ s.t - s.start >= s.budget)

(* The watchdog of the step finds declaration i running. *)
Watchdog(s, i) == IF s.t + body[i] > s.start + s.budget + Margin THEN slow \union {i} ELSE slow

(* A piece of n time units, after which the process is as s.  A solver may *)
(* time out in it.                                                         *)
Piece(p, n, s) ==
    IF proc[p].t + n > Deadline THEN Exit(p) /\ UNCHANGED taints
    ELSE \E tainted \in BOOLEAN :
            /\ tainted => taints < MaxTaints
            /\ taints' = IF tainted THEN taints + 1 ELSE taints
            /\ proc' = [proc EXCEPT ![p] = [s EXCEPT !.t = @ + n, !.count = @ + 1,
                                                     !.tainted = @ \/ tainted]]

(* AdvanceBefore: the next declaration. *)
Body(p) ==
    LET s == proc[p] IN
    /\ s.at = "step" /\ s.next < Declarations
    /\ ~Exhausted(s) /\ (s.count > 0 => s.next # s.stop)
    /\ slow' = Watchdog(s, s.next)
    /\ Piece(p, body[s.next], [s EXCEPT !.next = @ + 1, !.bodies = @ + 1])
    /\ UNCHANGED <<body, check, building, stored, kills>>

(* AdvanceBefore: the next final check, in a step that had no bodies. *)
FinalCheck(p) ==
    LET s == proc[p] IN
    /\ s.at = "step" /\ s.next = Declarations /\ s.post < Checks
    /\ ~Exhausted(s) /\ (s.post = 0 => s.count = 0)
    /\ Piece(p, check[s.post], [s EXCEPT !.post = @ + 1])
    /\ UNCHANGED <<body, check, building, slow, stored, kills>>

(* The step ends without a result. *)
StepStops(s) ==
    IF s.next < Declarations THEN Exhausted(s) \/ (s.count > 0 /\ s.next = s.stop)
    ELSE Exhausted(s) \/ (s.post = 0 /\ s.count > 0)

(* A run goes on in the same process only to the final checks. *)
GoesOn(s) == Automatic /\ s.next = Declarations /\ s.count > 0

EndStep(p) ==
    LET s == proc[p] IN
    /\ s.at = "step" /\ StepStops(s)
    /\ proc' = [proc EXCEPT ![p].at =
          IF ~GoesOn(s) THEN "last" ELSE IF s.bodies > 0 THEN "boundary" ELSE "budget"]
    /\ UNCHANGED <<body, check, building, slow, stored, taints, kills>>

(* Mutant: a checkpoint of a build that saw a transient outcome would be   *)
(* saved.                                                                  *)
AlwaysSaves(s) == TRUE

(* MarshalStateWithCapacity refuses a tainted build. *)
CanSave(s) == ~s.tainted

(* saveCheckpoint, which a process may not live to finish. *)
SaveCheckpoint(p, at) ==
    LET s == proc[p] IN
    IF s.t + SaveTime > Deadline THEN Exit(p) /\ UNCHANGED building
    ELSE /\ building' = [next |-> s.next, post |-> s.post, saved |-> TRUE]
         /\ proc' = [proc EXCEPT ![p] = [s EXCEPT !.at = at, !.t = s.t + SaveTime,
                       !.checkpointCurrent = TRUE, !.cleanCheckpointAvailable = TRUE]]

(* The checkpoint between the bodies and the final checks.  A tainted      *)
(* build without a clean one goes on in memory while there is time.        *)
SaveBoundary(p) ==
    LET s == proc[p] IN
    /\ s.at = "boundary"
    /\ IF CanSave(s) THEN SaveCheckpoint(p, "budget")
       ELSE /\ UNCHANGED building
            /\ IF s.cleanCheckpointAvailable \/ Budget(s, TRUE) = 0 THEN Exit(p)
               ELSE proc' = [proc EXCEPT ![p].at = "budget"]
    /\ UNCHANGED <<body, check, slow, stored, taints, kills>>

(* The run reports that the build is incomplete. *)
SaveLast(p) ==
    LET s == proc[p] IN
    /\ s.at = "last"
    /\ IF s.checkpointCurrent \/ ~CanSave(s) THEN Exit(p) /\ UNCHANGED building
       ELSE SaveCheckpoint(p, "leave")
    /\ UNCHANGED <<body, check, slow, stored, taints, kills>>

Leave(p) ==
    /\ proc[p].at = "leave" /\ Exit(p)
    /\ UNCHANGED <<body, check, building, slow, stored, taints, kills>>

(* All is analyzed.  A tainted result is never stored. *)
Complete(p) ==
    LET s == proc[p] IN
    /\ s.at = "step" /\ s.next = Declarations /\ s.post = Checks /\ ~StepStops(s)
    /\ IF CanSave(s)
       THEN proc' = [proc EXCEPT ![p].at = "store"] /\ slow' = {}
       ELSE Exit(p) /\ UNCHANGED slow
    /\ UNCHANGED <<body, check, building, stored, taints, kills>>

(* analyzeSemanticFromDisk publishes the state, and only then removes the  *)
(* checkpoint and its hints.                                               *)
Store(p) ==
    /\ proc[p].at = "store"
    /\ IF proc[p].t + StoreTime > Deadline THEN Exit(p) /\ UNCHANGED stored
       ELSE stored' = TRUE /\ proc' = [proc EXCEPT ![p].at = "clean"]
    /\ UNCHANGED <<body, check, building, slow, taints, kills>>

Clean(p) ==
    /\ proc[p].at = "clean" /\ Exit(p)
    /\ building' = NoBuild /\ slow' = {}
    /\ UNCHANGED <<body, check, stored, taints, kills>>

(* A process is interrupted. *)
Kill(p) ==
    /\ proc[p].at # "off" /\ kills < MaxKills
    /\ kills' = kills + 1 /\ Exit(p)
    /\ UNCHANGED <<body, check, building, slow, stored, taints>>

Finished == stored /\ (\A p \in Processes : proc[p].at = "off") /\ UNCHANGED vars

Steps(p) ==
    \/ Start(p) \/ BeginStep(p) \/ Body(p) \/ FinalCheck(p) \/ EndStep(p)
    \/ SaveBoundary(p) \/ SaveLast(p) \/ Leave(p) \/ Complete(p) \/ Store(p) \/ Clean(p)

Next == (\E p \in Processes : Steps(p) \/ Kill(p)) \/ Finished

(* Every process runs on, and the build is run again when it was           *)
(* incomplete: "rerun the same build to continue".                         *)
Spec == Init /\ [][Next]_vars /\ \A p \in Processes : WF_vars(Steps(p))

----------------------------------------------------------------------------
Cursor == [next : 0 .. Declarations, post : 0 .. Checks, saved : BOOLEAN]

Process ==
    [at : {"off", "budget", "step", "boundary", "last", "leave", "store", "clean"},
     t : 0 .. Deadline, next : 0 .. Declarations, post : 0 .. Checks,
     checkpointCurrent : BOOLEAN, cleanCheckpointAvailable : BOOLEAN, tainted : BOOLEAN,
     start : Nat, budget : Nat, count : Nat, bodies : Nat, stop : 0 .. Declarations,
     limit : {0, 1}]

(* What holds of every build.  Final checks begin after the last           *)
(* declaration, which is what validate() demands of a checkpoint; a state  *)
(* is only stored when everything has been analyzed; a process that leaves *)
(* with its progress saved, or stores a state, saw no transient outcome.   *)
BuildInv ==
    /\ body \in [0 .. Declarations - 1 -> BodyTimes] /\ check \in [0 .. Checks - 1 -> CheckTimes]
    /\ building \in Cursor /\ slow \subseteq 0 .. Declarations - 1
    /\ proc \in [Processes -> Process]
    /\ building.post > 0 => building.next = Declarations
    /\ \A p \in Processes :
          /\ proc[p].post > 0 => proc[p].next = Declarations
          /\ proc[p].at \in {"store", "clean"} => proc[p].next = Declarations /\ proc[p].post = Checks
          /\ proc[p].at \in {"off", "leave", "store", "clean"} => ~proc[p].tainted
          /\ proc[p].at = "clean" => stored

(* What is saved is clean: no checkpoint is written by a process that saw  *)
(* a transient solver outcome, and no such process stores a state, so that *)
(* a resumed analysis is as strong as one from the source.                 *)
NothingTaintedSaved ==
    [][\A p \in Processes :
          proc[p].tainted /\ proc'[p] # proc[p] => UNCHANGED <<building, stored>>]_vars

(* Progress is never lost: with one process at a time the checkpoint only  *)
(* advances, until the completed state is on disk.                         *)
ProgressKept ==
    [][building.saved /\ ~stored' =>
          /\ building'.saved
          /\ building'.next >= building.next /\ building'.post >= building.post]_vars

(* A build that is run again and again is completed, although processes    *)
(* are killed at the deadline in the middle of slow declarations.          *)
Completes == <>stored
=============================================================================
