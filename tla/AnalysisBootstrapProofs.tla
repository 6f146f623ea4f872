----------------------- MODULE AnalysisBootstrapProofs -----------------------
(***************************************************************************)
(* The resumable initial analysis, for any number of processes,            *)
(* declarations and checks, and any times that satisfy BuildAssumption.    *)
(***************************************************************************)
EXTENDS AnalysisBootstrap, WellFoundedInduction, TLAPS

(* A non-empty set of numbers has a least element, so that the search for  *)
(* the next slow declaration finds one.                                    *)
LEMMA LeastExists ==
    ASSUME NEW T \in SUBSET Nat, T # {}
    PROVE  \E i \in T : \A j \in T : i <= j
<1>1. \E i \in T : \A j \in T : ~ (<<j, i>> \in OpToRel(<, Nat))
  BY NatLessThanWellFounded, WFMin, Zenon
<1>2. PICK i \in T : \A j \in T : ~ (<<j, i>> \in OpToRel(<, Nat))
  BY <1>1, Zenon
<1>3. \A j \in T : ~ (j < i)
  BY <1>2, Zenon DEF OpToRel
<1> QED
  BY <1>3

(* The step is stopped at a declaration, or not at all. *)
LEMMA SlowHintType ==
    ASSUME NEW n \in Nat, slow \subseteq 0 .. Declarations - 1
    PROVE  SlowHint(n) \in 0 .. Declarations
<1> DEFINE later == {i \in slow : i >= n}
<1>1. \A i \in later : i \in Nat /\ i \in 0 .. Declarations
  <2>1. Declarations \in Nat
    BY BuildAssumption
  <2> QED
    BY <2>1
<1>2. CASE later = {}
  BY <1>2, BuildAssumption DEF SlowHint
<1>3. CASE later # {}
  <2>1. later \in SUBSET Nat
    BY <1>1, Zenon
  <2>2. \E i \in later : \A j \in later : i <= j
    BY <1>3, <2>1, LeastExists, Zenon
  <2>3. SlowHint(n) \in later
    BY <1>3, <2>2, Zenon DEF SlowHint
  <2> QED
    BY <1>1, <2>3, Zenon
<1> QED
  BY <1>2, <1>3

------------------------------------------------------------------------------
(* What BuildInv says of one process. *)
Sound(s, kept) ==
    /\ s \in Process
    /\ s.post > 0 => s.next = Declarations
    /\ s.at \in {"store", "clean"} => s.next = Declarations /\ s.post = Checks
    /\ s.at \in {"off", "leave", "store", "clean"} => ~s.tainted
    /\ s.at = "clean" => kept

(* The flags of a process are Booleans; setting one leaves a process. *)
LEMMA SetFlag ==
    ASSUME NEW s \in Process, NEW x \in BOOLEAN
    PROVE  /\ [s EXCEPT !.checkpointCurrent = x] \in Process
           /\ [s EXCEPT !.cleanCheckpointAvailable = x] \in Process
           /\ [s EXCEPT !.tainted = x] \in Process
<1>1. [s EXCEPT !.checkpointCurrent = x] \in Process
  BY DEF Process
<1>2. [s EXCEPT !.cleanCheckpointAvailable = x] \in Process
  BY DEF Process
<1>3. [s EXCEPT !.tainted = x] \in Process
  BY DEF Process
<1> QED
  BY <1>1, <1>2, <1>3

(* A process that is not running is sound, and leaves nothing behind. *)
LEMMA OffSound == Sound(Off, stored')
BY BuildAssumption DEF Sound, Off, Process

(* A step of one process keeps the invariant if its new state is sound and *)
(* what it leaves on disk is well-formed.                                  *)
LEMMA OneProcess ==
    ASSUME BuildInv, NEW p \in Processes, NEW r,
           proc' = [proc EXCEPT ![p] = r], Sound(r, stored'),
           UNCHANGED <<body, check>>, stored => stored',
           slow' \subseteq 0 .. Declarations - 1,
           building' \in Cursor, building'.post > 0 => building'.next = Declarations
    PROVE  BuildInv'
BY DEF BuildInv, Sound

(* The same when nothing on disk changes. *)
LEMMA OneProcessOnly ==
    ASSUME BuildInv, NEW p \in Processes, NEW r,
           proc' = [proc EXCEPT ![p] = r], Sound(r, stored'),
           UNCHANGED <<body, check, building, slow, stored>>
    PROVE  BuildInv'
BY OneProcess, Zenon DEF BuildInv

(* The first state of a build. *)
LEMMA InitBuildInv == Init => BuildInv
BY BuildAssumption, SMTT(30) DEF Init, BuildInv, Cursor, NoBuild, Process, Off

(* Starting, and choosing the bounds of a step. *)
LEMMA StartStep ==
    ASSUME BuildInv, NEW p \in Processes, Start(p) \/ BeginStep(p)
    PROVE  BuildInv'
<1>1. CASE Start(p)
  <2>1. /\ building.next \in 0 .. Declarations /\ building.post \in 0 .. Checks
        /\ building.saved \in BOOLEAN
        /\ building.post > 0 => building.next = Declarations
    BY DEF BuildInv, Cursor
  <2> DEFINE r == [Restored EXCEPT !.at = "budget", !.t = Startup]
             bare == [Off EXCEPT !.next = building.next, !.post = building.post,
                                 !.at = "budget", !.t = Startup]
             current == [bare EXCEPT !.checkpointCurrent = building.saved]
  <2>2. Off \in Process
    BY OffSound DEF Sound
  <2>3. bare \in Process
    <3>1. Startup \in 0 .. Deadline
      BY BuildAssumption
    <3> QED
      BY <2>1, <2>2, <3>1, Zenon DEF Process
  <2>4. current \in Process
    BY <2>1, <2>3, SetFlag, Zenon
  <2>5. [current EXCEPT !.cleanCheckpointAvailable = building.saved] \in Process
    BY <2>1, <2>4, SetFlag, Zenon
  <2>6. r = [current EXCEPT !.cleanCheckpointAvailable = building.saved]
    BY <2>2, Zenon DEF Restored, Process
  <2>7. r.next = building.next /\ r.post = building.post /\ r.at = "budget"
    BY <2>2 DEF Restored, Process
  <2>8. Sound(r, stored')
    BY <2>1, <2>5, <2>6, <2>7 DEF Sound
  <2> QED
    BY <1>1, <2>8, OneProcessOnly, Zenon DEF Start
<1>2. CASE BeginStep(p)
  <2> DEFINE s == proc[p]
             budget == Budget(s, s.next = Declarations)
             r == [s EXCEPT !.at = "step", !.start = s.t, !.budget = budget, !.count = 0, !.bodies = 0,
                            !.stop = SlowHint(s.next), !.limit = StepLimit(s.next, SlowHint(s.next)),
                            !.checkpointCurrent = FALSE]
  <2>0. s \in Process /\ Sound(s, stored) /\ s.at = "budget"
    BY <1>2 DEF BuildInv, Sound, BeginStep
  <2>1. budget \in Nat
    BY <2>0, BuildAssumption DEF Budget, Reserve, Process
  <2>2. SlowHint(s.next) \in 0 .. Declarations
    <3>1. s.next \in Nat /\ slow \subseteq 0 .. Declarations - 1
      BY <2>0 DEF BuildInv, Process
    <3> QED
      BY <3>1, SlowHintType
  <2>3. StepLimit(s.next, SlowHint(s.next)) \in {0, 1}
    BY DEF StepLimit
  <2>4. Sound([s EXCEPT !.at = "last"], stored')
    BY <2>0 DEF Sound, Process
  <2> DEFINE bare == [s EXCEPT !.at = "step", !.start = s.t, !.budget = budget, !.count = 0,
                               !.bodies = 0, !.stop = SlowHint(s.next),
                               !.limit = StepLimit(s.next, SlowHint(s.next))]
  <2>5. Sound(r, stored')
    <3> HIDE DEF s, budget
    <3>1. ASSUME NEW n \in 0 .. Declarations, NEW l \in {0, 1}
          PROVE  [s EXCEPT !.at = "step", !.start = s.t, !.budget = budget, !.count = 0,
                           !.bodies = 0, !.stop = n, !.limit = l] \in Process
      <4>1. s.t \in Nat
        BY <2>0 DEF Process
      <4>2. [s EXCEPT !.at = "step", !.start = s.t, !.budget = budget] \in Process
        BY <2>0, <2>1, <4>1, Zenon DEF Process
      <4>3. ASSUME NEW q \in Process
            PROVE  [q EXCEPT !.count = 0, !.bodies = 0, !.stop = n, !.limit = l] \in Process
        BY Zenon DEF Process
      <4> QED
        BY <4>2, <4>3, Zenon
    <3>5. bare \in Process
      BY <2>2, <2>3, <3>1, Zenon
    <3>2. [bare EXCEPT !.checkpointCurrent = FALSE] \in Process
      BY <3>5, SetFlag, Zenon
    <3>3. r = [bare EXCEPT !.checkpointCurrent = FALSE]
      OBVIOUS
    <3>4. r.next = s.next /\ r.post = s.post /\ r.at = "step"
      BY <2>0 DEF Process
    <3> HIDE DEF r, bare
    <3> QED
      BY <2>0, <3>2, <3>3, <3>4 DEF Sound
  <2>6. CASE budget = 0
    BY <1>2, <2>4, <2>6, OneProcessOnly DEF BeginStep
  <2>7. CASE budget # 0
    BY <1>2, <2>5, <2>7, OneProcessOnly DEF BeginStep
  <2> QED
    BY <2>6, <2>7
<1> QED
  BY <1>1, <1>2

(* A process that exits keeps what is on disk well-formed. *)
LEMMA ExitStep ==
    ASSUME BuildInv, NEW p \in Processes, Exit(p), UNCHANGED <<body, check>>, stored => stored',
           slow' \subseteq 0 .. Declarations - 1,
           building' \in Cursor, building'.post > 0 => building'.next = Declarations
    PROVE  BuildInv'
BY OffSound, OneProcess, Zenon DEF Exit

(* A piece of work of n time units ends with a sound process, or with none. *)
LEMMA PieceStep ==
    ASSUME BuildInv, NEW p \in Processes, NEW n \in Nat, NEW s \in Process,
           s.at = "step", s.t = proc[p].t, s.post > 0 => s.next = Declarations, Piece(p, n, s),
           UNCHANGED <<body, check, building, stored>>, slow' \subseteq 0 .. Declarations - 1
    PROVE  BuildInv'
<1>0. building' \in Cursor /\ (building'.post > 0 => building'.next = Declarations)
  BY DEF BuildInv
<1>1. CASE proc[p].t + n > Deadline
  BY <1>0, <1>1, ExitStep, Zenon DEF Piece
<1>2. CASE ~(proc[p].t + n > Deadline)
  <2>1. PICK tainted \in BOOLEAN :
            proc' = [proc EXCEPT ![p] = [s EXCEPT !.t = @ + n, !.count = @ + 1,
                                                  !.tainted = @ \/ tainted]]
    BY <1>2, Zenon DEF Piece
  <2> DEFINE bare == [s EXCEPT !.t = @ + n, !.count = @ + 1]
             r == [s EXCEPT !.t = @ + n, !.count = @ + 1, !.tainted = @ \/ tainted]
  <2>2. bare \in Process
    <3>1. s.t + n \in 0 .. Deadline /\ s.count + 1 \in Nat
      BY <1>2, BuildAssumption DEF Process
    <3> QED
      BY <3>1, Zenon DEF Process
  <2>3. (s.tainted \/ tainted) \in BOOLEAN
    BY DEF Process
  <2>4. [bare EXCEPT !.tainted = s.tainted \/ tainted] \in Process
    BY <2>2, <2>3, SetFlag, Zenon
  <2>5. r = [bare EXCEPT !.tainted = s.tainted \/ tainted]
    OBVIOUS
  <2>6. r.next = s.next /\ r.post = s.post /\ r.at = "step"
    BY DEF Process
  <2> HIDE DEF r, bare
  <2>7. Sound(r, stored')
    BY <2>4, <2>5, <2>6 DEF Sound
  <2>8. proc' = [proc EXCEPT ![p] = r]
    BY <2>1 DEF r
  <2> QED
    BY <1>0, <2>7, <2>8, OneProcess, Zenon
<1> QED
  BY <1>1, <1>2

(* A declaration or a final check is analyzed. *)
LEMMA AdvanceStep ==
    ASSUME BuildInv, NEW p \in Processes, Body(p) \/ FinalCheck(p)
    PROVE  BuildInv'
<1>0. proc[p] \in Process /\ (proc[p].post > 0 => proc[p].next = Declarations)
  BY DEF BuildInv
<1>1. CASE Body(p)
  <2> DEFINE s == [proc[p] EXCEPT !.next = @ + 1, !.bodies = @ + 1]
  <2>1. proc[p].next \in 0 .. Declarations - 1 /\ proc[p].post \in Nat /\ proc[p].bodies \in Nat
    BY <1>0, <1>1, BuildAssumption DEF Process, Body
  <2>2. s \in Process
    <3>1. proc[p].next + 1 \in 0 .. Declarations /\ proc[p].bodies + 1 \in Nat
      BY <2>1, BuildAssumption
    <3> QED
      BY <1>0, <3>1, Zenon DEF Process
  <2>3. body[proc[p].next] \in Nat
    BY <2>1, BuildAssumption, SMTT(30) DEF BuildInv
  <2>4. s.at = "step" /\ s.t = proc[p].t /\ s.post = proc[p].post
    BY <1>0, <1>1 DEF Process, Body
  <2>5. proc[p].post = 0
    BY <1>0, <2>1
  <2>6. slow' \subseteq 0 .. Declarations - 1
    BY <1>1, <2>1 DEF Body, Watchdog, BuildInv
  <2>7. Piece(p, body[proc[p].next], s)
    BY <1>1 DEF Body
  <2>8. UNCHANGED <<body, check, building, stored>>
    BY <1>1 DEF Body
  <2> HIDE DEF s
  <2>9. ~ (s.post > 0)
    BY <2>4, <2>5
  <2> QED
    BY <2>2, <2>3, <2>4, <2>6, <2>7, <2>8, <2>9, PieceStep
<1>2. CASE FinalCheck(p)
  <2> DEFINE s == [proc[p] EXCEPT !.post = @ + 1]
  <2>1. proc[p].post \in 0 .. Checks - 1 /\ proc[p].next = Declarations
    BY <1>0, <1>2, BuildAssumption DEF Process, FinalCheck
  <2>2. s \in Process
    BY <1>0, <2>1, BuildAssumption DEF Process
  <2>3. check[proc[p].post] \in Nat
    BY <2>1, BuildAssumption, SMTT(30) DEF BuildInv
  <2>4. s.at = "step" /\ s.t = proc[p].t /\ s.next = Declarations
    BY <1>0, <1>2, <2>1 DEF Process, FinalCheck
  <2>6. slow' \subseteq 0 .. Declarations - 1
    BY <1>2 DEF FinalCheck, BuildInv
  <2>7. Piece(p, check[proc[p].post], s)
    BY <1>2 DEF FinalCheck
  <2>8. UNCHANGED <<body, check, building, stored>>
    BY <1>2 DEF FinalCheck
  <2> HIDE DEF s
  <2> QED
    BY <2>2, <2>3, <2>4, <2>6, <2>7, <2>8, PieceStep
<1> QED
  BY <1>1, <1>2

(* A process that stays in the loop moves on without touching its build. *)
LEMMA MoveSound ==
    ASSUME NEW s, Sound(s, stored), stored => stored',
           NEW at \in {"budget", "boundary", "last", "leave", "store", "clean"},
           at \in {"store", "clean"} => s.next = Declarations /\ s.post = Checks,
           at \in {"leave", "store", "clean"} => ~s.tainted, at = "clean" => stored'
    PROVE  Sound([s EXCEPT !.at = at], stored')
<1>1. [s EXCEPT !.at = at] \in Process
  BY DEF Sound, Process
<1>2. /\ [s EXCEPT !.at = at].at = at
      /\ [s EXCEPT !.at = at].next = s.next /\ [s EXCEPT !.at = at].post = s.post
      /\ [s EXCEPT !.at = at].tainted = s.tainted
  BY DEF Sound, Process
<1> QED
  BY <1>1, <1>2 DEF Sound

(* The steps between the pieces of work. *)
LEMMA LoopStep ==
    ASSUME BuildInv, NEW p \in Processes, EndStep(p) \/ Leave(p) \/ Complete(p) \/ Store(p)
    PROVE  BuildInv'
<1>0. /\ Sound(proc[p], stored) /\ building \in Cursor /\ slow \subseteq 0 .. Declarations - 1
      /\ building.post > 0 => building.next = Declarations
  BY DEF BuildInv, Sound
<1>1. CASE EndStep(p)
  <2>1. PICK at \in {"budget", "boundary", "last"} : proc' = [proc EXCEPT ![p] = [proc[p] EXCEPT !.at = at]]
    BY <1>1, Zenon DEF EndStep
  <2>2. Sound([proc[p] EXCEPT !.at = at], stored')
    BY <1>0, <1>1, <2>1, MoveSound, Zenon DEF EndStep
  <2> QED
    BY <1>1, <2>1, <2>2, OneProcessOnly, Zenon DEF EndStep
<1>2. CASE Leave(p)
  BY <1>0, <1>2, ExitStep DEF Leave
<1>3. CASE Complete(p) /\ CanSave(proc[p])
  <2>1. Sound([proc[p] EXCEPT !.at = "store"], stored')
    BY <1>0, <1>3, MoveSound, Zenon DEF Complete, CanSave
  <2>2. proc' = [proc EXCEPT ![p] = [proc[p] EXCEPT !.at = "store"]]
    BY <1>3 DEF Complete
  <2>3. UNCHANGED <<body, check, building, stored>> /\ slow' = {}
    BY <1>3 DEF Complete
  <2> QED
    BY <1>0, <2>1, <2>2, <2>3, OneProcess, Zenon
<1>4. CASE Complete(p) /\ ~CanSave(proc[p])
  BY <1>0, <1>4, ExitStep DEF Complete
<1>5. CASE Store(p) /\ proc[p].t + StoreTime > Deadline
  BY <1>0, <1>5, ExitStep DEF Store
<1>6. CASE Store(p) /\ ~(proc[p].t + StoreTime > Deadline)
  <2>1. stored' /\ UNCHANGED <<body, check, building, slow>>
    BY <1>6 DEF Store
  <2>2. proc' = [proc EXCEPT ![p] = [proc[p] EXCEPT !.at = "clean"]]
    BY <1>6 DEF Store
  <2>3. proc[p].next = Declarations /\ proc[p].post = Checks /\ ~proc[p].tainted
    BY <1>0, <1>6 DEF Store, Sound
  <2>4. Sound([proc[p] EXCEPT !.at = "clean"], stored')
    BY <1>0, <2>1, <2>3, MoveSound, Zenon
  <2> QED
    BY <1>0, <2>1, <2>2, <2>4, OneProcess, Zenon
<1> QED
  BY <1>1, <1>2, <1>3, <1>4, <1>5, <1>6

(* saveCheckpoint by a build without taint writes a well-formed checkpoint. *)
LEMMA SaveStep ==
    ASSUME BuildInv, NEW p \in Processes, NEW at \in {"budget", "leave"},
           ~proc[p].tainted, proc[p].at \in {"boundary", "last"}, SaveCheckpoint(p, at),
           UNCHANGED <<body, check, slow, stored>>
    PROVE  BuildInv'
<1>0. /\ Sound(proc[p], stored) /\ building \in Cursor /\ slow \subseteq 0 .. Declarations - 1
      /\ building.post > 0 => building.next = Declarations
  BY DEF BuildInv, Sound
<1>1. CASE proc[p].t + SaveTime > Deadline
  BY <1>0, <1>1, ExitStep DEF SaveCheckpoint
<1>2. CASE ~(proc[p].t + SaveTime > Deadline)
  <2> DEFINE s == proc[p]
             bare == [s EXCEPT !.at = at, !.t = s.t + SaveTime]
             current == [bare EXCEPT !.checkpointCurrent = TRUE]
             r == [s EXCEPT !.at = at, !.t = s.t + SaveTime,
                            !.checkpointCurrent = TRUE, !.cleanCheckpointAvailable = TRUE]
  <2>1. building' = [next |-> s.next, post |-> s.post, saved |-> TRUE]
    BY <1>2, Zenon DEF SaveCheckpoint
  <2>2. building' \in Cursor /\ (building'.post > 0 => building'.next = Declarations)
    BY <1>0, <2>1 DEF Cursor, Sound, Process
  <2>3. proc' = [proc EXCEPT ![p] = r]
    BY <1>2, Zenon DEF SaveCheckpoint
  <2>4. s \in Process
    BY <1>0 DEF Sound
  <2>5. s.t + SaveTime \in 0 .. Deadline
    BY <1>2, <2>4, BuildAssumption DEF Process
  <2> HIDE DEF s
  <2>6. bare \in Process
    BY <2>4, <2>5, Zenon DEF Process
  <2>7. bare.next = s.next /\ bare.post = s.post /\ bare.at = at /\ bare.tainted = s.tainted
    BY <2>4 DEF Process
  <2>8. r = [current EXCEPT !.cleanCheckpointAvailable = TRUE]
    OBVIOUS
  <2> HIDE DEF bare, r
  <2>9. r \in Process
    BY <2>6, <2>8, SetFlag, Zenon
  <2>10. r.next = s.next /\ r.post = s.post /\ r.at = at /\ r.tainted = s.tainted
    BY <2>6, <2>7, <2>8 DEF Process
  <2>11. Sound(r, stored')
    BY <1>0, <2>9, <2>10 DEF Sound, s
  <2> QED
    BY <1>0, <2>2, <2>3, <2>11, OneProcess, Zenon
<1> QED
  BY <1>1, <1>2

(* The checkpoint between bodies and checks, the last one, and the end. *)
LEMMA DiskStep ==
    ASSUME BuildInv, NEW p \in Processes,
           SaveBoundary(p) \/ SaveLast(p) \/ Clean(p) \/ Kill(p)
    PROVE  BuildInv'
<1>0. /\ Sound(proc[p], stored) /\ building \in Cursor /\ slow \subseteq 0 .. Declarations - 1
      /\ building.post > 0 => building.next = Declarations
  BY DEF BuildInv, Sound
<1>1. CASE SaveBoundary(p)
  <2>0. proc[p].at = "boundary" /\ UNCHANGED <<body, check, slow, stored>>
    BY <1>1 DEF SaveBoundary
  <2>1. CASE CanSave(proc[p])
    BY <1>1, <2>0, <2>1, SaveStep DEF SaveBoundary, CanSave
  <2>2. CASE UNCHANGED building /\ Exit(p)
    BY <1>0, <2>0, <2>2, ExitStep
  <2>3. CASE UNCHANGED building /\ proc' = [proc EXCEPT ![p].at = "budget"]
    <3>1. Sound([proc[p] EXCEPT !.at = "budget"], stored')
      BY <1>0, <2>0, MoveSound, Zenon
    <3> QED
      BY <2>0, <2>3, <3>1, OneProcessOnly, Zenon
  <2> QED
    BY <1>1, <2>1, <2>2, <2>3, Zenon DEF SaveBoundary
<1>2. CASE SaveLast(p)
  <2>0. proc[p].at = "last" /\ UNCHANGED <<body, check, slow, stored>>
    BY <1>2 DEF SaveLast
  <2>1. CASE proc[p].checkpointCurrent \/ ~CanSave(proc[p])
    BY <1>0, <1>2, <2>0, <2>1, ExitStep DEF SaveLast
  <2>2. CASE ~(proc[p].checkpointCurrent \/ ~CanSave(proc[p]))
    BY <1>2, <2>0, <2>2, SaveStep DEF SaveLast, CanSave
  <2> QED
    BY <2>1, <2>2
<1>3. CASE Clean(p)
  <2>1. building' = NoBuild /\ slow' = {} /\ UNCHANGED <<body, check, stored>> /\ Exit(p)
    BY <1>3 DEF Clean
  <2>2. building' \in Cursor /\ ~(building'.post > 0)
    BY <2>1, BuildAssumption DEF Cursor, NoBuild
  <2> QED
    BY <2>1, <2>2, ExitStep
<1>4. CASE Kill(p)
  BY <1>0, <1>4, ExitStep DEF Kill
<1> QED
  BY <1>1, <1>2, <1>3, <1>4

(* Every checkpoint on disk could be resumed and every stored state is     *)
(* complete: final checks begin after the last declaration, a state is     *)
(* stored when nothing is left, and no tainted build gets that far.        *)
THEOREM BuildIsSound == Spec => []BuildInv
<1>1. BuildInv /\ [Next]_vars => BuildInv'
  <2> SUFFICES ASSUME BuildInv, [Next]_vars PROVE BuildInv'
    OBVIOUS
  <2>1. CASE UNCHANGED vars
    BY <2>1 DEF vars, BuildInv
  <2>2. ASSUME NEW p \in Processes, Steps(p) \/ Kill(p) PROVE BuildInv'
    BY <2>2, StartStep, AdvanceStep, LoopStep, DiskStep DEF Steps
  <2> QED
    BY <2>1, <2>2 DEF Next, Finished
<1> QED
  BY <1>1, InitBuildInv, PTL DEF Spec

------------------------------------------------------------------------------
(* A step of one process leaves the others as they are. *)
LEMMA OthersStay ==
    ASSUME BuildInv, NEW p \in Processes, Steps(p) \/ Kill(p)
    PROVE  \A q \in Processes : q # p => proc'[q] = proc[q]
<1>0. proc \in [Processes -> Process]
  BY DEF BuildInv
<1>1. CASE Start(p) \/ BeginStep(p) \/ EndStep(p) \/ Leave(p) \/ Complete(p) \/ Store(p)
  BY <1>0, <1>1, SMTT(30) DEF Start, BeginStep, EndStep, Leave, Complete, Store, Exit
<1>2. CASE Body(p) \/ FinalCheck(p)
  BY <1>0, <1>2, Zenon DEF Body, FinalCheck, Piece, Exit
<1>3. CASE SaveBoundary(p) \/ SaveLast(p)
  BY <1>0, <1>3, Zenon DEF SaveBoundary, SaveLast, SaveCheckpoint, Exit
<1>4. CASE Clean(p) \/ Kill(p)
  BY <1>0, <1>4 DEF Clean, Kill, Exit
<1> QED
  BY <1>1, <1>2, <1>3, <1>4 DEF Steps

(* What is on disk changes in three places, and never under a taint. *)
LEMMA CleanWrites ==
    ASSUME BuildInv, NEW p \in Processes, Steps(p) \/ Kill(p), proc[p].tainted
    PROVE  UNCHANGED <<building, stored>>
<1>0. proc[p].at \notin {"store", "clean"}
  BY DEF BuildInv
<1>1. CASE Start(p) \/ BeginStep(p) \/ EndStep(p) \/ Leave(p) \/ Complete(p) \/ Kill(p)
  BY <1>1 DEF Start, BeginStep, EndStep, Leave, Complete, Kill
<1>2. CASE Body(p) \/ FinalCheck(p)
  BY <1>2 DEF Body, FinalCheck
<1>3. CASE SaveBoundary(p) \/ SaveLast(p)
  BY <1>3, Zenon DEF SaveBoundary, SaveLast, CanSave
<1>4. CASE Store(p) \/ Clean(p)
  BY <1>0, <1>4 DEF Store, Clean
<1> QED
  BY <1>1, <1>2, <1>3, <1>4 DEF Steps

(* No checkpoint and no state comes from a process that saw a transient    *)
(* solver outcome, however many processes build the same program.          *)
THEOREM NothingTaintedIsSaved == Spec => NothingTaintedSaved
<1> DEFINE Clear == \A p \in Processes :
              proc[p].tainted /\ proc'[p] # proc[p] => UNCHANGED <<building, stored>>
<1>1. BuildInv /\ [Next]_vars => [Clear]_vars
  <2> SUFFICES ASSUME BuildInv, Next, NEW p \in Processes, proc[p].tainted, proc'[p] # proc[p]
               PROVE  UNCHANGED <<building, stored>>
    OBVIOUS
  <2>1. PICK q \in Processes : Steps(q) \/ Kill(q)
    BY DEF Next, Finished, vars
  <2>2. q = p
    BY <2>1, OthersStay
  <2> QED
    BY <2>1, <2>2, CleanWrites
<1> QED
  BY <1>1, BuildIsSound, PTL DEF Spec, NothingTaintedSaved

(* Until the completed state is stored, a running process has analyzed at  *)
(* least what the checkpoint has.                                          *)
Ahead ==
    ~stored => \A p \in Processes : proc[p].at # "off" =>
        proc[p].next >= building.next /\ proc[p].post >= building.post

(* The updates of a process that leave the cursors of its build alone. *)
LEMMA CursorStays ==
    ASSUME NEW s \in Process, NEW at, NEW t, NEW start, NEW budget, NEW count, NEW bodies,
           NEW stop, NEW limit, NEW x, NEW y
    PROVE  /\ LET r == [s EXCEPT !.at = at, !.start = start, !.budget = budget, !.count = count,
                                 !.bodies = bodies, !.stop = stop, !.limit = limit,
                                 !.checkpointCurrent = x]
              IN  r.next = s.next /\ r.post = s.post
           /\ LET r == [s EXCEPT !.at = at, !.t = t, !.checkpointCurrent = x,
                                 !.cleanCheckpointAvailable = y]
              IN  r.next = s.next /\ r.post = s.post
           /\ LET r == [s EXCEPT !.t = t, !.count = count, !.tainted = x]
              IN  r.next = s.next /\ r.post = s.post
BY SMTT(30) DEF Process

(* A step leaves the process off, or with no less than it had. *)
LEMMA StepAhead ==
    ASSUME BuildInv, Ahead, NEW p \in Processes, Steps(p) \/ Kill(p), ~stored'
    PROVE  /\ ~stored
           /\ \/ UNCHANGED building
              \/ /\ building'.saved
                 /\ building'.next = proc[p].next /\ building'.post = proc[p].post
           /\ proc'[p].at # "off" =>
                 proc'[p].next >= building'.next /\ proc'[p].post >= building'.post
           /\ proc[p].at = "off" => UNCHANGED building
<1>0. proc \in [Processes -> Process] /\ building \in Cursor /\ proc[p] \in Process
  BY DEF BuildInv
<1>a. /\ proc[p].next \in Nat /\ proc[p].post \in Nat
      /\ building.next \in Nat /\ building.post \in Nat
  BY <1>0, BuildAssumption DEF Process, Cursor
<1>b. Exit(p) => proc'[p].at = "off"
  BY <1>0 DEF Exit, Off
<1>1. CASE Start(p)
  <2>1. Off \in Process
    BY OffSound DEF Sound
  <2>2. /\ [Restored EXCEPT !.at = "budget", !.t = Startup].next = building.next
        /\ [Restored EXCEPT !.at = "budget", !.t = Startup].post = building.post
    BY <2>1 DEF Restored, Process
  <2> QED
    BY <1>0, <1>1, <1>a, <2>2 DEF Start
<1>2. CASE BeginStep(p)
  <2>1. proc'[p].next = proc[p].next /\ proc'[p].post = proc[p].post /\ proc[p].at # "off"
    <3> DEFINE s == proc[p]
               r == [s EXCEPT !.at = "step", !.start = s.t,
                       !.budget = Budget(s, s.next = Declarations), !.count = 0, !.bodies = 0,
                       !.stop = SlowHint(s.next), !.limit = StepLimit(s.next, SlowHint(s.next)),
                       !.checkpointCurrent = FALSE]
    <3>1. r.next = s.next /\ r.post = s.post
      BY <1>0, CursorStays
    <3>2. [s EXCEPT !.at = "last"].next = s.next /\ [s EXCEPT !.at = "last"].post = s.post
      BY <1>0 DEF Process
    <3>3. s.at = "budget" /\ (proc'[p] = r \/ proc'[p] = [s EXCEPT !.at = "last"])
      BY <1>0, <1>2 DEF BeginStep
    <3> QED
      BY <3>1, <3>2, <3>3, Zenon
  <2> QED
    BY <1>2, <1>a, <2>1 DEF BeginStep, Ahead
<1>3. CASE EndStep(p)
  <2>1. proc'[p].next = proc[p].next /\ proc'[p].post = proc[p].post /\ proc[p].at # "off"
    BY <1>0, <1>3 DEF EndStep, Process
  <2> QED
    BY <1>3, <1>a, <2>1 DEF EndStep, Ahead
<1>4. CASE Body(p) \/ FinalCheck(p)
  <2>0. UNCHANGED <<building, stored>> /\ proc[p].at # "off"
    BY <1>4 DEF Body, FinalCheck
  <2>1. CASE Exit(p)
    BY <1>b, <2>0, <2>1
  <2>2. CASE ~Exit(p)
    <3>1. proc'[p].next >= proc[p].next /\ proc'[p].post >= proc[p].post
      <4>1. ASSUME NEW n, NEW s \in Process, Piece(p, n, s)
            PROVE  proc'[p].next = s.next /\ proc'[p].post = s.post
        <5>1. PICK x : proc'[p] = [s EXCEPT !.t = s.t + n, !.count = s.count + 1, !.tainted = x]
          BY <1>0, <2>2, <4>1, Zenon DEF Piece
        <5> QED
          BY <5>1, CursorStays
      <4>2. CASE Body(p)
        <5> DEFINE s == [proc[p] EXCEPT !.next = @ + 1, !.bodies = @ + 1]
        <5>1. Piece(p, body[proc[p].next], s) /\ proc[p].next < Declarations
          BY <4>2 DEF Body
        <5>2. s \in Process /\ s.next = proc[p].next + 1 /\ s.post = proc[p].post
          <6>1. proc[p].next + 1 \in 0 .. Declarations /\ proc[p].bodies + 1 \in Nat
            BY <1>0, <5>1, BuildAssumption DEF Process
          <6> QED
            BY <1>0, <6>1, Zenon DEF Process
        <5> HIDE DEF s
        <5> QED
          BY <1>a, <4>1, <5>1, <5>2
      <4>3. CASE FinalCheck(p)
        <5> DEFINE s == [proc[p] EXCEPT !.post = @ + 1]
        <5>1. Piece(p, check[proc[p].post], s) /\ proc[p].post < Checks
          BY <4>3 DEF FinalCheck
        <5>2. s \in Process /\ s.post = proc[p].post + 1 /\ s.next = proc[p].next
          <6>1. proc[p].post + 1 \in 0 .. Checks
            BY <1>0, <5>1, BuildAssumption DEF Process
          <6> QED
            BY <1>0, <6>1 DEF Process
        <5> HIDE DEF s
        <5> QED
          BY <1>a, <4>1, <5>1, <5>2
      <4> QED
        BY <1>4, <4>2, <4>3
    <3>2. proc'[p].next \in Nat /\ proc'[p].post \in Nat
      <4>1. BuildInv'
        BY <1>4, AdvanceStep
      <4>2. proc'[p] \in Process
        BY <4>1 DEF BuildInv
      <4> QED
        BY <4>2, BuildAssumption DEF Process
    <3>3. proc[p].next >= building.next /\ proc[p].post >= building.post
      BY <2>0 DEF Ahead
    <3> QED
      BY <1>a, <2>0, <3>1, <3>2, <3>3
  <2> QED
    BY <2>1, <2>2
<1>5. CASE SaveBoundary(p) \/ SaveLast(p)
  <2>0. UNCHANGED stored /\ proc[p].at # "off"
    BY <1>5, Zenon DEF SaveBoundary, SaveLast
  <2>1. CASE Exit(p) /\ UNCHANGED building
    BY <1>b, <2>0, <2>1
  <2>2. CASE proc' = [proc EXCEPT ![p].at = "budget"] /\ UNCHANGED building
    <3>1. proc'[p].next = proc[p].next /\ proc'[p].post = proc[p].post
      BY <1>0, <2>2 DEF Process
    <3> QED
      BY <1>a, <2>0, <2>2, <3>1 DEF Ahead
  <2>3. ASSUME NEW at, SaveCheckpoint(p, at), ~(Exit(p) /\ UNCHANGED building)
        PROVE  /\ building' = [next |-> proc[p].next, post |-> proc[p].post, saved |-> TRUE]
               /\ proc'[p].next = proc[p].next /\ proc'[p].post = proc[p].post
    <3>1. proc'[p] = [proc[p] EXCEPT !.at = at, !.t = proc[p].t + SaveTime,
                        !.checkpointCurrent = TRUE, !.cleanCheckpointAvailable = TRUE]
      BY <1>0, <2>3 DEF SaveCheckpoint
    <3> QED
      BY <1>0, <2>3, <3>1, CursorStays DEF SaveCheckpoint
  <2>4. CASE \E at : SaveCheckpoint(p, at) /\ ~(Exit(p) /\ UNCHANGED building)
    BY <1>a, <2>0, <2>3, <2>4
  <2> QED
    BY <1>5, <2>1, <2>2, <2>4, Zenon DEF SaveBoundary, SaveLast
<1>6. CASE Leave(p) \/ Kill(p)
  BY <1>6, <1>b DEF Leave, Kill
<1>7. CASE Complete(p)
  <2>1. /\ UNCHANGED <<building, stored>> /\ proc[p].at # "off"
        /\ proc'[p].at = "off" \/ (proc'[p].next = proc[p].next /\ proc'[p].post = proc[p].post)
    BY <1>0, <1>7, <1>b DEF Complete, Process
  <2> QED
    BY <1>a, <2>1 DEF Ahead
<1>8. CASE Store(p)
  BY <1>8, <1>b, SMTT(30) DEF Store
<1>9. CASE Clean(p)
  BY <1>9 DEF Clean, BuildInv
<1> QED
  BY <1>1, <1>2, <1>3, <1>4, <1>5, <1>6, <1>7, <1>8, <1>9 DEF Steps

(* With one process at a time no checkpoint takes back what an earlier one *)
(* had, until the completed state is on disk.                              *)
THEOREM ProgressIsKept ==
    ASSUME \A p, q \in Processes : p = q
    PROVE  Spec => ProgressKept
<1> DEFINE Kept == building.saved /\ ~stored' =>
                      /\ building'.saved
                      /\ building'.next >= building.next /\ building'.post >= building.post
<1>1. Init => Ahead
  BY DEF Init, Ahead, Off
<1>2. BuildInv /\ Ahead /\ [Next]_vars => Ahead' /\ [Kept]_vars
  <2> SUFFICES ASSUME BuildInv, Ahead, [Next]_vars PROVE Ahead' /\ [Kept]_vars
    OBVIOUS
  <2>1. CASE UNCHANGED vars
    BY <2>1 DEF vars, Ahead
  <2>2. ASSUME NEW p \in Processes, Steps(p) \/ Kill(p) PROVE Ahead' /\ Kept
    <3>0. /\ building.next \in Nat /\ building.post \in Nat
      BY BuildAssumption DEF BuildInv, Cursor
    <3>1. CASE stored'
      BY <3>1 DEF Ahead
    <3>2. CASE ~stored'
      <4>1. /\ ~stored
            /\ \/ UNCHANGED building
               \/ /\ building'.saved
                  /\ building'.next = proc[p].next /\ building'.post = proc[p].post
            /\ proc'[p].at # "off" =>
                  proc'[p].next >= building'.next /\ proc'[p].post >= building'.post
            /\ proc[p].at = "off" => UNCHANGED building
        BY <2>2, <3>2, StepAhead
      <4>2. Ahead'
        BY <4>1 DEF Ahead
      <4>3. Kept
        BY <3>0, <4>1 DEF Ahead
      <4> QED
        BY <4>2, <4>3
    <3> QED
      BY <3>1, <3>2
  <2> QED
    BY <2>1, <2>2 DEF Next, Finished
<1> QED
  BY <1>1, <1>2, BuildIsSound, PTL DEF Spec, ProgressKept


==============================================================================
