----------------------------- MODULE BenchProofs -----------------------------
(***************************************************************************)
(* The theorems about Loader, and about Bench, which runs it.  Those about *)
(* the loader come first: its state space is finite but for late, and the  *)
(* proofs say why it is correct.  Those about the script hold for any      *)
(* number of signals; they rest on the loader's, whose actions are the     *)
(* script's too.                                                           *)
(***************************************************************************)
EXTENDS Bench, TLAPS

(* The loader's scheduler is in the kernel only from its attachment to the *)
(* return of drop, and enabled when the attach call returns.               *)
Attached ==
    /\ pc \in {"start", "open", "attach", "report", "ok", "err"} => owner # "me"
    /\ pc = "attaching" /\ owner = "me" => state # "enabled"

(* A reason stands from the moment at which the disabling begins, and is   *)
(* recorded before the scheduler is given up: behind an attachment that    *)
(* has ended there is an exit info.                                        *)
Recorded ==
    /\ state \in {"disabling", "exited"} => kind # "none"
    /\ owner = "me" /\ state = "exited" => uei # "none"
    /\ pc \in {"attaching", "poll", "sleep", "drop", "dropping", "report"} /\ owner # "me"
           => uei # "none"

(* A skeleton that was not attached yet has an empty exit info. *)
FreshSkeleton == pc = "attach" => uei = "none"

(* Once the flag was overlooked the loop is not entered again. *)
Overlooked ==
    /\ late > 0 => shutdown
    /\ pc \in {"start", "open", "attach"} => late = 0

IInv ==
    /\ TypeOK
    /\ Attached /\ Recorded /\ FreshSkeleton /\ Overlooked
    /\ ReasonReported /\ ExitInfoFresh /\ OneLateAttach

LEMMA InitIInv == Init => IInv
<1> SUFFICES ASSUME Init  PROVE IInv
  OBVIOUS
<1> USE DEF Init
<1>1. TypeOK
  BY DEF TypeOK
<1>2. Attached /\ Recorded /\ FreshSkeleton /\ Overlooked
  BY DEF Attached, Recorded, FreshSkeleton, Overlooked
<1>3. ReasonReported /\ ExitInfoFresh /\ OneLateAttach
  BY DEF ReasonReported, ExitInfoFresh, OneLateAttach
<1> QED  BY <1>1, <1>2, <1>3 DEF IInv

(* A step of the loader's process keeps the invariant. *)
LEMMA LoaderStepKeeps == IInv /\ LoaderStep => IInv'
<1> SUFFICES ASSUME IInv, LoaderStep  PROVE IInv'
  OBVIOUS
<1> USE DEF IInv, TypeOK, Attached, Recorded, FreshSkeleton, Overlooked, ReasonReported,
            ExitInfoFresh, OneLateAttach, Kinds, Failures, Restarts, Ended, kernel
<1>1. CASE InstallHandler
  BY <1>1 DEF InstallHandler
<1>2. CASE OpenAndLoad
  BY <1>2 DEF OpenAndLoad
<1>3. CASE Attach
  BY <1>3 DEF Attach
<1>4. CASE AttachReturns
  BY <1>4 DEF AttachReturns
<1>5. CASE Poll
  BY <1>5 DEF Poll
<1>6. CASE WakeUp
  BY <1>6 DEF WakeUp
<1>7. CASE DropLink
  BY <1>7 DEF DropLink, Unregister
<1>8. CASE Dropped
  BY <1>8 DEF Dropped
<1>9. CASE Report
  BY <1>9 DEF Report, AfterReport
<1> QED
  BY <1>1, <1>2, <1>3, <1>4, <1>5, <1>6, <1>7, <1>8, <1>9 DEF LoaderStep

(* So does a step of the kernel, whoever's scheduler it has ... *)
LEMMA KernelStepKeeps == IInv /\ KernelStep => IInv'
<1> SUFFICES ASSUME IInv, KernelStep  PROVE IInv'
  OBVIOUS
<1> USE DEF IInv, TypeOK, Attached, Recorded, FreshSkeleton, Overlooked, ReasonReported,
            ExitInfoFresh, OneLateAttach, Kinds, Failures, Ended, kernel
<1>1. CASE Enabled
  BY <1>1 DEF Enabled
<1>2. CASE InitFailed
  BY <1>2 DEF InitFailed
<1>3. CASE CloseFiles
  BY <1>3 DEF CloseFiles, Unregister
<1>4. CASE Disabling
  BY <1>4 DEF Disabling
<1>5. CASE OpsExit
  BY <1>5 DEF OpsExit
<1>6. CASE Disabled
  BY <1>6 DEF Disabled
<1> QED
  BY <1>1, <1>2, <1>3, <1>4, <1>5, <1>6 DEF KernelStep

(* ... and whatever comes from outside. *)
LEMMA OutsideKeeps ==
    IInv /\ (Signal \/ Kill \/ Eject \/ OtherAttaches \/ OtherLeaves) => IInv'
<1> SUFFICES ASSUME IInv, Signal \/ Kill \/ Eject \/ OtherAttaches \/ OtherLeaves  PROVE IInv'
  OBVIOUS
<1> USE DEF IInv, TypeOK, Attached, Recorded, FreshSkeleton, Overlooked, ReasonReported,
            ExitInfoFresh, OneLateAttach, Kinds, Failures, Ended, kernel
<1>1. CASE Signal
  <2>1. CASE handler
    BY <1>1, <2>1 DEF Signal
  <2>2. CASE ~handler
    BY <1>1, <2>2 DEF Signal
  <2> QED  BY <2>1, <2>2
<1>2. CASE Kill
  BY <1>2 DEF Kill
<1>3. CASE Eject
  BY <1>3 DEF Eject
<1>4. CASE OtherAttaches
  BY <1>4 DEF OtherAttaches
<1>5. CASE OtherLeaves
  BY <1>5 DEF OtherLeaves
<1> QED
  BY <1>1, <1>2, <1>3, <1>4, <1>5

LEMMA StepKeeps == IInv /\ [Next]_vars => IInv'
<1>1. IInv /\ Next => IInv'
  BY LoaderStepKeeps, KernelStepKeeps, OutsideKeeps DEF Next
<1>2. IInv /\ UNCHANGED vars => IInv'
  BY DEF vars, IInv, TypeOK, Attached, Recorded, FreshSkeleton, Overlooked, ReasonReported,
         ExitInfoFresh, OneLateAttach
<1> QED  BY <1>1, <1>2

(* The inductive invariant of the loader. *)
THEOREM Invariance == Spec => []IInv
  BY InitIInv, StepKeeps, PTL DEF Spec

(* The state is of its type, and a reason belongs to a scheduler. *)
THEOREM TypeCorrect == Spec => []TypeOK
<1>1. IInv => TypeOK
  BY DEF IInv
<1> QED  BY <1>1, Invariance, PTL

(* main.rs returns with nothing attached, on every path. *)
THEOREM NothingAttached == Spec => []NoOrphan
<1>1. IInv => NoOrphan
  BY DEF IInv, Attached, NoOrphan
<1> QED  BY <1>1, Invariance, PTL

(* uei_report has a reason to report, and a failure is never a success. *)
THEOREM ReasonKnown == Spec => []ReasonReported
<1>1. IInv => ReasonReported
  BY DEF IInv
<1> QED  BY <1>1, Invariance, PTL

(* The exit info that is polled is about the present attachment. *)
THEOREM NeverStale == Spec => []ExitInfoFresh
<1>1. IInv => ExitInfoFresh
  BY DEF IInv
<1> QED  BY <1>1, Invariance, PTL

(* Ctrl+C is overlooked for one attachment at most. *)
THEOREM LateOnce == Spec => []OneLateAttach
<1>1. IInv => OneLateAttach
  BY DEF IInv
<1> QED  BY <1>1, Invariance, PTL
-----------------------------------------------------------------------------
(* A step of the loader, of the kernel, or from outside is one of the      *)
(* child process that the harnesses see, or nothing to them.               *)
LEMMA ChildStep == IInv /\ [Next]_vars => [Child!Next]_ChildState
<1> SUFFICES ASSUME IInv, Next  PROVE Child!Next \/ UNCHANGED ChildState
  <2>1. UNCHANGED vars => UNCHANGED ChildState
    BY DEF vars, ChildState, Ended
  <2> QED  BY <2>1
<1>0. TypeOK /\ TypeOK' /\ IInv'
  BY StepKeeps DEF IInv
<1> DEFINE Visible(p, shut, own, st) ==
      IF p \in Ended THEN IF own = "me" THEN "dying" ELSE "ended"
      ELSE IF shut THEN "leaving"
      ELSE IF own = "me" /\ st = "enabled" THEN "enabled"
      ELSE IF p \in {"start", "open", "attach", "attaching"} THEN "starting"
      ELSE "ejected"
<1>1. ChildState = Visible(pc, shutdown, owner, state)
  BY <1>0 DEF ChildState, TypeOK, Ended
<1>2. ChildState' = Visible(pc', shutdown', owner', state')
  <2>1. TypeOK' => ChildState' = Visible(pc', shutdown', owner', state')
    BY DEF ChildState, TypeOK, Ended
  <2> QED  BY <1>0, <2>1
<1> DEFINE Seen ==
      \/ ChildState' = ChildState
      \/ ChildState = "starting" /\ ChildState' \in {"enabled", "ejected", "leaving", "ended"}
      \/ ChildState = "enabled" /\ ChildState' \in {"ejected", "leaving"}
      \/ ChildState = "ejected" /\ ChildState' \in {"starting", "leaving", "ended"}
      \/ ChildState \in {"leaving", "dying"} /\ ChildState' = "ended"
      \/ ChildState # "ended" /\ ChildState' \in {"dying", "ended"}
<1>3. SUFFICES Seen
  <2>1. ChildState \in {"starting", "enabled", "ejected", "leaving", "dying", "ended"}
    BY <1>1 DEF Ended
  <2> QED  BY <2>1 DEF Child!Next, Child!Run, Child!Ejected, Child!Interrupted,
                       Child!KilledLoader, Child!SchedGone
<1> HIDE DEF Seen
<1> USE DEF IInv, TypeOK, Attached, Recorded, ExitInfoFresh, ReasonReported, Ended, kernel
<1>4. CASE LoaderStep
  <2>1. CASE InstallHandler
    BY <1>0, <1>1, <1>2, <2>1 DEF InstallHandler, Seen
  <2>2. CASE OpenAndLoad
    BY <1>0, <1>1, <1>2, <2>2 DEF OpenAndLoad, Seen
  <2>3. CASE Attach
    BY <1>0, <1>1, <1>2, <2>3 DEF Attach, Seen
  <2>4. CASE AttachReturns
    BY <1>0, <1>1, <1>2, <2>4 DEF AttachReturns, Seen
  <2>5. CASE Poll
    BY <1>0, <1>1, <1>2, <2>5 DEF Poll, Seen
  <2>6. CASE WakeUp
    BY <1>0, <1>1, <1>2, <2>6 DEF WakeUp, Seen
  <2>7. CASE DropLink
    BY <1>0, <1>1, <1>2, <2>7 DEF DropLink, Seen
  <2>8. CASE Dropped
    BY <1>0, <1>1, <1>2, <2>8 DEF Dropped, Seen
  <2>9. CASE Report
    BY <1>0, <1>1, <1>2, <2>9 DEF Report, AfterReport, Seen
  <2> QED
    BY <1>4, <2>1, <2>2, <2>3, <2>4, <2>5, <2>6, <2>7, <2>8, <2>9 DEF LoaderStep
<1>5. CASE KernelStep
  <2>1. CASE Enabled
    BY <1>0, <1>1, <1>2, <2>1 DEF Enabled, Seen
  <2>2. CASE Disabling
    BY <1>0, <1>1, <1>2, <2>2 DEF Disabling, Seen
  <2>3. CASE InitFailed \/ CloseFiles \/ OpsExit \/ Disabled
    BY <1>0, <1>1, <1>2, <2>3 DEF InitFailed, CloseFiles, OpsExit, Disabled, Seen
  <2> QED  BY <1>5, <2>1, <2>2, <2>3 DEF KernelStep
<1>6. CASE Signal
  BY <1>0, <1>1, <1>2, <1>6 DEF Signal, Seen
<1>7. CASE Kill
  BY <1>0, <1>1, <1>2, <1>7 DEF Kill, Seen
<1>8. CASE Eject \/ OtherAttaches \/ OtherLeaves
  BY <1>0, <1>1, <1>2, <1>8 DEF Eject, OtherAttaches, OtherLeaves, Seen
<1> QED  BY <1>4, <1>5, <1>6, <1>7, <1>8 DEF Next

(* The loader is the child process that the models of the harnesses start: *)
(* the safety part of ImplementsChild, whose progress stays with TLC.      *)
THEOREM ImplementsSchedChild == Spec => Child!Spec
<1>1. Init => ChildState = "starting"
  BY DEF Init, ChildState, Ended
<1> QED  BY <1>1, ChildStep, Invariance, PTL DEF Spec, Child!Spec

-----------------------------------------------------------------------------

ScriptPlaces ==
    {"build", "launch", "keep", "await", "check", "hog", "keep_hog", "settle", "perf",
     "measuring", "print", "exit"}

CleanupPlaces == {"kill_hogs", "wait_hogs", "int_sched", "wait_sched", "rm"}

BenchType ==
    /\ at \in ScriptPlaces \cup CleanupPlaces \cup {"ended"}
    /\ resume \in ScriptPlaces \cup {"ended"}
    /\ pending \in BOOLEAN /\ tmp \in BOOLEAN /\ spoiled \in BOOLEAN
    /\ launched \in BOOLEAN /\ noted \in BOOLEAN
    /\ hog \in [Hogs -> {"none", "running", "dying", "gone"}]
    /\ hog_pids \subseteq Hogs
    /\ printed \in {"nothing", "clean", "spoiled"}

(* Where the script is, or goes on after its cleanup. *)
Place == IF at \in CleanupPlaces THEN resume ELSE at

(* Only between the start of a process and the assignment after it does    *)
(* the script not know a process that it started.                          *)
Noted ==
    /\ Place \in {"build", "launch"} => ~launched
    /\ Place = "keep" \/ noted => launched
    /\ launched /\ ~noted => Place = "keep"
    /\ \A h \in hog_pids : hog[h] # "none"
    /\ \A h \in Hogs \ hog_pids : hog[h] # "none" => Place = "keep_hog"

(* The loader is only ever told to end; it is not killed. *)
LoaderSpared ==
    /\ pc # "killed"
    /\ ~launched => pc = "start"

(* What cleanup has done at each of its commands; and after the first      *)
(* cleanup the temporary directory is gone.                                *)
Cleaned ==
    /\ at \in {"int_sched", "wait_sched", "rm", "ended"} => \A h \in hog_pids : hog[h] = "gone"
    /\ at \in {"rm", "ended"} /\ noted => pc \in Ended
    /\ spoiled /\ tmp => at \in CleanupPlaces

BInv ==
    /\ IInv /\ BenchType /\ Noted /\ LoaderSpared /\ Cleaned
    /\ NoResultAfterTrap

LEMMA InitBInv == BenchInit => BInv
<1> SUFFICES ASSUME BenchInit  PROVE BInv
  OBVIOUS
<1>1. IInv
  BY InitIInv DEF BenchInit
<1>2. BenchType
  BY DEF BenchInit, BenchType, ScriptPlaces, CleanupPlaces, Hogs
<1>3. Noted /\ LoaderSpared /\ Cleaned /\ NoResultAfterTrap
  BY DEF BenchInit, Init, Noted, LoaderSpared, Cleaned, NoResultAfterTrap, Place, CleanupPlaces,
         Hogs
<1> QED  BY <1>1, <1>2, <1>3 DEF BInv

(* A Ctrl+C, or cleanup's INT, that reaches the loader only sets the flag. *)
LEMMA InterruptKeeps ==
    ASSUME IInv, Interrupt \/ UNCHANGED shutdown, UNCHANGED <<pc, handler, uei, kernel, late>>
    PROVE  IInv'
<1> SUFFICES ASSUME shutdown => shutdown', shutdown' \in BOOLEAN  PROVE IInv'
  BY DEF Interrupt, IInv, TypeOK
<1> QED
  BY DEF IInv, TypeOK, Attached, Recorded, FreshSkeleton, Overlooked, ReasonReported,
         ExitInfoFresh, OneLateAttach, kernel

(* A command of the script keeps the invariant. *)
LEMMA ScriptStepKeeps == BInv /\ ScriptStep => BInv'
<1> SUFFICES ASSUME BInv, ScriptStep  PROVE BInv'
  OBVIOUS
<1> USE DEF BInv, BenchType, Noted, LoaderSpared, Cleaned, NoResultAfterTrap, Place,
            ScriptPlaces, CleanupPlaces, Hogs, At, Then, started
<1>1. ASSUME UNCHANGED vars  PROVE IInv'
  BY <1>1, StepKeeps
<1>2. CASE Build
  BY <1>1, <1>2 DEF Build, Command, vars
<1>3. CASE Launch
  <2>1. IInv'
    BY <1>3 DEF Launch, IInv, TypeOK, Attached, Recorded, FreshSkeleton, Overlooked,
                ReasonReported, ExitInfoFresh, OneLateAttach, kernel, Ended
  <2> QED  BY <1>3, <2>1 DEF Launch, kernel
<1>4. CASE KeepScheduler
  BY <1>1, <1>4 DEF KeepScheduler, vars
<1>5. CASE Await
  BY <1>1, <1>5 DEF Await, vars
<1>6. CASE CheckEnabled
  BY <1>1, <1>6 DEF CheckEnabled, vars
<1>7. CASE StartHog
  BY <1>1, <1>7 DEF StartHog, vars
<1>8. CASE KeepHog
  <2>1. /\ IInv'
        /\ hog_pids' = {h \in Hogs : hog[h] # "none"}
        /\ UNCHANGED <<pc, launched, noted, hog, resume, pending, tmp, printed, spoiled>>
    BY <1>1, <1>8 DEF KeepHog, vars
  <2>2. at = "keep_hog" /\ at' \in {"settle", "hog"}
    BY <1>8 DEF KeepHog
  <2> QED  BY <2>1, <2>2
<1>9. CASE Settle
  BY <1>1, <1>9 DEF Settle, Command, vars
<1>10. CASE StartPerf
  BY <1>1, <1>10 DEF StartPerf, vars
<1>11. CASE EndPerf
  BY <1>1, <1>11 DEF EndPerf, vars
<1>12. CASE PrintResult
  BY <1>1, <1>12 DEF PrintResult, vars
<1> QED
  BY <1>2, <1>3, <1>4, <1>5, <1>6, <1>7, <1>8, <1>9, <1>10, <1>11, <1>12 DEF ScriptStep

(* So does a command of cleanup, ... *)
LEMMA CleanupStepKeeps == BInv /\ CleanupStep => BInv'
<1> SUFFICES ASSUME BInv, CleanupStep  PROVE BInv'
  OBVIOUS
<1> USE DEF BInv, BenchType, Noted, LoaderSpared, Cleaned, NoResultAfterTrap, Place,
            ScriptPlaces, CleanupPlaces, Hogs, At, Then, started
<1>1. ASSUME UNCHANGED vars  PROVE IInv'
  BY <1>1, StepKeeps
<1>2. CASE Exit
  BY <1>1, <1>2 DEF Exit, Cleanup, vars
<1>3. CASE Trap
  BY <1>1, <1>3 DEF Trap, Cleanup, InCleanup, vars
<1>4. CASE KillHogs
  BY <1>1, <1>4 DEF KillHogs, vars
<1>5. CASE WaitHogs
  BY <1>1, <1>5 DEF WaitHogs, vars
<1>6. CASE IntScheduler
  <2>1. IInv'
    BY <1>6, InterruptKeeps DEF IntScheduler
  <2> QED  BY <1>6, <2>1 DEF IntScheduler, kernel
<1>7. CASE WaitScheduler
  BY <1>1, <1>7 DEF WaitScheduler, vars
<1>8. CASE RemoveTmp
  BY <1>1, <1>8 DEF RemoveTmp, vars
<1> QED
  BY <1>2, <1>3, <1>4, <1>5, <1>6, <1>7, <1>8 DEF CleanupStep

(* ... and what happens beside the script. *)
LEMMA OthersKeep ==
    BInv /\ ( \/ SignalScript \/ HogEnds \/ SchedulerStep
              \/ (KernelStep \/ Eject \/ OtherAttaches \/ OtherLeaves)
                     /\ UNCHANGED <<script, started>> ) => BInv'
<1> USE DEF BInv, BenchType, Noted, LoaderSpared, Cleaned, NoResultAfterTrap, Place,
            ScriptPlaces, CleanupPlaces, Hogs, started
<1>1. ASSUME BInv, SignalScript  PROVE BInv'
  <2>1. IInv'
    BY <1>1, InterruptKeeps DEF SignalScript
  <2> QED  BY <1>1, <2>1 DEF SignalScript
<1>2. ASSUME BInv, HogEnds  PROVE BInv'
  <2>1. IInv'
    BY <1>2, StepKeeps DEF HogEnds
  <2> QED  BY <1>2, <2>1 DEF HogEnds, vars, script
<1>3. ASSUME BInv, SchedulerStep  PROVE BInv'
  <2>1. IInv'
    BY <1>3, LoaderStepKeeps DEF SchedulerStep
  <2>2. pc \notin Ended /\ pc' # "killed"
    BY <1>3 DEF SchedulerStep, LoaderStep, InstallHandler, OpenAndLoad, Attach, AttachReturns,
                Poll, WakeUp, DropLink, Dropped, Report, AfterReport, Ended
  <2> QED  BY <1>3, <2>1, <2>2 DEF SchedulerStep, script
<1>4. ASSUME BInv, KernelStep \/ Eject \/ OtherAttaches \/ OtherLeaves,
             UNCHANGED <<script, started>>
      PROVE  BInv'
  <2>1. IInv'
    BY <1>4, KernelStepKeeps, OutsideKeeps
  <2>2. pc' = pc \/ (pc = "attaching" /\ pc' = "poll")
    BY <1>4 DEF KernelStep, Enabled, InitFailed, CloseFiles, Disabling, OpsExit, Disabled,
                Eject, OtherAttaches, OtherLeaves
  <2> QED  BY <1>4, <2>1, <2>2 DEF script, Ended
<1> QED  BY <1>1, <1>2, <1>3, <1>4

(* The inductive invariant of the script and its loader. *)
THEOREM BenchInvariance == BenchSpec => []BInv
<1>1. BInv /\ [BenchNext]_benchVars => BInv'
  <2>1. BInv /\ UNCHANGED benchVars => BInv'
    <3>1. BInv /\ UNCHANGED benchVars => IInv'
      BY StepKeeps DEF BInv, benchVars
    <3> QED
      BY <3>1 DEF BInv, BenchType, Noted, LoaderSpared, Cleaned, NoResultAfterTrap, Place,
                  benchVars, vars, script, started
  <2> QED  BY <2>1, ScriptStepKeeps, CleanupStepKeeps, OthersKeep DEF BenchNext
<1> QED  BY <1>1, InitBInv, PTL DEF BenchSpec

(* However many signals come, and wherever they do, bench.sh leaves no     *)
(* process and no scheduler behind.                                        *)
THEOREM LeavesNothing == BenchSpec => []EndedClean
<1>1. BInv => EndedClean
  BY DEF BInv, IInv, BenchType, Noted, LoaderSpared, Cleaned, EndedClean, Attached, Place,
         CleanupPlaces, Ended
<1> QED  BY <1>1, BenchInvariance, PTL

(* Nor does it print a result of what it measured after a trap. *)
THEOREM NothingSpoiled == BenchSpec => []NoResultAfterTrap
<1>1. BInv => NoResultAfterTrap
  BY DEF BInv
<1> QED  BY <1>1, BenchInvariance, PTL
=============================================================================
