----------------------- MODULE ParityExperimentProofs -----------------------
(***************************************************************************)
(* The theorems about ParityExperiment, for any numbers of workers, any    *)
(* parities of the PIDs, any number of attempts and of signals.            *)
(***************************************************************************)
EXTENDS ParityExperiment, FiniteSetTheorems, TLAPS

ParityType ==
    /\ i \in Nat \ {0}
    /\ known \subseteq Workers
    /\ w \in [Workers -> {"none", "boot", "gate", "go", "compute", "ok", "failed", "dying"}]
    /\ gate \in [Workers -> {"shut", "filled", "open", "closed"}]
    /\ parity \in [Workers -> {0, 1}]
    /\ ext \subseteq Workers

(* Before the release, the workers may still change. *)
BeforeRelease ==
    {"popen", "wait_enabled", "spawn", "reject", "reject_wait", "unselect", "unselect_wait"}

(* From the release on they are the complete choice. *)
Released == {"release", "flush", "entering", "measure", "measured"}

(* The byte S is written. *)
Written == {"filled", "open"}

AfterChoice ==
    /\ pc \in Released => ~Missing
    /\ pc = "flush" => i \in known
    /\ \A k \in Workers :
          gate[k] \in Written \/ w[k] \in {"go", "compute"} \/ k \in ext
              => k \in known /\ ~Missing /\ pc \notin BeforeRelease

(* No more are chosen than are wanted. *)
ChosenBound == \A p \in {0, 1} : Cardinality(Chosen(p)) <= Wanted(p)

(* What has been established when the measurement begins stays true. *)
Measured ==
    /\ pc \in {"measure", "measured"} => known \subseteq ext
    /\ outcome = "success" => known \subseteq ext /\ ~Missing /\ pc \notin BeforeRelease

PInv == ParityType /\ AfterChoice /\ ChosenBound /\ Measured

(* What is chosen depends on the known workers and their parity only. *)
LEMMA ChoiceUnchanged ==
    ASSUME UNCHANGED <<known, parity>>
    PROVE  Missing' = Missing /\ \A p \in {0, 1} : Chosen(p)' = Chosen(p)
<1>1. \A p \in {0, 1} : Chosen(p)' = Chosen(p)
  BY DEF Chosen
<1> QED  BY <1>1 DEF Missing, Remaining

LEMMA ChosenFinite ==
    ASSUME ParityType, NEW p \in {0, 1}
    PROVE  /\ IsFiniteSet(Chosen(p)) /\ Cardinality(Chosen(p)) \in Nat
           /\ Wanted(p) \in Nat
<1>1. N \in Nat /\ IsFiniteSet(1..N)
  BY SizeAssumption, FS_Interval
<1>2. Chosen(p) \in SUBSET (1..N)
  BY DEF ParityType, Chosen, Workers
<1>3. IsFiniteSet(Chosen(p))
  BY <1>1, <1>2, FS_Subset
<1> QED  BY <1>3, FS_CardinalityType, WantedAssumption DEF Wanted

LEMMA InitPInv == ParityInit => PInv
<1> SUFFICES ASSUME ParityInit  PROVE PInv
  OBVIOUS
<1>1. ParityType /\ AfterChoice /\ Measured
  BY DEF ParityInit, Init, ParityType, AfterChoice, Measured, BeforeRelease, Released, Written
<1>2. \A p \in {0, 1} : Chosen(p) = {}
  BY DEF ParityInit, Init, Chosen
<1>3. ChosenBound
  BY <1>1, <1>2, ChosenFinite, FS_EmptySet DEF ChosenBound
<1> QED  BY <1>1, <1>3 DEF PInv

-----------------------------------------------------------------------------
(* A step that does not choose: what is left to show is that it opens no   *)
(* gate too early and does not go back.                                    *)
LEMMA StepsAfterChoice ==
    ASSUME PInv, ParityType', UNCHANGED <<known, parity>>, ext \subseteq ext',
           pc' \in Released => ~Missing,
           pc' = "flush" => i' \in known,
           \A k \in Workers : gate'[k] \in Written \/ w'[k] \in {"go", "compute"} \/ k \in ext'
               => \/ gate[k] \in Written \/ w[k] \in {"go", "compute"} \/ k \in ext
                  \/ k \in known /\ pc \in {"release", "flush"},
           pc' \in BeforeRelease => pc \in BeforeRelease,
           pc' \in {"measure", "measured"} => pc \in {"measure", "measured"} \/ known \subseteq ext,
           outcome' = "success" => outcome = "success" \/ (pc = "measured" /\ pc' = "stop")
    PROVE  PInv'
<1> USE DEF Released, Written
<1>1. Missing' = Missing /\ \A p \in {0, 1} : Chosen(p)' = Chosen(p)
  BY ChoiceUnchanged
<1>2. ChosenBound'
  BY <1>1 DEF PInv, ChosenBound, Wanted
<1>3. AfterChoice'
  BY <1>1 DEF PInv, AfterChoice, BeforeRelease
<1>4. Measured'
  BY <1>1 DEF PInv, AfterChoice, Measured, BeforeRelease
<1> QED  BY <1>2, <1>3, <1>4 DEF PInv

(* One more is chosen while some of its parity are missing. *)
LEMMA ChooseKeeps == ASSUME PInv, Choose  PROVE PInv'
<1> USE DEF Released, Written
<1>1. /\ pc = "spawn" /\ i \in Workers /\ i \in Nat \ {0} /\ i + 1 \in Nat \ {0}
      /\ UNCHANGED <<outcome, w, gate, parity, ext>>
  BY SizeAssumption DEF PInv, ParityType, Choose, children, Workers
<1>2. CASE Remaining(parity[i]) > 0
  <2>1. known' = known \cup {i} /\ pc' = "spawn" /\ i' = i + 1
    BY <1>1, <1>2 DEF Choose
  <2>2. PICK q \in {0, 1} : q = parity[i]
    BY <1>1 DEF PInv, ParityType
  <2>3. Chosen(q)' = Chosen(q) \cup {i}
    BY <1>1, <2>1, <2>2 DEF Chosen
  <2>4. \A p \in {0, 1} \ {q} : Chosen(p)' = Chosen(p)
    BY <1>1, <2>1, <2>2 DEF Chosen
  <2>5. /\ IsFiniteSet(Chosen(q))
        /\ Cardinality(Chosen(q)) \in Nat /\ Wanted(q) \in Nat
    BY ChosenFinite DEF PInv
  <2>6. Cardinality(Chosen(q)') <= Wanted(q)
    <3>1. Cardinality(Chosen(q)') \in {Cardinality(Chosen(q)), Cardinality(Chosen(q)) + 1}
      BY <2>3, <2>5, FS_AddElement
    <3>2. Cardinality(Chosen(q)) < Wanted(q)
      BY <1>2, <2>2, <2>5 DEF Remaining
    <3> QED  BY <2>5, <3>1, <3>2
  <2>7. ChosenBound'
    BY <2>4, <2>6 DEF PInv, ChosenBound, Wanted
  <2>8. ParityType'
    BY <1>1, <2>1 DEF PInv, ParityType
  <2>9. AfterChoice' /\ Measured'
    BY <1>1, <2>1 DEF PInv, AfterChoice, Measured, BeforeRelease
  <2> QED  BY <2>7, <2>8, <2>9 DEF PInv
<1>3. CASE ~(Remaining(parity[i]) > 0)
  <2>1. UNCHANGED <<known, i>> /\ pc' = "reject"
    BY <1>3 DEF Choose
  <2>2. ParityType'
    BY <1>1, <2>1 DEF PInv, ParityType
  <2> QED  BY <1>1, <2>1, <2>2, StepsAfterChoice DEF BeforeRelease
<1> QED  BY <1>2, <1>3

-----------------------------------------------------------------------------
(* What the harness does to the pipes but write to them opens none.        *)
Pipes == gate \in [Workers -> {"shut", "filled", "open", "closed"}]

LEMMA LeaveCloses ==
    ASSUME Pipes, Leave
    PROVE  Pipes' /\ \A k \in Workers : gate'[k] \in Written => gate[k] \in Written
<1>1. PICK g \in [Workers -> {"open", "closed"}] :
         (\A k \in Workers : g[k] \in LeftBehind(gate[k])) /\ gate' = g
  BY DEF Leave
<1>2. ASSUME NEW k \in Workers, g[k] \in Written  PROVE gate[k] \in Written
  <2>1. gate[k] \in {"shut", "filled", "open", "closed"} /\ g[k] \in LeftBehind(gate[k])
    BY <1>1 DEF Pipes
  <2> QED  BY <1>2, <2>1 DEF LeftBehind, Written
<1>3. g \in [Workers -> {"shut", "filled", "open", "closed"}]
  OBVIOUS
<1> QED  BY <1>1, <1>2, <1>3 DEF Pipes

LEMMA StopCloses ==
    ASSUME Pipes, CloseGate
    PROVE  Pipes' /\ \A k \in Workers : gate'[k] \in Written => gate[k] \in Written
  BY DEF Pipes, CloseGate, Written

LEMMA HarnessKeeps == ASSUME PInv, HarnessStep  PROVE PInv'
<1>1. /\ i \in Nat \ {0} /\ i + 1 \in Nat \ {0} /\ 1 \in Nat \ {0}
      /\ N \in Nat /\ Pipes
  BY SizeAssumption DEF PInv, ParityType, Pipes
<1> USE DEF Released, Written
<1>2. CASE (HarnessStart \/ HarnessStop) /\ UNCHANGED <<parity, ext>>
  <2>1. /\ UNCHANGED known
        /\ i' \in {i, i + 1, 1}
        /\ pc' \notin Released
        /\ pc' \in BeforeRelease => pc \in BeforeRelease
        /\ outcome' = "success" => outcome = "success"
        /\ w' = w \/ w' = [w EXCEPT ![i] = Killed(i)]
        /\ UNCHANGED gate \/ Leave \/ CloseGate
    <3>1. CASE HarnessStart
      BY <3>1 DEF HarnessStart, PopenFails, PopenScheduler, PopenReturns, WaitEnabled, Goto, Raise,
                  harness, children, BeforeRelease
    <3>2. CASE StopWorker \/ StopScheduler
      BY <3>2 DEF StopWorker, StopScheduler, harness, BeforeRelease
    <3>3. CASE WaitWorker \/ WaitScheduler
      BY <3>3 DEF WaitWorker, WaitScheduler, Leave, harness, BeforeRelease
    <3> QED  BY <1>2, <3>1, <3>2, <3>3 DEF HarnessStop
  <2>2. Pipes' /\ \A k \in Workers : gate'[k] \in Written => gate[k] \in Written
    BY <1>1, <2>1, LeaveCloses, StopCloses DEF Pipes
  <2>3. ParityType'
    BY <1>1, <1>2, <2>1, <2>2 DEF PInv, ParityType, Pipes, Killed
  <2> QED  BY <1>2, <2>1, <2>2, <2>3, StepsAfterChoice DEF PInv, ParityType, Killed
<1>3. CASE ChoiceStep
  <2>1. CASE ChoiceComplete
    <3>1. ParityType'
      BY <1>1, <2>1 DEF ChoiceComplete, PInv, ParityType, children
    <3> QED
      BY <2>1, <3>1, StepsAfterChoice DEF ChoiceComplete, children, BeforeRelease
  <2>2. CASE ChoiceFails
    <3>1. ParityType'
      BY <1>1, <2>2 DEF ChoiceFails, RaiseInChoice, PInv, ParityType, children
    <3> QED
      BY <2>2, <3>1, StepsAfterChoice DEF ChoiceFails, RaiseInChoice, children, BeforeRelease
  <2>3. CASE SpawnWorker \/ Reject \/ Unselect
    <3>1. /\ UNCHANGED <<i, outcome, known, gate, parity, ext>>
          /\ pc \in BeforeRelease /\ pc' \in {"spawn", "reject_wait", "unselect_wait"}
          /\ w' = w \/ w' = [w EXCEPT ![i] = "boot"] \/ w' = [w EXCEPT ![i] = Killed(i)]
      BY <2>3 DEF SpawnWorker, Reject, Unselect, harness, BeforeRelease
    <3>2. ParityType'
      BY <3>1 DEF PInv, ParityType, Killed
    <3> QED  BY <3>1, <3>2, StepsAfterChoice DEF PInv, ParityType, Killed, BeforeRelease
  <2>4. CASE Choose
    BY <2>4, ChooseKeeps
  <2>5. CASE Rejected \/ Unselected
    <3>1. /\ UNCHANGED <<outcome, known, w, parity, ext>>
          /\ pc \in BeforeRelease /\ pc' \in {"spawn", "unselect", "stop_sched"}
          /\ i' \in {i + 1, 1}
          /\ UNCHANGED gate \/ CloseGate
      BY <2>5 DEF Rejected, Unselected, BeforeRelease
    <3>2. Pipes' /\ \A k \in Workers : gate'[k] \in Written => gate[k] \in Written
      BY <1>1, <3>1, StopCloses DEF Pipes
    <3>3. ParityType'
      BY <1>1, <3>1, <3>2 DEF PInv, ParityType, Pipes
    <3> QED  BY <3>1, <3>2, <3>3, StepsAfterChoice DEF BeforeRelease
  <2> QED  BY <1>3, <2>1, <2>2, <2>3, <2>4, <2>5 DEF ChoiceStep
<1>4. CASE Release \/ (Flush(N, "entering") /\ UNCHANGED <<parity, ext>>)
  <2>1. /\ pc \in {"release", "flush"} /\ UNCHANGED <<known, w, parity, ext>>
        /\ i' \in {1, i, i + 1} /\ pc' \in {"release", "flush", "entering", "stop"}
        /\ outcome' \in {outcome, "broken pipe"}
        /\ pc' = "flush" => i' \in known
        /\ \/ UNCHANGED gate
           \/ (i \in known /\ gate' = [gate EXCEPT ![i] = "filled"])
           \/ (pc = "flush" /\ gate' = [gate EXCEPT ![i] = "open"])
    BY <1>4 DEF Release, WriteByte, Flush, Raise, Advance
  <2>2. ParityType'
    BY <1>1, <2>1 DEF PInv, ParityType
  <2>3. ~Missing /\ (pc = "flush" => i \in known)
    BY <2>1 DEF PInv, AfterChoice
  <2>4. \A k \in Workers : gate'[k] \in Written => gate[k] \in Written \/ k \in known
    BY <2>1, <2>3 DEF PInv, ParityType
  <2> QED  BY <2>1, <2>2, <2>3, <2>4, StepsAfterChoice DEF BeforeRelease
<1>5. CASE Entering \/ Measure
  <2>1. /\ UNCHANGED <<known, w, gate, parity, ext>>
        /\ pc \in {"entering", "measure", "measured"}
        /\ i' \in {1, i} /\ pc' \in {"measure", "measured", "stop"}
        /\ pc' \in {"measure", "measured"} => pc \in {"measure", "measured"} \/ known \subseteq ext
        /\ outcome' \in {outcome, "stopped"} \/ (pc = "measured" /\ pc' = "stop")
    BY <1>5 DEF Entering, Measure, Goto, Raise, children
  <2>2. ParityType'
    BY <1>1, <2>1 DEF PInv, ParityType
  <2>3. ~Missing
    BY <2>1 DEF PInv, AfterChoice
  <2> QED  BY <2>1, <2>2, <2>3, StepsAfterChoice DEF BeforeRelease
<1> QED  BY <1>2, <1>3, <1>4, <1>5 DEF HarnessStep

(* A worker passes its gate only when it is open. *)
LEMMA WorkerKeeps == ASSUME PInv, NEW k \in Workers, WorkerStep(k)  PROVE PInv'
<1> USE DEF Released, Written
<1>1. /\ UNCHANGED <<pc, i, outcome, known, gate, parity>>
      /\ ext' \in {ext, ext \cup {k}}
  BY DEF WorkerStep, Ready, PassGate, Enter, Exit, harness
<1>2. ParityType'
  BY <1>1 DEF WorkerStep, Ready, PassGate, Enter, Exit, PInv, ParityType
<1>3. \A j \in Workers : gate'[j] \in Written \/ w'[j] \in {"go", "compute"} \/ j \in ext'
         => gate[j] \in Written \/ w[j] \in {"go", "compute"} \/ j \in ext
  BY <1>1 DEF WorkerStep, Ready, PassGate, Enter, Exit, PInv, ParityType
<1>4. (pc \in Released => ~Missing) /\ (pc = "flush" => i \in known)
  BY DEF PInv, AfterChoice
<1> QED  BY <1>1, <1>2, <1>3, <1>4, StepsAfterChoice

(* A signal at any point only ever leads towards the end. *)
LEMMA SignalKeeps ==
    ASSUME PInv, NEW sender \in Senders, Signalled(sender), InterruptParity(sender),
           UNCHANGED <<parity, ext>>
    PROVE  PInv'
<1> USE DEF Released, Written
<1>1. /\ UNCHANGED known
      /\ w' = w \/ w' = [k \in Workers |-> Killed(k)]
  BY DEF Signalled
<1>2. /\ i' \in {1, i} /\ pc' \in {"unselect", "stop_sched", "ended", "stop"}
      /\ outcome' # "success" \/ outcome' = outcome
      /\ pc' \in BeforeRelease => pc \in BeforeRelease
      /\ UNCHANGED gate \/ Leave
  BY DEF InterruptParity, RaiseInChoice, InterruptHarness, Leave, Raise, BeforeRelease
<1>3. Pipes' /\ \A k \in Workers : gate'[k] \in Written => gate[k] \in Written
  BY <1>2, LeaveCloses DEF PInv, ParityType, Pipes
<1>4. ParityType'
  BY <1>1, <1>2, <1>3 DEF PInv, ParityType, Pipes, Killed
<1>5. \A k \in Workers : gate'[k] \in Written \/ w'[k] \in {"go", "compute"}
         => gate[k] \in Written \/ w[k] \in {"go", "compute"}
  BY <1>1, <1>3 DEF PInv, ParityType, Killed
<1> QED  BY <1>1, <1>2, <1>4, <1>5, StepsAfterChoice

LEMMA StepKeeps == PInv /\ [Next]_vars => PInv'
<1> SUFFICES ASSUME PInv, [Next]_vars  PROVE PInv'
  OBVIOUS
<1>1. CASE HarnessStep
  BY <1>1, HarnessKeeps
<1>2. CASE \E k \in Workers : WorkerStep(k)
  BY <1>2, WorkerKeeps
<1>3. CASE ((SchedStep \/ Eject) /\ UNCHANGED <<parity, ext>>) \/ UNCHANGED vars
  <2>1. UNCHANGED <<pc, i, outcome, known, w, gate, parity, ext>>
    BY <1>3 DEF SchedStep, Eject, vars, harness, children
  <2>2. ParityType' /\ (pc \in Released => ~Missing) /\ (pc = "flush" => i \in known)
    BY <2>1 DEF PInv, ParityType, AfterChoice
  <2> QED  BY <2>1, <2>2, StepsAfterChoice
<1>4. CASE \E sender \in Senders :
              Signalled(sender) /\ InterruptParity(sender) /\ UNCHANGED <<parity, ext>>
  BY <1>4, SignalKeeps
<1> QED  BY <1>1, <1>2, <1>3, <1>4 DEF Next

(* The inductive invariant of the parity experiment. *)
THEOREM Invariance == Spec => []PInv
  BY InitPInv, StepKeeps, PTL DEF Spec

(* A process that was started in vain never computes. *)
THEOREM OnlyChosenRun == Spec => []NoneRunsUnchosen
<1>1. PInv => NoneRunsUnchosen
  BY DEF PInv, ParityType, AfterChoice, NoneRunsUnchosen
<1> QED  BY <1>1, Invariance, PTL

(* A measurement that is reported is one of the numbers that were asked    *)
(* for, each in SCHED_EXT.                                                 *)
THEOREM ExactlyTheWanted == Spec => []SuccessIsExact
<1>1. PInv => SuccessIsExact
  <2> SUFFICES ASSUME PInv, outcome = "success"  PROVE SuccessIsExact
    BY DEF SuccessIsExact
  <2>1. known \subseteq ext /\ ~Missing
    BY DEF PInv, Measured
  <2>2. ASSUME NEW p \in {0, 1}  PROVE Cardinality(Chosen(p)) = Wanted(p)
    <3>1. Cardinality(Chosen(p)) \in Nat /\ Wanted(p) \in Nat
      BY ChosenFinite DEF PInv
    <3>2. ~(Wanted(p) - Cardinality(Chosen(p)) > 0)
      BY <2>1 DEF Missing, Remaining
    <3>3. Cardinality(Chosen(p)) <= Wanted(p)
      BY DEF PInv, ChosenBound
    <3> QED  BY <3>1, <3>2, <3>3
  <2> QED  BY <2>1, <2>2 DEF SuccessIsExact, Wanted
<1> QED  BY <1>1, Invariance, PTL
=============================================================================
