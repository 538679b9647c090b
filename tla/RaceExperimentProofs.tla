------------------------ MODULE RaceExperimentProofs ------------------------
(***************************************************************************)
(* The theorems about RaceExperiment, for any amount of work and any       *)
(* number of signals.                                                      *)
(***************************************************************************)
EXTENDS RaceExperiment, RaceWorkersProofs

LEMMA TwoWorkers == Workers = {1, 2} /\ N = 2
  BY RacersAssumption DEF Workers

RaceType ==
    /\ i \in Workers
    /\ WorkersType
    /\ sample \in [Workers -> [done : Nat, finished : BOOLEAN]]
    /\ solo \in Nat

AllReady == \A k \in Workers : page[k].ready

(* Where bytes are written. *)
Releasing == {"release", "flush"}

(* No byte is written, and so no gate passed, before all are ready. *)
Gated ==
    /\ pc \in Releasing => AllReady
    /\ \A k \in Workers :
          gate[k] \in Written \/ w[k] \in {"go", "start"} \/ page[k].started => AllReady

(* A worker that has finished has done its work and does no more; what the *)
(* harness has read of it is still true.                                   *)
Worked ==
    /\ \A k \in Workers :
          /\ page[k].finished => page[k].done = Units /\ w[k] \in Over
          /\ sample[k].finished => page[k].finished
    /\ outcome = "success" => \A k \in Workers : sample[k].finished

(* B's counter is read after A's flag. *)
ReadInOrder ==
    /\ page[A].finished => solo <= page[B].done
    /\ pc = "check_sched" \/ (pc = "sample_flag" /\ i = B)
           => (sample[A].finished => sample[B].done >= solo)

RInv == RaceType /\ Preparation /\ Gated /\ Worked /\ ReadInOrder

LEMMA InitRInv == RaceInit => RInv
<1> SUFFICES ASSUME RaceInit  PROVE RInv
  OBVIOUS
<1> USE TwoWorkers DEF RaceInit, Init, InitPage
<1>1. RaceType
  BY DEF RaceType, WorkersType, Page, ProcessStates, GateStates
<1>2. Preparation /\ Gated /\ Worked /\ ReadInOrder
  BY DEF Preparation, Gated, Releasing, Written, Worked, ReadInOrder, A, B
<1> QED  BY <1>1, <1>2 DEF RInv

-----------------------------------------------------------------------------
(* The loops over the workers stay in their range. *)
LEMMA NextWorker ==
    ASSUME i \in Workers, NEW next, NEW after, Advance(N, next, after)
    PROVE  /\ i' \in Workers \cup {next}
           /\ pc' \in {pc, after}
<1>1. i = N \/ i + 1 \in Workers
  BY TwoWorkers
<1> QED  BY <1>1 DEF Advance

(* A worker takes a step. *)
LEMMA WorkerKeeps ==
    ASSUME RInv, NEW k \in Workers, RacerStep(k)
    PROVE  RInv'
<1>1. WorkersType /\ Preparation /\ WorkerStep(k) /\ sample' = sample
  BY DEF RInv, RaceType, RacerStep
<1>2. /\ WorkersType' /\ Preparation'
      /\ UNCHANGED <<pc, harness, sched, gate, signals>>
      /\ \A j \in Workers \ {k} : w'[j] = w[j] /\ page'[j] = page[j]
      /\ \A j \in Workers : Grows(j)
      /\ w'[k] = "go" => gate[k] = "open"
      /\ w'[k] = "start" => w[k] = "go"
      /\ page'[k].started => page[k].started \/ w[k] = "start"
      /\ page'[k].finished => page[k].finished
            \/ (w[k] = "compute" /\ page[k].done = Units /\ page'[k].done = Units
                   /\ w'[k] = "finished")
      /\ w[k] \in Over => page'[k] = page[k] /\ w'[k] \in Over
  BY <1>1, WorkerEffect
<1>3. UNCHANGED <<pc, i, outcome, known>>
  BY <1>2 DEF harness
<1>4. \A j \in Workers : page[j].done \in Nat /\ page'[j].done \in Nat
  BY <1>1, <1>2 DEF WorkersType, Page
<1>5. Gated'
  BY <1>2, <1>3 DEF RInv, Gated, AllReady, Grows, Written
<1>6. Worked'
  BY <1>1, <1>2, <1>3 DEF RInv, Worked, Grows, Over
<1>7. ReadInOrder' /\ solo' \in Nat
  <2>1. A \in Workers /\ B \in Workers /\ A # B
    BY TwoWorkers DEF A, B
  <2>2. CASE page'[A].finished /\ ~page[A].finished
    <3>1. k = A /\ page'[B] = page[B] /\ solo' = page[B].done
      BY <1>2, <2>1, <2>2 DEF RacerStep
    <3>2. ~sample[A].finished
      BY <2>1, <2>2 DEF RInv, Worked
    <3> QED  BY <1>1, <1>4, <2>1, <3>1, <3>2 DEF ReadInOrder
  <2>3. CASE ~(page'[A].finished /\ ~page[A].finished)
    <3>1. solo' = solo /\ solo \in Nat
      BY <2>3 DEF RacerStep, RInv, RaceType
    <3>2. page'[A].finished => solo <= page[B].done /\ page[B].done <= page'[B].done
      BY <1>2, <2>1, <2>3 DEF RInv, ReadInOrder, Grows
    <3>3. page'[A].finished => solo' <= page'[B].done
      BY <1>4, <2>1, <3>1, <3>2
    <3> QED  BY <1>1, <1>3, <3>1, <3>3 DEF RInv, ReadInOrder
  <2> QED  BY <2>2, <2>3
<1> QED  BY <1>1, <1>2, <1>3, <1>5, <1>6, <1>7 DEF RInv, RaceType

-----------------------------------------------------------------------------
(* A step of the harness or the loader in which the workers' pages and the *)
(* samples stay as they are: there is nothing to show but that it opens no *)
(* gate too early, that a success is one, and that it skips no reading.    *)
LEMMA MoveKeeps ==
    ASSUME RInv, UNCHANGED <<workers, sample, solo>>, i' \in Workers,
           w' \in [Workers -> ProcessStates], \A k \in Workers : Hit(k),
           gate' \in [Workers -> GateStates],
           \A k \in Workers : gate'[k] \in Written => gate[k] \in Written \/ pc \in Releasing,
           pc' \in Releasing => AllReady \/ pc \in Releasing,
           outcome' = "success" => outcome = "success" \/ \A k \in Workers : sample[k].finished,
           pc' \in {"check_sched", "sample_flag"} => pc' = pc /\ i' = i
    PROVE  RInv'
<1>1. WorkersType /\ WorkersType' /\ Preparation'
  BY HitKeeps DEF RInv, RaceType
<1>2. RaceType'
  BY <1>1 DEF RInv, RaceType
<1>3. Gated'
  BY DEF RInv, Gated, AllReady, workers, Hit
<1>4. Worked'
  BY DEF RInv, Worked, workers, Hit, Over
<1>5. ReadInOrder'
  BY DEF RInv, ReadInOrder, workers
<1> QED  BY <1>1, <1>2, <1>3, <1>4, <1>5 DEF RInv

(* The same for a step that leaves the processes and their gates alone. *)
LEMMA QuietMove ==
    ASSUME RInv, UNCHANGED <<w, gate, workers, sample, solo>>, i' \in Workers,
           pc' \in Releasing => AllReady \/ pc \in Releasing,
           outcome' = "success" => outcome = "success" \/ \A k \in Workers : sample[k].finished,
           pc' \in {"check_sched", "sample_flag"} => pc' = pc /\ i' = i
    PROVE  RInv'
<1>1. /\ w' \in [Workers -> ProcessStates] /\ \A k \in Workers : Hit(k)
      /\ gate' \in [Workers -> GateStates]
      /\ \A k \in Workers : gate'[k] \in Written => gate[k] \in Written
  BY DEF RInv, RaceType, WorkersType, Hit
<1> QED  BY <1>1, MoveKeeps

LEMMA HarnessMoves ==
    ASSUME RInv, UNCHANGED solo,
           \/ HarnessStart /\ UNCHANGED <<workers, sample>>
           \/ (SpawnFails \/ KeepWorker(N, 1)) /\ UNCHANGED sample
           \/ WaitReady \/ CheckSched \/ CheckWorkers \/ LoopEnd
           \/ StopScheduler /\ UNCHANGED <<workers, sample>>
           \/ (SchedStep \/ Eject) /\ UNCHANGED <<workers, sample>>
    PROVE  RInv'
<1>1. i \in Workers /\ 1 \in Workers /\ (i # N => i + 1 \in Workers)
  BY TwoWorkers DEF RInv, RaceType
<1> USE DEF Releasing
<1>2. CASE HarnessStart /\ UNCHANGED <<workers, sample>>
  <2>1. /\ UNCHANGED <<w, gate>>
        /\ i' \in {i, 1} /\ pc' \in {"popen", "wait_enabled", "spawn", "stop", "ended"}
        /\ outcome' \in {outcome, "not active", "no scheduler"}
    BY <1>2 DEF HarnessStart, PopenFails, PopenScheduler, PopenReturns, WaitEnabled, Goto, Raise, harness,
                children
  <2> QED  BY <1>1, <1>2, <2>1, QuietMove
<1>3. CASE (SpawnFails \/ KeepWorker(N, 1)) /\ UNCHANGED sample
  BY <1>1, <1>3, QuietMove DEF SpawnFails, KeepWorker, Advance, Raise, children
<1>4. CASE WaitReady \/ CheckSched
  <2>1. /\ UNCHANGED <<w, gate, workers, sample>>
        /\ i' \in {i, 1} /\ pc' \in {"release", "check_workers", "stop"}
        /\ outcome' \in {outcome, "not ready", "scheduler stopped"}
        /\ pc' = "release" => AllReady
    BY <1>4 DEF WaitReady, CheckSched, Goto, Raise, children, AllReady
  <2> QED  BY <1>1, <2>1, QuietMove
<1>5. CASE CheckWorkers
  <2>1. /\ pc = "check_workers" /\ UNCHANGED <<w, gate, workers, sample>>
        /\ Raise("worker stopped") \/ (Advance(N, 1, "loop") /\ UNCHANGED outcome)
    BY <1>5 DEF CheckWorkers, children
  <2>2. CASE Raise("worker stopped")
    BY <1>1, <2>1, <2>2, QuietMove DEF Raise
  <2>3. CASE Advance(N, 1, "loop") /\ UNCHANGED outcome
    <3>1. i' \in Workers \cup {1} /\ pc' \in {pc, "loop"}
      BY <1>1, <2>3, NextWorker
    <3> QED  BY <1>1, <2>1, <2>3, <3>1, QuietMove
  <2> QED  BY <2>1, <2>2, <2>3
<1>6. CASE LoopEnd
  <2>1. /\ UNCHANGED <<w, gate, workers, sample>>
        /\ i' \in {i, 1} /\ pc' \in {"sample", "stop"}
        /\ outcome' \in {outcome, "given up"} \/ \A k \in Workers : sample[k].finished
    BY <1>6 DEF LoopEnd, Goto, Raise, children
  <2> QED  BY <1>1, <2>1, QuietMove
<1>7. CASE StopScheduler /\ UNCHANGED <<workers, sample>>
  BY <1>1, <1>7, QuietMove DEF StopScheduler, harness, children
<1>8. CASE (SchedStep \/ Eject) /\ UNCHANGED <<workers, sample>>
  BY <1>1, <1>8, QuietMove DEF SchedStep, Eject, harness
<1> QED  BY <1>2, <1>3, <1>4, <1>5, <1>6, <1>7, <1>8

(* The harness starts and stops workers, opens and closes gates. *)
LEMMA HarnessActs ==
    ASSUME RInv, UNCHANGED <<workers, sample, solo>>,
           \/ SpawnWorker \/ Release \/ Flush(N, "sample")
           \/ StopWorker \/ WaitWorker \/ WaitScheduler \/ Interrupt
    PROVE  RInv'
<1>1. i \in Workers /\ 1 \in Workers /\ (i # N => i + 1 \in Workers) /\ WorkersType
  BY TwoWorkers DEF RInv, RaceType
<1> USE DEF Releasing
<1>2. CASE SpawnWorker \/ StopWorker
  <2>1. /\ UNCHANGED <<i, outcome, gate>> /\ pc' \in {"spawn", "wait"}
        /\ \/ w' = w \/ w' = [w EXCEPT ![i] = Killed(i)]
           \/ w[i] = "none" /\ w' = [w EXCEPT ![i] = "boot"]
    BY <1>2 DEF SpawnWorker, StopWorker, harness
  <2>2. w' \in [Workers -> ProcessStates] /\ \A k \in Workers : Hit(k)
    BY <1>1, <2>1, KilledHits
  <2> QED  BY <1>1, <2>1, <2>2, MoveKeeps DEF WorkersType
<1>3. CASE Release \/ Flush(N, "sample")
  <2>1. /\ pc \in Releasing /\ UNCHANGED w /\ pc' \in {"release", "flush", "sample", "stop"}
        /\ i' \in {i, 1} \/ (i # N /\ i' = i + 1)
        /\ outcome' \in {outcome, "broken pipe"}
        /\ \/ UNCHANGED gate
           \/ gate' = [gate EXCEPT ![i] = "filled"]
           \/ gate' = [gate EXCEPT ![i] = "open"]
    BY <1>3 DEF Release, WriteByte, Flush, Raise
  <2>2. i' \in Workers
    BY <1>1, <2>1
  <2>3. gate' \in [Workers -> GateStates]
    BY <1>1, <2>1 DEF WorkersType, GateStates
  <2>4. w' \in [Workers -> ProcessStates] /\ \A k \in Workers : Hit(k)
    BY <1>1, <2>1 DEF WorkersType, Hit
  <2> QED  BY <2>1, <2>2, <2>3, <2>4, MoveKeeps
<1>4. CASE WaitWorker \/ WaitScheduler
  <2>1. /\ UNCHANGED w /\ pc' \in {"stop", "stop_sched", "wait_sched", "ended"}
        /\ i' \in {i, 1} \/ (i # N /\ i' = i + 1)
        /\ outcome' \in {outcome, "close failed"}
        /\ Leave \/ CloseGate \/ UNCHANGED gate
    BY <1>4 DEF WaitWorker, WaitScheduler, harness, Leave
  <2>2. /\ gate' \in [Workers -> GateStates]
        /\ \A k \in Workers : gate'[k] \in Written => gate[k] \in Written
    BY <1>1, <2>1, LeaveCloses, StopCloses DEF WorkersType
  <2>3. w' \in [Workers -> ProcessStates] /\ \A k \in Workers : Hit(k)
    BY <1>1, <2>1 DEF WorkersType, Hit
  <2>4. i' \in Workers
    BY <1>1, <2>1
  <2> QED  BY <2>1, <2>2, <2>3, <2>4, MoveKeeps
<1>5. CASE Interrupt
  <2>1. /\ w' = w \/ w' = [k \in Workers |-> Killed(k)]
        /\ Leave \/ UNCHANGED gate
        /\ i' \in {i, 1} /\ pc' \in {"ended", "stop"} /\ outcome' # "success"
    BY <1>5 DEF Interrupt, Signalled, InterruptHarness, Leave, Raise
  <2>2. /\ gate' \in [Workers -> GateStates]
        /\ \A k \in Workers : gate'[k] \in Written => gate[k] \in Written
    BY <1>1, <2>1, LeaveCloses DEF WorkersType
  <2>3. w' \in [Workers -> ProcessStates] /\ \A k \in Workers : Hit(k)
    BY <1>1, <2>1, KilledHits
  <2> QED  BY <1>1, <2>1, <2>2, <2>3, MoveKeeps
<1> QED  BY <1>2, <1>3, <1>4, <1>5

(* The harness reads the pages while the workers write them. *)
LEMMA ReadKeeps == ASSUME RInv, UNCHANGED solo, ReadCount \/ ReadFlag  PROVE RInv'
<1>1. /\ i \in {1, 2} /\ sample \in [Workers -> [done : Nat, finished : BOOLEAN]] /\ solo \in Nat
      /\ \A k \in Workers : page[k].done \in Nat /\ page[k].finished \in BOOLEAN
  BY TwoWorkers DEF RInv, RaceType, WorkersType, Page
<1>2. /\ UNCHANGED <<w, gate, page, task, outcome>>
      /\ i' \in {1, 2} /\ pc' \in {"sample_flag", "check_sched", "sample"}
  BY <1>1, TwoWorkers DEF ReadCount, ReadFlag, harness, children, workers
<1>3. WorkersType' /\ Preparation'
  BY <1>2 DEF RInv, RaceType, WorkersType, Preparation, Prepared, Comparable
<1>4. Gated'
  BY <1>2 DEF RInv, Gated, AllReady, Releasing
<1>5. sample' \in [Workers -> [done : Nat, finished : BOOLEAN]]
  BY <1>1, TwoWorkers DEF ReadCount, ReadFlag
<1>6. Worked' /\ ReadInOrder'
  <2> USE TwoWorkers DEF RInv, Worked, ReadInOrder, A, B
  <2>1. CASE ReadCount
    BY <1>1, <1>2, <2>1 DEF ReadCount, harness
  <2>2. CASE ReadFlag
    BY <1>1, <1>2, <2>2 DEF ReadFlag
  <2> QED  BY <2>1, <2>2
<1> QED  BY <1>1, <1>2, <1>3, <1>4, <1>5, <1>6, TwoWorkers DEF RInv, RaceType

LEMMA StepKeeps == RInv /\ [Next]_vars => RInv'
<1> SUFFICES ASSUME RInv, [Next]_vars  PROVE RInv'
  OBVIOUS
<1>1. CASE UNCHANGED vars
  <2>1. UNCHANGED <<w, gate, workers, sample, solo>> /\ UNCHANGED <<pc, i, outcome>>
    BY <1>1 DEF vars, harness, children
  <2> QED  BY <2>1, QuietMove DEF RInv, RaceType
<1>2. CASE HarnessStep /\ UNCHANGED solo
  <2>1. CASE StartStep /\ UNCHANGED sample
    BY <1>2, <2>1, HarnessMoves, HarnessActs DEF StartStep, SpawnWorker, Release
  <2>2. CASE RoundStep
    BY <1>2, <2>2, HarnessMoves, ReadKeeps DEF RoundStep
  <2>3. CASE StopStep
    BY <1>2, <2>3, HarnessMoves, HarnessActs DEF StopStep, HarnessStop
  <2> QED  BY <1>2, <2>1, <2>2, <2>3 DEF HarnessStep
<1>3. CASE \E k \in Workers : RacerStep(k)
  BY <1>3, WorkerKeeps
<1>4. CASE (SchedStep \/ Eject \/ Interrupt) /\ UNCHANGED <<workers, sample, solo>>
  <2>1. CASE SchedStep \/ Eject
    BY <1>4, <2>1, HarnessMoves
  <2>2. CASE Interrupt
    BY <1>4, <2>2, HarnessActs
  <2> QED  BY <1>4, <2>1, <2>2
<1> QED  BY <1>1, <1>2, <1>3, <1>4 DEF Next

(* The inductive invariant of the race experiment. *)
THEOREM Invariance == Spec => []RInv
  BY InitRInv, StepKeeps, PTL DEF Spec

(* The race is a fair one, whatever fails and whoever is interrupted. *)
THEOREM StartsFair == Spec => []FairStart
<1>1. RInv => FairStart
  BY DEF RInv, Preparation, Gated, AllReady, FairStart
<1> QED  BY <1>1, Invariance, PTL

(* A success of the harness is one of the race. *)
THEOREM SuccessTrue == Spec => []SuccessIsComplete
<1>1. RInv => SuccessIsComplete
  BY DEF RInv, Worked, SuccessIsComplete
<1> QED  BY <1>1, Invariance, PTL

(* However the readings of the pages and the work interleave, what counts  *)
(* for B alone was done alone.                                             *)
THEOREM AloneIsAlone == Spec => []SoloIsSolo
<1>1. RInv => SoloIsSolo
  BY TwoWorkers DEF RInv, Worked, ReadInOrder, SoloIsSolo, A, B
<1> QED  BY <1>1, Invariance, PTL
=============================================================================
