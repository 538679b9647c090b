------------------------ MODULE TeamExperimentProofs ------------------------
(***************************************************************************)
(* The theorems about TeamExperiment, for any number of newcomers, any     *)
(* amount of work and any number of signals.                               *)
(***************************************************************************)
EXTENDS TeamExperiment, RaceWorkersProofs

(* Where the harness is after a batch has been started. *)
Rounds == {"wait_ready", "release", "flush", "sample", "ensure_sched", "ensure_workers", "judge"}

(* Where bytes are written. *)
Releasing == {"release", "flush"}

(* The harness's loops stay within the batch, and it knows whom it has     *)
(* started.                                                                *)
Control ==
    /\ i \in Workers /\ known \subseteq Workers /\ added \in BOOLEAN
    /\ pc \in {"popen", "wait_enabled"} => ~added /\ i = 1
    /\ pc \in {"spawn", "wait_ready"} \cup Releasing => First <= i /\ i <= Last
    /\ pc = "spawn" => \A k \in Workers : k < i => k \in known
    /\ pc \in Rounds => \A k \in Workers : k <= Last => k \in known
    /\ outcome = "success" => known = Workers

TeamType == WorkersType /\ sample \in [Workers -> {"none", "started", "finished"}]

(* The batch that worker k is started with. *)
Batch(k) == IF k <= 2 THEN 1..2 ELSE 3..N

AllReady(batch) == \A j \in batch : page[j].ready

(* No byte is written to a batch, and so no gate of it is passed, before   *)
(* all of the batch are ready.                                             *)
Gated ==
    /\ pc \in Releasing => AllReady(First..Last)
    /\ \A k \in Workers :
          gate[k] \in Written \/ w[k] \in {"go", "start"} \/ page[k].started => AllReady(Batch(k))

(* The newcomers come when A1 and B1 compute; what was sampled is so.      *)
Arrived ==
    /\ ~added => \A k \in 3..N : w[k] = "none"
    /\ added => page[1].started /\ page[2].started
    /\ \A k \in Workers : sample[k] # "none" => page[k].started
    /\ outcome = "success" => \A k \in Workers : page[k].started

TInv == Control /\ TeamType /\ Preparation /\ Gated /\ Arrived

(* The batches. *)
LEMMA Batches ==
    /\ N \in Nat /\ N >= 3 /\ Workers = 1..N
    /\ 1 \in Workers /\ 2 \in Workers /\ 3 \in Workers /\ 3..N \subseteq Workers
    /\ First \in Workers /\ Last \in Workers /\ First <= Last
    /\ Expected = 1..Last /\ Expected \subseteq Workers /\ First..Last \subseteq Workers
    /\ \A k \in Workers : First <= k /\ k <= Last => Batch(k) = First..Last
    /\ \A k \in Workers : Batch(k) \subseteq Workers
<1>1. /\ N \in Nat /\ N >= 3 /\ Workers = 1..N
  BY SizeAssumption, MembersAssumption DEF Workers
<1>2. /\ 1 \in Workers /\ 2 \in Workers /\ 3 \in Workers /\ 3..N \subseteq Workers
      /\ 1..2 \subseteq Workers
  BY <1>1
<1>3. (First = 3 /\ Last = N) \/ (First = 1 /\ Last = 2)
  BY DEF First, Last
<1>4. /\ First \in Workers /\ Last \in Workers /\ First <= Last
      /\ Expected = 1..Last /\ Expected \subseteq Workers /\ First..Last \subseteq Workers
  <2>1. CASE First = 3 /\ Last = N
    BY <1>1, <1>2, <2>1 DEF Expected
  <2>2. CASE First = 1 /\ Last = 2
    BY <1>1, <1>2, <2>2 DEF Expected
  <2> QED  BY <1>3, <2>1, <2>2
<1>5. \A k \in Workers : First <= k /\ k <= Last => Batch(k) = First..Last
  <2>1. CASE First = 3 /\ Last = N
    <3>1. \A k \in Workers : 3 <= k => Batch(k) = 3..N
      BY <1>1 DEF Batch
    <3> QED  BY <2>1, <3>1
  <2>2. CASE First = 1 /\ Last = 2
    <3>1. \A k \in Workers : k <= 2 => Batch(k) = 1..2
      BY DEF Batch
    <3> QED  BY <2>2, <3>1
  <2> QED  BY <1>3, <2>1, <2>2
<1>6. \A k \in Workers : Batch(k) \subseteq Workers
  BY <1>2 DEF Batch
<1> QED  BY <1>1, <1>2, <1>4, <1>5, <1>6

LEMMA InitTInv == TeamInit => TInv
<1> SUFFICES ASSUME TeamInit  PROVE TInv
  OBVIOUS
<1> USE Batches DEF TeamInit, Init, InitPage
<1>1. Control
  BY DEF Control, Rounds, Releasing
<1>2. TeamType
  BY DEF TeamType, WorkersType, Page, ProcessStates, GateStates
<1>3. Preparation /\ Gated /\ Arrived
  BY DEF Preparation, Gated, Arrived, Releasing, Written
<1> QED  BY <1>1, <1>2, <1>3 DEF TInv

-----------------------------------------------------------------------------
(* A worker takes a step. *)
LEMMA WorkerKeeps ==
    ASSUME TInv, NEW k \in Workers, WorkerStep(k), UNCHANGED <<added, sample>>
    PROVE  TInv'
<1>1. WorkersType /\ Preparation
  BY DEF TInv, TeamType
<1>2. /\ WorkersType' /\ Preparation'
      /\ UNCHANGED <<pc, harness, sched, gate, signals>>
      /\ \A j \in Workers \ {k} : w'[j] = w[j] /\ page'[j] = page[j]
      /\ \A j \in Workers : Grows(j)
      /\ w[k] # "none"
      /\ w'[k] = "go" => gate[k] = "open"
      /\ w'[k] = "start" => w[k] = "go"
      /\ page'[k].started => page[k].started \/ w[k] = "start"
  BY <1>1, WorkerEffect
<1>3. UNCHANGED <<pc, i, outcome, known, added, sample>> /\ First' = First /\ Last' = Last
  BY <1>2 DEF harness, First, Last
<1>4. Control' /\ TeamType'
  BY <1>2, <1>3 DEF TInv, Control, TeamType, Expected, Releasing
<1>5. \A j \in Workers : AllReady(Batch(j)) => AllReady(Batch(j))'
  BY <1>2, Batches DEF AllReady, Grows, Batch
<1>6. Gated'
  <2>1. pc' \in Releasing => AllReady(First..Last)'
    BY <1>2, <1>3, Batches DEF TInv, Gated, AllReady, Grows
  <2>2. ASSUME NEW j \in Workers,
               gate'[j] \in Written \/ w'[j] \in {"go", "start"} \/ page'[j].started
        PROVE  AllReady(Batch(j))'
    <3>1. gate[j] \in Written \/ w[j] \in {"go", "start"} \/ page[j].started
      BY <1>2, <2>2 DEF Written
    <3> QED  BY <1>5, <3>1 DEF TInv, Gated
  <2> QED  BY <2>1, <2>2 DEF Gated
<1>7. Arrived'
  BY <1>2, <1>3, Batches DEF TInv, Arrived, Grows
<1> QED  BY <1>2, <1>4, <1>6, <1>7 DEF TInv

-----------------------------------------------------------------------------
(* The harness leaves its loops, or is where only the workers it knows matter. *)
LEMMA Leaves ==
    ASSUME Control, UNCHANGED <<known, added>>, i' \in Workers,
           pc' \notin {"popen", "wait_enabled", "spawn", "wait_ready"} \cup Releasing,
           pc' \in Rounds => pc \in Rounds,
           outcome' = "success" => outcome = "success" \/ known = Workers
    PROVE  Control'
  BY DEF Control, First, Last

(* The loops of the harness, and what it notes. *)
LEMMA ControlKeeps ==
    ASSUME Control,
           \/ Judge
           \/ /\ UNCHANGED added
              /\ \/ HarnessStart \/ SpawnWorker \/ SpawnFails \/ KeepWorker(Last, First)
                 \/ Release \/ Flush(Last, "sample") \/ WaitReady \/ ReadSample \/ EnsureSched \/ EnsureWorkers \/ HarnessStop
                 \/ SchedStep \/ Eject \/ Interrupt
    PROVE  Control'
<1>1. /\ i \in Workers /\ 1 \in Workers /\ 3 \in Workers /\ N \in Nat /\ Workers = 1..N
      /\ First \in Workers /\ Last \in Workers /\ First <= Last
  BY Batches DEF Control
<1>2. UNCHANGED added => First' = First /\ Last' = Last
  BY DEF First, Last
<1> USE DEF Releasing
<1>3. CASE UNCHANGED added /\ (PopenFails \/ PopenScheduler \/ PopenReturns \/ WaitEnabled)
  <2>1. /\ pc \in {"popen", "wait_enabled"} /\ UNCHANGED <<known, added>>
        /\ \/ pc' \in {"popen", "wait_enabled", "spawn"} /\ UNCHANGED <<i, outcome>>
           \/ pc' \in {"stop", "ended"} /\ i' \in {i, 1} /\ outcome' \in {"no scheduler", "not active"}
    BY <1>3 DEF PopenFails, PopenScheduler, PopenReturns, WaitEnabled, Goto, Raise, harness
  <2>2. ~added /\ i = 1 /\ First = 1 /\ Last = 2 /\ First' = 1 /\ Last' = 2
    BY <2>1 DEF Control, First, Last
  <2>3. CASE pc' \in {"stop", "ended"}
    BY <1>1, <2>1, <2>2, <2>3, Leaves DEF Rounds
  <2>4. CASE pc' \notin {"stop", "ended"}
    <3>1. UNCHANGED <<i, outcome, known, added>> /\ pc' \in {"popen", "wait_enabled", "spawn"}
      BY <2>1, <2>4
    <3>2. \A k \in Workers : ~(k < i)
      BY <1>1, <2>2
    <3> QED  BY <2>2, <3>1, <3>2 DEF Control, Rounds
  <2> QED  BY <2>3, <2>4
<1>4. CASE UNCHANGED added /\ SpawnWorker
  BY <1>2, <1>4 DEF SpawnWorker, Control, harness, Rounds
<1>5. CASE UNCHANGED added /\ KeepWorker(Last, First)
  <2>1. /\ pc = "spawn" /\ known' = known \cup {i} /\ UNCHANGED <<outcome, added>>
        /\ \/ i = Last /\ i' = First /\ pc' = "wait_ready"
           \/ i # Last /\ i' = i + 1 /\ pc' = "spawn"
    BY <1>5 DEF KeepWorker, Advance
  <2>2. First <= i /\ i <= Last /\ \A k \in Workers : k < i => k \in known
    BY <2>1 DEF Control
  <2>3. CASE i = Last
    BY <1>1, <1>2, <2>1, <2>2, <2>3 DEF Control, Rounds
  <2>4. CASE i # Last
    BY <1>1, <1>2, <2>1, <2>2, <2>4 DEF Control, Rounds
  <2> QED  BY <2>3, <2>4
<1>6. CASE UNCHANGED added /\ (Release \/ Flush(Last, "sample"))
  <2>1. /\ pc \in Releasing /\ UNCHANGED <<known, added>>
        /\ \/ pc' = "stop" /\ i' = 1 /\ outcome' = "broken pipe"
           \/ i = Last /\ i' = 1 /\ pc' = "sample" /\ UNCHANGED outcome
           \/ i # Last /\ i' = i + 1 /\ pc' = "release" /\ UNCHANGED outcome
           \/ pc' = "flush" /\ UNCHANGED <<i, outcome>>
    BY <1>6 DEF Release, WriteByte, Flush, Raise
  <2>2. First <= i /\ i <= Last /\ \A k \in Workers : k <= Last => k \in known
    BY <2>1 DEF Control, Rounds
  <2>3. CASE pc' \notin Releasing
    BY <1>1, <2>1, <2>3, Leaves DEF Rounds
  <2>4. CASE pc' \in Releasing
    <3>1. (i' = i \/ (i # Last /\ i' = i + 1)) /\ UNCHANGED <<outcome, known, added>>
      BY <2>1, <2>4
    <3>2. First <= i' /\ i' <= Last /\ i' \in Workers
      BY <1>1, <2>2, <3>1
    <3> QED  BY <1>2, <2>2, <2>4, <3>1, <3>2 DEF Control
  <2> QED  BY <2>3, <2>4
<1>7. CASE UNCHANGED added /\ WaitReady
  <2>1. /\ pc = "wait_ready" /\ UNCHANGED <<known, added>>
        /\ \/ pc' = "release" /\ UNCHANGED <<i, outcome>>
           \/ pc' = "stop" /\ i' = 1 /\ outcome' = "not ready"
    BY <1>7 DEF WaitReady, Goto, Raise
  <2> QED  BY <1>1, <1>2, <2>1 DEF Control, Rounds
<1>8. CASE UNCHANGED added /\ ReadSample
  <2>1. /\ pc = "sample" /\ UNCHANGED <<known, added, outcome>>
        /\ \/ i = N /\ i' = 1 /\ pc' = "ensure_sched"
           \/ i # N /\ i' = i + 1 /\ pc' = "sample"
    BY <1>8 DEF ReadSample, Advance
  <2> QED  BY <1>1, <2>1, Leaves DEF Rounds
<1>9. CASE UNCHANGED added /\ (EnsureSched \/ EnsureWorkers)
  BY <1>1, <1>9, Leaves DEF EnsureSched, EnsureWorkers, Goto, Raise, Rounds
<1>10. CASE Judge
  <2>1. /\ pc = "judge" /\ UNCHANGED known
        /\ \/ /\ ~added /\ added' /\ pc' = "spawn" /\ i' = 3 /\ UNCHANGED outcome
              /\ added' \in BOOLEAN
           \/ /\ UNCHANGED added
              /\ \/ pc' = "stop" /\ i' = 1 /\ (outcome' = "success" => added)
                 \/ pc' = "sample" /\ UNCHANGED <<i, outcome>>
    BY <1>10 DEF Judge, Arrive, Goto, Raise
  <2>2. \A k \in Workers : k <= Last => k \in known
    BY <2>1 DEF Control, Rounds
  <2>3. CASE UNCHANGED added
    <3>1. added => known = Workers
      <4>1. added => Last = N
        BY DEF Last
      <4>2. \A k \in Workers : k <= N
        BY <1>1
      <4> QED  BY <2>2, <4>1, <4>2 DEF Control
    <3> QED  BY <1>1, <2>1, <2>3, <3>1, Leaves DEF Rounds
  <2>4. CASE added' # added
    <3>1. /\ First' = 3 /\ Last' = N /\ Last = 2 /\ i' = 3 /\ pc' = "spawn" /\ UNCHANGED outcome
          /\ added' \in BOOLEAN /\ added'
      BY <2>1, <2>4 DEF First, Last
    <3> QED  BY <1>1, <2>1, <2>2, <3>1, Batches DEF Control, Rounds
  <2> QED  BY <2>3, <2>4
<1>11. CASE UNCHANGED added /\ (StopWorker \/ WaitWorker)
  <2>1. /\ UNCHANGED <<known, added>> /\ pc' \in {"wait", "stop", "stop_sched", "ended"}
        /\ outcome' \in {outcome, "close failed"}
        /\ i' = i \/ i' = 1 \/ (i # N /\ i' = i + 1)
    BY <1>11 DEF StopWorker, WaitWorker, Leave, harness
  <2>2. i # N => i + 1 \in Workers
    BY <1>1
  <2>3. i' \in Workers
    BY <1>1, <2>1, <2>2
  <2> QED  BY <2>1, <2>3, Leaves DEF Rounds
<1>12. CASE UNCHANGED added /\ (SpawnFails \/ StopScheduler \/ WaitScheduler)
  BY <1>1, <1>12, Leaves DEF SpawnFails, Raise, StopScheduler, WaitScheduler, Leave, harness, Rounds
<1>13. CASE UNCHANGED added /\ (SchedStep \/ Eject)
  <2>1. UNCHANGED <<pc, i, outcome, known, added>>
    BY <1>13 DEF SchedStep, Eject, harness
  <2> QED  BY <1>2, <2>1 DEF Control
<1>14. CASE UNCHANGED added /\ Interrupt
  <2>1. /\ UNCHANGED <<known, added>> /\ pc' \in {"ended", "stop"}
        /\ i' \in {i, 1} /\ outcome' # "success"
    BY <1>14 DEF Interrupt, Signalled, InterruptHarness, Leave, Raise
  <2> QED  BY <1>1, <2>1, Leaves DEF Rounds
<1> QED
  BY <1>3, <1>4, <1>5, <1>6, <1>7, <1>8, <1>9, <1>10, <1>11, <1>12, <1>13, <1>14
     DEF HarnessStart, HarnessStop

(* A step in which the workers' pages and the samples stay as they are.    *)
LEMMA MoveKeeps ==
    ASSUME TInv, Control', UNCHANGED <<workers, sample, added>>,
           w' \in [Workers -> ProcessStates], \A k \in Workers : Hit(k),
           \A k \in 3..N : w[k] = "none" /\ w'[k] # "none" => added,
           gate' \in [Workers -> GateStates],
           \A k \in Workers : gate'[k] \in Written => gate[k] \in Written \/ (pc \in Releasing /\ k = i),
           pc' \in Releasing => AllReady(First..Last) \/ pc \in Releasing,
           outcome' = "success" => outcome = "success" \/ \A k \in Workers : page[k].started
    PROVE  TInv'
<1>1. WorkersType' /\ Preparation'
  BY HitKeeps DEF TInv, TeamType
<1>2. TeamType'
  BY <1>1 DEF TInv, TeamType
<1>3. Gated'
  <2>1. page' = page /\ First' = First /\ Last' = Last
    BY DEF workers, First, Last
  <2>2. pc' \in Releasing => AllReady(First..Last)'
    BY <2>1 DEF TInv, Gated, AllReady
  <2>3. ASSUME NEW k \in Workers,
               gate'[k] \in Written \/ w'[k] \in {"go", "start"} \/ page'[k].started
        PROVE  AllReady(Batch(k))
    <3>1. CASE gate[k] \in Written \/ w[k] \in {"go", "start"} \/ page[k].started
      BY <3>1 DEF TInv, Gated
    <3>2. CASE pc \in Releasing /\ k = i
      BY <3>2, Batches DEF TInv, Gated, Control
    <3> QED  BY <2>1, <2>3, <3>1, <3>2 DEF Hit
  <2> QED  BY <2>1, <2>2, <2>3 DEF Gated, AllReady, Batch
<1>4. Arrived'
  BY Batches DEF TInv, Arrived, workers, Hit
<1> QED  BY <1>1, <1>2, <1>3, <1>4 DEF TInv

(* The same for a step that leaves the processes and their gates alone.    *)
LEMMA QuietMove ==
    ASSUME TInv, Control', UNCHANGED <<w, gate, workers, sample, added>>,
           pc' \in Releasing => AllReady(First..Last) \/ pc \in Releasing,
           outcome' = "success" => outcome = "success" \/ \A k \in Workers : page[k].started
    PROVE  TInv'
<1>1. /\ w' \in [Workers -> ProcessStates] /\ \A k \in Workers : Hit(k)
      /\ \A k \in 3..N : w'[k] = w[k]
      /\ gate' \in [Workers -> GateStates]
      /\ \A k \in Workers : gate'[k] \in Written => gate[k] \in Written
  BY DEF TInv, TeamType, WorkersType, Hit
<1> QED  BY <1>1, MoveKeeps

(* The harness goes on, and the loader runs beside it.                     *)
LEMMA HarnessMoves ==
    ASSUME TInv, Control', UNCHANGED added,
           \/ (HarnessStart \/ StopScheduler) /\ UNCHANGED <<workers, sample>>
           \/ (SpawnFails \/ KeepWorker(Last, First)) /\ UNCHANGED sample
           \/ WaitReady \/ EnsureSched \/ EnsureWorkers
           \/ (SchedStep \/ Eject) /\ UNCHANGED <<workers, sample>>
    PROVE  TInv'
<1> USE DEF Releasing
<1>1. CASE HarnessStart /\ UNCHANGED <<workers, sample>>
  BY <1>1, QuietMove
     DEF HarnessStart, PopenFails, PopenScheduler, PopenReturns, WaitEnabled, Goto, Raise, harness,
         children
<1>2. CASE StopScheduler /\ UNCHANGED <<workers, sample>>
  BY <1>2, QuietMove DEF StopScheduler, harness
<1>3. CASE (SpawnFails \/ KeepWorker(Last, First)) /\ UNCHANGED sample
  BY <1>3, QuietMove DEF SpawnFails, KeepWorker, Advance, Raise, children
<1>4. CASE WaitReady
  BY <1>4, QuietMove DEF WaitReady, Goto, Raise, children, AllReady
<1>5. CASE EnsureSched \/ EnsureWorkers
  BY <1>5, QuietMove DEF EnsureSched, EnsureWorkers, Goto, Raise, children
<1>6. CASE (SchedStep \/ Eject) /\ UNCHANGED <<workers, sample>>
  BY <1>6, QuietMove DEF SchedStep, Eject, harness
<1> QED  BY <1>1, <1>2, <1>3, <1>4, <1>5, <1>6

(* The harness starts and stops workers, opens and closes gates.           *)
LEMMA HarnessActs ==
    ASSUME TInv, Control', UNCHANGED <<workers, added, sample>>,
           \/ SpawnWorker \/ Release \/ Flush(Last, "sample")
           \/ StopWorker \/ WaitWorker \/ WaitScheduler \/ Interrupt
    PROVE  TInv'
<1>1. i \in Workers /\ WorkersType /\ 3..N \subseteq Workers
  BY Batches DEF TInv, Control, TeamType
<1> USE DEF Releasing
<1>2. CASE SpawnWorker
  <2>1. /\ UNCHANGED <<outcome, gate>> /\ pc' = "spawn"
        /\ w[i] = "none" /\ w' = [w EXCEPT ![i] = "boot"]
        /\ First <= i /\ i <= Last
    BY <1>2 DEF SpawnWorker, harness, TInv, Control
  <2>2. w' \in [Workers -> ProcessStates] /\ \A k \in Workers : Hit(k)
    BY <1>1, <2>1, KilledHits
  <2>3. \A k \in 3..N : w'[k] = w[k] \/ added
    BY <1>1, <2>1 DEF First, Last, WorkersType
  <2> QED  BY <1>1, <2>1, <2>2, <2>3, MoveKeeps DEF WorkersType
<1>3. CASE StopWorker \/ Interrupt
  <2>1. /\ \/ w' = w \/ w' = [w EXCEPT ![i] = Killed(i)]
           \/ w' = [k \in Workers |-> Killed(k)]
        /\ Leave \/ UNCHANGED gate
        /\ pc' \in {"wait", "ended", "stop"}
        /\ outcome' \in {outcome, "cut short", "interrupted"}
    BY <1>3 DEF StopWorker, Interrupt, Signalled, InterruptHarness, Leave, Raise, harness
  <2>2. w' \in [Workers -> ProcessStates] /\ \A k \in Workers : Hit(k)
    BY <1>1, <2>1, KilledHits
  <2>3. \A k \in Workers : w[k] = "none" => w'[k] = "none"
    BY <1>1, <2>1 DEF Killed, WorkersType
  <2>4. /\ gate' \in [Workers -> GateStates]
        /\ \A k \in Workers : gate'[k] \in Written => gate[k] \in Written
    BY <1>1, <2>1, LeaveCloses DEF WorkersType
  <2> QED  BY <1>1, <2>1, <2>2, <2>3, <2>4, MoveKeeps
<1>4. CASE Release \/ Flush(Last, "sample")
  <2>1. /\ pc \in Releasing /\ UNCHANGED w
        /\ \/ UNCHANGED gate
           \/ gate' = [gate EXCEPT ![i] = "filled"]
           \/ gate' = [gate EXCEPT ![i] = "open"]
        /\ outcome' \in {outcome, "broken pipe"}
    BY <1>4 DEF Release, WriteByte, Flush, Raise
  <2>2. /\ gate' \in [Workers -> GateStates]
        /\ \A k \in Workers : gate'[k] \in Written => gate[k] \in Written \/ k = i
    BY <1>1, <2>1 DEF WorkersType, GateStates
  <2>3. /\ w' \in [Workers -> ProcessStates] /\ \A k \in Workers : Hit(k)
    BY <1>1, <2>1 DEF WorkersType, Hit
  <2> QED  BY <1>1, <2>1, <2>2, <2>3, MoveKeeps
<1>5. CASE WaitWorker \/ WaitScheduler
  <2>1. /\ UNCHANGED w /\ pc' \in {"stop", "stop_sched", "wait_sched", "ended"}
        /\ outcome' \in {outcome, "close failed"}
        /\ Leave \/ CloseGate \/ UNCHANGED gate
    BY <1>5 DEF WaitWorker, WaitScheduler, harness, Leave
  <2>2. /\ gate' \in [Workers -> GateStates]
        /\ \A k \in Workers : gate'[k] \in Written => gate[k] \in Written
    BY <1>1, <2>1, LeaveCloses, StopCloses DEF WorkersType
  <2>3. w' \in [Workers -> ProcessStates] /\ \A k \in Workers : Hit(k)
    BY <1>1, <2>1 DEF WorkersType, Hit
  <2> QED  BY <1>1, <2>1, <2>2, <2>3, MoveKeeps
<1> QED  BY <1>2, <1>3, <1>4, <1>5

(* The harness samples the pages, and judges what it has sampled.          *)
LEMMA ReadKeeps == ASSUME TInv, Control', UNCHANGED added, ReadSample  PROVE TInv'
<1>1. /\ UNCHANGED <<w, gate, workers>> /\ UNCHANGED outcome
      /\ i \in Workers /\ pc' \notin Releasing
      /\ sample' = [sample EXCEPT ![i] = Progress(page[i])]
  BY DEF ReadSample, children, Advance, TInv, Control, Releasing
<1>2. Progress(page[i]) \in {"none", "started", "finished"}
  BY DEF Progress
<1>3. WorkersType' /\ Preparation' /\ UNCHANGED page
  BY <1>1 DEF TInv, TeamType, WorkersType, Preparation, workers, Prepared, Comparable
<1>4. TeamType'
  BY <1>1, <1>2, <1>3 DEF TInv, TeamType
<1>5. Gated'
  BY <1>1, <1>3 DEF TInv, Gated, AllReady, Batch
<1> QED  BY <1>1, <1>3, <1>4, <1>5 DEF TInv, Preparation, Arrived, Progress, TeamType, WorkersType

LEMMA JudgeKeeps == ASSUME TInv, Control', Judge  PROVE TInv'
<1>1. UNCHANGED <<w, gate, workers, sample>> /\ pc' \notin Releasing
  BY DEF Judge, children, Arrive, Goto, Raise, Releasing
<1>2. CASE UNCHANGED added
  <2>1. outcome' = "success" => outcome = "success" \/ \A k \in Workers : page[k].started
    BY <1>2, Batches DEF Judge, Arrive, Goto, Raise, AllStarted, Expected, Last, TInv, Arrived
  <2> QED  BY <1>1, <1>2, <2>1, QuietMove
<1>3. CASE added' # added
  <2>1. Arrive /\ UNCHANGED outcome
    BY <1>3 DEF Judge, Arrive
  <2>2. page[1].started /\ page[2].started
    BY <2>1, Batches DEF Arrive, AllStarted, Expected, Last, TInv, Arrived
  <2>3. WorkersType' /\ Preparation' /\ UNCHANGED page
    BY <1>1 DEF TInv, TeamType, WorkersType, Preparation, workers, Prepared, Comparable
  <2>4. Gated'
    BY <1>1, <2>3 DEF TInv, Gated, AllReady, Batch
  <2>5. Arrived' /\ TeamType'
    BY <1>1, <2>1, <2>2, <2>3 DEF TInv, Arrived, TeamType, Arrive
  <2> QED  BY <2>3, <2>4, <2>5 DEF TInv
<1> QED  BY <1>2, <1>3

LEMMA StepKeeps == TInv /\ [Next]_vars => TInv'
<1> SUFFICES ASSUME TInv, [Next]_vars  PROVE TInv'
  OBVIOUS
<1>1. CASE UNCHANGED vars
  <2>1. UNCHANGED <<w, gate, workers, sample, added>> /\ UNCHANGED <<pc, i, outcome, known>>
    BY <1>1 DEF vars, harness, children
  <2>2. Control'
    BY <2>1 DEF TInv, Control, First, Last, Expected
  <2> QED  BY <2>1, <2>2, QuietMove
<1>2. CASE \E k \in Workers : WorkerStep(k) /\ UNCHANGED <<added, sample>>
  BY <1>2, WorkerKeeps
<1>3. CASE HarnessStep
  <2>1. \/ Judge
        \/ ReadSample /\ UNCHANGED added
        \/ /\ UNCHANGED added
           /\ \/ (HarnessStart \/ StopScheduler) /\ UNCHANGED <<workers, sample>>
              \/ (SpawnFails \/ KeepWorker(Last, First)) /\ UNCHANGED sample
              \/ WaitReady \/ EnsureSched \/ EnsureWorkers
        \/ /\ UNCHANGED <<workers, added, sample>>
           /\ \/ SpawnWorker \/ Release \/ Flush(Last, "sample")
              \/ StopWorker \/ WaitWorker \/ WaitScheduler
    BY <1>3 DEF HarnessStep, StartStep, RoundStep, HarnessStop, SpawnWorker, Release,
                WaitReady, ReadSample, EnsureSched, EnsureWorkers
  <2>2. Control'
    BY <2>1, ControlKeeps DEF TInv, HarnessStop
  <2> QED  BY <2>1, <2>2, HarnessMoves, HarnessActs, ReadKeeps, JudgeKeeps
<1>4. CASE (SchedStep \/ Eject \/ Interrupt) /\ UNCHANGED <<workers, added, sample>>
  <2>1. Control'
    BY <1>4, ControlKeeps DEF TInv
  <2> QED  BY <1>4, <2>1, HarnessMoves, HarnessActs
<1> QED  BY <1>1, <1>2, <1>3, <1>4 DEF Next

(* The inductive invariant of the team race experiment. *)
THEOREM Invariance == Spec => []TInv
  BY InitTInv, StepKeeps, PTL DEF Spec

(* Each batch starts together, and the newcomers arrive at a race that     *)
(* runs, whatever fails and whoever is interrupted.                        *)
THEOREM ArrivesFair == Spec => []FairArrival
<1>1. TInv => FairArrival
  <2> SUFFICES ASSUME TInv  PROVE FairArrival
    OBVIOUS
  <2>1. \A k \in Workers : page[k].started => AllReady(Batch(k)) /\ Comparable(k)
    BY DEF TInv, Gated, Preparation
  <2>2. /\ page[1].started \/ page[2].started => page[1].ready /\ page[2].ready
        /\ \A j, k \in 3..N : page[k].started => page[j].ready
    BY <2>1, Batches DEF AllReady, Batch
  <2>3. \A j \in Workers : page[j].ready => Prepared(j)
    BY DEF TInv, Preparation
  <2> QED  BY <2>1, <2>2, <2>3, Batches DEF TInv, Control, Arrived, FairArrival
<1> QED  BY <1>1, Invariance, PTL

(* A measurement that is reported is one of the complete teams. *)
THEOREM SuccessWhole == Spec => []SuccessIsWhole
<1>1. TInv => SuccessIsWhole
  BY DEF TInv, Control, Arrived, SuccessIsWhole
<1> QED  BY <1>1, Invariance, PTL
=============================================================================
