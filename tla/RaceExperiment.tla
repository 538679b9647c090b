--------------------------- MODULE RaceExperiment ---------------------------
(***************************************************************************)
(* The race experiment (race_experiment.py): two workers that do the same  *)
(* work are started, let go together when both are ready, and sampled      *)
(* until both have finished.                                               *)
(***************************************************************************)
EXTENDS RaceWorkers

ASSUME RacersAssumption == N = 2

A == 1
B == 2

VARIABLES
    sample,     \* sample[k]: what was last read of worker k's page
    solo        \* history: how much B had done when A finished

vars == <<pc, harness, children, signals, workers, sample, solo>>

RaceInit ==
    /\ Init
    /\ page = [k \in Workers |-> InitPage]
    /\ task = [k \in Workers |-> {}]
    /\ sample = [k \in Workers |-> [done |-> 0, finished |-> FALSE]]
    /\ solo = 0

-----------------------------------------------------------------------------
(* Mutant: it is enough that one worker is ready. *)
WaitReadyAny ==
    /\ pc = "wait_ready"
    /\ \/ (\E k \in Workers : page[k].ready) /\ Goto("release")
       \/ Raise("not ready")
    /\ UNCHANGED <<known, children, signals, workers, sample>>

(* while not all ready: a worker ended, or the deadline passed; and once   *)
(* all are ready check_other_tasks may complain.                           *)
WaitReady ==
    /\ pc = "wait_ready"
    /\ \/ (\A k \in Workers : page[k].ready) /\ Goto("release")
       \/ Raise("not ready")
    /\ UNCHANGED <<known, children, signals, workers, sample>>

(* Mutant: the counters of all workers are read before their flags. *)
ReadCountAll ==
    /\ pc = "sample"
    /\ sample' = IF i # 1 THEN sample
                 ELSE [k \in Workers |-> [sample[k] EXCEPT !.done = page[k].done]]
    /\ pc' = "sample_flag"
    /\ UNCHANGED <<harness, children, signals, workers>>

(* read_sample: the pages one after the other, in each the counter first.  *)
ReadCount ==
    /\ pc = "sample"
    /\ sample' = [sample EXCEPT ![i].done = page[i].done]
    /\ pc' = "sample_flag"
    /\ UNCHANGED <<harness, children, signals, workers>>

ReadFlag ==
    /\ pc = "sample_flag"
    /\ sample' = [sample EXCEPT ![i].finished = page[i].finished]
    /\ i' = IF i = N THEN 1 ELSE i + 1
    /\ pc' = IF i = N THEN "check_sched" ELSE "sample"
    /\ UNCHANGED <<outcome, known, children, signals, workers>>

CheckSched ==
    /\ pc = "check_sched"
    /\ IF sched = "enabled" THEN Goto("check_workers") ELSE Raise("scheduler stopped")
    /\ UNCHANGED <<known, children, signals, workers, sample>>

(* poll(): ended in failure, or ended and not finished in the sample that  *)
(* was read before                                                         *)
CheckWorkers ==
    /\ pc = "check_workers"
    /\ IF w[i] = "failed" \/ (w[i] = "ok" /\ ~sample[i].finished)
       THEN Raise("worker stopped")
       ELSE Advance(N, 1, "loop") /\ UNCHANGED outcome
    /\ UNCHANGED <<known, children, signals, workers, sample>>

(* Mutant: the race ends with the first to finish. *)
LoopEndAny ==
    /\ pc = "loop"
    /\ \/ (\E k \in Workers : sample[k].finished) /\ Raise("success")
       \/ (\E k \in Workers : ~sample[k].finished) /\ Goto("sample")
       \/ Raise("given up")
    /\ UNCHANGED <<known, children, signals, workers, sample>>

(* All have finished, or another round, or 120 seconds have passed, or     *)
(* check_other_tasks complains.                                            *)
LoopEnd ==
    /\ pc = "loop"
    /\ \/ (\A k \in Workers : sample[k].finished) /\ Raise("success")
       \/ (\E k \in Workers : ~sample[k].finished) /\ Goto("sample")
       \/ Raise("given up")
    /\ UNCHANGED <<known, children, signals, workers, sample>>

-----------------------------------------------------------------------------
StartStep ==
    \/ (HarnessStart \/ Flush(N, "sample")) /\ UNCHANGED workers
    \/ SpawnWorker \/ SpawnFails \/ KeepWorker(N, 1) \/ Release
RoundStep == WaitReady \/ ReadCount \/ ReadFlag \/ CheckSched \/ CheckWorkers \/ LoopEnd
StopStep == HarnessStop /\ UNCHANGED <<workers, sample>>

HarnessStep == (StartStep /\ UNCHANGED sample) \/ RoundStep \/ StopStep

(* A worker takes a step; the history notes when A finishes. *)
RacerStep(k) ==
    /\ WorkerStep(k)
    /\ solo' = IF page'[A].finished /\ ~page[A].finished THEN page[B].done ELSE solo
    /\ UNCHANGED sample

Next ==
    \/ HarnessStep /\ UNCHANGED solo
    \/ \E k \in Workers : RacerStep(k)
    \/ (SchedStep \/ Eject \/ Interrupt) /\ UNCHANGED <<workers, sample, solo>>

Spec == RaceInit /\ [][Next]_vars

(* Every process runs, and a race that goes on is given up in the end (120 *)
(* seconds).  Nothing makes a signal or an ejection happen.                *)
Fairness ==
    /\ WF_vars(HarnessStep /\ UNCHANGED solo)
    /\ SF_vars(LoopEnd /\ pc' = "stop" /\ UNCHANGED solo)
    /\ \A k \in Workers : WF_vars(RacerStep(k))
    /\ WF_vars(SchedStep /\ UNCHANGED <<workers, sample, solo>>)

FairSpec == Spec /\ Fairness

-----------------------------------------------------------------------------
(* Neither worker gets a head start: none computes before both are ready   *)
(* and have all that they need but SCHED_EXT, although they are started    *)
(* one after the other; and what computes is what the scheduler is to      *)
(* compare.                                                                *)
FairStart ==
    \A j, k \in Workers : page[k].started => page[j].ready /\ Prepared(j) /\ Comparable(k)

(* A race that is reported as a success is one in which every worker did   *)
(* all of its work.                                                        *)
SuccessIsComplete ==
    outcome = "success" => \A k \in Workers : page[k].done = Units /\ page[k].finished

(* The rate of B after A is one of B alone: a sample that counts for it    *)
(* (A finished, B not) holds a count of B's that was read after A had      *)
(* finished, although the pages change while they are read.                *)
SoloIsSolo ==
    pc = "check_sched" /\ sample[A].finished /\ ~sample[B].finished
        => page[A].finished /\ sample[B].done >= solo

(* "worker PID stopped without completing its work" is only said of a      *)
(* worker that did not complete it.                                        *)
StoppedMeansIncomplete ==
    outcome = "worker stopped" => \E k \in Workers : w[k] \in Exited /\ ~page[k].finished
=============================================================================
