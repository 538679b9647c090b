--------------------------- MODULE TeamExperiment ---------------------------
(***************************************************************************)
(* The team race experiment (team_race_experiment.py): A1 and B1 compute   *)
(* for a while, then the other members of team A are added, and all of     *)
(* them are observed until the measurement is complete, before any has     *)
(* finished.  Workers 1 and 2 are A1 and B1, the others the newcomers.     *)
(***************************************************************************)
EXTENDS RaceWorkers

ASSUME MembersAssumption == N >= 3

VARIABLES
    added,      \* arrival: the newcomers are being, or have been, added
    sample      \* sample[k]: how far worker k was when last sampled

vars == <<pc, harness, children, signals, workers, added, sample>>

First == IF added THEN 3 ELSE 1
Last == IF added THEN N ELSE 2

(* The workers that should be computing. *)
Expected == 1..Last

TeamInit ==
    /\ Init
    /\ page = [k \in Workers |-> InitPage]
    /\ task = [k \in Workers |-> {}]
    /\ added = FALSE
    /\ sample = [k \in Workers |-> "none"]

-----------------------------------------------------------------------------
(* Mutant: it is enough that one worker of the batch is ready. *)
WaitReadyAny ==
    /\ pc = "wait_ready"
    /\ \/ (\E k \in First..Last : page[k].ready) /\ Goto("release")
       \/ Raise("not ready")
    /\ UNCHANGED <<known, children, signals, workers, added, sample>>

(* Mutant: no deadline, and no look at the processes. *)
WaitReadyForever ==
    /\ pc = "wait_ready"
    /\ \A k \in First..Last : page[k].ready
    /\ Goto("release")
    /\ UNCHANGED <<known, children, signals, workers, added, sample>>

(* start_batch, while not all are ready: ensure_running, or the deadline   *)
(* passed; and once all are ready check_other_tasks may complain.          *)
WaitReady ==
    /\ pc = "wait_ready"
    /\ \/ (\A k \in First..Last : page[k].ready) /\ Goto("release")
       \/ Raise("not ready")
    /\ UNCHANGED <<known, children, signals, workers, added, sample>>

(* What the harness looks at in a page. *)
Progress(p) == IF p.finished THEN "finished" ELSE IF p.started THEN "started" ELSE "none"

(* read_sample: the pages one after the other. *)
ReadSample ==
    /\ pc = "sample"
    /\ sample' = [sample EXCEPT ![i] = Progress(page[i])]
    /\ Advance(N, 1, "ensure_sched")
    /\ UNCHANGED <<outcome, known, children, signals, workers, added>>

(* ensure_running: the scheduler, then the workers. *)
EnsureSched ==
    /\ pc = "ensure_sched"
    /\ IF sched = "enabled" THEN Goto("ensure_workers") ELSE Raise("scheduler stopped")
    /\ UNCHANGED <<known, children, signals, workers, added, sample>>

EnsureWorkers ==
    /\ pc = "ensure_workers"
    /\ IF \E k \in known : w[k] \in Exited THEN Raise("worker stopped") ELSE Goto("judge")
    /\ UNCHANGED <<known, children, signals, workers, added, sample>>

(* Mutant: the newcomers do not wait for A1 and B1 to compute. *)
AllStartedAny == \E k \in Expected : sample[k] # "none"

AllStarted == \A k \in Expected : sample[k] # "none"

(* The five seconds before the arrival are over. *)
Arrive ==
    /\ ~added
    /\ AllStarted
    /\ added' = TRUE
    /\ pc' = "spawn"
    /\ i' = 3
    /\ UNCHANGED outcome

(* A worker finished too early; or the arrival; or the measurement is      *)
(* complete; or another round; or a deadline passed, check_other_tasks     *)
(* complains or there was too little progress to compare.                  *)
Judge ==
    /\ pc = "judge"
    /\ IF \E k \in Workers : sample[k] = "finished" THEN Raise("too early") /\ UNCHANGED added
       ELSE \/ Arrive
            \/ /\ UNCHANGED added
               /\ \/ added /\ AllStarted /\ Raise("success")
                  \/ Goto("sample")
                  \/ Raise("given up")
    /\ UNCHANGED <<known, children, signals, workers, sample>>

-----------------------------------------------------------------------------
StartStep ==
    \/ (HarnessStart \/ Flush(Last, "sample")) /\ UNCHANGED workers
    \/ SpawnWorker \/ SpawnFails \/ KeepWorker(Last, First) \/ Release

RoundStep == WaitReady \/ ReadSample \/ EnsureSched \/ EnsureWorkers \/ Judge

HarnessStep ==
    \/ StartStep /\ UNCHANGED <<added, sample>>
    \/ RoundStep
    \/ HarnessStop /\ UNCHANGED <<workers, added, sample>>

Next ==
    \/ HarnessStep
    \/ \E k \in Workers : WorkerStep(k) /\ UNCHANGED <<added, sample>>
    \/ (SchedStep \/ Eject \/ Interrupt) /\ UNCHANGED <<workers, added, sample>>

Spec == TeamInit /\ [][Next]_vars

(* Every process runs, and an experiment that goes on is given up in the   *)
(* end (30 seconds).  Nothing makes a signal or an ejection happen.        *)
Fairness ==
    /\ WF_vars(HarnessStep)
    /\ SF_vars(Judge /\ pc' = "stop")
    /\ \A k \in Workers : WF_vars(WorkerStep(k) /\ UNCHANGED <<added, sample>>)
    /\ WF_vars(SchedStep /\ UNCHANGED <<workers, added, sample>>)

FairSpec == Spec /\ Fairness

-----------------------------------------------------------------------------
(* No worker of a batch computes before the whole batch is ready and       *)
(* prepared, and no newcomer exists before both A1 and B1 compute: the     *)
(* time before the arrival is a time of one against one; and whoever       *)
(* computes is in SCHED_EXT, on the CPU of the race and under its team's   *)
(* name.                                                                   *)
FairArrival ==
    /\ \A k \in Workers : page[k].started => Comparable(k)
    /\ \A j, k \in 1..2 : page[k].started => page[j].ready /\ Prepared(j)
    /\ \A j, k \in 3..N : page[k].started => page[j].ready /\ Prepared(j)
    /\ \A k \in 3..N : w[k] # "none" => page[1].started /\ page[2].started

(* A measurement that is reported is one of the complete teams: every      *)
(* worker was started, noted for the cleanup, and has been computing.      *)
SuccessIsWhole ==
    outcome = "success" => known = Workers /\ \A k \in Workers : page[k].started
=============================================================================
