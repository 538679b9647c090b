-------------------------- MODULE ParityExperiment --------------------------
(***************************************************************************)
(* The parity experiment (dsq_experiment.py): processes are started until  *)
(* the wanted numbers of even and odd PIDs are among them; those that are  *)
(* not needed are stopped again.  Each waits at a gate and only then execs *)
(* the hog that enters SCHED_EXT, with the same PID.  The measurement      *)
(* begins when all of them are in SCHED_EXT.  Worker k is the k-th process *)
(* that is started; N is the bound on their number (256 in the code).      *)
(***************************************************************************)
EXTENDS Experiment, FiniteSets

CONSTANTS Even, Odd     \* how many of each are wanted

ASSUME WantedAssumption == Even \in Nat /\ Odd \in Nat /\ Even + Odd > 0

VARIABLES
    parity,     \* parity[k]: pid % 2 of worker k
    ext         \* the workers that have entered SCHED_EXT

vars == <<pc, harness, children, signals, parity, ext>>

Wanted(p) == IF p = 0 THEN Even ELSE Odd

Chosen(p) == {k \in known : parity[k] = p}

(* remaining[p], and any(remaining) *)
Remaining(p) == Wanted(p) - Cardinality(Chosen(p))
Missing == \E p \in {0, 1} : Remaining(p) > 0

ParityInit ==
    /\ Init
    /\ parity \in [Workers -> {0, 1}]
    /\ ext = {}

-----------------------------------------------------------------------------
(* choose_workers: all are there.  Release begins. *)
ChoiceComplete ==
    /\ pc = "spawn"
    /\ i <= N => w[i] = "none"
    /\ ~Missing
    /\ pc' = "release"
    /\ i' = 1
    /\ UNCHANGED <<outcome, known, children, signals, parity, ext>>

(* An exception in choose_workers stops the chosen ones first. *)
RaiseInChoice(why) ==
    /\ outcome' = why
    /\ pc' = "unselect"
    /\ i' = 1

(* The attempts are used up, or Popen fails. *)
ChoiceFails ==
    /\ pc = "spawn"
    /\ Missing
    /\ i <= N => w[i] = "none"
    /\ RaiseInChoice("no choice")
    /\ UNCHANGED <<known, children, signals, parity, ext>>

(* process = spawn(): it exists before the call returns. *)
SpawnWorker ==
    /\ pc = "spawn"
    /\ Missing
    /\ i <= N
    /\ w[i] = "none"
    /\ w' = [w EXCEPT ![i] = "boot"]
    /\ UNCHANGED <<pc, harness, sched, gate, signals, parity, ext>>

Choose ==
    /\ pc = "spawn"
    /\ i <= N
    /\ w[i] # "none"
    /\ IF Remaining(parity[i]) > 0
       THEN known' = known \cup {i} /\ i' = i + 1 /\ UNCHANGED pc
       ELSE pc' = "reject" /\ UNCHANGED <<i, known>>
    /\ UNCHANGED <<outcome, children, signals, parity, ext>>

(* stop_process(process): the signal, then the wait. *)
Reject ==
    /\ pc = "reject"
    /\ w' = [w EXCEPT ![i] = Killed(i)]
    /\ pc' = "reject_wait"
    /\ UNCHANGED <<harness, sched, gate, signals, parity, ext>>

Rejected ==
    /\ pc = "reject_wait"
    /\ w[i] \in Exited
    /\ CloseGate
    /\ i' = i + 1
    /\ pc' = "spawn"
    /\ UNCHANGED <<outcome, known, sched, w, signals, parity, ext>>

(* for process in selected: stop_process(process) *)
Unselect ==
    /\ pc = "unselect"
    /\ w' = IF i \in known THEN [w EXCEPT ![i] = Killed(i)] ELSE w
    /\ pc' = "unselect_wait"
    /\ UNCHANGED <<harness, sched, gate, signals, parity, ext>>

(* raise: run_experiment has no workers yet, so that only the scheduler is *)
(* left to stop.                                                           *)
Unselected ==
    /\ pc = "unselect_wait"
    /\ i \in known => w[i] \in Exited
    /\ IF i \in known THEN CloseGate ELSE UNCHANGED gate
    /\ IF i = N THEN i' = 1 /\ pc' = "stop_sched" ELSE i' = i + 1 /\ pc' = "unselect"
    /\ UNCHANGED <<outcome, known, sched, w, signals, parity, ext>>

ChoiceStep ==
    ChoiceComplete \/ ChoiceFails \/ SpawnWorker \/ Choose \/ Reject \/ Rejected
    \/ Unselect \/ Unselected

-----------------------------------------------------------------------------
(* The byte S to each chosen worker. *)
Release ==
    /\ pc = "release"
    /\ IF i \in known THEN WriteByte ELSE Advance(N, 1, "entering") /\ UNCHANGED <<outcome, gate>>
    /\ UNCHANGED <<known, sched, w, signals, parity, ext>>

(* ensure_running(scheduler, workers) *)
Running == sched = "enabled" /\ \A k \in known : w[k] \notin Exited

(* Mutant: the harness does not wait for the workers to enter SCHED_EXT. *)
EnteringAtOnce ==
    /\ pc = "entering"
    /\ IF Running THEN Goto("measure") ELSE Raise("stopped")
    /\ UNCHANGED <<known, children, signals, parity, ext>>

(* Until all are in SCHED_EXT; or something stopped, or the deadline       *)
(* passed.                                                                 *)
Entering ==
    /\ pc = "entering"
    /\ \/ Running /\ known \subseteq ext /\ Goto("measure")
       \/ Raise("stopped")
    /\ UNCHANGED <<known, children, signals, parity, ext>>

(* ensure_running before and after the measured time; check_other_tasks    *)
(* may complain.                                                           *)
Measure ==
    /\ pc \in {"measure", "measured"}
    /\ \/ Running /\ (IF pc = "measure" THEN Goto("measured") ELSE Raise("success"))
       \/ Raise("stopped")
    /\ UNCHANGED <<known, children, signals, parity, ext>>

(* KeyboardInterrupt inside choose_workers, inside its cleanup, before its *)
(* result is assigned to workers (nobody stops the processes then), or     *)
(* elsewhere.                                                              *)
InterruptParity(sender) ==
    \/ /\ pc \in {"spawn", "reject", "reject_wait"}
       /\ RaiseInChoice("interrupted")
       /\ UNCHANGED gate
    \/ /\ pc \in {"unselect", "unselect_wait"}
       /\ pc' = "stop_sched"
       /\ UNCHANGED <<i, outcome, gate>>
    \/ /\ pc = "release" /\ i = 1
       /\ pc' = "stop_sched"
       /\ outcome' = "interrupted"
       /\ UNCHANGED <<i, gate>>
    \/ /\ pc \notin {"spawn", "reject", "reject_wait", "unselect", "unselect_wait"}
       /\ InterruptHarness(sender)

-----------------------------------------------------------------------------
(* The Python wrapper reaches its gate. *)
Ready(k) ==
    /\ w[k] = "boot"
    /\ w' = [w EXCEPT ![k] = "gate"]
    /\ UNCHANGED <<pc, harness, sched, gate, signals, parity, ext>>

(* Mutants: it does not wait; it waits for the byte only. *)
PassGateAlways(k) ==
    /\ w[k] = "gate"
    /\ w' = [w EXCEPT ![k] = IF gate[k] = "closed" THEN "failed" ELSE "go"]
    /\ UNCHANGED <<pc, harness, sched, gate, signals, parity, ext>>
PassGateNoEof(k) ==
    /\ w[k] = "gate"
    /\ gate[k] = "open"
    /\ w' = [w EXCEPT ![k] = "go"]
    /\ UNCHANGED <<pc, harness, sched, gate, signals, parity, ext>>

(* read(1): the byte, or an error at the end of the pipe; then execv. *)
PassGate(k) ==
    /\ w[k] = "gate"
    /\ gate[k] \in {"open", "closed"}
    /\ w' = [w EXCEPT ![k] = IF gate[k] = "open" THEN "go" ELSE "failed"]
    /\ UNCHANGED <<pc, harness, sched, gate, signals, parity, ext>>

(* cpu_hog: enter_sched_ext. *)
Enter(k) ==
    /\ w[k] = "go"
    /\ w' = [w EXCEPT ![k] = "compute"]
    /\ ext' = ext \cup {k}
    /\ UNCHANGED <<pc, harness, sched, gate, signals, parity>>

(* The process ends: its time is over, it was killed, or an error. *)
Exit(k) ==
    /\ \/ w[k] = "compute" /\ w' = [w EXCEPT ![k] = "ok"]
       \/ w[k] \in {"boot", "go", "dying"} /\ w' = [w EXCEPT ![k] = "failed"]
    /\ UNCHANGED <<pc, harness, sched, gate, signals, parity, ext>>

WorkerStep(k) == Ready(k) \/ PassGate(k) \/ Enter(k) \/ Exit(k)

-----------------------------------------------------------------------------
HarnessStep ==
    \/ (HarnessStart \/ Flush(N, "entering") \/ HarnessStop) /\ UNCHANGED <<parity, ext>>
    \/ ChoiceStep
    \/ Release \/ Entering \/ Measure

Next ==
    \/ HarnessStep
    \/ \E k \in Workers : WorkerStep(k)
    \/ (SchedStep \/ Eject) /\ UNCHANGED <<parity, ext>>
    \/ \E sender \in Senders :
           Signalled(sender) /\ InterruptParity(sender) /\ UNCHANGED <<parity, ext>>

Spec == ParityInit /\ [][Next]_vars

(* Every process runs.  Nothing makes a signal or an ejection happen. *)
Fairness ==
    /\ WF_vars(HarnessStep)
    /\ \A k \in Workers : WF_vars(WorkerStep(k))
    /\ WF_vars(SchedStep /\ UNCHANGED <<parity, ext>>)

FairSpec == Spec /\ Fairness

-----------------------------------------------------------------------------
(* No process computes before its parity is known and the choice is        *)
(* complete: one that was started in vain, or before the choice failed,    *)
(* never enters SCHED_EXT.                                                 *)
NoneRunsUnchosen == ext # {} => ext \subseteq known /\ ~Missing

(* A reported measurement is one of exactly the wanted numbers of workers, *)
(* all of which had entered SCHED_EXT.                                     *)
SuccessIsExact ==
    outcome = "success" =>
        /\ Cardinality(Chosen(0)) = Even
        /\ Cardinality(Chosen(1)) = Odd
        /\ known \subseteq ext
=============================================================================
