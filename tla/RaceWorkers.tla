----------------------------- MODULE RaceWorkers -----------------------------
(***************************************************************************)
(* The workers of the race and of the team race (worker in race.rs), and   *)
(* how their harnesses start them: a worker takes its CPU and its name,    *)
(* maps its progress page, publishes that it is ready, waits at its gate   *)
(* (a pipe) for the byte S, enters SCHED_EXT, publishes when it starts,    *)
(* every unit it has done, and when it finishes.                           *)
(***************************************************************************)
EXTENDS Experiment

CONSTANT Units      \* the work of each worker: total

ASSUME UnitsAssumption == Units \in Nat \ {0}

VARIABLES
    page,       \* page[k]: the progress page worker k shares
    task        \* task[k]: what the kernel knows of worker k: "pinned" to the
                \* CPU of the race, "named", with a shared "page", in
                \* SCHED_EXT ("ext")

workers == <<page, task>>

(* The harness makes the file, which is zeroed. *)
InitPage == [done |-> 0, ready |-> FALSE, started |-> FALSE, finished |-> FALSE]

-----------------------------------------------------------------------------
(* Popen: the worker exists before the call returns. *)
SpawnWorker ==
    /\ pc = "spawn"
    /\ w[i] = "none"
    /\ w' = [w EXCEPT ![i] = "boot"]
    /\ UNCHANGED <<pc, harness, sched, gate, signals, workers>>

(* The progress page cannot be made, or Popen fails. *)
SpawnFails ==
    /\ pc = "spawn"
    /\ w[i] = "none"
    /\ Raise("no worker")
    /\ UNCHANGED <<known, children, signals, workers>>

(* The harness notes the process. *)
KeepWorker(last, first) ==
    /\ pc = "spawn"
    /\ w[i] # "none"
    /\ known' = known \cup {i}
    /\ Advance(last, first, "wait_ready")
    /\ UNCHANGED <<outcome, children, signals, workers>>

(* The byte S to each worker. *)
Release ==
    /\ pc = "release"
    /\ WriteByte
    /\ UNCHANGED <<known, sched, w, signals, workers>>

-----------------------------------------------------------------------------
(* Progress::store: one field of the page. *)
Store(k, field, value) == page' = [page EXCEPT ![k][field] = value]

(* The process gets as far as place, and the kernel gives it attribute a.  *)
Acquire(k, from, place, a) ==
    /\ w[k] = from
    /\ w' = [w EXCEPT ![k] = place]
    /\ task' = [task EXCEPT ![k] = @ \cup {a}]
    /\ UNCHANGED <<pc, harness, sched, gate, signals, page>>

(* The arguments are checked, sched_setaffinity. *)
PinCpu(k) == Acquire(k, "boot", "set_name", "pinned")

(* prctl(PR_SET_NAME) *)
SetName(k) == Acquire(k, "set_name", "open", "named")

(* Progress::open: the file is long enough, and it is mapped. *)
OpenProgress(k) == Acquire(k, "open", "mapped", "page")

(* store(3, 1) *)
Ready(k) ==
    /\ w[k] = "mapped"
    /\ Store(k, "ready", TRUE)
    /\ w' = [w EXCEPT ![k] = "gate"]
    /\ UNCHANGED <<pc, harness, sched, gate, signals, task>>

(* Mutant: a worker waits for its byte only. *)
PassGateNoEof(k) ==
    /\ w[k] = "gate"
    /\ gate[k] = "open"
    /\ w' = [w EXCEPT ![k] = "go"]
    /\ UNCHANGED <<pc, harness, sched, gate, signals, workers>>

(* read_exact, ensure!: the byte, or an error at the end of the pipe. *)
PassGate(k) ==
    /\ w[k] = "gate"
    /\ gate[k] \in {"open", "closed"}
    /\ w' = [w EXCEPT ![k] = IF gate[k] = "open" THEN "go" ELSE "failed"]
    /\ UNCHANGED <<pc, harness, sched, gate, signals, workers>>

(* enter_sched_ext(true) *)
Enter(k) == Acquire(k, "go", "start", "ext")

(* The start time is stored. *)
Start(k) ==
    /\ w[k] = "start"
    /\ Store(k, "started", TRUE)
    /\ w' = [w EXCEPT ![k] = "compute"]
    /\ UNCHANGED <<pc, harness, sched, gate, signals, task>>

(* fixed_work: one unit, and its report. *)
Compute(k) ==
    /\ w[k] = "compute"
    /\ page[k].done < Units
    /\ Store(k, "done", page[k].done + 1)
    /\ UNCHANGED <<pc, harness, children, signals, task>>

(* The finish time is stored. *)
Finish(k) ==
    /\ w[k] = "compute"
    /\ page[k].done = Units
    /\ Store(k, "finished", TRUE)
    /\ w' = [w EXCEPT ![k] = "finished"]
    /\ UNCHANGED <<pc, harness, sched, gate, signals, task>>

(* The process ends: done, killed, or an error before it computes. *)
Exit(k) ==
    /\ \/ w[k] = "finished" /\ w' = [w EXCEPT ![k] = "ok"]
       \/ w[k] \in {"boot", "set_name", "open", "go", "dying"} /\ w' = [w EXCEPT ![k] = "failed"]
    /\ UNCHANGED <<pc, harness, sched, gate, signals, workers>>

WorkerStep(k) ==
    \/ PinCpu(k) \/ SetName(k) \/ OpenProgress(k) \/ Ready(k) \/ PassGate(k)
    \/ Enter(k) \/ Start(k) \/ Compute(k) \/ Finish(k) \/ Exit(k)

(* Worker k is on the CPU of the race, has the name its class is told by,  *)
(* and its progress can be seen.                                           *)
Prepared(k) == {"pinned", "named", "page"} \subseteq task[k]

(* Worker k is what the scheduler is to compare: a prepared task in        *)
(* SCHED_EXT.                                                              *)
Comparable(k) == Prepared(k) /\ "ext" \in task[k]
=============================================================================
