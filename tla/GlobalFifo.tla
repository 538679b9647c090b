----------------------------- MODULE GlobalFifo -----------------------------
(***************************************************************************)
(* The schedulers without a dispatch callback, on one CPU: steps 01 to 03  *)
(* (one slice for all tasks), the race solution (a longer slice for one    *)
(* name) and step 05 (enqueue drops the task), with the kernel's global    *)
(* dispatch queue and its watchdog.                                        *)
(*                                                                         *)
(* Time is counted in units that divide the slices.  Only waiting, running *)
(* and the watchdog's period take time; the steps in between are taken     *)
(* before the clock advances, as the kernel takes them within microseconds *)
(* of the event that causes them.                                          *)
(***************************************************************************)
EXTENDS Integers, Sequences, FiniteSetsExt

CONSTANTS
    Tasks,          \* the tasks under SCHED_EXT on this CPU
    Worker,         \* the kernel thread that runs the watchdog's check
    None,           \* no task
    Slice,          \* Slice[t]: what enqueue passes to scx_bpf_dsq_insert
    DefaultSlice,   \* what the kernel grants a task that has no competitor
    Timeout,        \* timeout_ms
    Sleepers,       \* the tasks that may block and wake up
    Attachments     \* the ways in which the scheduler may be attached:
                    \* [drops |-> enqueue inserts nothing (step 05),
                    \*  partial |-> --partial was given]

Threads == Tasks \cup {Worker}

ASSUME SliceAssumption ==
    /\ Slice \in [Threads -> Nat \ {0}]
    /\ DefaultSlice \in Nat \ {0}
ASSUME TimeoutAssumption == Timeout \in Nat \ {0}
ASSUME TasksAssumption == IsFiniteSet(Tasks)
ASSUME ModeAssumption ==
    /\ None \notin Tasks
    /\ Worker \notin Tasks \cup {None}
    /\ Sleepers \subseteq Tasks
    /\ Attachments \subseteq [drops : BOOLEAN, partial : BOOLEAN]

VARIABLES
    attached,   \* how the scheduler was attached
    where,      \* where[t]: what t is doing, one of Places
    fifo,       \* the global dispatch queue
    cur,        \* the task on the CPU, or None
    left,       \* what is left of its slice
    age,        \* age[t]: for how long t has been runnable without running
    checked,    \* for how long the watchdog has not checked
    scx         \* "enabled", or "disabled" once the watchdog ejected it

vars == <<attached, where, fifo, cur, left, age, checked, scx>>

Places == {"blocked", "queued", "dropped", "running", "fair"}

(* The watchdog's work is queued again half a timeout after each check. *)
Period == Timeout \div 2

Waiting(t) == where[t] \in {"queued", "dropped"}

(* The tasks that go through the scheduler: in system-wide mode the        *)
(* watchdog's thread is one of them.                                       *)
Scheduled == IF attached.partial THEN Tasks ELSE Threads

(* When the scheduler is attached a task may be on the CPU; it stays there, *)
(* with a default slice, and never went through enqueue.                    *)
Init ==
    /\ attached \in Attachments
    /\ cur \in Tasks \cup {None}
    /\ where = [t \in Threads |->
                   IF t \notin Scheduled THEN "fair"
                   ELSE IF t = cur THEN "running" ELSE "blocked"]
    /\ fifo = <<>>
    /\ left = IF cur = None THEN 0 ELSE DefaultSlice
    /\ age = [t \in Threads |-> 0]
    /\ checked = 0
    /\ scx = "enabled"

-----------------------------------------------------------------------------
(* Mutant: the newest task goes first. *)
InsertAtHead(t) ==
    /\ where' = [where EXCEPT ![t] = "queued"]
    /\ fifo' = <<t>> \o fifo

(* oreore_enqueue: to the tail of the global queue. *)
InsertGlobal(t) ==
    /\ where' = [where EXCEPT ![t] = "queued"]
    /\ fifo' = Append(fifo, t)

(* oreore_enqueue of step 05: the task is in no queue. *)
InsertNothing(t) ==
    /\ where' = [where EXCEPT ![t] = "dropped"]
    /\ UNCHANGED fifo

Insert(t) == IF attached.drops THEN InsertNothing(t) ELSE InsertGlobal(t)

(* A task wakes up. *)
Wake(t) ==
    /\ scx = "enabled"
    /\ where[t] = "blocked"
    /\ Insert(t)
    /\ age' = [age EXCEPT ![t] = 0]
    /\ UNCHANGED <<attached, cur, left, checked, scx>>

(* The task on the CPU goes to sleep. *)
Block ==
    /\ scx = "enabled"
    /\ cur \in Sleepers
    /\ where' = [where EXCEPT ![cur] = "blocked"]
    /\ cur' = None
    /\ left' = 0
    /\ UNCHANGED <<attached, fifo, age, checked, scx>>

(* The CPU needs a task: it has none, or the slice is used up. *)
MustSchedule == cur = None \/ left = 0

(* Mutant: every task is given the slice of the longest. *)
GrantedSame(t) == Max({Slice[u] : u \in Tasks})

(* scx_bpf_dsq_insert(p, SCX_DSQ_GLOBAL, slice): the slice t will run for. *)
Granted(t) == Slice[t]

(* The head of the global queue runs; the expired task goes to enqueue. *)
RunHead ==
    /\ scx = "enabled"
    /\ MustSchedule
    /\ fifo # <<>>
    /\ cur' = Head(fifo)
    /\ left' = Granted(Head(fifo))
    /\ \/ /\ cur = None
          /\ where' = [where EXCEPT ![Head(fifo)] = "running"]
          /\ fifo' = Tail(fifo)
          /\ UNCHANGED age
       \/ /\ cur # None
          /\ where' = [where EXCEPT ![Head(fifo)] = "running", ![cur] = "queued"]
          /\ fifo' = Append(Tail(fifo), cur)
          /\ age' = [age EXCEPT ![cur] = 0]
    /\ UNCHANGED <<attached, checked, scx>>

(* Nobody is queued: the expired task keeps the CPU, for a default slice. *)
KeepRunning ==
    /\ scx = "enabled"
    /\ cur # None
    /\ left = 0
    /\ fifo = <<>>
    /\ left' = DefaultSlice
    /\ UNCHANGED <<attached, where, fifo, cur, age, checked, scx>>

-----------------------------------------------------------------------------
(* The kernel takes all tasks away from the BPF scheduler: the fair class  *)
(* runs those that wait.                                                   *)
Eject ==
    /\ scx' = "disabled"
    /\ where' = [t \in Threads |-> "fair"]
    /\ fifo' = <<>>
    /\ cur' = None
    /\ left' = 0
    /\ age' = [t \in Threads |-> 0]
    /\ checked' = 0
    /\ UNCHANGED attached

(* Mutant: twice the timeout is needed. *)
StalledLate(t) == Waiting(t) /\ age[t] > 2 * Timeout

(* A task that waits for longer than the timeout. *)
Stalled(t) == Waiting(t) /\ age[t] > Timeout

(* Mutant: the check is due once per timeout. *)
CheckDueLate == checked >= Timeout

(* The next check is due half a timeout after the last. *)
CheckDue == checked >= Period

(* In system-wide mode the check is itself a task that has to be scheduled. *)
WakeWorker ==
    /\ scx = "enabled"
    /\ CheckDue
    /\ where[Worker] = "blocked"
    /\ Insert(Worker)
    /\ age' = [age EXCEPT ![Worker] = 0]
    /\ UNCHANGED <<attached, cur, left, checked, scx>>

(* The check: a stalled task ejects the scheduler, or the thread waits for *)
(* its next period.  In partial mode it is in the fair class.              *)
Check ==
    /\ scx = "enabled"
    /\ CheckDue
    /\ where[Worker] \in {"fair", "running"}
    /\ \/ /\ \E t \in Threads : Stalled(t)
          /\ Eject
       \/ /\ \A t \in Threads : ~Stalled(t)
          /\ checked' = 0
          /\ IF attached.partial THEN UNCHANGED <<where, cur, left>>
             ELSE /\ where' = [where EXCEPT ![Worker] = "blocked"]
                  /\ cur' = None
                  /\ left' = 0
          /\ UNCHANGED <<attached, fifo, age, scx>>

(* Mutant: nothing watches the check. *)
CheckOverdueNever == FALSE

(* The timer tick notices that the check itself is overdue. *)
CheckOverdue ==
    /\ scx = "enabled"
    /\ checked > Timeout
    /\ Eject

(* Mutant: the tick lets an expired slice run on. *)
SettledExpired ==
    /\ cur = None => fifo = <<>>
    /\ CheckDue => Waiting(Worker)
    /\ checked <= Timeout

(* What is done before the clock may advance. *)
Settled ==
    /\ cur # None => left > 0
    /\ cur = None => fifo = <<>>
    /\ CheckDue => Waiting(Worker)
    /\ checked <= Timeout

Tick ==
    /\ scx = "enabled"
    /\ Settled
    /\ left' = IF cur = None THEN 0 ELSE left - 1
    /\ age' = [t \in Threads |-> IF Waiting(t) THEN age[t] + 1 ELSE 0]
    /\ checked' = checked + 1
    /\ UNCHANGED <<attached, where, fifo, cur, scx>>

Next ==
    \/ \E t \in Tasks : Wake(t)
    \/ Block \/ RunHead \/ KeepRunning
    \/ WakeWorker \/ Check \/ CheckOverdue \/ Tick

Spec == Init /\ [][Next]_vars

(* Time passes, and the kernel's own steps are taken.  Nothing makes a     *)
(* task sleep or wake up.                                                  *)
Fairness == WF_vars(RunHead \/ KeepRunning \/ WakeWorker \/ Check \/ CheckOverdue \/ Tick)

FairSpec == Spec /\ Fairness
-----------------------------------------------------------------------------
(* Type correctness. *)
TypeOK ==
    /\ attached \in Attachments
    /\ where \in [Threads -> Places]
    /\ fifo \in Seq(Threads)
    /\ cur \in Threads \cup {None}
    /\ left \in Nat
    /\ age \in [Threads -> Nat]
    /\ checked \in Nat
    /\ scx \in {"enabled", "disabled"}

(* The longest a task can keep the CPU once it has it and others wait. *)
LongestRun(t) == Max({Granted(t), DefaultSlice})

(* The CPU time that the other tasks can take before t's turn. *)
Rest(t) == MapThenSumSet(LongestRun, Scheduled \ {t})

(* A queued task waits for one run of every other task at most, however    *)
(* the others block, wake up again or expire in the meantime.              *)
WaitBound == \A t \in Threads : where[t] = "queued" => age[t] <= Rest(t)

(* The slices are short enough for the timeout: for each task, and in      *)
(* system-wide mode for the watchdog's own thread, which starts to wait    *)
(* half a timeout after its last check.                                    *)
Fits ==
    /\ ~attached.drops
    /\ \A t \in Tasks : Rest(t) <= Timeout
    /\ ~attached.partial => Period + Rest(Worker) <= Timeout

(* The watchdog never ejects a scheduler whose slices fit the timeout. *)
NoFalseStall == Fits => scx = "enabled"

(* How late a stall may be noticed.  In partial mode the check comes every *)
(* half timeout.  In system-wide mode the check waits its turn as well:    *)
(* the tick notices that it is overdue a timeout after the last one, and   *)
(* if enqueue drops all tasks there never was one.                         *)
Latest ==
    IF attached.partial THEN Timeout + Period
    ELSE IF attached.drops THEN Timeout + 1
    ELSE 2 * Timeout + 1

(* While the scheduler is enabled, no task has been held back for longer   *)
(* than that: the watchdog, or the tick that watches it, has ejected the   *)
(* scheduler by then.                                                      *)
StallNoticed == \A t \in Threads : Waiting(t) => age[t] <= Latest

(* A task that enqueue drops gets to run again, in the fair class.  In     *)
(* system-wide mode this does not depend on the watchdog's thread, which   *)
(* is dropped too.                                                         *)
DroppedTaskRecovers == \A t \in Threads : where[t] = "dropped" ~> where[t] = "fair"
=============================================================================
