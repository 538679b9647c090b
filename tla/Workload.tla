------------------------------ MODULE Workload ------------------------------
(***************************************************************************)
(* The workload generator's measurements (sched-ext-workload): sleep,      *)
(* periodic, cpu-hog and race-calibrate.  Each is one process, which the   *)
(* scheduler under test holds back at any point and for as long as it      *)
(* likes; what the measurement says must be about exactly that.            *)
(*                                                                         *)
(* Time is a natural number.  It passes while the process sleeps, works or *)
(* is held back; its other steps take none.  The sums and maxima that are  *)
(* printed after the rows are left out.                                    *)
(***************************************************************************)
EXTENDS Integers, Sequences, FiniteSetsExt

CONSTANTS
    Commands,       \* the command lines: records of name, period, samples
                    \* and sched_ext
    UnitCosts,      \* what one work_unit may cost in CPU time
    Second,         \* a second, in units of time
    Limit,          \* the CPU time a calibration works for (250 ms)
    MaxHeld         \* bound: for how long the process is held back in all

ASSUME TimeAssumption == Second \in Nat /\ Limit \in Nat \ {0} /\ MaxHeld \in Nat
ASSUME CostAssumption == UnitCosts \subseteq Nat \ {0}

(* race-calibrate has no option for SCHED_EXT. *)
ASSUME CommandsAssumption == \A c \in Commands :
    /\ c.name \in {"sleep", "periodic", "cpu-hog", "calibrate"}
    /\ c.period \in Nat /\ c.samples \in Nat /\ c.sched_ext \in BOOLEAN
    /\ c.name = "calibrate" => ~c.sched_ext

VARIABLES
    cmd,        \* the command line
    cost,       \* what a work_unit costs on this machine
    pc,         \* where the process is
    class,      \* its scheduling class, "fair" or "ext"
    now,        \* CLOCK_MONOTONIC
    cputime,    \* CLOCK_PROCESS_CPUTIME_ID
    done,       \* samples taken, or units of work done
    mark,       \* start of the sleep, target, deadline, or start on the CPU
                \* clock
    rest,       \* for how long it is to sleep
    row,        \* the number it printed last: a lateness, or a rate
    held,       \* history: for how long the process has been held back
    timed,      \* history: held when the schedule began, and at each
                \* reading of the clock that a sleep was computed from
    seen        \* history: held when the last sample was taken

vars == <<cmd, cost, pc, class, now, cputime, done, mark, rest, row, held, timed, seen>>
machine == <<cmd, cost>>
measured == <<done, mark, rest, row>>
history == <<held, timed, seen>>

Ended == {"ok", "err"}

Init ==
    /\ cmd \in Commands
    /\ cost \in UnitCosts
    /\ pc = "main"
    /\ class = "fair"
    /\ now = 0 /\ cputime = 0
    /\ done = 0 /\ mark = 0 /\ rest = 0 /\ row = 0
    /\ held = 0 /\ timed = <<>> /\ seen = 0

-----------------------------------------------------------------------------
(* main: the command, and what its function does first. *)
Main ==
    /\ pc = "main"
    /\ pc' = CASE cmd.name = "calibrate" -> "pin"
               [] cmd.name = "cpu-hog" -> "enter"
               [] OTHER -> "validate"
    /\ UNCHANGED <<machine, class, now, cputime, measured, history>>

(* sleep and periodic need a period and a sample. *)
Validate ==
    /\ pc = "validate"
    /\ pc' = IF cmd.period = 0 \/ cmd.samples = 0 THEN "err" ELSE "enter"
    /\ UNCHANGED <<machine, class, now, cputime, measured, history>>

(* Mutant: the result of the system call is not looked at. *)
EnterUnchecked ==
    /\ pc = "enter"
    /\ class' \in IF cmd.sched_ext THEN {"ext", "fair"} ELSE {"fair"}
    /\ pc' = "begin"
    /\ UNCHANGED <<machine, now, cputime, measured, history>>

(* enter_sched_ext: sched_setscheduler, which may be refused. *)
Enter ==
    /\ pc = "enter"
    /\ \/ ~cmd.sched_ext /\ pc' = "begin" /\ UNCHANGED class
       \/ cmd.sched_ext /\ pc' = "begin" /\ class' = "ext"
       \/ cmd.sched_ext /\ pc' = "err" /\ UNCHANGED class
    /\ UNCHANGED <<machine, now, cputime, measured, history>>

-----------------------------------------------------------------------------
(* A function that measures notes the time it counts from. *)
Begin(name, from) ==
    /\ cmd.name = name
    /\ pc = "begin"
    /\ mark' = from
    /\ timed' = <<held>>
    /\ UNCHANGED <<machine, class, now, cputime, done, row, held, seen>>

(* Mutant: every sleep is measured from the start of the first.            *)
SleepStartOnce ==
    Begin("sleep", IF done = 0 THEN now ELSE mark) /\ rest' = cmd.period /\ pc' = "sleep"

(* measure_sleeps: let start = Instant::now()                              *)
SleepStart == Begin("sleep", now) /\ rest' = cmd.period /\ pc' = "sleep"

(* Mutant: the schedule begins without the first period.                   *)
PeriodicStartNow == Begin("periodic", now) /\ pc' = "remainder" /\ UNCHANGED rest

(* periodic: let mut target = Instant::now() + period                      *)
PeriodicStart == Begin("periodic", now + cmd.period) /\ pc' = "remainder" /\ UNCHANGED rest

(* target.saturating_duration_since(Instant::now()): what is left until    *)
(* the target when the clock is read.                                      *)
Remainder ==
    /\ pc = "remainder"
    /\ rest' = Max({0, mark - now})
    /\ timed' = Append(timed, held)
    /\ pc' = "sleep"
    /\ UNCHANGED <<machine, class, now, cputime, done, mark, row, held, seen>>

(* thread::sleep: relative, from when it is called.                        *)
Sleep ==
    /\ pc = "sleep"
    /\ now' = now + rest
    /\ pc' = "resume"
    /\ UNCHANGED <<machine, class, cputime, measured, history>>

(* start.elapsed() less the period, or how far resumed is past the target. *)
Lateness ==
    IF cmd.name = "sleep" THEN Max({0, now - mark - cmd.period}) ELSE Max({0, now - mark})

(* The process runs again: one sample, and its row.                        *)
Sample ==
    /\ pc = "resume"
    /\ row' = Lateness
    /\ done' = done + 1
    /\ seen' = held
    /\ pc' = "report"
    /\ UNCHANGED <<machine, class, now, cputime, mark, rest, held, timed>>

(* The row is printed; the target moves on, from where it was.             *)
Report ==
    /\ pc = "report"
    /\ mark' = IF cmd.name = "sleep" THEN mark ELSE mark + cmd.period
    /\ pc' = CASE done = cmd.samples -> "ok"
               [] done < cmd.samples /\ cmd.name = "sleep" -> "begin"
               [] done < cmd.samples /\ cmd.name = "periodic" -> "remainder"
    /\ UNCHANGED <<machine, class, now, cputime, done, rest, row, history>>

-----------------------------------------------------------------------------
HogStart == Begin("cpu-hog", now + cmd.period) /\ pc' = "hog" /\ UNCHANGED rest

(* Work takes time on both clocks.                                         *)
Work(time) == now' = now + time /\ cputime' = cputime + time

(* cpu_hog: work until the deadline.                                       *)
HogRound ==
    /\ pc = "hog"
    /\ IF now < mark THEN Work(1) /\ UNCHANGED pc
                     ELSE pc' = "ok" /\ UNCHANGED <<now, cputime>>
    /\ UNCHANGED <<machine, class, measured, history>>

(* pin_cpu: sched_setaffinity, which may be refused.                       *)
PinCpu ==
    /\ pc = "pin"
    /\ pc' \in {"begin", "err"}
    /\ UNCHANGED <<machine, class, now, cputime, measured, history>>

(* Mutant: the time spent waiting counts. *)
ClockWall == now

(* clock_ns(CLOCK_PROCESS_CPUTIME_ID) *)
Clock == cputime

CalibrateStart == Begin("calibrate", Clock) /\ pc' = "unit" /\ UNCHANGED rest

(* work_unit *)
WorkUnit ==
    /\ pc = "unit"
    /\ Work(cost)
    /\ done' = done + 1
    /\ pc' = "elapsed"
    /\ UNCHANGED <<machine, class, mark, rest, row, history>>

(* Units per second, once there was enough work to tell.                   *)
Calibrated ==
    /\ pc = "elapsed"
    /\ IF Clock - mark >= Limit
       THEN row' = (done * Second) \div (Clock - mark) /\ pc' = "ok"
       ELSE pc' = "unit" /\ UNCHANGED row
    /\ UNCHANGED <<machine, class, now, cputime, done, mark, rest, history>>

-----------------------------------------------------------------------------
(* The process could run and does not: the scheduler runs another task.    *)
HeldBack ==
    /\ pc \notin Ended
    /\ held < MaxHeld
    /\ held' = held + 1
    /\ now' = now + 1
    /\ UNCHANGED <<machine, pc, class, cputime, measured, timed, seen>>

Next ==
    \/ Main \/ Validate \/ Enter
    \/ SleepStart \/ PeriodicStart \/ Remainder \/ Sleep \/ Sample \/ Report
    \/ HogStart \/ HogRound
    \/ PinCpu \/ CalibrateStart \/ WorkUnit \/ Calibrated
    \/ HeldBack

Spec == Init /\ [][Next]_vars

-----------------------------------------------------------------------------
(* Each sleep is measured by itself: its lateness is the time for which    *)
(* the process was held back between that sleep's start and its end, and   *)
(* no delay in between two samples, such as a slow report, counts.         *)
SleepIndependent ==
    cmd.name = "sleep" /\ pc = "report" => row = seen - timed[1]

(* periodic keeps to its schedule: what is late is what the process was    *)
(* held back for since the clock was read for this sleep (the sleep is     *)
(* relative, so that a delay just before it counts in full), or since some *)
(* earlier reading, less a period for each reading after it, whichever is  *)
(* most.  A long delay is so reported in the following samples too, until  *)
(* they have caught up, and not longer.                                    *)
LateIsBacklog ==
    cmd.name = "periodic" /\ pc = "report" =>
        row = Max({0} \cup {seen - timed[j] - (Len(timed) - j) * cmd.period : j \in DOMAIN timed})

(* Nothing is measured, and no CPU time used, in another class than the    *)
(* one that was asked for; and a command that is rejected never enters     *)
(* SCHED_EXT.                                                              *)
MeasuresInClass ==
    /\ (done > 0 \/ cputime > 0) /\ cmd.sched_ext => class = "ext"
    /\ pc = "err" => class = "fair" /\ done = 0

(* The calibrated rate is one of CPU time: however the process was held    *)
(* back, it is what the machine does in a second.                          *)
RateIsOfCpuTime ==
    cmd.name = "calibrate" /\ pc = "ok" => row = Second \div cost
=============================================================================
