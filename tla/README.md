# Verification of the sched-ext tutorial

This directory holds TLA+ models of the programs of the tutorial, the TLC
configurations that check them on small instances, and proofs of the most
important properties for every instance. Paths are relative to the repository.

## 1. The system and its parts

The tutorial builds a CPU scheduler in stages. A stage is a BPF program that the
kernel's `sched_ext` class calls, a Rust loader that attaches it, and
experiments that show what it does to real tasks.

| part | source | state | operations |
| --- | --- | --- | --- |
| Global FIFO scheduler | `checkpoints/step-01..03`, `lab` | none of its own; the kernel's global dispatch queue | `select_cpu`, `enqueue` |
| Race scheduler | `solutions/race/main.bpf.c` | as above | `enqueue` with a slice per name |
| Broken scheduler | `checkpoints/step-05-broken` | none: it inserts nothing | `enqueue` |
| Two-queue scheduler | `checkpoints/step-04-shared-dsq`, `solutions/team-race` | two shared dispatch queues, a per-CPU `dispatch_turn` | `select_cpu`, `enqueue`, `dispatch`, `init`, `exit` |
| Loader | `*/src/main.rs` | shutdown flag, skeleton, link, exit info | open, load, attach, poll, detach, report, restart |
| Race experiment | `scripts/guest/race_experiment.py`, `tools/workload/src/race.rs` | child processes, gates (pipes), shared progress pages | start, gate, sample, stop |
| Team race experiment | `scripts/guest/team_race_experiment.py` | as above, in two batches | start batch, windows, stop |
| Parity experiment | `scripts/guest/dsq_experiment.py` | as above, workers chosen by PID | choose, gate, measure, stop |
| Workload generator | `tools/workload/src/main.rs`, `race.rs` | a start time, a target, a counter | `cpu-hog`, `sleep`, `periodic`, `race-calibrate`, `race-worker` |
| Bench script | `scripts/guest/bench.sh` | temporary directory, PIDs of its children | start, measure, cleanup, traps |
| Other scripts | `scripts/guest/reset.sh`, ... | none that lasts | SysRq-S, builds, VM |

How they interact. The kernel calls the BPF handlers from its scheduling cycle:
a wakeup calls `select_cpu` and `enqueue`; a CPU that needs a task calls
`dispatch` and then picks; an expired task is enqueued again only after
`dispatch` returned. The loader shares the exit info and the state of the
attachment with the kernel. The experiments and `bench.sh` start a loader and
workers as child processes, talk to the workers through a pipe and a shared
page, and look at `/sys/kernel/sched_ext/state`.

What is hard. Several CPUs dispatch from the same queues, and each `dispatch` is
two calls with other CPUs' steps in between; the running task is missing from
its queue while the choice is made; a task may change the name it is classified
by; the watchdog's own thread is scheduled by the scheduler it watches; a signal,
an ejection and a failing call can meet in the loader; a signal can reach an
experiment or a script between the fork of a child and the moment it knows of
it, and again inside the cleanup; a page is read field by field while its worker
writes it; and the process that measures is itself held back by what it measures.
`PROJECT.json` lists these hazards at their lines.

What makes each part correct:

* two-queue scheduler: no task lost or doubled, affinity, alternation of the
  queues on every CPU, no CPU asleep on work, no starvation, equal share of the
  teams and a round robin within them;
* FIFO schedulers: a bounded wait, CPU time in proportion to the slices, no
  false stall; step 05: the stall is noticed in both modes and the tasks recover;
* loader: nothing left attached, the right reason reported, Ctrl+C and an
  ejection both end it;
* experiments: a fair start and a fair arrival, no rejected process that runs, no
  success without complete work, an end whatever fails, nothing left;
* workload generator: every delay is reported once, and none that is not one;
  rates are rates of CPU time; nothing is measured in the wrong class;
* bench: nothing left when it has ended, no result measured without its load.

## 2. Modules

| module | what it models |
| --- | --- |
| `Policy` | what `enqueue` decides: queue by tgid parity, queue by team prefix, slice by name |
| `CpuSharing` | abstract: what any scheduler promises its tasks |
| `SharedDsq` | the two-queue scheduler on any number of CPUs, inside the kernel's cycle |
| `TeamRace` | `SharedDsq` on one CPU, with the history of the teams' shares |
| `GlobalFifo` | the schedulers without `dispatch`, on one CPU, with time and the watchdog |
| `RaceShare` | `GlobalFifo` with the history of the racers' CPU time |
| `SchedChild` | abstract: what the harnesses rely on about the loader's process |
| `Loader` | `main.rs` against the kernel's attachment life cycle; implements `SchedChild` |
| `Bench` | `bench.sh CASE=step` around `Loader` |
| `Experiment` | what the three harnesses share: loader's process, signals, finally clause |
| `RaceWorkers` | `Experiment` with the workers of `race.rs` and the way they are started |
| `RaceExperiment` | `RaceWorkers` with the race harness |
| `TeamExperiment` | `RaceWorkers` with the team race harness and its two batches |
| `ParityExperiment` | `Experiment` with the parity harness, its choice of PIDs and its workers |
| `Workload` | the measurements of the workload generator, with time |
| `MC*` | constants for TLC: `MCParity`, `MCRename`, `MCTeam`, `MCRace`, `MCWorkload` |
| `SharedDsqProofs` | the theorems about `SharedDsq` and `TeamRace` |
| `GlobalFifoProofs` | the theorems about `GlobalFifo` and `RaceShare` |
| `BenchProofs` | the theorems about `Loader` and `Bench` |
| `*Proofs` | the other theorems: about `RaceWorkers` (lemmas for both races), `RaceExperiment`, `TeamExperiment`, `ParityExperiment`, `Workload` |

`Loader`, `Bench` and the experiments need no MC module: their constants are
numbers and sets of strings. Operators whose comment starts with "Mutant" are
plausible bugs of the definition that follows them; no specification uses them.
`PROJECT.json` says which property each one breaks.

Two compositions join the parts. `Bench` extends `Loader` and runs its very
actions beside the script's. The harnesses would be too large for that: they
run `SchedChild` instead, a process of seven states, and `Loader` is shown to
implement it, both its steps (`ImplementsSchedChild`, proved) and the progress
that the harnesses' fairness assumes (`ImplementsChild`, checked).

### SharedDsq

One action per handler call or kernel step. `where[t]` is what a task is doing,
`dsq` the two shared queues, `local[c]` the local queue of a CPU, `phase[c]` the
CPU's place in its cycle:

    idle --WakeIdle--> first --MoveFirst--> pick/pulled | second
    second --MoveSecond--> pick/pulled
    pick/pulled --RunNext/KeepPrev--> exec,  --GoIdle--> idle
    exec --Expire/Block--> first

`MoveFirst` is lines 44 to 52 and `MoveSecond` lines 53 to 58 of the step-04
`oreore_dispatch`; each contains exactly one `scx_bpf_dsq_move_to_local`, which
is atomic because it holds the queue's lock, and the store of the turn that
follows a success. The store touches a per-CPU slot that only this CPU reads, in
`dispatch`, so nothing is lost by taking it together with the move. `SelectCpu`
and `Enqueue` are the two halves of a wakeup; `Enqueue` needs the run queue lock
of the chosen CPU, which that CPU holds from the start of `dispatch` to the pick,
except while it pulls a task of another run queue (`pulled`). `key` is the tgid
or the comm `enqueue` classifies by, `Class` is `ParityDsq` or `TeamDsq`.
`bypass` is a history variable.

Each property is stated in the module with the behaviour it is about.
`SharesCpus` says that `SharedDsq` implements `CpuSharing` under the mapping
`state <- Promised(where)`, `on <- cur`; `EveryTaskServed` adds its liveness.

### GlobalFifo

Time advances by `Tick`, and only when every step the kernel takes at once has
been taken (`Settled`). `age` is how long a task has been runnable without
running, `checked` how long the watchdog has not checked. `attached` says how the
scheduler was attached: with or without the bug of step 05 (`drops`), and in
partial or in system-wide mode. In partial mode the watchdog's worker is in the
fair class; in system-wide mode it is one of the threads that are scheduled. A
task that is on the CPU when the scheduler is attached never went through
`enqueue`. A task that is alone when its slice ends keeps running with the
kernel's default slice (`KeepRunning`).

`StallNoticed` says how late a stall may be noticed, and that depends on the mode
(`Latest`). In partial mode a check comes every half timeout: a timeout and a
half. In system-wide mode the check waits its turn like any task, so with slices
that do not fit the timeout a check may just have missed the stall and the next
one come only when the tick, a timeout later, finds it overdue: two timeouts. With
step 05 in system-wide mode there never is a check, and the tick ejects the
scheduler one timeout after the attachment. (`Latest` adds the unit of time in which
the tick notices.)

### Loader and SchedChild

`pc` follows `main.rs` line by line; every `?`, that of `ctrlc::set_handler`
included, is an alternative that ends in `"err"`, and the attach call may fail
whether or not another scheduler is in its way. The file is the same, byte for byte, in the five checkpoints and in the
lab; "map" refers to different copies of it. The kernel side is `owner`, `state`,
`kind`: a reason is claimed once (`kind`), then the state goes through
`disabling` and `exited` (`ops.exit` has recorded the exit info) to `disabled`.
If `oreore_init` fails, the attach call succeeds all the same and the reason
arrives through the exit info. Ctrl+C sets the flag at any time; before
`ctrlc::set_handler` it ends the process. `Kill` may come at any time outside the
attach call; another loader may take the kernel in between.

`ChildState` maps this to `SchedChild`. A loader that was told to leave is
`leaving`, whatever the kernel does to its scheduler; one that was killed is
`dying` until the kernel has closed its files.

### Bench

`at` is the script's command, `resume` the place where it goes on after its
cleanup: the trap of INT and TERM does not exit. The shell runs a trap when the
command at hand has ended, a `wait` at once, so a second signal runs the cleanup
inside the cleanup (modelled as one that starts again, since what is left of the
outer one finds nothing to do). A background command of a script ignores SIGINT
until it installs a handler of its own: an INT that comes before is lost, and
then the script waits. The properties therefore say what holds when the script
has ended, not that it ends. `sudo` is taken to pass signals on.

### Experiments

`Experiment` holds what the harnesses have in common. `pc` and `i` follow `run()`,
including the moment inside `Popen` of the scheduler; `known` is the list the
finally clause works on; `sched` is the loader (`SchedChild`), `w` and `gate` are
the workers and the pipes to them. A deadline may pass whenever it is tested, so
no clock is needed. Every call before the try block may fail (`PopenFails`), and
in it the making of a worker (`SpawnFails`).

A pipe has a buffer in the harness. `write(b"S")` fills it (`WriteByte`: the gate
is `filled`), `flush()` empties it into the pipe (`Flush`: `open`) unless the worker
has ended: then it raises, and the byte stays in the buffer. It also stays there
when a signal comes between the two calls. `stop_process` closes the pipe after the
worker has ended, and `close()` flushes what is left once more, to nobody: it raises
`BrokenPipeError` in the finally clause, and the rest of the clause is skipped
(`WaitWorker`, outcome `close failed`). What a destructor writes of a buffer when
the interpreter ends is left open (`LeftBehind`).

Signals come from the terminal (they reach harness, loader
and workers) or from a `kill` of the harness alone. `stop_process` is a signal,
then a wait; the wait for the loader may end in SIGKILL.

`RaceWorkers` adds the progress pages and the protocol of `race.rs`: CPU, name,
page, ready flag, gate, SCHED_EXT, start time, one step per unit, finish time,
exit. `task` is what the kernel knows of the worker: what is set too late, or
not at all, would put it in the wrong class or on the wrong CPU. A worker exists
(`SpawnWorker`) before the harness notes it (`KeepWorker`).

`RaceExperiment` adds the sampling loop of the race. A page is read field by
field (`ReadCount`, then `ReadFlag`), worker after worker, while the workers
write. `solo` is the history of B's counter at the moment at which A finished.
In `TeamExperiment` the same `start_batch` steps run twice, over `First..Last`;
`Judge` is what the loop decides after each sample, and `Arrive` the point where
the newcomers are created.

In `ParityExperiment` the parity of every future PID is an arbitrary function, so
that TLC tries all of them. `choose_workers` has a cleanup of its own
(`Unselect`), after which `run_experiment` knows no worker; a signal there skips
what is left of it, and a signal between its return and the assignment leaves
workers nobody stops.

### Workload

One process measures and the scheduler holds it back, at any point and for any
time (`HeldBack`). `periodic` reads the clock, computes what is left until the
target (`Remainder`) and sleeps for that long from whenever the sleep begins
(`Sleep` is relative): a delay between the two makes the sample late. Time passes while it sleeps, works or is held back, on both
clocks only when it works; its other steps take none. `held` is the history of
the time it was held back; the properties compare what is printed with it. A
`work_unit` costs `cost`, which the program does not know.

## 3. Runs

| run | instance | states | shows |
| --- | --- | --- | --- |
| `parity` | 4 tasks, 2 CPUs, one task pinned to each CPU | 147008 | `TypeOK`, `ExactlyOnce`, `Affinity`, `NoStranded`, `SharesCpus` |
| `rename` | 3 tasks, 2 CPUs, one pinned, one renaming | 139361 | `AlternationBound`, `EveryTaskServed` |
| `team` | A1 to A3 and B1 on one CPU | 5880 | `EqualShare`, `RoundRobin` |
| `race` | race_a, race_b, a shell and the watchdog's worker on one CPU; the race solution and step 05, each in both modes | 81056 | `TypeOK`, `ProportionalShare`, `WaitBound`, `NoFalseStall`, `StallNoticed`, `DroppedTaskRecovers` |
| `loader` | one loader, one rival | 1324 | `TypeOK`, `NoOrphan`, `ReasonReported`, `ExitInfoFresh`, `OneLateAttach`, `Released`, `ImplementsChild` |
| `bench` | the script, its loader, two hogs, a rival loader, two signals | 873380 | `EndedClean`, `NoResultAfterTrap` |
| `workload` | every command, periods 0 to 2, four samples, units of 1 to 3 | 95163 | `SleepIndependent`, `LateIsBacklog`, `MeasuresInClass`, `RateIsOfCpuTime` |
| `race_exp` | two workers, two units, two signals | 172278 | `FairStart`, `SuccessIsComplete`, `SoloIsSolo`, `NothingRuns`, `SchedulerReleased` |
| `race_exp_verdict` | two workers, one unit, no signal | violation | the first finding below |
| `team_exp` | A1, B1, one newcomer, one signal | 199293 | `FairArrival`, `SuccessIsWhole`, `NothingRuns` |
| `parity_exp` | at most 4 processes for 2 even and 1 odd, two signals | 367206 | `NoneRunsUnchosen`, `SuccessIsExact`, `NothingRuns`, `SchedulerReleased` |
| `parity_exp_release` | at most 2 processes for 1 even and 1 odd, no signal | violation | the second finding below |

Each property is stated in its module with the behaviour it is about.

Bounds and why they are enough. Two CPUs give every interleaving of two
dispatches and of a wakeup with a dispatch; the pinned tasks make a queue's head
unusable for one CPU; four tasks make it possible that both queues are non-empty
while both CPUs run. Three members of one team are the least number for which a
round within the team can be out of order. In `race` the unit is `slice_ns`;
race_a's slice and the default slice are two units. Each of the four threads that
system-wide mode schedules waits at most 6 units behind the others, and the
watchdog's worker starts to wait 6 units after its last check: the timeout of 12
units just fits. The branch of `Latest` for slices that do not fit is left to the
proof.
The number of signals is bounded by `MaxSignals`: the second
already cuts the cleanup short, and a third finds nothing new to interrupt. Four
processes for three workers make it possible that one is rejected and that the
attempts run out. One newcomer is the least the team experiment accepts. In
`workload`, `MaxHeld` = 5 is more than two periods, so that a delay can outlast
several wakeups and be followed by another; four samples let the schedule catch
up in between; `Limit` = 4 is not a multiple of a cost of 3. The proofs of
section 4 remove the bounds for the safety part. No counter is bounded by a
state constraint: the slices, the units and the watchdog bound them.

Runs with `CHECK_DEADLOCK FALSE` end on purpose: `race` with the ejection,
`workload` with its process, the experiments with the end of the harness. The
others are checked for deadlocks.

Fairness. `SharedDsq`: every CPU goes on with its cycle and every slice ends
(the timer), weakly fair; `Enqueue` is strongly fair because the run queue lock,
a queued spinlock, is free again and again. Blocking, waking and renaming are
not fair. `GlobalFifo`: time and the kernel's steps go on. `Loader`: the process
runs and the kernel finishes a disabling it began; signals, ejections and the
rival are not fair. The experiments: the processes run; a race that goes on and
on is given up (the limits of 120 s and 30 s); signals and ejections are not
fair. The progress of the loader that they assume is `SchedChild!Progress`, which
`loader` shows. `Bench` and `Workload` are checked for safety only.

### Findings

1. `race_experiment.py` reads the progress pages at line 151 and polls the workers
   at line 156. A worker that stores its finish time and exits in between is
   reported as "stopped without completing its work" (line 158) although it
   completed it. `race_exp_verdict` shows the shortest such history.
2. `src/handson/shared-dsq.md:267` says that the scheduler is released when
   the experiment ends. If a worker has ended before its byte is sent, `flush()`
   (`dsq_experiment.py:129`) raises and leaves the byte in the buffer; the finally
   clause comes to `process.stdin.close()` (line 61), which raises again, and
   `stop_process(scheduler, SIGINT)` (line 169) is never reached: the scheduler stays
   attached, without any signal. `parity_exp_release` shows it on the parity
   experiment; the race experiments use the same `stop_process`.

## 4. Proofs

Every theorem below holds for all values of the constants that satisfy the
assumptions named in the modules; TLC evaluates these on every run. Each system
has one inductive invariant, with an `Init` lemma, a lemma per kind of step and
a last theorem per property. Every safety property that a run checks is stated by
a theorem.

**`SharedDsqProofs`**, from the four assumptions of `SharedDsq` (`None` is no
task; every task may use some CPU; keys and classes have their types):
`Invariance`; `TypeCorrect`, `NoTaskLostOrDoubled`, `AffinityRespected`,
`Alternation`, `NothingStranded` (the invariants of `parity` and `rename`);
`ImplementsSharing` (`Spec => SharesCpus`); and for `TeamRace`, under the
hypothesis `OneCpuAssumption` (the workers are pinned to one CPU),
`TeamsShareEqually` and `TeamGoesRound`.

`IInv` is `TypeOK`, `ExactlyOnce` and `Affinity`, which hold each other up (that
a task taken out of a queue was nowhere else needs all three parts of
`ExactlyOnce`), with two strengthenings. `AlternationBound` is not inductive: it
needs `TurnInv`, that a CPU which passed a task over has its turn on the task's
queue and is not about to try the other. `NoStranded` needs `StrandInv`: a CPU
between its two calls found nothing of its own run queue in the first queue, and
a CPU about to pick has either moved a task or has none of its own waiting; this
holds because an enqueue for a CPU waits for its run queue lock, and a CPU that
released the lock has a task to run. The proof has a lemma per part of `IInv`
with a step per action; `MoveEffect` says once what a successful move does, for
both calls. For the refinement, `Invisible` handles the steps that change no
promised state and `SharingStep` maps the others: `SelectCpu` is `Wake`, `Block`
is `Sleep`, `RunNext` is `Start` or `Switch`.

For the team race, `QueueCases` says that a step leaves the queues alone, appends
one task or is a move of `dispatch`. `EqualShare` is not inductive: `Balance` adds
that the team which is one slice ahead is not next, and `GoneRound` that the task
on the CPU belongs to the queue that is not next. The latter is the point of the
argument: the running task is in no queue when `dispatch` chooses, but it is the
other team's, so the queue whose turn it is holds a task as long as both teams
compete (`TurnTaken`), and the second call of `dispatch` is never reached. Nothing
is assumed about the sizes of the teams, and members may change team by renaming
themselves, which the run leaves out. `RoundRobin` needs `InTurn`: whoever was
dispatched while a member waited is behind it when it waits again.

**`GlobalFifoProofs`**, for any finite set of tasks, any slices, default slice,
timeout, sleepers and ways of attaching: `TypeCorrect`, `WaitIsBounded`,
`StallsAreNoticed`, `NoFalseAlarm`; for the race, under the hypothesis
`RacersAssumption` (the racers are two of the tasks), `SharesInProportion`; and
`StepsShareCpu`, that every step before the ejection is one of `CpuSharing`, step
05 included (what step 05 breaks is the liveness of `CpuSharing`).

`WaitBound` compares a wait with a sum over the other tasks, and becomes inductive
as `Served`: what `t` has waited, plus what is left of the slice on the CPU, is at
most the sum of one run of each task that is not before `t` in the queue
(`Behind`). When the head of the queue runs, it joins `Behind(t)`, and the sum
grows by exactly the run it may take; an expired task stays in it, since it is
appended behind `t`. `QueueExact`, `CpuExact` and `Placed` say who is where.
The sum is a recursive fold of the library, and `TotalSplit` (taking any element
out of it) holds because its recursion has one solution on the finite sets:
`SumExists` and `SumsExist` find that solution, and `TotalFunction` identifies the
fold with it, each by a least counterexample (`Least`, `Smallest`), since the
prover has no induction scheme to instantiate.

`Checks` bounds the age of the last check by the wait of the watchdog's thread, and
`Aged` says that at the last check nobody had waited for longer than the timeout.
`StallNoticed` follows from `Aged` and the tick's limit; `NoFalseStall` is not
inductive but a consequence: when the slices fit, `Served` and `Checks` leave
neither the check nor the tick a reason to eject (`NoReason`).
`ProportionalShare` is proved through `Share`, which makes the bound depend on whose
turn it is: who runs is counted as if its slice were used up, and a racer that is
still to come is behind by one round (a slice of each) more than after its turn.
The order of the two in the queue decides (`QueueExact` again), and that two
competitors of which neither runs are both in it.

**`BenchProofs`**, about the loader: `TypeCorrect`, `NothingAttached`,
`ReasonKnown`, `NeverStale`, `LateOnce`, and `ImplementsSchedChild`
(`Spec => Child!Spec`). `ReasonReported`
is not inductive: the loader detaches without looking at the exit info, so the
invariant must follow the kernel. `Recorded` says that a reason is claimed before
a disabling begins and recorded before the scheduler is given up, so that behind
an attachment which has ended there is an exit info; `Attached` ties the place in
`main.rs` to the owner; `FreshSkeleton` is why a restart opens a new skeleton;
`Overlooked` why the flag can be missed once only. For the refinement each step
is shown to change `ChildState` as `SchedChild` allows, or not at all.

About the script, for any number of signals: `LeavesNothing` and `NothingSpoiled`.
They rest on the loader's invariant, since the loader's actions are the script's.
`Noted` says that only between the start of a process and the next
assignment the script does not know it, and since the script goes on after a
trap, it comes to that assignment before it can end; `Cleaned` what the cleanup
has done at each of its commands; and once a cleanup is over the temporary
directory is gone, so that there is nothing to print.

**`RaceWorkersProofs`** has the lemmas about the workers that both races need:
`WorkerEffect` says once what a worker's step may change (its page only grows, it
passes an open gate only, it prepares itself in order), `HitKeeps` and
`KilledHits` the same of a worker that is started, stopped or hit by a signal.

**`RaceExperimentProofs`**, for any amount of work and any number of signals:
`StartsFair`, `SuccessTrue`, `AloneIsAlone`. `FairStart` asks
that both are ready and prepared when the first computes; SCHED_EXT a worker enters
by itself after its gate, so that it is asked only of the one that computes.
`Gated` is that no byte is written, not even to the buffer, before all workers are
ready, and no gate is passed that was not written to; `Worked` that
what a sample says of a finished worker stays true; `ReadInOrder` that B's
counter is read after A's flag in every round, so that a sample with A finished
holds a counter that is not older than `solo`.

**`TeamExperimentProofs`**, for any number of newcomers too: `ArrivesFair`,
`SuccessWhole`. `Control` says that the loops stay within the batch and which
workers are noted by then, `Gated` is the gate of each batch, `Arrived` that the
newcomers exist only when both first members have started, because the samples
are old but never wrong (`page[k].started` is never reset).

**`ParityExperimentProofs`**, for any parities of the PIDs, any numbers wanted and
attempts: `OnlyChosenRun`, `ExactlyTheWanted`. `ChosenBound` (no more of a parity
than wanted) with "none is missing" gives the exact numbers; `AfterChoice` says
that a process which passed its gate is a chosen one of a complete choice, and
that the harness never goes back to choosing.

**`WorkloadProofs`**, for any periods, samples, costs and delays:
`ClassOfMeasurement`, `EachSleepAlone`, `EachDelayOnce`, `RateOfWork`.
`LateIsBacklog` is not inductive: `PeriodicInv` follows the backlog through the
sleep, the sample and the report. `Reading` is its heart: when the clock is read for the
next sleep, one period has been taken off what is left of every earlier delay, and
all that is held back from this reading on adds to it; `BacklogIsMax` turns the bound and its witness into the
maximum of the property. `RateOfWork` needs that the CPU clock has advanced by
the cost of the units (`CalibrateInv`) and that an expanded fraction has the same
quotient (`Expanded`).

Only model-checked. Everything with fairness: `EveryTaskServed`,
`DroppedTaskRecovers`, `Released`, the progress part of `ImplementsChild`,
`NothingRuns`, `SchedulerReleased` (`ENABLED` is outside the prover's reach).

## 5. Not modelled

* `reset.sh`: it tests the state and a name, then sends SysRq-S; what that does to
  a loader is `Loader!Eject`. The lack of a lock between test and key is listed as
  a hazard.
* `bench.sh CASE=fair` and `CASE=dsq`: the first is `step` without the loader, the
  second calls the parity experiment.
* Build, step and VM scripts: straight-line wrappers of other programs, with no
  state that lasts but a build cache. The book is text.
* Tasks of higher classes taking a CPU away, changes of affinity, CPU hotplug
  and synchronous wakeups, in `SharedDsq`. A pull is approximated by a phase in
  which the puller's lock is free.
* `GlobalFifo` has one CPU: the experiments pin their tasks to one.
* A second scheduler beside the experiments (`check_other_tasks` may complain at
  any time, which stands for it), and a loader that restarts after a hotplug
  between two looks at the state.
* The loader's `--slice-us` option and its log lines; the experiments' division of
  counts by times and their display; the sums and maxima the workload generator
  prints after its rows.

Two cases leave the scheduler attached, and `SchedulerReleased` excepts them by the
outcome. A SIGTERM that reaches a harness alone while it starts the scheduler or
cleans up (`cut short`): the guides promise the cleanup for Ctrl+C, which reaches
the loader as well. And a byte that was never sent, whether its worker had ended or
a signal came between write and flush (`close failed`): the second finding.

## 6. What could follow

1. The windows of `phase_rates`: samples read page by page, with the time taken
   last, against the true progress of the workers.
2. A loader that restarts after a hotplug beside the experiments, through a
   `SchedChild` whose kernel state tells the two attachments apart.
3. `GlobalFifo` on several CPUs, without time, as another implementation of
   `CpuSharing`.
