-------------------------------- MODULE Bench --------------------------------
(***************************************************************************)
(* make bench CASE=step (bench.sh), the parent of a loader: the script     *)
(* starts the loader and two hogs in the background, measures under perf,  *)
(* prints what perf wrote to a temporary directory, and stops everything   *)
(* in cleanup.                                                             *)
(*                                                                         *)
(* cleanup is the trap of INT and TERM too, and does not exit: the shell   *)
(* runs it when the command at hand has ended (a wait ends at once), also  *)
(* inside itself, and then goes on with the script.  A cleanup that is     *)
(* interrupted is modelled as one that starts again: what is left of the   *)
(* outer one has nothing more to do after the inner one.  set -e and the   *)
(* end of the script lead to the trap of EXIT, which is cleanup as well.   *)
(***************************************************************************)
EXTENDS Loader

CONSTANT MaxSignals     \* bound: how many signals the script is sent

ASSUME SignalsAssumption == MaxSignals \in Nat

Hogs == {1, 2}

VARIABLES
    at,         \* the script's next command, or the one that runs
    resume,     \* where it goes on after cleanup
    pending,    \* a signal came and its trap has not run yet
    tmp,        \* the temporary directory exists
    launched,   \* the loader was started in the background ...
    noted,      \* ... and scheduler_pid assigned
    hog,        \* hog[h]: the process of hog h
    hog_pids,   \* the hogs that cleanup knows of
    printed,    \* what was printed: "nothing", "clean", or "spoiled", when a
                \* cleanup had begun before
    spoiled,    \* history: a cleanup has begun
    sent        \* how many signals were sent

script == <<at, resume, pending, tmp, printed, spoiled, sent>>
started == <<launched, noted, hog, hog_pids>>
benchVars == <<vars, script, started>>

BenchInit ==
    /\ Init
    /\ at = "build" /\ resume = "exit"
    /\ pending = FALSE
    /\ tmp = TRUE
    /\ launched = FALSE /\ noted = FALSE
    /\ hog = [h \in Hogs |-> "none"] /\ hog_pids = {}
    /\ printed = "nothing" /\ spoiled = FALSE
    /\ sent = 0

-----------------------------------------------------------------------------
(* The script is at a place, and no trap has to run first. *)
At(place) == at = place /\ ~pending

(* On to another command; nothing else of the script changes. *)
Then(place) == at' = place /\ UNCHANGED <<resume, pending, tmp, printed, spoiled, sent>>

(* A command that may fail, by itself or because a Ctrl+C ended it too. *)
Command(place, next) ==
    /\ At(place)
    /\ Then(next) \/ Then("exit")
    /\ UNCHANGED <<vars, started>>

Build == Command("build", "launch")

(* sudo scheduler --partial >tmp_dir/scheduler.log & : without the         *)
(* directory the loader does not even start.                               *)
Launch ==
    /\ At("launch")
    /\ launched' = TRUE
    /\ pc' = IF tmp THEN "start" ELSE "err"
    /\ Then("keep")
    /\ UNCHANGED <<handler, shutdown, uei, kernel, late, noted, hog, hog_pids>>

KeepScheduler ==
    /\ At("keep")
    /\ noted' = TRUE
    /\ Then("await")
    /\ UNCHANGED <<vars, launched, hog, hog_pids>>

(* Up to 50 looks at the state, which change nothing; only the sleep in    *)
(* between may fail.                                                       *)
Await ==
    /\ At("await")
    /\ Then("check") \/ (state # "enabled" /\ Then("exit"))
    /\ UNCHANGED <<vars, started>>

CheckEnabled ==
    /\ At("check")
    /\ Then(IF state = "enabled" THEN "hog" ELSE "exit")
    /\ UNCHANGED <<vars, started>>

(* A hog is started in the background, then noted. *)
StartHog ==
    /\ At("hog")
    /\ hog' = [hog EXCEPT ![IF hog[1] = "none" THEN 1 ELSE 2] = "running"]
    /\ Then("keep_hog")
    /\ UNCHANGED <<vars, launched, noted, hog_pids>>

KeepHog ==
    /\ At("keep_hog")
    /\ hog_pids' = {h \in Hogs : hog[h] # "none"}
    /\ Then(IF hog_pids' = Hogs THEN "settle" ELSE "hog")
    /\ UNCHANGED <<vars, launched, noted, hog>>

Settle == Command("settle", "perf")

(* perf writes into the temporary directory. *)
StartPerf ==
    /\ At("perf")
    /\ Then(IF tmp THEN "measuring" ELSE "exit")
    /\ UNCHANGED <<vars, started>>

(* The shell waits for perf before it runs a trap. *)
EndPerf ==
    /\ at = "measuring"
    /\ Then("print") \/ Then("exit")
    /\ UNCHANGED <<vars, started>>

(* sed prints what perf wrote, if it is still there. *)
PrintResult ==
    /\ At("print")
    /\ at' = "exit"
    /\ printed' = IF ~tmp THEN printed ELSE IF spoiled THEN "spoiled" ELSE "clean"
    /\ UNCHANGED <<vars, started, resume, pending, tmp, spoiled, sent>>

-----------------------------------------------------------------------------
InCleanup == at \in {"kill_hogs", "wait_hogs", "int_sched", "wait_sched", "rm"}

Cleanup(after) == at' = "kill_hogs" /\ resume' = after

(* The trap of EXIT. *)
Exit ==
    /\ At("exit")
    /\ Cleanup("ended")
    /\ UNCHANGED <<vars, started, pending, tmp, printed, spoiled, sent>>

(* The trap of INT and TERM. *)
Trap ==
    /\ pending
    /\ at \notin {"measuring", "ended"}
    /\ pending' = FALSE
    /\ Cleanup(IF InCleanup THEN resume ELSE at)
    /\ UNCHANGED <<vars, started, tmp, printed, spoiled, sent>>

KillHogs ==
    /\ At("kill_hogs")
    /\ spoiled' = TRUE
    /\ hog' = [h \in Hogs |-> IF h \in hog_pids /\ hog[h] = "running" THEN "dying" ELSE hog[h]]
    /\ at' = "wait_hogs"
    /\ UNCHANGED <<vars, launched, noted, hog_pids, resume, pending, tmp, printed, sent>>

WaitHogs ==
    /\ At("wait_hogs")
    /\ \A h \in hog_pids : hog[h] = "gone"
    /\ Then("int_sched")
    /\ UNCHANGED <<vars, started>>

(* kill -INT: a background command of a script ignores SIGINT until it     *)
(* installs a handler.                                                     *)
Interrupt == shutdown' = (shutdown \/ (handler /\ pc \notin Ended))

IntScheduler ==
    /\ At("int_sched")
    /\ IF noted THEN Interrupt ELSE UNCHANGED shutdown
    /\ Then("wait_sched")
    /\ UNCHANGED <<pc, handler, uei, kernel, late, started>>

(* Mutant: the script does not wait for the loader. *)
WaitSchedulerNot == At("wait_sched") /\ Then("rm") /\ UNCHANGED <<vars, started>>

WaitScheduler ==
    /\ At("wait_sched")
    /\ noted => pc \in Ended
    /\ Then("rm")
    /\ UNCHANGED <<vars, started>>

(* Mutant: the directory is left for the system to clean up. *)
RemoveTmpNot == At("rm") /\ Then(resume) /\ UNCHANGED <<vars, started>>

RemoveTmp ==
    /\ At("rm")
    /\ tmp' = FALSE
    /\ at' = resume
    /\ UNCHANGED <<vars, started, resume, pending, printed, spoiled, sent>>

-----------------------------------------------------------------------------
(* A signal to the script; a Ctrl+C reaches the loader too. *)
SignalScript ==
    /\ at # "ended"
    /\ sent < MaxSignals
    /\ sent' = sent + 1
    /\ pending' = TRUE
    /\ UNCHANGED shutdown \/ (launched /\ Interrupt)
    /\ UNCHANGED <<pc, handler, uei, kernel, late, at, resume, tmp, printed, spoiled, started>>

(* A hog ends: it was killed, it could not enter SCHED_EXT, its time is up. *)
HogEnds ==
    /\ \E h \in Hogs : hog[h] \in {"running", "dying"} /\ hog' = [hog EXCEPT ![h] = "gone"]
    /\ UNCHANGED <<vars, script, launched, noted, hog_pids>>

(* The loader runs its loop once it was started. *)
SchedulerStep ==
    /\ launched
    /\ LoaderStep
    /\ UNCHANGED <<script, started>>

ScriptStep ==
    \/ Build \/ Launch \/ KeepScheduler \/ Await \/ CheckEnabled
    \/ StartHog \/ KeepHog \/ Settle \/ StartPerf \/ EndPerf \/ PrintResult

CleanupStep ==
    \/ Exit \/ Trap \/ KillHogs \/ WaitHogs \/ IntScheduler \/ WaitScheduler \/ RemoveTmp

BenchNext ==
    \/ ScriptStep \/ CleanupStep \/ SignalScript \/ HogEnds \/ SchedulerStep
    \/ (KernelStep \/ Eject \/ OtherAttaches \/ OtherLeaves) /\ UNCHANGED <<script, started>>

BenchSpec == BenchInit /\ [][BenchNext]_benchVars

-----------------------------------------------------------------------------
(* When the script has ended, whenever signals came, nothing it started is *)
(* left: no hog, no loader, and none of the loader's schedulers in the     *)
(* kernel, although a trap may run between the start of a process and the  *)
(* moment at which the script notes it.                                    *)
EndedClean ==
    at = "ended" =>
        /\ \A h \in Hogs : hog[h] \in {"none", "gone"}
        /\ launched => pc \in Ended
        /\ owner # "me"

(* The script goes on after a trap, but then it prints no result: nothing  *)
(* is measured without the load and the scheduler that the trap stopped.   *)
NoResultAfterTrap == printed # "spoiled"
=============================================================================
