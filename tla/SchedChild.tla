----------------------------- MODULE SchedChild -----------------------------
(***************************************************************************)
(* What the experiment harnesses rely on about the scheduler's loader: a   *)
(* child process whose scheduler is, or is not, the one the kernel has     *)
(* enabled.  Loader implements it.                                         *)
(***************************************************************************)
VARIABLE sched      \* "none" before it is started, "ended" when it has ended
                    \* and its scheduler is detached

SchedGone == {"none", "ended"}

(* It attaches its scheduler, or fails; it notices that the kernel ejected *)
(* the scheduler, and ends or, after a CPU hotplug, starts over; it ends   *)
(* once it was told to leave, or was killed.                               *)
Run ==
    \/ sched = "starting" /\ sched' \in {"enabled", "ejected", "ended"}
    \/ sched = "ejected" /\ sched' \in {"starting", "ended"}
    \/ sched \in {"leaving", "dying"} /\ sched' = "ended"

Ejected == sched = "enabled" /\ sched' = "ejected"

(* SIGINT to the loader: before its handler is installed it ends it.       *)
Interrupted(s) ==
    CASE s = "starting" -> {"leaving", "ended"}
      [] s \in {"enabled", "ejected"} -> {"leaving"}
      [] OTHER -> {s}

KilledLoader == sched \notin SchedGone /\ sched' \in {"dying", "ended"}

Next == Run \/ Ejected \/ sched' \in Interrupted(sched) \/ KilledLoader

Spec == sched = "starting" /\ [][Next]_sched

(* Run is taken when it can be (WF of Run, said without ENABLED: a signal  *)
(* can only postpone it).                                                  *)
Progress == \A s \in {"starting", "ejected", "leaving", "dying"} : sched = s ~> sched # s
=============================================================================
