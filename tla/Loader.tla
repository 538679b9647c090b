------------------------------- MODULE Loader -------------------------------
(***************************************************************************)
(* The loader (main.rs, the same in every checkpoint) with the part of the *)
(* kernel it talks to: it attaches its scheduler, polls until Ctrl+C or    *)
(* until the kernel has ejected it, detaches, and reports why it ended; a  *)
(* CPU hotplug makes it start over.                                        *)
(*                                                                         *)
(* Only one scheduler can be attached to the kernel.  Disabling one is     *)
(* asynchronous: the reason is claimed once, then the tasks are taken      *)
(* away, ops.exit records the reason for the loader (UEI_RECORD), and only *)
(* then another scheduler can be attached.                                 *)
(***************************************************************************)
EXTENDS Naturals

VARIABLES
    pc,         \* where the loader's process is
    handler,    \* ctrlc::set_handler was called
    shutdown,   \* the flag the handler sets
    uei,        \* the exit info of the present skeleton
    owner,      \* whose scheduler the kernel has: "none", "me" or "other"
    state,      \* /sys/kernel/sched_ext/state
    kind,       \* the reason claimed for disabling it, or "none"
    late        \* history: attachments since Ctrl+C was noted

vars == <<pc, handler, shutdown, uei, owner, state, kind, late>>
kernel == <<owner, state, kind>>

(* Why a scheduler is disabled: its link is dropped; a CPU comes or goes;  *)
(* SysRq-S; a stall or another error.                                      *)
Kinds == {"unreg", "hotplug", "sysrq", "error"}

(* uei_report turns these into Err, which ends main with status 1. *)
Failures == {"sysrq", "error"}

(* exit_info.should_restart() *)
Restarts == {"hotplug"}

Ended == {"ok", "err", "killed"}

Init ==
    /\ pc = "start"
    /\ handler = FALSE
    /\ shutdown = FALSE
    /\ uei = "none"
    /\ owner = "none"
    /\ state = "disabled"
    /\ kind = "none"
    /\ late = 0

-----------------------------------------------------------------------------
(* ctrlc::set_handler, which may fail. *)
InstallHandler ==
    /\ pc = "start"
    /\ \/ handler' = TRUE /\ pc' = "open"
       \/ UNCHANGED handler /\ pc' = "err"
    /\ UNCHANGED <<shutdown, uei, kernel, late>>

(* Mutant: the skeleton of the previous round is used again. *)
OpenReused ==
    /\ pc = "open"
    /\ pc' \in {"attach", "err"}
    /\ UNCHANGED <<handler, shutdown, uei, kernel, late>>

(* scx_ops_open, the slice and the flags, scx_ops_load: a new skeleton,    *)
(* with a zeroed exit info.  Either call may fail.                         *)
OpenAndLoad ==
    /\ pc = "open"
    /\ pc' \in {"attach", "err"}
    /\ uei' = "none"
    /\ UNCHANGED <<handler, shutdown, kernel, late>>

(* scx_ops_attach: refused while the kernel has a scheduler; it may fail   *)
(* for another reason, too.                                                *)
Attach ==
    /\ pc = "attach"
    /\ \/ pc' = "err" /\ UNCHANGED <<kernel, late>>
       \/ /\ state = "disabled"
          /\ pc' = "attaching"
          /\ owner' = "me"
          /\ state' = "enabling"
          /\ late' = IF shutdown THEN late + 1 ELSE late
          /\ UNCHANGED kind
    /\ UNCHANGED <<handler, shutdown, uei>>

(* The kernel enables the scheduler. *)
Enabled ==
    /\ pc = "attaching"
    /\ owner = "me" /\ state = "enabling"
    /\ state' = "enabled"
    /\ pc' = "poll"
    /\ UNCHANGED <<handler, shutdown, uei, owner, kind, late>>

(* oreore_init failed to create a queue: the kernel disables the scheduler *)
(* and lets the attach call succeed, so that the reason reaches ops.exit.  *)
InitFailed ==
    /\ pc = "attaching"
    /\ owner = "me" /\ state = "enabling"
    /\ state' = "disabling"
    /\ kind' = "error"
    /\ UNCHANGED <<pc, handler, shutdown, uei, owner, late>>

AttachReturns ==
    /\ pc = "attaching"
    /\ owner # "me"
    /\ pc' = "poll"
    /\ UNCHANGED <<handler, shutdown, uei, kernel, late>>

(* Mutants: the loop looks at one of the two conditions only. *)
PollIgnoresFlag ==
    /\ pc = "poll"
    /\ pc' = IF uei = "none" THEN "sleep" ELSE "drop"
    /\ UNCHANGED <<handler, shutdown, uei, kernel, late>>
PollIgnoresExit ==
    /\ pc = "poll"
    /\ pc' = IF ~shutdown THEN "sleep" ELSE "drop"
    /\ UNCHANGED <<handler, shutdown, uei, kernel, late>>

(* while !shutdown && !uei_exited { sleep(250 ms) } *)
Poll ==
    /\ pc = "poll"
    /\ pc' = IF ~shutdown /\ uei = "none" THEN "sleep" ELSE "drop"
    /\ UNCHANGED <<handler, shutdown, uei, kernel, late>>

WakeUp ==
    /\ pc = "sleep"
    /\ pc' = "poll"
    /\ UNCHANGED <<handler, shutdown, uei, kernel, late>>

(* Mutant: it does not matter whose scheduler the kernel has. *)
UnregisterAny == kind' = IF kind = "none" THEN "unreg" ELSE kind

(* The kernel's side of giving up the loader's scheduler; an earlier       *)
(* reason stands.                                                          *)
Unregister ==
    kind' = IF owner = "me" /\ kind = "none" THEN "unreg" ELSE kind

(* drop(link) *)
DropLink ==
    /\ pc = "drop"
    /\ Unregister
    /\ pc' = "dropping"
    /\ UNCHANGED <<handler, shutdown, uei, owner, state, late>>

(* Mutant: the call does not wait for the scheduler to be disabled. *)
DroppedAtOnce ==
    /\ pc = "dropping"
    /\ pc' = "report"
    /\ UNCHANGED <<handler, shutdown, uei, kernel, late>>

(* The call returns when the scheduler is disabled. *)
Dropped ==
    /\ pc = "dropping"
    /\ owner # "me"
    /\ pc' = "report"
    /\ UNCHANGED <<handler, shutdown, uei, kernel, late>>

(* Mutant: a restart does not look at the flag. *)
AfterReportRestart ==
    IF uei \in Failures THEN "err" ELSE IF uei \in Restarts THEN "open" ELSE "ok"

(* uei_report(..)?, then break or go round the loop. *)
AfterReport ==
    IF uei \in Failures THEN "err"
    ELSE IF shutdown \/ uei \notin Restarts THEN "ok"
    ELSE "open"

Report ==
    /\ pc = "report"
    /\ pc' = AfterReport
    /\ UNCHANGED <<handler, shutdown, uei, kernel, late>>

-----------------------------------------------------------------------------
(* SIGINT or SIGTERM, at any time: before the handler it ends the process. *)
Signal ==
    /\ pc \notin Ended
    /\ IF handler THEN shutdown' = TRUE /\ UNCHANGED pc
                  ELSE pc' = "killed" /\ UNCHANGED shutdown
    /\ UNCHANGED <<handler, uei, kernel, late>>

(* SIGKILL, at any time outside the attach call. *)
Kill ==
    /\ pc \notin Ended \cup {"attaching"}
    /\ pc' = "killed"
    /\ UNCHANGED <<handler, shutdown, uei, kernel, late>>

(* The kernel closes the files of a process that was killed. *)
CloseFiles ==
    /\ pc = "killed"
    /\ owner = "me" /\ kind = "none"
    /\ Unregister
    /\ UNCHANGED <<pc, handler, shutdown, uei, owner, state, late>>

(* The kernel decides to disable the scheduler it has. *)
Eject ==
    /\ state = "enabled"
    /\ kind = "none"
    /\ kind' \in {"hotplug", "sysrq", "error"}
    /\ UNCHANGED <<pc, handler, shutdown, uei, owner, state, late>>

Disabling ==
    /\ state = "enabled"
    /\ kind # "none"
    /\ state' = "disabling"
    /\ UNCHANGED <<pc, handler, shutdown, uei, owner, kind, late>>

(* oreore_exit: UEI_RECORD. *)
OpsExit ==
    /\ state = "disabling"
    /\ state' = "exited"
    /\ uei' = IF owner = "me" THEN kind ELSE uei
    /\ UNCHANGED <<pc, handler, shutdown, owner, kind, late>>

Disabled ==
    /\ state = "exited"
    /\ state' = "disabled"
    /\ owner' = "none"
    /\ kind' = "none"
    /\ UNCHANGED <<pc, handler, shutdown, uei, late>>

(* Another loader's scheduler takes the kernel, and leaves it. *)
OtherAttaches ==
    /\ state = "disabled"
    /\ state' = "enabled"
    /\ owner' = "other"
    /\ UNCHANGED <<pc, handler, shutdown, uei, kind, late>>

OtherLeaves ==
    /\ owner = "other" /\ kind = "none"
    /\ kind' = "unreg"
    /\ UNCHANGED <<pc, handler, shutdown, uei, owner, state, late>>

LoaderStep ==
    \/ InstallHandler \/ OpenAndLoad \/ Attach \/ AttachReturns
    \/ Poll \/ WakeUp \/ DropLink \/ Dropped \/ Report

KernelStep == Enabled \/ InitFailed \/ CloseFiles \/ Disabling \/ OpsExit \/ Disabled

Next ==
    \/ LoaderStep \/ KernelStep
    \/ Signal \/ Kill \/ Eject \/ OtherAttaches \/ OtherLeaves

Spec == Init /\ [][Next]_vars

(* The loader's process runs, and the kernel finishes what it began; the   *)
(* signals, the ejections and the other scheduler need not happen.         *)
Fairness == WF_vars(LoaderStep) /\ WF_vars(KernelStep)

FairSpec == Spec /\ Fairness

-----------------------------------------------------------------------------
(* Type correctness; a reason is only ever claimed for a scheduler that    *)
(* the kernel has.                                                         *)
TypeOK ==
    /\ pc \in {"start", "open", "attach", "attaching", "poll", "sleep", "drop",
               "dropping", "report"} \cup Ended
    /\ handler \in BOOLEAN /\ shutdown \in BOOLEAN
    /\ uei \in Kinds \cup {"none"}
    /\ owner \in {"none", "me", "other"}
    /\ state \in {"disabled", "enabling", "enabled", "disabling", "exited"}
    /\ kind \in Kinds \cup {"none"}
    /\ (owner = "none") <=> (state = "disabled")
    /\ kind # "none" => owner # "none"
    /\ late \in Nat

(* A loader that returns from main, with or without an error and on every  *)
(* early return, leaves none of its schedulers in the kernel.              *)
NoOrphan == pc \in {"ok", "err"} => owner # "me"

(* When the reason is reported the kernel has recorded it, whoever ended   *)
(* the scheduler; and a scheduler that failed never ends in success, even  *)
(* when Ctrl+C came at the same time.                                      *)
ReasonReported ==
    /\ pc = "report" => uei # "none"
    /\ pc = "ok" => uei \notin Failures

(* The exit info the loader polls is about the scheduler it has attached   *)
(* now: a running scheduler is never taken for one that has ended before   *)
(* the restart.                                                            *)
ExitInfoFresh ==
    pc \in {"attaching", "poll", "sleep"} /\ owner = "me" /\ state \in {"enabling", "enabled"}
        => uei = "none"

(* After Ctrl+C the scheduler is attached once more at most: the flag that *)
(* is set after the test of should_restart is noticed in the next round.   *)
OneLateAttach == late <= 1

(* Ctrl+C ends the loader, whatever it was doing and whatever the kernel   *)
(* does to its scheduler meanwhile; and a loader that has ended after it,  *)
(* or was killed, leaves its scheduler detached.                           *)
Released == shutdown \/ pc = "killed" ~> pc \in Ended /\ owner # "me"

(* The loader as the harnesses see it. *)
ChildState ==
    CASE pc \in Ended -> IF owner = "me" THEN "dying" ELSE "ended"
      [] pc \notin Ended /\ shutdown -> "leaving"
      [] pc \notin Ended /\ ~shutdown ->
            IF owner = "me" /\ state = "enabled" THEN "enabled"
            ELSE IF pc \in {"start", "open", "attach", "attaching"} THEN "starting"
            ELSE "ejected"

Child == INSTANCE SchedChild WITH sched <- ChildState

(* The loader is the child process that the harnesses are checked with,    *)
(* and makes the progress they assume: it notices an ejection and ends or  *)
(* starts over, and once it was told to leave it ends, detached.           *)
ImplementsChild == Child!Spec /\ Child!Progress
=============================================================================
