----------------------------- MODULE Experiment -----------------------------
(***************************************************************************)
(* What the three experiment harnesses share: they start the scheduler's   *)
(* loader as a child process, wait until the kernel reports it enabled,    *)
(* and, whatever happens, stop their workers and then the loader in a      *)
(* finally clause, with stop_process.                                      *)
(*                                                                         *)
(* A signal raises KeyboardInterrupt at any point of the harness.  A       *)
(* Ctrl+C at the terminal reaches the harness, the loader and the workers; *)
(* a kill reaches the harness only.  Sleeps take no step; a deadline may   *)
(* pass whenever it is tested.                                             *)
(***************************************************************************)
EXTENDS Naturals

CONSTANTS
    N,              \* the number of workers
    MaxSignals      \* bound: how many signals are sent

ASSUME SizeAssumption == N \in Nat \ {0} /\ MaxSignals \in Nat

Workers == 1..N

VARIABLES
    pc,         \* where the harness is
    i,          \* the worker its present loop is at
    outcome,    \* how it left the try block, or "running"
    known,      \* the workers it knows of
    sched,      \* the loader, see SchedChild; the kernel's state is "enabled"
                \* when this is
    w,          \* w[k]: worker k's process
    gate,       \* gate[k]: its standard input: "shut"; with the byte S in the
                \* harness's buffer ("filled"), or in the pipe ("open"); or
                \* "closed" without it
    signals     \* how many signals were sent

Child == INSTANCE SchedChild

harness == <<i, outcome, known>>
children == <<sched, w, gate>>

Exited == {"ok", "failed"}

Init ==
    /\ pc = "popen"
    /\ i = 1
    /\ outcome = "running"
    /\ known = {}
    /\ sched = "none"
    /\ w = [k \in Workers |-> "none"]
    /\ gate = [k \in Workers |-> "shut"]
    /\ signals = 0

-----------------------------------------------------------------------------
(* An exception, or the end of the measurement, leaves the try block for   *)
(* the finally clause.                                                     *)
Raise(why) ==
    /\ outcome' = why
    /\ pc' = "stop"
    /\ i' = 1

(* On to another place in the try block. *)
Goto(place) == pc' = place /\ UNCHANGED <<i, outcome>>

(* The next worker of a loop up to last, or what follows the loop, at the  *)
(* worker next.                                                            *)
Advance(last, next, after) ==
    /\ i' = IF i = last THEN next ELSE i + 1
    /\ pc' = IF i = last THEN after ELSE pc

(* One of the checks before the scheduler is started, or Popen, fails: the *)
(* try block is not entered.                                               *)
PopenFails ==
    /\ pc = "popen"
    /\ sched = "none"
    /\ pc' = "ended"
    /\ outcome' = "no scheduler"
    /\ UNCHANGED <<i, known, children, signals>>

(* The process is forked inside Popen, before the call returns. *)
PopenScheduler ==
    /\ pc = "popen"
    /\ sched = "none"
    /\ sched' = "starting"
    /\ UNCHANGED <<pc, harness, w, gate, signals>>

PopenReturns ==
    /\ pc = "popen"
    /\ sched # "none"
    /\ pc' = "wait_enabled"
    /\ UNCHANGED <<harness, children, signals>>

(* while STATE != "enabled": the scheduler is gone, or the deadline passed *)
WaitEnabled ==
    /\ pc = "wait_enabled"
    /\ IF sched = "enabled" THEN Goto("spawn") ELSE Raise("not active")
    /\ UNCHANGED <<known, children, signals>>

-----------------------------------------------------------------------------
(* process.stdin.write(b"S"): the byte is in the buffer. *)
WriteByte ==
    /\ gate' = [gate EXCEPT ![i] = "filled"]
    /\ pc' = "flush"
    /\ UNCHANGED <<i, outcome>>

(* process.stdin.flush(), close(): the byte is in the pipe.  When the      *)
(* worker has ended the pipe is broken, and the byte stays in the buffer.  *)
(* Then the next worker up to last, or what follows.                       *)
Flush(last, after) ==
    /\ pc = "flush"
    /\ IF w[i] \in Exited THEN Raise("broken pipe") /\ UNCHANGED gate
       ELSE /\ gate' = [gate EXCEPT ![i] = "open"]
            /\ i' = IF i = last THEN 1 ELSE i + 1
            /\ pc' = IF i = last THEN after ELSE "release"
            /\ UNCHANGED outcome
    /\ UNCHANGED <<known, sched, w, signals>>

-----------------------------------------------------------------------------
(* What becomes of a pipe when the interpreter ends: a byte that is still  *)
(* in the buffer may or may not be written when the file is destroyed.     *)
LeftBehind(g) == CASE g = "shut" -> {"closed"} [] g = "filled" -> {"open", "closed"} [] OTHER -> {g}

(* The harness ends, and the pipes it holds are closed. *)
Leave ==
    /\ pc' = "ended"
    /\ \E g \in [Workers -> {"open", "closed"}] :
           (\A k \in Workers : g[k] \in LeftBehind(gate[k])) /\ gate' = g

(* process.stdin.close() of worker i, unless nothing is left to close. *)
CloseGate == gate' = [gate EXCEPT ![i] = IF @ = "shut" THEN "closed" ELSE @]

(* SIGTERM, SIGKILL or the terminal's SIGINT to a worker. *)
Killed(k) == IF w[k] \in Exited \cup {"none"} THEN w[k] ELSE "dying"

(* stop_process(process): a signal unless it has ended, then wait for it,  *)
(* and kill it when that takes too long.                                   *)
StopWorker ==
    /\ pc = "stop"
    /\ w' = IF i \in known THEN [w EXCEPT ![i] = Killed(i)] ELSE w
    /\ pc' = "wait"
    /\ UNCHANGED <<harness, sched, gate, signals>>

(* Once it has ended its pipe is closed: a byte left in the buffer is      *)
(* flushed once more, to nobody, and close() raises, in the finally clause. *)
WaitWorker ==
    /\ pc = "wait"
    /\ i \in known => w[i] \in Exited
    /\ IF i \in known /\ gate[i] = "filled" THEN Leave /\ outcome' = "close failed" /\ UNCHANGED i
       ELSE /\ IF i \in known THEN CloseGate ELSE UNCHANGED gate
            /\ i' = IF i = N THEN 1 ELSE i + 1
            /\ pc' = IF i = N THEN "stop_sched" ELSE "stop"
            /\ UNCHANGED outcome
    /\ UNCHANGED <<known, sched, w, signals>>

(* Mutant: the finally clause forgets the scheduler. *)
StopSchedulerNot ==
    /\ pc = "stop_sched"
    /\ Leave
    /\ UNCHANGED <<harness, sched, w, signals>>

(* stop_process(scheduler, SIGINT) *)
StopScheduler ==
    /\ pc = "stop_sched"
    /\ sched' \in Child!Interrupted(sched)
    /\ pc' = "wait_sched"
    /\ UNCHANGED <<harness, w, gate, signals>>

WaitScheduler ==
    /\ pc = "wait_sched"
    /\ \/ sched \in Child!SchedGone /\ Leave /\ UNCHANGED sched
       \/ sched = "leaving" /\ sched' = "dying" /\ UNCHANGED <<pc, gate>>
    /\ UNCHANGED <<harness, w, signals>>

HarnessStart == PopenFails \/ PopenScheduler \/ PopenReturns \/ WaitEnabled
HarnessStop == StopWorker \/ WaitWorker \/ StopScheduler \/ WaitScheduler

-----------------------------------------------------------------------------
Senders == {"terminal", "kill"}

(* KeyboardInterrupt in the harness: inside Popen of the scheduler it      *)
(* skips the finally clause, in the finally clause what is left of it.     *)
(* The outcome tells when this was the work of a kill.                     *)
InterruptHarness(sender) ==
    IF pc \in {"popen", "stop", "wait", "stop_sched", "wait_sched"}
    THEN /\ Leave
         /\ outcome' = IF sender = "kill" THEN "cut short" ELSE "interrupted"
         /\ UNCHANGED i
    ELSE Raise("interrupted") /\ UNCHANGED gate

(* A signal to the harness, and what it does to the other processes: a     *)
(* Ctrl+C is a SIGINT to all processes of the terminal.                    *)
Signalled(sender) ==
    /\ pc # "ended"
    /\ signals < MaxSignals
    /\ signals' = signals + 1
    /\ IF sender = "terminal"
       THEN sched' \in Child!Interrupted(sched) /\ w' = [k \in Workers |-> Killed(k)]
       ELSE UNCHANGED <<sched, w>>
    /\ UNCHANGED known

Interrupt == \E sender \in Senders : Signalled(sender) /\ InterruptHarness(sender)

(* The loader runs; the kernel ejects its scheduler. *)
SchedStep == Child!Run /\ UNCHANGED <<pc, harness, w, gate, signals>>
Eject == Child!Ejected /\ UNCHANGED <<pc, harness, w, gate, signals>>

-----------------------------------------------------------------------------
(* The harness ends, and every worker with it: no wait, and none of the    *)
(* cleanup, lasts for ever, whichever process fails; and a worker that was *)
(* not stopped, because a signal cut the cleanup short or came before it   *)
(* was noted, finds its gate closed or finishes its work.                  *)
NothingRuns == <>(pc = "ended" /\ \A k \in Workers : w[k] \in Exited \cup {"none"})

(* When the harness has ended, by itself or after signals at any moment,   *)
(* the scheduler is detached, unless a kill of the harness alone came      *)
(* inside Popen or inside the cleanup, or a close() of the cleanup raised. *)
SchedulerReleased ==
    pc = "ended" /\ outcome \notin {"cut short", "close failed"} ~> sched \in Child!SchedGone

(* "When it ends, the scheduler is released, too": it is, at least, when   *)
(* nobody has sent a signal.                                               *)
ReleasedAtEnd == pc = "ended" /\ signals = 0 => sched \in Child!SchedGone
=============================================================================
