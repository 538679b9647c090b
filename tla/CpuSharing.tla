----------------------------- MODULE CpuSharing -----------------------------
(***************************************************************************)
(* What a scheduler promises its tasks, whatever queues it keeps: a task   *)
(* that wants to run waits, a CPU runs one task at a time and a task runs  *)
(* on one CPU at a time, of its affinity mask; a CPU lets go of a task     *)
(* that wants to go on only to run another; and no task waits for ever.    *)
(***************************************************************************)
CONSTANTS Tasks, Cpus, None, Allowed

VARIABLES
    state,      \* state[t]: asleep, waiting or running
    on          \* on[c]: the task c runs, or None

vars == <<state, on>>

Init ==
    /\ state = [t \in Tasks |-> "asleep"]
    /\ on = [c \in Cpus |-> None]

Wake(t) ==
    /\ state[t] = "asleep"
    /\ state' = [state EXCEPT ![t] = "waiting"]
    /\ UNCHANGED on

Sleep(c) ==
    /\ on[c] # None
    /\ state' = [state EXCEPT ![on[c]] = "asleep"]
    /\ on' = [on EXCEPT ![c] = None]

(* c, which runs nothing, starts t. *)
Start(c, t) ==
    /\ on[c] = None
    /\ state[t] = "waiting"
    /\ c \in Allowed[t]
    /\ state' = [state EXCEPT ![t] = "running"]
    /\ on' = [on EXCEPT ![c] = t]

(* c puts its task back and runs t instead. *)
Switch(c, t) ==
    /\ on[c] # None
    /\ state[t] = "waiting"
    /\ c \in Allowed[t]
    /\ state' = [state EXCEPT ![t] = "running", ![on[c]] = "waiting"]
    /\ on' = [on EXCEPT ![c] = t]

Next ==
    \/ \E t \in Tasks : Wake(t)
    \/ \E c \in Cpus : Sleep(c)
    \/ \E c \in Cpus, t \in Tasks : Start(c, t) \/ Switch(c, t)

Spec == Init /\ [][Next]_vars

(* No task waits for ever: what the queues and the turns are for. *)
NoStarvation == \A t \in Tasks : state[t] = "waiting" ~> state[t] = "running"
=============================================================================
