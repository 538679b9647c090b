------------------------------ MODULE TeamRace ------------------------------
(***************************************************************************)
(* The team race: workers of team A and team B, pinned to one CPU, under   *)
(* the SharedDsq scheduler with the comm as the key of a task.  Members    *)
(* join while the others run (a wakeup of a blocked task).  Two history    *)
(* variables record how the CPU was shared.                                *)
(***************************************************************************)
EXTENDS SharedDsq

CONSTANT TheCpu

(* The workers of both teams are pinned to the same CPU. *)
OneCpuAssumption == Cpus = {TheCpu}

VARIABLES
    lead,       \* slices given to team A less slices given to team B since
                \* both teams last began to compete
    over        \* over[u]: teammates dispatched since u was enqueued

raceVars == <<vars, lead, over>>

Runnable(t) == where[t] \in {"queued", "local", "running"}

(* Both teams have a member that could use the CPU. *)
Competing == \A d \in Dsqs : \E t \in Tasks : Runnable(t) /\ at[t] = d

(* A step in which dispatch takes t out of its queue. *)
Dispatched(t) == where[t] = "queued" /\ where'[t] = "local"

LeadAfter ==
    IF Competing /\ Competing'
    THEN lead + (IF \E t \in Tasks : Dispatched(t) /\ at[t] = 0 THEN 1 ELSE 0)
              - (IF \E t \in Tasks : Dispatched(t) /\ at[t] = 1 THEN 1 ELSE 0)
    ELSE 0

OverAfter ==
    [u \in Tasks |-> IF where[u] = "queued" /\ where'[u] = "queued"
                     THEN over[u] \cup {t \in Tasks : Dispatched(t) /\ at[t] = at[u]}
                     ELSE {}]

RaceInit == Init /\ lead = 0 /\ over = [t \in Tasks |-> {}]

RaceNext == Next /\ lead' = LeadAfter /\ over' = OverAfter

RaceSpec == RaceInit /\ [][RaceNext]_raceVars

-----------------------------------------------------------------------------
(* The two teams get the same number of slices, to within one, for as long *)
(* as both have something to run, however many members each has and        *)
(* whichever join or leave.  This is what the task of the chapter asks of  *)
(* the two-queue dispatch; it has to hold although the task that was       *)
(* running is not in its queue when dispatch chooses.                      *)
EqualShare == lead \in -1..1

(* Within a team the CPU goes round: no teammate is dispatched twice while *)
(* a member waits in the queue.                                            *)
RoundRobin ==
    [][\A u, t \in Tasks :
          Dispatched(t) /\ where[u] = "queued" /\ at[u] = at[t] => t \notin over[u]]_raceVars
=============================================================================
