------------------------------ MODULE SharedDsq ------------------------------
(***************************************************************************)
(* The step-04 scheduler (and the team race solution, which differs only   *)
(* in how a task is classified): two shared dispatch queues, and on each   *)
(* CPU a turn that says which of them its next dispatch tries first.       *)
(*                                                                         *)
(* The handlers run inside the kernel's scheduling cycle, which is         *)
(* modelled from how the handlers are called (external in the map):        *)
(*   - a wakeup runs select_cpu, and then, with the lock of the chosen     *)
(*     run queue, enqueue;                                                 *)
(*   - a CPU whose slice expired, whose task blocked or which is idle and  *)
(*     was asked to reschedule calls dispatch, with the lock of its run    *)
(*     queue, and then picks from its local queue.  The expired task is    *)
(*     put back, through enqueue, only after dispatch returned.            *)
(* dispatch is two calls of scx_bpf_dsq_move_to_local; each is atomic (it  *)
(* holds the lock of the queue), and other CPUs may run between them.      *)
(***************************************************************************)
EXTENDS Integers, Sequences, SequencesExt

CONSTANTS
    Tasks,      \* the tasks under SCHED_EXT
    Cpus,
    None,       \* no task
    Allowed,    \* Allowed[t]: the CPUs of t's affinity mask
    Keys,       \* what enqueue classifies by: a tgid, or a comm
    InitKey,    \* InitKey[t]: the key of t when the scheduler is attached
    Class,      \* Class[k]: the dispatch queue enqueue chooses for key k
    Renamers,   \* the tasks that may change their key (prctl of their comm)
    Sleepers    \* the tasks that may block

Dsqs == {0, 1}

ASSUME NoneAssumption    == None \notin Tasks
ASSUME AllowedAssumption == /\ Allowed \in [Tasks -> SUBSET Cpus]
                            /\ \A t \in Tasks : Allowed[t] # {}
ASSUME KeyAssumption     == InitKey \in [Tasks -> Keys]
ASSUME ClassAssumption   == Class \in [Keys -> Dsqs]

VARIABLES
    where,      \* where[t]: what t is doing, one of Places
    rq,         \* rq[t]: the CPU whose run queue t belongs to
    key,        \* key[t]: t's present tgid or comm
    at,         \* at[t]: the shared queue t was last inserted into
    dsq,        \* the two shared dispatch queues
    local,      \* local[c]: c's local dispatch queue
    cur,        \* cur[c]: the task on c, or None
    phase,      \* phase[c]: where c is in its scheduling cycle
    resched,    \* resched[c]: c is idle and was asked to reschedule
    idle,       \* the kernel's mask of idle CPUs
    turn,       \* turn[c]: the dispatch_turn slot of c
    bypass      \* bypass[c][t]: history, see BypassAfter

vars == <<where, rq, key, at, dsq, local, cur, phase, resched, idle, turn, bypass>>
places == <<where, rq, key, at>>

Places == {"blocked", "waking", "queued", "local", "running"}
Phases == {"idle", "exec", "first", "second", "pick", "pulled"}

(* dsq ^= 1 *)
Other(d) == 1 - d

(* The run queue lock of c is free.  A CPU that pulls a task of another    *)
(* run queue releases its own lock for a while ("pulled").                 *)
Unlocked(c) == phase[c] \in {"idle", "exec", "pulled"}

(* The map starts zeroed, no task is queued, and all CPUs are idle.        *)
Init ==
    /\ where = [t \in Tasks |-> "blocked"]
    /\ rq \in {f \in [Tasks -> Cpus] : \A t \in Tasks : f[t] \in Allowed[t]}
    /\ key = InitKey
    /\ at = [t \in Tasks |-> 0]
    /\ dsq = [d \in Dsqs |-> <<>>]
    /\ local = [c \in Cpus |-> <<>>]
    /\ cur = [c \in Cpus |-> None]
    /\ phase = [c \in Cpus |-> "idle"]
    /\ resched = [c \in Cpus |-> FALSE]
    /\ idle = Cpus
    /\ turn = [c \in Cpus |-> 0]
    /\ bypass = [c \in Cpus |-> [t \in Tasks |-> 0]]

-----------------------------------------------------------------------------
(* Mutant: the newest task goes first. *)
InsertAtHead(t) ==
    /\ dsq' = [dsq EXCEPT ![Class[key[t]]] = <<t>> \o @]
    /\ at' = [at EXCEPT ![t] = Class[key[t]]]

(* oreore_enqueue: the task goes to the tail of the queue of its class. *)
Insert(t) ==
    /\ dsq' = [dsq EXCEPT ![Class[key[t]]] = Append(@, t)]
    /\ at' = [at EXCEPT ![t] = Class[key[t]]]

(* oreore_select_cpu takes the kernel's choice: an idle CPU the task may   *)
(* use, whose bit it clears, or else the task's previous CPU.  It inserts  *)
(* nothing, so enqueue follows.  The kernel does not call it for a task    *)
(* that may use one CPU only, and then clears no bit.                      *)
SelectCpu(t) ==
    /\ where[t] = "blocked"
    /\ where' = [where EXCEPT ![t] = "waking"]
    /\ \/ /\ \A c \in Allowed[t] : Allowed[t] = {c}
          /\ UNCHANGED <<rq, idle>>
       \/ \E c \in Allowed[t] \cap idle :
              /\ Allowed[t] # {c}
              /\ rq' = [rq EXCEPT ![t] = c]
              /\ idle' = idle \ {c}
       \/ /\ Allowed[t] \cap idle = {}
          /\ UNCHANGED <<rq, idle>>
    /\ UNCHANGED <<key, at, dsq, local, cur, phase, resched, turn, bypass>>

(* The second half of a wakeup; an idle CPU is asked to reschedule. *)
Enqueue(t) ==
    /\ where[t] = "waking"
    /\ Unlocked(rq[t])
    /\ Insert(t)
    /\ where' = [where EXCEPT ![t] = "queued"]
    /\ resched' = [resched EXCEPT ![rq[t]] = phase[rq[t]] = "idle"]
    /\ UNCHANGED <<rq, key, local, cur, phase, idle, turn, bypass>>

(* A running task gives itself another name; its queue follows only when   *)
(* it is next enqueued.                                                    *)
Rename(t) ==
    /\ where[t] = "running"
    /\ t \in Renamers
    /\ \E k \in Keys : key' = [key EXCEPT ![t] = k]
    /\ UNCHANGED <<where, rq, at, dsq, local, cur, phase, resched, idle, turn, bypass>>

-----------------------------------------------------------------------------
(* The slice of the task on c is used up: dispatch is called with it as    *)
(* prev, and it is not in any queue yet.                                   *)
Expire(c) ==
    /\ phase[c] = "exec"
    /\ phase' = [phase EXCEPT ![c] = "first"]
    /\ UNCHANGED <<places, dsq, local, cur, resched, idle, turn, bypass>>

(* The task on c goes to sleep: dispatch is called without a prev. *)
Block(c) ==
    /\ phase[c] = "exec"
    /\ cur[c] \in Sleepers
    /\ where' = [where EXCEPT ![cur[c]] = "blocked"]
    /\ cur' = [cur EXCEPT ![c] = None]
    /\ phase' = [phase EXCEPT ![c] = "first"]
    /\ UNCHANGED <<rq, key, at, dsq, local, resched, idle, turn, bypass>>

(* An idle CPU answers a request to reschedule. *)
WakeIdle(c) ==
    /\ phase[c] = "idle"
    /\ resched[c]
    /\ phase' = [phase EXCEPT ![c] = "first"]
    /\ resched' = [resched EXCEPT ![c] = FALSE]
    /\ UNCHANGED <<places, dsq, local, cur, idle, turn, bypass>>

-----------------------------------------------------------------------------
(* Mutant: the affinity mask is not looked at. *)
MovableAnywhere(c, t) == TRUE

(* task_can_run_on_remote_rq *)
Movable(c, t) == c \in Allowed[t]

(* Mutant: dispatch goes on to its second call after a success. *)
PhaseAfterMoveSecond(c, t) == IF phase[c] = "first" THEN "second" ELSE "pick"

(* dispatch returns after its first success. *)
PhaseAfterMove(c, t) == IF rq[t] = c THEN "pick" ELSE "pulled"

(* History: bypass[c][t] counts the moves c made from the other queue,     *)
(* since its last move from t's queue, while t waited and could have been  *)
(* moved.  This is its value after c moved x from d.                       *)
BypassAfter(c, d, x) ==
    [b \in Cpus |-> [t \in Tasks |->
        IF t = x THEN 0
        ELSE IF b # c THEN bypass[b][t]
        ELSE IF at[t] # d /\ where[t] = "queued" /\ c \in Allowed[t] THEN bypass[c][t] + 1
        ELSE 0]]

(* scx_bpf_dsq_move_to_local(d) on c: the first task of d that may run on  *)
(* c moves to c's local queue and, when it belongs to another run queue,   *)
(* to c's run queue.                                                       *)
MoveToLocal(c, d) ==
    \E i \in 1..Len(dsq[d]) :
        /\ Movable(c, dsq[d][i])
        /\ \A j \in 1..(i - 1) : ~Movable(c, dsq[d][j])
        /\ dsq' = [dsq EXCEPT ![d] = RemoveAt(@, i)]
        /\ local' = [local EXCEPT ![c] = Append(@, dsq[d][i])]
        /\ where' = [where EXCEPT ![dsq[d][i]] = "local"]
        /\ rq' = [rq EXCEPT ![dsq[d][i]] = c]
        /\ phase' = [phase EXCEPT ![c] = PhaseAfterMove(c, dsq[d][i])]
        /\ bypass' = BypassAfter(c, d, dsq[d][i])

(* The call returns false: no task of d may run on c. *)
NoneMovable(c, d) == \A i \in 1..Len(dsq[d]) : ~Movable(c, dsq[d][i])

(* Mutants: the queue just used keeps the turn; the turn is incremented. *)
StoreTurnSame(c, d) == turn' = [turn EXCEPT ![c] = d]
StoreTurnNext(c, d) == turn' = [turn EXCEPT ![c] = d + 1]

(* *turn = dsq ^ 1 *)
StoreTurn(c, d) == turn' = [turn EXCEPT ![c] = Other(d)]

(* oreore_dispatch, first call: the queue whose turn it is. *)
MoveFirst(c) ==
    /\ phase[c] = "first"
    /\ \/ /\ MoveToLocal(c, turn[c])
          /\ StoreTurn(c, turn[c])
       \/ /\ NoneMovable(c, turn[c])
          /\ phase' = [phase EXCEPT ![c] = "second"]
          /\ UNCHANGED <<where, rq, dsq, local, turn, bypass>>
    /\ UNCHANGED <<key, at, cur, resched, idle>>

(* Mutant: dispatch returns without trying the other queue. *)
MoveSecondSkipped(c) ==
    /\ phase[c] = "second"
    /\ phase' = [phase EXCEPT ![c] = "pick"]
    /\ UNCHANGED <<places, dsq, local, cur, resched, idle, turn, bypass>>

(* oreore_dispatch, second call: the other queue, or return. *)
MoveSecond(c) ==
    /\ phase[c] = "second"
    /\ \/ /\ MoveToLocal(c, Other(turn[c]))
          /\ StoreTurn(c, Other(turn[c]))
       \/ /\ NoneMovable(c, Other(turn[c]))
          /\ phase' = [phase EXCEPT ![c] = "pick"]
          /\ UNCHANGED <<where, rq, dsq, local, turn, bypass>>
    /\ UNCHANGED <<key, at, cur, resched, idle>>

-----------------------------------------------------------------------------
Picking(c) == phase[c] \in {"pick", "pulled"}

(* The head of the local queue runs next.  An expired prev is put back     *)
(* through enqueue.                                                        *)
RunNext(c) ==
    /\ Picking(c)
    /\ local[c] # <<>>
    /\ cur' = [cur EXCEPT ![c] = Head(local[c])]
    /\ local' = [local EXCEPT ![c] = Tail(@)]
    /\ phase' = [phase EXCEPT ![c] = "exec"]
    /\ idle' = idle \ {c}
    /\ resched' = [resched EXCEPT ![c] = FALSE]
    /\ \/ /\ cur[c] = None
          /\ where' = [where EXCEPT ![Head(local[c])] = "running"]
          /\ UNCHANGED <<dsq, at>>
       \/ /\ cur[c] # None
          /\ where' = [where EXCEPT ![Head(local[c])] = "running", ![cur[c]] = "queued"]
          /\ Insert(cur[c])
    /\ UNCHANGED <<rq, key, turn, bypass>>

(* dispatch moved nothing: the expired prev gets another slice. *)
KeepPrev(c) ==
    /\ Picking(c)
    /\ local[c] = <<>>
    /\ cur[c] # None
    /\ phase' = [phase EXCEPT ![c] = "exec"]
    /\ UNCHANGED <<places, dsq, local, cur, resched, idle, turn, bypass>>

(* dispatch moved nothing and there is no prev. *)
GoIdle(c) ==
    /\ Picking(c)
    /\ local[c] = <<>>
    /\ cur[c] = None
    /\ phase' = [phase EXCEPT ![c] = "idle"]
    /\ idle' = idle \cup {c}
    /\ UNCHANGED <<places, dsq, local, cur, resched, turn, bypass>>

-----------------------------------------------------------------------------
Dispatch(c) == MoveFirst(c) \/ MoveSecond(c)
Pick(c) == RunNext(c) \/ KeepPrev(c) \/ GoIdle(c)

Next ==
    \/ \E t \in Tasks : SelectCpu(t) \/ Enqueue(t) \/ Rename(t)
    \/ \E c \in Cpus : Expire(c) \/ Block(c) \/ WakeIdle(c) \/ Dispatch(c) \/ Pick(c)

Spec == Init /\ [][Next]_vars

(* Every CPU keeps executing its scheduling cycle, and the timer ends      *)
(* every slice.  A wakeup competes for the run queue lock with the CPU     *)
(* that holds it again and again, so it needs strong fairness (the lock is *)
(* a fair queued spinlock).  Nothing makes a task block, wake or rename.   *)
Fairness ==
    /\ \A c \in Cpus : WF_vars(Expire(c) \/ WakeIdle(c) \/ Dispatch(c) \/ Pick(c))
    /\ \A t \in Tasks : SF_vars(Enqueue(t))

FairSpec == Spec /\ Fairness
-----------------------------------------------------------------------------
(* Type correctness of the handlers' and the kernel's state. *)
TypeOK ==
    /\ where \in [Tasks -> Places]
    /\ rq \in [Tasks -> Cpus]
    /\ key \in [Tasks -> Keys]
    /\ at \in [Tasks -> Dsqs]
    /\ dsq \in [Dsqs -> Seq(Tasks)]
    /\ local \in [Cpus -> Seq(Tasks)]
    /\ cur \in [Cpus -> Tasks \cup {None}]
    /\ phase \in [Cpus -> Phases]
    /\ resched \in [Cpus -> BOOLEAN]
    /\ idle \in SUBSET Cpus
    /\ turn \in [Cpus -> Dsqs]
    /\ bypass \in [Cpus -> [Tasks -> Nat]]

(* The two queues hold exactly the tasks that wait, each once. *)
QueuesExact ==
    /\ \A d \in Dsqs : \A i \in 1..Len(dsq[d]) :
           where[dsq[d][i]] = "queued" /\ at[dsq[d][i]] = d
    /\ \A d \in Dsqs : \A i, j \in 1..Len(dsq[d]) : dsq[d][i] = dsq[d][j] => i = j
    /\ \A t \in Tasks : where[t] = "queued" =>
           \E i \in 1..Len(dsq[at[t]]) : dsq[at[t]][i] = t

(* A local queue holds a task only between dispatch and the pick, it holds *)
(* one at most, and it is a task that has left the shared queues.          *)
LocalExact ==
    /\ \A c \in Cpus : local[c] # <<>> =>
           /\ Picking(c)
           /\ Len(local[c]) = 1
           /\ where[local[c][1]] = "local"
           /\ rq[local[c][1]] = c
    /\ \A t \in Tasks : where[t] = "local" => local[rq[t]] # <<>> /\ local[rq[t]][1] = t

(* A running task runs on the CPU of its run queue and on no other. *)
RunningExact ==
    /\ \A c \in Cpus : cur[c] # None => where[cur[c]] = "running" /\ rq[cur[c]] = c
    /\ \A t \in Tasks : where[t] = "running" => cur[rq[t]] = t
    /\ \A c \in Cpus : phase[c] = "idle" => cur[c] = None
    /\ \A c \in Cpus : phase[c] = "exec" => cur[c] # None

(* A task only ever belongs to, and so runs on, a CPU of its affinity      *)
(* mask, although the queues it waits in are shared by all CPUs.           *)
Affinity == \A t \in Tasks : rq[t] \in Allowed[t]

(* Neither queue is passed over twice in a row by a CPU that could have    *)
(* moved a task of it: the turn a CPU stores after either of dispatch's    *)
(* two calls makes it come back to the other queue.                        *)
AlternationBound == \A c \in Cpus : \A t \in Tasks : bypass[c][t] <= 1

(* Every task is in exactly one place: waiting once in one shared queue,   *)
(* once in one local queue, running on one CPU, or none of them.  It is    *)
(* what dispatch and enqueue on several CPUs, and between the two calls of *)
(* one dispatch, must neither lose nor hand out twice.                     *)
ExactlyOnce == QueuesExact /\ LocalExact /\ RunningExact

(* No CPU sleeps on work: when a task waits, the CPU it was enqueued for   *)
(* is in its scheduling cycle, runs something, or was asked to reschedule. *)
(* It is why dispatch must try the second queue before it returns.         *)
NoStranded ==
    \A t \in Tasks : where[t] = "queued" /\ phase[rq[t]] = "idle" => resched[rq[t]]

-----------------------------------------------------------------------------
(* What makes AlternationBound inductive: a CPU that passed t over has its *)
(* turn on t's queue, and will not go on to the other queue.               *)
TurnInv ==
    \A c \in Cpus : \A t \in Tasks : bypass[c][t] # 0 =>
        /\ bypass[c][t] = 1
        /\ where[t] = "queued"
        /\ c \in Allowed[t]
        /\ turn[c] = at[t]
        /\ phase[c] # "second"

(* What makes NoStranded inductive: no task of c's run queue waits in a    *)
(* queue that c found nothing in.                                          *)
StrandInv ==
    /\ \A c \in Cpus : phase[c] = "pulled" => local[c] # <<>>
    /\ \A t \in Tasks : where[t] = "queued" /\ phase[rq[t]] = "second" =>
           at[t] # turn[rq[t]]
    /\ \A t \in Tasks : where[t] = "queued" /\ phase[rq[t]] = "pick" =>
           local[rq[t]] # <<>>
    /\ NoStranded

(* The inductive invariant. *)
IInv == TypeOK /\ ExactlyOnce /\ Affinity /\ TurnInv /\ StrandInv

-----------------------------------------------------------------------------
(* The promise, in the terms of CpuSharing: a task waits from its wakeup   *)
(* until it is picked, in whatever queue it is.                            *)
Promised(place) ==
    CASE place = "blocked" -> "asleep"
      [] place = "running" -> "running"
      [] OTHER -> "waiting"

Sharing == INSTANCE CpuSharing
           WITH state <- [t \in Tasks |-> Promised(where[t])], on <- cur

(* Every step of the two queues is a step of, or invisible to, a scheduler *)
(* that shares the CPUs as CpuSharing says: in particular an expired task  *)
(* is put back in the very step in which another takes its CPU.            *)
SharesCpus == Sharing!Spec

(* Every task that wakes up runs, whatever its class and its affinity: it  *)
(* gets the run queue lock, it is not overtaken for ever in its queue, and *)
(* its queue is not passed over for ever.                                  *)
EveryTaskServed == Sharing!NoStarvation
=============================================================================
