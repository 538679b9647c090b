-------------------------- MODULE RaceWorkersProofs --------------------------
(***************************************************************************)
(* What the workers of the races do, for the theorems about both races.    *)
(***************************************************************************)
EXTENDS RaceWorkers, TLAPS

Attributes == {"pinned", "named", "page", "ext"}

(* A process that computes no more. *)
Over == {"finished", "ok", "failed", "dying"}

ProcessStates ==
    {"none", "boot", "set_name", "open", "mapped", "gate", "go", "start", "compute"} \cup Over

Page == [done : Nat, ready : BOOLEAN, started : BOOLEAN, finished : BOOLEAN]

GateStates == {"shut", "filled", "open", "closed"}

(* The harness has written the byte. *)
Written == {"filled", "open"}

WorkersType ==
    /\ w \in [Workers -> ProcessStates]
    /\ gate \in [Workers -> GateStates]
    /\ page \in [Workers -> Page]
    /\ task \in [Workers -> SUBSET Attributes]

(* What a worker has got from the kernel at each point of its preparation, *)
(* and that it computes and finishes after it has started.                 *)
Preparation ==
    \A k \in Workers :
        /\ w[k] \in {"none", "boot"} => task[k] = {}
        /\ w[k] = "set_name" => task[k] = {"pinned"}
        /\ w[k] = "open" => task[k] = {"pinned", "named"}
        /\ w[k] \in {"mapped", "gate", "go"} => task[k] = {"pinned", "named", "page"}
        /\ page[k].ready => Prepared(k)
        /\ w[k] = "start" \/ page[k].started => Comparable(k)
        /\ w[k] = "compute" \/ page[k].finished => page[k].started

-----------------------------------------------------------------------------
(* Storing a field changes one field of one page, ... *)
LEMMA StoreField ==
    ASSUME WorkersType, NEW k \in Workers, NEW v,
           \/ page' = [page EXCEPT ![k].done = v] /\ v \in Nat
           \/ page' = [page EXCEPT ![k].ready = v] /\ v \in BOOLEAN
           \/ page' = [page EXCEPT ![k].started = v] /\ v \in BOOLEAN
           \/ page' = [page EXCEPT ![k].finished = v] /\ v \in BOOLEAN
    PROVE  /\ page' \in [Workers -> Page]
           /\ \A j \in Workers \ {k} : page'[j] = page[j]
<1> page[k] \in Page
  BY DEF WorkersType
<1>1. CASE page' = [page EXCEPT ![k].done = v] /\ v \in Nat
  <2>1. [page[k] EXCEPT !.done = v] \in Page
    BY <1>1 DEF Page
  <2> QED  BY <1>1, <2>1 DEF WorkersType
<1>2. CASE page' = [page EXCEPT ![k].ready = v] /\ v \in BOOLEAN
  <2>1. [page[k] EXCEPT !.ready = v] \in Page
    BY <1>2 DEF Page
  <2> QED  BY <1>2, <2>1 DEF WorkersType
<1>3. CASE page' = [page EXCEPT ![k].started = v] /\ v \in BOOLEAN
  <2>1. [page[k] EXCEPT !.started = v] \in Page
    BY <1>3 DEF Page
  <2> QED  BY <1>3, <2>1 DEF WorkersType
<1>4. CASE page' = [page EXCEPT ![k].finished = v] /\ v \in BOOLEAN
  <2>1. [page[k] EXCEPT !.finished = v] \in Page
    BY <1>4 DEF Page
  <2> QED  BY <1>4, <2>1 DEF WorkersType
<1> QED  BY <1>1, <1>2, <1>3, <1>4

(* ... and leaves the others of that page as they are. *)
LEMMA StoreKeeps ==
    ASSUME WorkersType, NEW k \in Workers
    PROVE  /\ page' = [page EXCEPT ![k].done = page[k].done + 1] =>
                 /\ page'[k].done = page[k].done + 1 /\ page'[k].ready = page[k].ready
                 /\ page'[k].started = page[k].started /\ page'[k].finished = page[k].finished
           /\ page' = [page EXCEPT ![k].ready = TRUE] =>
                 /\ page'[k].done = page[k].done /\ page'[k].ready
                 /\ page'[k].started = page[k].started /\ page'[k].finished = page[k].finished
           /\ page' = [page EXCEPT ![k].started = TRUE] =>
                 /\ page'[k].done = page[k].done /\ page'[k].ready = page[k].ready
                 /\ page'[k].started /\ page'[k].finished = page[k].finished
           /\ page' = [page EXCEPT ![k].finished = TRUE] =>
                 /\ page'[k].done = page[k].done /\ page'[k].ready = page[k].ready
                 /\ page'[k].started = page[k].started /\ page'[k].finished
<1> page[k] \in Page
  BY DEF WorkersType
<1> QED  BY DEF WorkersType, Page

(* The counter and the flags of a page only ever go up. *)
Grows(j) ==
    /\ page[j].done <= page'[j].done
    /\ page[j].ready => page'[j].ready
    /\ page[j].started => page'[j].started
    /\ page[j].finished => page'[j].finished

(* What a step of worker k means to the others and to the harness. *)
LEMMA WorkerEffect ==
    ASSUME WorkersType, Preparation, NEW k \in Workers, WorkerStep(k)
    PROVE  /\ WorkersType' /\ Preparation'
           /\ UNCHANGED <<pc, harness, sched, gate, signals>>
           /\ \A j \in Workers \ {k} : w'[j] = w[j] /\ page'[j] = page[j]
           /\ \A j \in Workers : Grows(j)
           /\ w[k] # "none" /\ w'[k] # "none"
           /\ w'[k] = "go" => gate[k] = "open"
           /\ w'[k] = "start" => w[k] = "go"
           /\ page'[k].started => page[k].started \/ w[k] = "start"
           /\ page'[k].finished => page[k].finished
                 \/ (w[k] = "compute" /\ page[k].done = Units /\ page'[k].done = Units
                        /\ w'[k] = "finished")
           /\ w[k] \in Over => page'[k] = page[k] /\ w'[k] \in Over
<1>1. \A j \in Workers :
         page[j].done \in Nat /\ page[j].ready \in BOOLEAN
         /\ page[j].started \in BOOLEAN /\ page[j].finished \in BOOLEAN
  BY DEF WorkersType, Page
<1>2. ASSUME page' = [page EXCEPT ![k].done = page[k].done + 1]
      PROVE  page' \in [Workers -> Page] /\ \A j \in Workers \ {k} : page'[j] = page[j]
  <2>1. page[k].done + 1 \in Nat
    BY <1>1
  <2> QED  BY <1>2, <2>1, StoreField
<1>3. ASSUME \/ page' = [page EXCEPT ![k].ready = TRUE]
             \/ page' = [page EXCEPT ![k].started = TRUE]
             \/ page' = [page EXCEPT ![k].finished = TRUE]
      PROVE  page' \in [Workers -> Page] /\ \A j \in Workers \ {k} : page'[j] = page[j]
  BY <1>3, StoreField
<1> USE <1>1 DEF WorkersType, Preparation, Prepared, Grows, Comparable, Attributes, ProcessStates, Over
<1>4. CASE PinCpu(k) \/ SetName(k) \/ OpenProgress(k) \/ Enter(k)
  <2>1. /\ UNCHANGED <<pc, harness, sched, gate, signals, page>>
        /\ \A j \in Workers \ {k} : w'[j] = w[j] /\ task'[j] = task[j]
        /\ w' \in [Workers -> ProcessStates] /\ task' \in [Workers -> SUBSET Attributes]
    BY <1>4 DEF PinCpu, SetName, OpenProgress, Enter, Acquire
  <2>2. CASE PinCpu(k)
    BY <2>1, <2>2 DEF PinCpu, Acquire
  <2>3. CASE SetName(k)
    BY <2>1, <2>3 DEF SetName, Acquire
  <2>4. CASE OpenProgress(k)
    BY <2>1, <2>4 DEF OpenProgress, Acquire
  <2>5. CASE Enter(k)
    BY <2>1, <2>5 DEF Enter, Acquire
  <2> QED  BY <1>4, <2>2, <2>3, <2>4, <2>5
<1>5. CASE Ready(k)
  <2>1. /\ UNCHANGED <<pc, harness, sched, gate, signals, task>>
        /\ w[k] = "mapped" /\ w' = [w EXCEPT ![k] = "gate"]
        /\ page' = [page EXCEPT ![k].ready = TRUE]
    BY <1>5 DEF Ready, Store
  <2>2. /\ page'[k].done = page[k].done /\ page'[k].ready
        /\ page'[k].started = page[k].started /\ page'[k].finished = page[k].finished
    BY <2>1, StoreKeeps
  <2> QED  BY <1>3, <2>1, <2>2
<1>6. CASE PassGate(k)
  BY <1>6 DEF PassGate, workers
<1>7. CASE Start(k)
  <2>1. /\ UNCHANGED <<pc, harness, sched, gate, signals, task>>
        /\ w[k] = "start" /\ w' = [w EXCEPT ![k] = "compute"]
        /\ page' = [page EXCEPT ![k].started = TRUE]
    BY <1>7 DEF Start, Store
  <2>2. /\ page'[k].done = page[k].done /\ page'[k].ready = page[k].ready
        /\ page'[k].started /\ page'[k].finished = page[k].finished
    BY <2>1, StoreKeeps
  <2> QED  BY <1>3, <2>1, <2>2
<1>8. CASE Compute(k)
  <2>1. /\ UNCHANGED <<pc, harness, sched, gate, signals, w, task>>
        /\ w[k] = "compute"
        /\ page' = [page EXCEPT ![k].done = page[k].done + 1]
    BY <1>8 DEF Compute, Store, children
  <2>2. /\ page'[k].done = page[k].done + 1 /\ page'[k].ready = page[k].ready
        /\ page'[k].started = page[k].started /\ page'[k].finished = page[k].finished
    BY <2>1, StoreKeeps
  <2> QED  BY <1>2, <2>1, <2>2
<1>9. CASE Finish(k)
  <2>1. /\ UNCHANGED <<pc, harness, sched, gate, signals, task>>
        /\ w[k] = "compute" /\ w' = [w EXCEPT ![k] = "finished"] /\ page[k].done = Units
        /\ page' = [page EXCEPT ![k].finished = TRUE]
    BY <1>9 DEF Finish, Store
  <2>2. /\ page'[k].done = page[k].done /\ page'[k].ready = page[k].ready
        /\ page'[k].started = page[k].started /\ page'[k].finished
    BY <2>1, StoreKeeps
  <2> QED  BY <1>3, <2>1, <2>2
<1>10. CASE Exit(k)
  BY <1>10 DEF Exit, workers
<1> QED
  BY <1>4, <1>5, <1>6, <1>7, <1>8, <1>9, <1>10 DEF WorkerStep

-----------------------------------------------------------------------------
(* A worker that is started, stopped, or hit by a signal has still got     *)
(* what it had, and does not get past its gate by that.                    *)
Hit(k) == w'[k] = w[k] \/ (w[k] = "none" /\ w'[k] = "boot") \/ (w[k] # "none" /\ w'[k] = "dying")

LEMMA HitKeeps ==
    ASSUME WorkersType, Preparation, UNCHANGED workers, gate' \in [Workers -> GateStates],
           w' \in [Workers -> ProcessStates], \A k \in Workers : Hit(k)
    PROVE  WorkersType' /\ Preparation'
  BY DEF WorkersType, Preparation, Prepared, workers, Hit, Comparable

LEMMA KilledHits ==
    ASSUME WorkersType, NEW k \in Workers,
           \/ w' = w
           \/ w[k] = "none" /\ w' = [w EXCEPT ![k] = "boot"]
           \/ w' = [w EXCEPT ![k] = Killed(k)]
           \/ w' = [j \in Workers |-> Killed(j)]
    PROVE  w' \in [Workers -> ProcessStates] /\ \A j \in Workers : Hit(j)
  BY DEF WorkersType, Killed, Hit, ProcessStates, Over, Exited

(* The harness leaves: the byte reaches nobody it was not written for. *)
LEMMA LeaveCloses ==
    ASSUME WorkersType, Leave
    PROVE  /\ gate' \in [Workers -> GateStates]
           /\ \A k \in Workers : gate'[k] \in Written => gate[k] \in Written
<1>1. PICK g \in [Workers -> {"open", "closed"}] :
         (\A k \in Workers : g[k] \in LeftBehind(gate[k])) /\ gate' = g
  BY DEF Leave
<1>2. \A k \in Workers : g[k] \in Written => gate[k] \in Written
  <2>1. ASSUME NEW k \in Workers, g[k] \in Written  PROVE gate[k] \in Written
    <3>1. gate[k] \in GateStates /\ g[k] \in LeftBehind(gate[k])
      BY <1>1 DEF WorkersType
    <3> QED  BY <2>1, <3>1 DEF LeftBehind, GateStates, Written
  <2> QED  BY <2>1
<1>3. g \in [Workers -> GateStates]
  BY <1>1 DEF GateStates
<1> QED  BY <1>1, <1>2, <1>3

(* The pipe of a worker that was stopped is closed. *)
LEMMA StopCloses ==
    ASSUME WorkersType, i \in Workers, CloseGate
    PROVE  /\ gate' \in [Workers -> GateStates]
           /\ \A k \in Workers : gate'[k] \in Written => gate[k] \in Written
  BY DEF WorkersType, CloseGate, GateStates, Written
=============================================================================
