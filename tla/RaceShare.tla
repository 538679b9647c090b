------------------------------ MODULE RaceShare ------------------------------
(***************************************************************************)
(* The race under GlobalFifo: the two racers compute all the time on one   *)
(* CPU, perhaps beside other tasks, and enqueue gives race_a a slice twice *)
(* as long as race_b's.  lag is the history of how the CPU was shared.     *)
(***************************************************************************)
EXTENDS GlobalFifo

CONSTANTS RaceA, RaceB

(* The two racers are different tasks. *)
RacersAssumption == RaceA \in Tasks /\ RaceB \in Tasks /\ RaceA # RaceB

VARIABLE lag    \* A's CPU time, weighted by B's slice, less B's, weighted by
                \* A's, since both began to compete
raceVars == <<vars, lag>>

Competing == \A t \in {RaceA, RaceB} : where[t] \in {"queued", "running"}

Weight(t) ==
    CASE t = RaceA -> Slice[RaceB]
      [] t = RaceB -> -Slice[RaceA]
      [] OTHER -> 0

(* cur and left change together with checked only when the clock advances. *)
LagAfter ==
    IF ~(Competing /\ Competing') THEN 0
    ELSE IF checked' = checked + 1 THEN lag + Weight(cur)
    ELSE lag

RaceInit == Init /\ lag = 0

RaceSpec == RaceInit /\ [][Next /\ lag' = LagAfter]_raceVars

(* Time passes, and the kernel's own steps are taken. *)
RaceFairSpec == RaceSpec /\ Fairness

(* A gets CPU time in the proportion of the slices: at no moment is either *)
(* racer ahead of its share by more than one run of its own.  What the     *)
(* race measures as A/B is this ratio.                                     *)
ProportionalShare ==
    /\ lag <= LongestRun(RaceA) * Slice[RaceB]
    /\ lag >= -(LongestRun(RaceB) * Slice[RaceA])
=============================================================================
