------------------------------- MODULE MCRace -------------------------------
(***************************************************************************)
(* race_a, race_b and a shell on one CPU, under the race solution and      *)
(* under a scheduler that drops what it is given (step 05), each in        *)
(* partial and in system-wide mode, where the watchdog's thread waits its  *)
(* turn behind them.  The unit of time is slice_ns; the slices and the     *)
(* kernel's default slice fit the timeout.                                 *)
(***************************************************************************)
EXTENDS RaceShare, Policy, TLC

CONSTANTS A, B, shell, kworker

MCTasks == {A, B, shell}
MCComm == (A :> <<"race_a", "">>) @@ (B :> <<"race_b", "">>)
          @@ (shell :> <<"sh", "">>) @@ (kworker :> <<"kworker", "">>)
MCSlice == [t \in MCTasks \cup {kworker} |-> RaceSlice(1, MCComm[t])]
MCAttachments == [drops : BOOLEAN, partial : BOOLEAN]

ASSUME RacersAssumption
=============================================================================
