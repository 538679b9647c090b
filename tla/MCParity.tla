------------------------------ MODULE MCParity ------------------------------
(***************************************************************************)
(* The step-04 scheduler on two CPUs: processes classified by the parity   *)
(* of their tgid.  One task is pinned to each CPU, the others are not.     *)
(***************************************************************************)
EXTENDS SharedDsq, Policy

CONSTANTS c1, c2

MCCpus == {c1, c2}
MCTasks == {10, 11, 12, 13}
MCInitKey == [t \in MCTasks |-> t]
MCClass == [k \in MCTasks |-> ParityDsq(k)]
MCAllowed == (10 :> {c1, c2}) @@ (11 :> {c1, c2}) @@ (12 :> {c1}) @@ (13 :> {c2})
MCSleepers == {10, 12, 13}
=============================================================================
