------------------------------ MODULE MCRename ------------------------------
(***************************************************************************)
(* The team scheduler in system-wide mode: a task may change its comm, and *)
(* with it its class, while it runs.                                       *)
(***************************************************************************)
EXTENDS SharedDsq, Policy

CONSTANTS c1, c2, p, q, r

MCCpus == {c1, c2}
MCTasks == {p, q, r}
MCAllowed == (p :> {c1, c2}) @@ (q :> {c1, c2}) @@ (r :> {c1})
MCKeys == {<<"team_a", "1">>, <<"bash", "">>}
MCInitKey == [t \in MCTasks |-> <<"bash", "">>]
MCClass == [k \in MCKeys |-> TeamDsq(k)]
=============================================================================
