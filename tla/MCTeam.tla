------------------------------- MODULE MCTeam -------------------------------
(***************************************************************************)
(* Three members of team A and one of team B on CPU 0, as the team race    *)
(* starts them.                                                            *)
(***************************************************************************)
EXTENDS TeamRace, Policy

CONSTANTS c1, A1, A2, A3, B1

MCCpus == {c1}
MCTasks == {A1, A2, A3, B1}
MCAllowed == [t \in MCTasks |-> {c1}]
MCKeys == {<<"team_a", "1">>, <<"team_a", "2">>, <<"team_a", "3">>, <<"team_b", "1">>}
MCInitKey == (A1 :> <<"team_a", "1">>) @@ (A2 :> <<"team_a", "2">>)
             @@ (A3 :> <<"team_a", "3">>) @@ (B1 :> <<"team_b", "1">>)
MCClass == [k \in MCKeys |-> TeamDsq(k)]

ASSUME OneCpuAssumption
=============================================================================
