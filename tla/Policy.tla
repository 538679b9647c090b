------------------------------- MODULE Policy -------------------------------
(***************************************************************************)
(* What each version of the BPF scheduler decides when a task is enqueued: *)
(* the dispatch queue the task is inserted into and the length of the      *)
(* slice it is given.                                                      *)
(*                                                                         *)
(* A task's comm is the pair <<first six bytes, the bytes after them>>:    *)
(* a prefix comparison reads the first component, a full comparison both.  *)
(***************************************************************************)
EXTENDS Integers

(* p->tgid % 2 == 0 ? EVEN_DSQ : ODD_DSQ *)
EVEN_DSQ == 0
ODD_DSQ == 1
ParityDsq(tgid) == IF tgid % 2 = 0 THEN EVEN_DSQ ELSE ODD_DSQ

(* bpf_strncmp(p->comm, 6, "team_a") == 0 ? TEAM_A_DSQ : TEAM_B_DSQ        *)
(* The comparison stops after six bytes: a longer name with that prefix    *)
(* is in team A too, and every other name is in team B.                    *)
TEAM_A_DSQ == 0
TEAM_B_DSQ == 1
TeamDsq(comm) == IF comm[1] = "team_a" THEN TEAM_A_DSQ ELSE TEAM_B_DSQ
(* task_slice is doubled when the whole comm equals "race_a"; a longer     *)
(* name with that prefix keeps slice_ns.                                   *)
RaceSlice(slice_ns, comm) == IF comm = <<"race_a", "">> THEN 2 * slice_ns ELSE slice_ns
=============================================================================
