----------------------------- MODULE MCWorkload -----------------------------
(***************************************************************************)
(* Every measurement with up to four samples of one or two units of time,  *)
(* and the arguments that are refused.                                     *)
(***************************************************************************)
EXTENDS Workload

MCCommands ==
    [name : {"sleep", "periodic"}, period : 0..2, samples : {0, 4}, sched_ext : BOOLEAN]
    \cup [name : {"cpu-hog"}, period : {0, 3}, samples : {0}, sched_ext : BOOLEAN]
    \cup [name : {"calibrate"}, period : {0}, samples : {0}, sched_ext : {FALSE}]
=============================================================================
