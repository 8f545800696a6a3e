------------------------------- MODULE MCPbs -------------------------------
(* Instances of Pbs for model checking.                                    *)
EXTENDS Pbs

(* Three processes that tie and are dispatched twice.                      *)
Ties == [ncpu |-> 2, nproc |-> 3, priorities |-> {}, ticks |-> 0, sched |-> 2, pids |-> 3]

(* Two processes, a clock tick and setpriority.                            *)
Clock == [ncpu |-> 2, nproc |-> 2, priorities |-> {60}, ticks |-> 1, sched |-> 1, pids |-> 2]

(* Three processes on one CPU; one exits while another renices it.         *)
Renice == [ncpu |-> 1, nproc |-> 3, priorities |-> {60}, ticks |-> 0, sched |-> 2, pids |-> 3]

AllSystems == {Ties, Clock, Renice}
=============================================================================
