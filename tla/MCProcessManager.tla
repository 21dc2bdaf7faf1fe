-------------------------- MODULE MCProcessManager --------------------------
(***************************************************************************)
(* ProcessManager for TLC.  Output and killing hardly meet, so they get a  *)
(* workload each: two silent processes with two killers, the same with one *)
(* killer and with descendants that hold the output pipe, and one process  *)
(* that writes and is polled, with one killer.                             *)
(***************************************************************************)
EXTENDS ProcessManager

CONSTANTS p1, k1

Loads == {[procs |-> Procs, killers |-> Killers, bytes |-> 0, held |-> {FALSE}],
          [procs |-> Procs, killers |-> {k1}, bytes |-> 0, held |-> BOOLEAN],
          [procs |-> {p1}, killers |-> {k1}, bytes |-> 5, held |-> {FALSE}]}
=============================================================================
