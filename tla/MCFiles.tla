------------------------------ MODULE MCFiles ------------------------------
(***************************************************************************)
(* What the program keeps in files: the sessions, behind the requests that *)
(* use them, and the cron jobs.  Every behaviour is one of one of the two, *)
(* while the other keeps its initial state.                                *)
(*                                                                         *)
(* Requests get one session, since sessions do not share anything, with    *)
(* three requests that meet a crash, or two that meet a delete, the        *)
(* reaper, an abort, a failed write and a crash.                           *)
(***************************************************************************)
EXTENDS Requests, CronJobs

CONSTANTS r1, r2, r3, s1,
          RunParts   \* "requests", "cron" or both

VARIABLE part

OneSession == [r \in Requests |-> s1]

Quiet == [requests |-> {r1, r2}, deletes |-> 0, reaps |-> 0, failures |-> 0, crashes |-> 0,
          aborts |-> 0, offline |-> FALSE, curator |-> FALSE]

Loads == {[Quiet EXCEPT !.requests = Requests, !.crashes = 1],
          [Quiet EXCEPT !.deletes = 1, !.reaps = 1, !.crashes = 1],
          [Quiet EXCEPT !.deletes = 1, !.failures = 1, !.crashes = 1],
          [Quiet EXCEPT !.aborts = 1, !.offline = TRUE, !.curator = TRUE]}

-----------------------------------------------------------------------------
FilesInit ==
    /\ part \in RunParts
    /\ Init /\ (part = "requests" \/ left = CHOOSE w \in Workloads : TRUE)
    /\ CronInit /\ (part = "cron" \/ jobs = [j \in Jobs |-> NoJob])

FilesNext ==
    \/ part = "requests" /\ Next /\ UNCHANGED <<part, cronVars>>
    \/ part = "cron" /\ CronNext /\ UNCHANGED <<part, vars>>

FilesSpec == FilesInit /\ [][FilesNext]_<<part, vars, cronVars>>
=============================================================================
