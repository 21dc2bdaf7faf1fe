----------------------------- MODULE MCWaiting -----------------------------
(***************************************************************************)
(* What waits for other goroutines, side by side: the cron subsystem, the  *)
(* event bus with the gateway's clients, and spawned sub-agents.  Every    *)
(* behaviour is one of one part, while the others keep their initial       *)
(* state, in which none of their fair actions is enabled.                  *)
(***************************************************************************)
EXTENDS CronJobs, Delivery, SubAgents

CONSTANT RunParts

VARIABLE part

Init ==
    /\ part \in RunParts
    /\ CronInit /\ (part = "cron" \/ jobs = [j \in Jobs |-> NoJob])
    /\ DeliveryInit
    /\ SpawnInit

Next ==
    \/ part = "cron" /\ CronNext /\ UNCHANGED <<part, deliveryVars, spawnVars>>
    \/ part = "delivery" /\ DeliveryNext /\ UNCHANGED <<part, cronVars, spawnVars>>
    \/ part = "spawns" /\ SpawnNext /\ UNCHANGED <<part, cronVars, deliveryVars>>

FairSpec ==
    /\ Init /\ [][Next]_<<part, cronVars, deliveryVars, spawnVars>>
    /\ CronFairness /\ DeliveryFair /\ SpawnFair
=============================================================================
