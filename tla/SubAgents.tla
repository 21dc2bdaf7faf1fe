------------------------------ MODULE SubAgents ------------------------------
(***************************************************************************)
(* Sub-agents: internal/usecase/subagent.go and the sub_agent tool.  Every *)
(* sub-agent has the same tools as its parent, this one included, so a     *)
(* running sub-agent may spawn others: it keeps its slot of the semaphore  *)
(* while it waits for theirs.                                              *)
(***************************************************************************)
EXTENDS Naturals, FiniteSets

CONSTANTS Spawns,          \* calls of Spawn
          NoParent,        \* the parent of a spawn made by the agent itself
          MaxSubAgents     \* SubAgentConfig.MaxSubAgents

ASSUME SubAgentConstants == MaxSubAgents \in Nat \ {0} /\ NoParent \notin Spawns

VARIABLES spawn,      \* of every spawn: where it is, its parent, whether its time is over
          semaphore   \* the spawns that hold a slot

spawnVars == <<spawn, semaphore>>

SpawnInit ==
    /\ spawn = [s \in Spawns |-> [pc |-> "new", parent |-> NoParent, late |-> FALSE]]
    /\ semaphore = {}

SpawnAt(s, pc)  == spawn[s].pc = pc
Children(s)     == {k \in Spawns : spawn[k].parent = s}
Above[s \in Spawns] == IF spawn[s].parent = NoParent THEN {} ELSE {spawn[s].parent} \cup Above[spawn[s].parent]
Ended(s)        == spawn[s].pc \in {"done", "refused"}

\* A call of the tool by the agent, or by a sub-agent that runs: one goroutine per task,
\* each with a timeout of its own inside its parent's.
SpawnParallel(S, p) ==
    /\ S # {} /\ \A s \in S : SpawnAt(s, "new")
    /\ p # NoParent => p \notin S /\ SpawnAt(p, "running") /\ p \in semaphore
    /\ spawn' = [s \in Spawns |-> IF s \in S THEN [pc |-> "wait", parent |-> p, late |-> p # NoParent /\ spawn[p].late]
                                  ELSE IF s = p THEN [spawn[s] EXCEPT !.pc = "spawning"] ELSE spawn[s]]
    /\ UNCHANGED semaphore

\* A slot is free.  When the time is over as well, select may take either case.
AcquireSlot(s) ==
    /\ SpawnAt(s, "wait") /\ Cardinality(semaphore) < MaxSubAgents
    /\ semaphore' = semaphore \cup {s}
    /\ spawn' = [spawn EXCEPT ![s].pc = "running"]

\* Mutant: the wait for a slot is not timed.
MutGivesUp(s) == FALSE

GivesUp(s) == spawn[s].late

\* The timeout passes while the spawn waits for its slot.
RefuseSlot(s) ==
    /\ SpawnAt(s, "wait") /\ GivesUp(s)
    /\ spawn' = [spawn EXCEPT ![s].pc = "refused"]
    /\ UNCHANGED semaphore

\* The sub-agent's turn ends, with an answer or, at the latest when its time is over, an error.
TurnEnds(s) ==
    /\ SpawnAt(s, "running")
    /\ semaphore' = semaphore \ {s}
    /\ spawn' = [spawn EXCEPT ![s].pc = "done"]

\* All the children have returned, and the turn goes on.
ChildrenReturn(s) ==
    /\ SpawnAt(s, "spawning") /\ \A k \in Children(s) : Ended(k)
    /\ spawn' = [spawn EXCEPT ![s].pc = "running"]
    /\ UNCHANGED semaphore

\* SubAgentConfig.Timeout: a context ends with everything below it.
TimeIsUp(s) ==
    /\ spawn[s].pc \in {"wait", "running", "spawning"} /\ ~spawn[s].late
    /\ spawn' = [k \in Spawns |-> IF k = s \/ (s \in Above[k] /\ ~Ended(k)) THEN [spawn[k] EXCEPT !.late = TRUE]
                                  ELSE spawn[k]]
    /\ UNCHANGED semaphore

SpawnStep(s) == AcquireSlot(s) \/ RefuseSlot(s) \/ TurnEnds(s) \/ ChildrenReturn(s)

SpawnNext ==
    \/ \E S \in SUBSET Spawns, p \in Spawns \cup {NoParent} : SpawnParallel(S, p)
    \/ \E s \in Spawns : SpawnStep(s) \/ TimeIsUp(s)

\* Go runs what can run, timers fire, and a turn ends: the agent loop's own bound
\* (EveryTurnReturns of AgentTurn).  Nothing makes the semaphore fair to one waiter.
SpawnFair == \A s \in Spawns : WF_spawnVars(SpawnStep(s)) /\ WF_spawnVars(TimeIsUp(s))

SpawnSpec == SpawnInit /\ [][SpawnNext]_spawnVars /\ SpawnFair

-----------------------------------------------------------------------------
\* Every spawn returns, although parents hold the slots their children wait for: the
\* timeout covers the wait as well.
SpawnsReturn == \A s \in Spawns : SpawnAt(s, "wait") ~> Ended(s)
=============================================================================
