---------------------------- MODULE MCAgentTurn ----------------------------
(***************************************************************************)
(* AgentTurn for TLC: every combination of the optional dependencies with  *)
(* the session lock, and, apart, the one cmd/agent wires, which has none.  *)
(* Beside the turns, the histories of MCTranscript: a turn meets only the  *)
(* histories it makes, repair and truncation must cope with any.           *)
(***************************************************************************)
EXTENDS AgentTurn, MCTranscript

CONSTANT RunParts   \* "turn", "history" or both

VARIABLE part

Wiring(l, cl, co, g, s) ==
    [locker |-> l, classifier |-> cl, compressor |-> co, guard |-> g, streaming |-> s]

Locked == {Wiring(TRUE, cl, co, g, s) : cl, co, g, s \in BOOLEAN}

\* cmd/agent/init_agent.go, with compression and the context guard enabled.
Shipped == {Wiring(FALSE, FALSE, TRUE, TRUE, FALSE)}

-----------------------------------------------------------------------------
Init ==
    /\ part \in RunParts
    /\ TurnInit /\ (part = "turn" \/ deps = CHOOSE w \in Wirings : TRUE)
    /\ TranscriptInit

Next ==
    \/ part = "turn" /\ TurnNext /\ UNCHANGED <<part, history>>
    \/ part = "history" /\ TranscriptNext /\ UNCHANGED <<part, turnVars>>

Spec == Init /\ [][Next]_<<part, turnVars, history>>

\* A behaviour that grows a history leaves the turns waiting, which is not fair to them:
\* the temporal properties are about the turns, the invariants about both.
FairSpec == Spec /\ \A t \in Turns : WF_turnVars(Step(t))
=============================================================================
