-------------------------------- MODULE Nodes --------------------------------
(***************************************************************************)
(* The edge nodes: internal/usecase/node, the gateway's node.* calls and   *)
(* the tools that go through it (node_invoke, camera, location).           *)
(*                                                                         *)
(* Device tokens are numbered; 0 is none.  Auth and Manager have a lock    *)
(* each, and Register holds the manager's while it asks Auth: a token may  *)
(* be revoked at any moment of it.  Connections to a node are shared by    *)
(* the calls to it and numbered in the order in which they are made.       *)
(***************************************************************************)
EXTENDS Naturals, FiniteSets

CONSTANTS NodeIds,        \* the nodes
          AllowedNodes,   \* ManagerConfig.AllowedNodes: none for all
          NodeCallers,    \* callers of Register and Invoke
          NoNode,         \* no node, and no caller
          NodeBounds      \* bounds: tokens, calls, steps of time

ASSUME NodeConstants ==
    /\ AllowedNodes \subseteq NodeIds
    /\ NoNode \notin NodeIds \cup NodeCallers
    /\ NodeBounds \in [tokens : Nat, calls : Nat, time : Nat]

VARIABLES token,      \* Auth.tokens: the valid token of every node
          issued,     \* how many tokens every node was ever given
          node,       \* Manager.nodes: "none", "online" or "unreachable", and how long it is silent
          nodeMu,     \* who holds Manager.mu across steps
          caller,     \* the locals of every call
          conn,       \* GRPCInvoker.conns: the cached connection of every node, or 0
          open,       \* the connections that are open
          dialled,    \* how many connections were made
          shots,      \* temporary files: of which call, and whether it reported the file
          ndLeft      \* what the bounds still allow

nodeVars == <<token, issued, node, nodeMu, caller, conn, open, dialled, shots, ndLeft>>

Silent == 2      \* the checker's timeout, in steps of time: 2 intervals
NewCall == [pc |-> "idle", node |-> NoNode, token |-> 0, late |-> FALSE, conn |-> 0, what |-> "plain"]

NodesInit ==
    /\ token = [n \in NodeIds |-> 0] /\ issued = [n \in NodeIds |-> 0]
    /\ node = [n \in NodeIds |-> [st |-> "none", silent |-> 0]]
    /\ nodeMu = NoNode
    /\ caller = [c \in NodeCallers |-> NewCall]
    /\ conn = [n \in NodeIds |-> 0] /\ open = {} /\ dialled = 0
    /\ shots = {}
    /\ ndLeft = NodeBounds

Doing(c, pc)  == caller[c].pc = pc
Moves(c, pc)  == caller' = [caller EXCEPT ![c].pc = pc]
EndCall(c)    == caller' = [caller EXCEPT ![c] = NewCall]
wires         == <<conn, open, dialled>>

-----------------------------------------------------------------------------
(* Tokens: node.token.generate and node.token.revoke *)

\* The calls that come too late for the token they carry.
Outdated(n) == [c \in NodeCallers |->
    [caller[c] EXCEPT !.late = @ \/ (caller[c].node = n /\ Doing(c, "checked"))]]

GenerateToken(n) ==
    /\ issued[n] < NodeBounds.tokens
    /\ issued' = [issued EXCEPT ![n] = @ + 1]
    /\ token' = [token EXCEPT ![n] = issued[n] + 1]
    /\ caller' = IF token[n] = 0 THEN caller ELSE Outdated(n)
    /\ UNCHANGED <<node, nodeMu, wires, shots, ndLeft>>

RevokeToken(n) ==
    /\ token[n] # 0
    /\ token' = [token EXCEPT ![n] = 0]
    /\ caller' = Outdated(n)
    /\ UNCHANGED <<issued, node, nodeMu, wires, shots, ndLeft>>

ValidateToken(n, t) == t # 0 /\ token[n] = t

-----------------------------------------------------------------------------
(* Registration and health *)

Allowed(n) == AllowedNodes = {} \/ n \in AllowedNodes

\* Register, up to the lock: allowlist and first validation.
RegisterCheck(c, n, t) ==
    /\ Doing(c, "idle") /\ ndLeft.calls > 0
    /\ Allowed(n) /\ ValidateToken(n, t)
    /\ caller' = [caller EXCEPT ![c] = [NewCall EXCEPT !.pc = "checked", !.node = n, !.token = t]]
    /\ ndLeft' = [ndLeft EXCEPT !.calls = @ - 1]
    /\ UNCHANGED <<token, issued, node, nodeMu, wires, shots>>

\* Mutant: only the first validation.
MutRevalidates(c) == TRUE

Revalidates(c) == ValidateToken(caller[c].node, caller[c].token)

\* With the lock: the second validation, and whether the node is known.
RegisterLock(c) ==
    /\ Doing(c, "checked") /\ nodeMu = NoNode
    /\ IF Revalidates(c) /\ node[caller[c].node].st = "none"
         THEN nodeMu' = c /\ Moves(c, "insert")
         ELSE EndCall(c) /\ UNCHANGED nodeMu
    /\ UNCHANGED <<token, issued, node, wires, shots, ndLeft>>

RegisterInsert(c) ==
    /\ Doing(c, "insert")
    /\ node' = [node EXCEPT ![caller[c].node] = [st |-> "online", silent |-> 0]]
    /\ nodeMu' = NoNode
    /\ Moves(c, "registered")
    /\ UNCHANGED <<token, issued, wires, shots, ndLeft>>

RegisterReturns(c) ==
    /\ Doing(c, "registered")
    /\ EndCall(c)
    /\ UNCHANGED <<token, issued, node, nodeMu, wires, shots, ndLeft>>

Unregister(n) ==
    /\ nodeMu = NoNode /\ node[n].st # "none"
    /\ node' = [node EXCEPT ![n] = [st |-> "none", silent |-> 0]]
    /\ UNCHANGED <<token, issued, nodeMu, caller, wires, shots, ndLeft>>

Heartbeat(n) ==
    /\ nodeMu = NoNode /\ node[n].st # "none"
    /\ node' = [node EXCEPT ![n] = [st |-> "online", silent |-> 0]]
    /\ UNCHANGED <<token, issued, nodeMu, caller, wires, shots, ndLeft>>

NodeTime ==
    /\ ndLeft.time > 0
    /\ ndLeft' = [ndLeft EXCEPT !.time = @ - 1]
    /\ node' = [n \in NodeIds |-> IF node[n].st = "none" THEN node[n] ELSE [node[n] EXCEPT !.silent = @ + 1]]
    /\ UNCHANGED <<token, issued, nodeMu, caller, wires, shots>>

checkHealth ==
    /\ nodeMu = NoNode
    /\ \E n \in NodeIds : node[n].st = "online" /\ node[n].silent > Silent
    /\ node' = [n \in NodeIds |-> IF node[n].silent > Silent THEN [node[n] EXCEPT !.st = "unreachable"] ELSE node[n]]
    /\ UNCHANGED <<token, issued, nodeMu, caller, wires, shots, ndLeft>>

-----------------------------------------------------------------------------
(* Invocation *)

\* Invoke copies the node: it may be gone, or unreachable, before the call is made.
Invoke(c, n, what) ==
    /\ Doing(c, "idle") /\ ndLeft.calls > 0 /\ nodeMu = NoNode
    /\ node[n].st = "online"
    /\ caller' = [caller EXCEPT ![c] = [NewCall EXCEPT !.pc = "dial", !.node = n, !.what = what]]
    /\ ndLeft' = [ndLeft EXCEPT !.calls = @ - 1]
    /\ UNCHANGED <<token, issued, node, nodeMu, wires, shots>>

getConn(c) ==
    LET n == caller[c].node
    IN  /\ Doing(c, "dial")
        /\ IF conn[n] # 0
             THEN caller' = [caller EXCEPT ![c].pc = "call", ![c].conn = conn[n]] /\ UNCHANGED wires
             ELSE /\ dialled' = dialled + 1
                  /\ conn' = [conn EXCEPT ![n] = dialled + 1] /\ open' = open \cup {dialled + 1}
                  /\ caller' = [caller EXCEPT ![c].pc = "call", ![c].conn = dialled + 1]
        /\ UNCHANGED <<token, issued, node, nodeMu, shots, ndLeft>>

\* Mutant: the entry is removed whatever connection it holds.
MutStillCached(c) == TRUE

StillCached(c) == conn[caller[c].node] = caller[c].conn

\* Execute fails: the node, the network, a timeout, a cancelled context, or another call
\* that failed and closed the connection they share.
ExecuteFails(c) ==
    /\ Doing(c, "call")
    /\ IF StillCached(c)
         THEN conn' = [conn EXCEPT ![caller[c].node] = 0] /\ open' = open \ {caller[c].conn}
         ELSE UNCHANGED <<conn, open>>
    /\ EndCall(c)
    /\ UNCHANGED <<token, issued, node, nodeMu, dialled, shots, ndLeft>>

\* The node answered, with a result or an error of its own.
ExecuteReturns(c, ok) ==
    /\ Doing(c, "call") /\ caller[c].conn \in open
    /\ IF ok /\ caller[c].what = "media" THEN Moves(c, "media") ELSE EndCall(c)
    /\ UNCHANGED <<token, issued, node, nodeMu, wires, shots, ndLeft>>

\* decodeAndWriteMedia: an empty, too large or undecodable payload has no file, and a
\* failed write removes it.
decodeAndWriteMedia(c, ok) ==
    /\ Doing(c, "media")
    /\ shots' = IF ok THEN shots \cup {c} ELSE shots
    /\ EndCall(c)
    /\ UNCHANGED <<token, issued, node, nodeMu, wires, ndLeft>>

NodesNext ==
    \/ NodeTime \/ checkHealth
    \/ \E n \in NodeIds : GenerateToken(n) \/ RevokeToken(n) \/ Unregister(n) \/ Heartbeat(n)
    \/ \E c \in NodeCallers :
          \/ RegisterLock(c) \/ RegisterInsert(c) \/ RegisterReturns(c) \/ getConn(c) \/ ExecuteFails(c)
          \/ \E n \in NodeIds : \/ \E t \in 1 .. issued[n] : RegisterCheck(c, n, t)
                                \/ \E what \in {"plain", "media"} : Invoke(c, n, what)
          \/ \E ok \in BOOLEAN : ExecuteReturns(c, ok) \/ decodeAndWriteMedia(c, ok)

NodesSpec == NodesInit /\ [][NodesNext]_nodeVars

-----------------------------------------------------------------------------
\* A token that was revoked or replaced before Register took its lock registers nobody:
\* the reason for the second validation.  (One revoked later, while the lock is held, does.)
RevokedStaysOut == \A c \in NodeCallers : Doing(c, "registered") => ~caller[c].late

\* Every open connection is the cached one of its node, so the next call finds it and
\* somebody closes it: two calls that fail on one connection do not lose a third.
ConnsAreCached == \A k \in open : \E n \in NodeIds : conn[n] = k

\* Who is let in, and what is left open behind him (usecase/node/manager.go, invoker_grpc.go).
NodesAreTrusted == RevokedStaysOut /\ ConnsAreCached
=============================================================================
