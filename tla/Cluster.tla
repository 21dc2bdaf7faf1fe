------------------------------- MODULE Cluster -------------------------------
(***************************************************************************)
(* The session lock of a cluster: internal/usecase/cluster/coordinator.go, *)
(* over one Redis key with an expiry.  The key holds the name of the node; *)
(* a release looks at it and then deletes it, in two requests to Redis.    *)
(*                                                                         *)
(* Every successful SetNX makes a new grant, numbered from 1.              *)
(***************************************************************************)
EXTENDS Naturals, FiniteSets

CONSTANTS Holders,       \* callers that want the session's lock
          NodeOf,        \* their nodes
          NoOwner,       \* no node
          MaxGrants      \* bound: how often the lock is taken

ASSUME ClusterConstants == MaxGrants \in Nat /\ \A c \in Holders : NodeOf[c] # NoOwner

VARIABLES key,       \* external, Redis: the owner and the grant it stands for
          grants,    \* how many grants there were
          lockCall,  \* of every caller: where it is, its grant, the grant its release saw
          expired,   \* the grants whose time is over
          deleted    \* the grants taken away by the release of a caller that did not hold
                     \* them, and yet had seen its own node's name

clusterVars == <<key, grants, lockCall, expired, deleted>>

NoKey == [owner |-> NoOwner, grant |-> 0]

ClusterInit ==
    /\ key = NoKey /\ grants = 0
    /\ lockCall = [c \in Holders |-> [pc |-> "idle", grant |-> 0, saw |-> 0]]
    /\ expired = {} /\ deleted = {}

In(c, pc) == lockCall[c].pc = pc

\* A call that gets false or an error is not in the lock, and may try again.
AcquireSession(c) ==
    /\ In(c, "idle") /\ key = NoKey /\ grants < MaxGrants
    /\ grants' = grants + 1
    /\ key' = [owner |-> NodeOf[c], grant |-> grants + 1]
    /\ lockCall' = [lockCall EXCEPT ![c] = [pc |-> "held", grant |-> grants + 1, saw |-> 0]]
    /\ UNCHANGED <<expired, deleted>>

\* Redis drops the key when lockTTL has passed; its holder is not told.
Expire ==
    /\ key # NoKey
    /\ key' = NoKey /\ expired' = expired \cup {key.grant}
    /\ UNCHANGED <<grants, lockCall, deleted>>

\* Mutant: whoever owns the key.
MutIsOwner(c) == key # NoKey

IsOwner(c) == key.owner = NodeOf[c]

\* ReleaseSession: the Get.
ReleaseGet(c) ==
    /\ In(c, "held")
    /\ lockCall' = IF IsOwner(c) THEN [lockCall EXCEPT ![c].pc = "del", ![c].saw = key.grant]
                   ELSE [lockCall EXCEPT ![c] = [pc |-> "idle", grant |-> 0, saw |-> 0]]
    /\ UNCHANGED <<key, grants, expired, deleted>>

\* ReleaseSession: the Del, of whatever the key is by now.
ReleaseDel(c) ==
    /\ In(c, "del")
    /\ deleted' = IF key # NoKey /\ key.grant # lockCall[c].grant /\
                     (key.grant # lockCall[c].saw \/ key.owner = NodeOf[c])
                  THEN deleted \cup {key.grant} ELSE deleted
    /\ key' = NoKey
    /\ lockCall' = [lockCall EXCEPT ![c] = [pc |-> "idle", grant |-> 0, saw |-> 0]]
    /\ UNCHANGED <<grants, expired>>

ClusterNext == Expire \/ \E c \in Holders : AcquireSession(c) \/ ReleaseGet(c) \/ ReleaseDel(c)

ClusterSpec == ClusterInit /\ [][ClusterNext]_clusterVars

-----------------------------------------------------------------------------
InLock(c) == lockCall[c].grant # 0 /\ lockCall[c].grant \notin expired

\* While a grant lasts nobody else is in the lock, unless a release that began when its own
\* node had the key deleted that grant: it straddled an expiry, or the node has two callers.
OneHolder == \A c, d \in Holders :
    c # d /\ InLock(c) /\ InLock(d) => {lockCall[c].grant, lockCall[d].grant} \cap deleted # {}
=============================================================================
