--------------------------- MODULE ServicesProofs ---------------------------
(***************************************************************************)
(* The services that stand beside the agent, for every number of callers,  *)
(* requests, turns, events and nodes: the cluster's session lock, the HTTP *)
(* channel, the offline queue, the event bus, the edge nodes, the devices  *)
(* and their MQTT messages, and the terminal chat. Each has an inductive   *)
(* invariant of its own, built from named parts.                           *)
(***************************************************************************)
EXTENDS Cluster, HTTPChannel, Offline, Delivery, Nodes, Devices, Tui, SequenceTheorems, FiniteSetTheorems, TLAPS

-----------------------------------------------------------------------------
(* The session lock of a cluster *)

LockCall == [pc : {"idle", "held", "del"}, grant : Nat, saw : Nat]

ClusterTypeOK ==
    /\ key.grant \in Nat /\ key = [owner |-> key.owner, grant |-> key.grant]
    /\ grants \in Nat
    /\ lockCall \in [Holders -> LockCall]

\* Grants are numbered as they are made, and no two callers have the same.
GrantsAreNumbered ==
    /\ key.grant <= grants
    /\ key.grant = 0 <=> key = NoKey
    /\ \A c \in Holders : /\ lockCall[c].grant <= grants
                          /\ lockCall[c].saw <= grants
    /\ \A c, d \in Holders :
         lockCall[c].grant # 0 /\ lockCall[c].grant = lockCall[d].grant => c = d

\* A release that is about to delete the key saw a grant of its own node there.
SawItsOwn ==
    \A c \in Holders :
        In(c, "del") => /\ lockCall[c].saw # 0
                        /\ lockCall[c].saw = key.grant => key.owner = NodeOf[c]

\* A grant that lasts is the one the key stands for, unless it was taken away.
LastingIsKey ==
    \A c \in Holders :
        InLock(c) => key.grant = lockCall[c].grant \/ lockCall[c].grant \in deleted

ClusterInv == ClusterTypeOK /\ GrantsAreNumbered /\ SawItsOwn /\ LastingIsKey

\* ReleaseSession takes away whatever grant the key stands for, its own or another, and
\* another one is on record as deleted.
LEMMA DelIsRecorded ==
    ASSUME ClusterInv, NEW c \in Holders, ReleaseDel(c)
    PROVE  \/ key = NoKey
           \/ key.grant = lockCall[c].grant
           \/ key.grant \in deleted'
BY DEF ReleaseDel, ClusterInv, ClusterTypeOK, LockCall, SawItsOwn

\* The invariant of the cluster's lock holds at the start and is kept by every step.
THEOREM ClusterInvariant == ClusterSpec => []ClusterInv
<1>1. ClusterInit => ClusterInv
  BY DEF ClusterInit, ClusterInv, ClusterTypeOK, LockCall, GrantsAreNumbered, SawItsOwn, LastingIsKey,
         NoKey, In, InLock
<1>2. ClusterInv /\ [ClusterNext]_clusterVars => ClusterInv'
  <2> SUFFICES ASSUME ClusterInv, [ClusterNext]_clusterVars
               PROVE  ClusterInv'
    OBVIOUS
  <2> USE DEF ClusterInv, ClusterTypeOK, LockCall, GrantsAreNumbered, SawItsOwn, LastingIsKey, NoKey, In, InLock
  <2>1. ASSUME NEW c \in Holders, AcquireSession(c) PROVE ClusterInv'
    <3> USE <2>1 DEF AcquireSession
    <3>1. ClusterTypeOK'
      OBVIOUS
    <3>2. GrantsAreNumbered'
      <4>1. \A d \in Holders : lockCall'[d].grant = IF d = c THEN grants + 1 ELSE lockCall[d].grant
        OBVIOUS
      <4>2. \A d \in Holders : lockCall'[d].saw <= grants'
        OBVIOUS
      <4>3. key'.grant = grants + 1 /\ key' # NoKey
        OBVIOUS
      <4> QED
        BY <4>1, <4>2, <4>3
    <3>3. SawItsOwn' /\ LastingIsKey'
      OBVIOUS
    <3> QED
      BY <3>1, <3>2, <3>3
  <2>2. CASE Expire
    BY <2>2 DEF Expire
  <2>3. ASSUME NEW c \in Holders, ReleaseGet(c) PROVE ClusterInv'
    <3>1. CASE IsOwner(c)
      <4>1. key.grant # 0
        BY <3>1, ClusterConstants DEF IsOwner
      <4>2. lockCall' = [lockCall EXCEPT ![c].pc = "del", ![c].saw = key.grant] /\ key' = key /\ grants' = grants
        BY <2>3, <3>1 DEF ReleaseGet
      <4>3. \A d \in Holders : /\ lockCall'[d] \in LockCall
                               /\ lockCall'[d].grant = lockCall[d].grant
                               /\ lockCall'[d].saw = IF d = c THEN key.grant ELSE lockCall[d].saw
        BY <4>2
      <4> QED
        BY <2>3, <3>1, <4>1, <4>2, <4>3 DEF ReleaseGet, IsOwner
    <3>2. CASE ~IsOwner(c)
      BY <2>3, <3>2 DEF ReleaseGet
    <3> QED
      BY <3>1, <3>2
  <2>4. ASSUME NEW c \in Holders, ReleaseDel(c) PROVE ClusterInv'
    BY <2>4, DelIsRecorded DEF ReleaseDel
  <2>5. CASE UNCHANGED clusterVars
    BY <2>5 DEF clusterVars
  <2> QED
    BY <2>1, <2>2, <2>3, <2>4, <2>5 DEF ClusterNext
<1> QED
  BY <1>1, <1>2, PTL DEF ClusterSpec

\* OneHolder, for any number of callers and nodes: two callers in the lock at once mean
\* that a grant was deleted by a release that began under an older one (ReleaseSession).
THEOREM OneHolderHolds == ClusterSpec => []OneHolder
<1>1. ClusterInv => OneHolder
  BY DEF ClusterInv, ClusterTypeOK, LockCall, GrantsAreNumbered, LastingIsKey, OneHolder, InLock
<1> QED
  BY <1>1, ClusterInvariant, PTL

-----------------------------------------------------------------------------
(* The HTTP channel *)

HttpCall == [pc : {"new", "turn", "send", "wait", "leave", "done"},
             session : HttpSessions \cup {Nobody}, ch : HttpRequests \cup {Nobody}]

HttpTypeOK ==
    /\ pending \in [HttpSessions -> HttpRequests \cup {Nobody}]
    /\ respCh \in [HttpRequests -> HttpRequests \cup {Nobody}]
    /\ request \in [HttpRequests -> HttpCall]
    /\ reply \in [HttpRequests -> HttpRequests \cup {Nobody}]
    /\ overlapped \subseteq HttpRequests
    /\ \A r \in HttpRequests : IsAt(r, "new") <=> request[r].session = Nobody

\* Between its registration and the deferred delete.
Active(r) == request[r].pc \in {"turn", "send", "wait", "leave"}

\* Two active requests of one session have met.
MeetingIsSeen ==
    \A r, o \in HttpRequests :
        r # o /\ Active(r) /\ Active(o) /\ request[r].session = request[o].session
        => {r, o} \subseteq overlapped

\* A session's entry is an active request of that session, and the one request of a
\* session has the entry.
EntryIsActive ==
    /\ \A s \in HttpSessions : pending[s] # Nobody =>
         Active(pending[s]) /\ request[pending[s]].session = s
    /\ \A r \in HttpRequests \ overlapped : Active(r) => pending[request[r].session] = r

\* An answer that goes, or went, to somebody else's channel goes to a request that met another.
AnswersStray ==
    /\ \A r, o \in HttpRequests :
         /\ IsAt(o, "send") /\ request[o].ch = r /\ r # o => r \in overlapped
         /\ respCh[r] = o /\ r # o => r \in overlapped
         /\ reply[r] = o /\ r # o => r \in overlapped
    /\ \A r \in HttpRequests \ overlapped :
         /\ IsAt(r, "send") => request[r].ch = r
         /\ IsAt(r, "wait") => respCh[r] = r

HttpInv == HttpTypeOK /\ MeetingIsSeen /\ EntryIsActive /\ AnswersStray

\* What Send has found when it looked up the session's channel.
LEMMA LookedUp ==
    ASSUME HttpTypeOK, NEW r \in HttpRequests, SendLooksUp(r)
    PROVE  /\ request'[r].pc = "send"
           /\ request'[r].session = request[r].session
           /\ request'[r].ch = pending[request[r].session]
           /\ request' \in [HttpRequests -> HttpCall]
<1>1. request[r] \in HttpCall /\ request[r].session \in HttpSessions /\ pending[request[r].session] \in HttpRequests \cup {Nobody}
  BY HttpConstants DEF HttpTypeOK, SendLooksUp, IsAt, HttpCall
<1>2. request' = [request EXCEPT ![r].pc = "send", ![r].ch = pending[request[r].session]] /\ request \in [HttpRequests -> HttpCall]
  BY DEF HttpTypeOK, SendLooksUp
<1> QED
  BY <1>1, <1>2 DEF HttpCall

\* A request that goes on, and is not done with it, meets nobody and keeps its entry.
LEMMA HttpGoes ==
    ASSUME HttpInv, NEW r \in HttpRequests, NEW pc \in {"send", "wait", "leave"},
           Active(r), HttpGo(r, pc), UNCHANGED <<pending, overlapped>>,
           respCh' \in [HttpRequests -> HttpRequests \cup {Nobody}],
           reply' \in [HttpRequests -> HttpRequests \cup {Nobody}]
    PROVE  /\ HttpTypeOK' /\ MeetingIsSeen' /\ EntryIsActive'
           /\ \A o \in HttpRequests : /\ o # r => request'[o] = request[o]
                                      /\ request'[o].ch = request[o].ch
           /\ request'[r].pc = pc
<1> USE HttpConstants DEF HttpInv, HttpTypeOK, HttpCall, Active, IsAt, HttpGo
<1>1. \A o \in HttpRequests : /\ o # r => request'[o] = request[o]
                              /\ request'[o].session = request[o].session
                              /\ request'[o].ch = request[o].ch
                              /\ Active(o)' <=> Active(o)
  OBVIOUS
<1>2. request'[r].pc = pc
  OBVIOUS
<1>3. HttpTypeOK'
  <2>1. request' \in [HttpRequests -> HttpCall]
    BY SMTT(30)
  <2>2. \A o \in HttpRequests : IsAt(o, "new")' <=> request'[o].session = Nobody
    BY <1>1, <1>2
  <2> QED
    BY <2>1, <2>2
<1>4. MeetingIsSeen' /\ EntryIsActive'
  BY <1>1 DEF MeetingIsSeen, EntryIsActive
<1> QED
  BY <1>1, <1>2, <1>3, <1>4

\* The invariant of the HTTP channel holds at the start and is kept by every step.
THEOREM HttpInvariant == HttpSpec => []HttpInv
<1>1. HttpInit => HttpInv
  BY HttpConstants
  DEF HttpInit, HttpInv, HttpTypeOK, HttpCall, MeetingIsSeen, EntryIsActive, AnswersStray, Active, IsAt
<1>2. HttpInv /\ [HttpNext]_httpVars => HttpInv'
  <2> SUFFICES ASSUME HttpInv, [HttpNext]_httpVars
               PROVE  HttpInv'
    OBVIOUS
  <2> USE HttpConstants DEF HttpInv, HttpTypeOK, HttpCall, MeetingIsSeen, EntryIsActive, AnswersStray, Active, IsAt
  <2>1. ASSUME NEW r \in HttpRequests, NEW s \in HttpSessions, Register(r, s) PROVE HttpInv'
    <3>1. /\ request' = [request EXCEPT ![r].pc = "turn", ![r].session = s]
          /\ pending' = [pending EXCEPT ![s] = r]
          /\ UNCHANGED <<respCh, reply>>
          /\ IsAt(r, "new") /\ request[r].session = Nobody
      BY <2>1 DEF Register
    <3>2. /\ overlapped \subseteq overlapped'
          /\ overlapped' \subseteq HttpRequests
          /\ \A o \in HttpRequests : Active(o) /\ request[o].session = s => {o, r} \subseteq overlapped'
      BY <2>1 DEF Register
    <3>3. \A o \in HttpRequests : o # r => request'[o] = request[o]
      BY <3>1
    <3>4. request'[r] = [pc |-> "turn", session |-> s, ch |-> request[r].ch]
      BY <3>1
    <3>5. HttpTypeOK'
      BY <3>1, <3>2, <3>3, <3>4
    <3>6. MeetingIsSeen'
      BY <3>2, <3>3, <3>4
    <3>7. EntryIsActive'
      BY <3>1, <3>2, <3>3, <3>4
    <3>8. AnswersStray'
      BY <3>1, <3>2, <3>3, <3>4
    <3> QED
      BY <3>5, <3>6, <3>7, <3>8
  <2>2. ASSUME NEW r \in HttpRequests, SendLooksUp(r) PROVE HttpInv'
    <3>1. /\ request' = [request EXCEPT ![r].pc = "send", ![r].ch = pending[request[r].session]]
          /\ UNCHANGED <<pending, respCh, reply, overlapped>>
          /\ Active(r)
      BY <2>2 DEF SendLooksUp
    <3>2. \A o \in HttpRequests : o # r => request'[o] = request[o]
      BY <3>1
    <3>3. /\ request'[r].pc = "send"
          /\ request'[r].session = request[r].session
          /\ request'[r].ch = pending[request[r].session]
          /\ request' \in [HttpRequests -> HttpCall]
      BY <2>2, LookedUp
    <3>4. HttpTypeOK' /\ MeetingIsSeen' /\ EntryIsActive'
      BY <3>1, <3>2, <3>3
    <3>5. AnswersStray'
      BY <3>1, <3>2, <3>3, SMTT(30)
    <3> QED
      BY <3>4, <3>5
  <2>3. ASSUME NEW r \in HttpRequests, NEW ok \in BOOLEAN, SendDelivers(r, ok) PROVE HttpInv'
    <3>1. CASE ok
      <4>1. /\ HttpGo(r, "wait") /\ respCh' = [respCh EXCEPT ![request[r].ch] = r]
            /\ UNCHANGED <<reply, pending, overlapped>> /\ request[r].ch \in HttpRequests
        BY <2>3, <3>1 DEF SendDelivers
      <4>2. /\ HttpTypeOK' /\ MeetingIsSeen' /\ EntryIsActive'
            /\ request'[r].pc = "wait"
            /\ \A o \in HttpRequests : o # r => request'[o] = request[o]
        BY <2>3, <4>1, HttpGoes DEF SendDelivers
      <4>3. AnswersStray'
        BY <2>3, <4>1, <4>2 DEF SendDelivers
      <4> QED
        BY <4>2, <4>3
    <3>2. CASE ~ok
      <4>1. /\ HttpGo(r, "leave") /\ reply' = [reply EXCEPT ![r] = r]
            /\ UNCHANGED <<respCh, pending, overlapped>>
        BY <2>3, <3>2 DEF SendDelivers
      <4>2. /\ HttpTypeOK' /\ MeetingIsSeen' /\ EntryIsActive'
            /\ request'[r].pc = "leave"
            /\ \A o \in HttpRequests : o # r => request'[o] = request[o]
        BY <2>3, <4>1, HttpGoes DEF SendDelivers
      <4>3. AnswersStray'
        BY <4>1, <4>2
      <4> QED
        BY <4>2, <4>3
    <3> QED
      BY <3>1, <3>2
  <2>4. ASSUME NEW r \in HttpRequests, Receives(r) PROVE HttpInv'
    <3>1. HttpTypeOK' /\ MeetingIsSeen' /\ EntryIsActive'
      BY <2>4 DEF Receives, HttpGo
    <3>2. AnswersStray'
      BY <2>4 DEF Receives, HttpGo
    <3> QED
      BY <3>1, <3>2
  <2>5. ASSUME NEW r \in HttpRequests, ClientLeaves(r) PROVE HttpInv'
    <3>1. HttpGo(r, "leave") /\ Active(r) /\ UNCHANGED <<pending, respCh, reply, overlapped>>
      BY <2>5 DEF ClientLeaves
    <3>2. /\ HttpTypeOK' /\ MeetingIsSeen' /\ EntryIsActive'
          /\ request'[r].pc = "leave"
          /\ \A o \in HttpRequests : o # r => request'[o] = request[o]
      BY <3>1, HttpGoes
    <3>3. AnswersStray'
      <4>1. \A o \in HttpRequests : /\ IsAt(o, "send")' => IsAt(o, "send") /\ request'[o].ch = request[o].ch
                                    /\ IsAt(o, "wait")' => IsAt(o, "wait")
        BY <3>2
      <4>2. UNCHANGED <<respCh, reply, overlapped>>
        BY <3>1
      <4>3. AnswersStray
        OBVIOUS
      <4> QED
        BY <4>1, <4>2, <4>3
    <3> QED
      BY <3>2, <3>3
  <2>6. ASSUME NEW r \in HttpRequests, HttpReturns(r) PROVE HttpInv'
    BY <2>6, SMTT(30) DEF HttpReturns, HttpGo, DropPending
  <2>7. CASE UNCHANGED httpVars
    BY <2>7 DEF httpVars
  <2> QED
    BY <2>1, <2>2, <2>3, <2>4, <2>5, <2>6, <2>7 DEF HttpNext
<1> QED
  BY <1>1, <1>2, PTL DEF HttpSpec

\* AnswerIsMine, for any number of requests and sessions: only requests that meet another
\* one of their session can be given its answer (handleChat and Send share one entry).
THEOREM AnswerIsMineHolds == HttpSpec => []AnswerIsMine
<1>1. HttpInv => AnswerIsMine
  BY HttpConstants DEF HttpInv, HttpTypeOK, HttpCall, EntryIsActive, AnswersStray, AnswerIsMine, Active, IsAt
<1> QED
  BY <1>1, HttpInvariant, PTL

-----------------------------------------------------------------------------
(* The offline queue *)

\* What is at hand of a message follows from where its turn is: nothing before Enqueue has
\* filled its file, one place after it has, and one more for every file that stayed; a
\* drain does not hold a message whose file it has yet to read.
FileOf(t) ==
    /\ offTurn[t] \in {"failed", "error", "enqueue"} => queue[t] = "none" /\ Copies(t) = 0
    /\ offTurn[t] = "write" => queue[t] = "empty" /\ Copies(t) = 0
    /\ offTurn[t] \in {"failed", "error", "enqueue", "write"} =>
          offLedger[t].unremoved = 0 /\ ~offLedger[t].accepted
    /\ t \in monitor.files => t \notin monitor.taken

KeptOf(t) ==
    /\ offLedger[t].accepted => Copies(t) = 1 + offLedger[t].unremoved
    /\ Copies(t) \in {offLedger[t].unremoved, 1 + offLedger[t].unremoved}

FileFollowsTurn == \A t \in Turns : FileOf(t) /\ KeptOf(t)

LedgerTypeOK ==
    offLedger \in [Turns -> [accepted : BOOLEAN, returned : Nat, unremoved : Nat, lost : Nat]]

OfflineTypeOK ==
    /\ queue \in [Turns -> {"none", "empty", "full"}]
    /\ offTurn \in [Turns -> {"failed", "error", "enqueue", "write", "queued", "answered", "failedTwice", "gone"}]
    /\ monitor \in [pc : {"tick", "sync", "drain"}, files : SUBSET Turns, taken : SUBSET Turns]
    /\ monitor.pc # "drain" => monitor.files = {} /\ monitor.taken = {}
    /\ LedgerTypeOK

OfflineInv == OfflineTypeOK /\ FileFollowsTurn

\* The invariant of the offline queue holds at the start and is kept by every step, of the
\* turns and of the drain that runs among them, failures and crashes included.
THEOREM OfflineInvariant == OfflineSpec => []OfflineInv
<1>1. OfflineInit => OfflineInv
  BY DEF OfflineInit, OfflineInv, OfflineTypeOK, LedgerTypeOK, FileFollowsTurn, FileOf, KeptOf, Copies, Ticking
<1>2. OfflineInv /\ [OfflineNext]_offlineVars => OfflineInv'
  <2> SUFFICES ASSUME OfflineInv, [OfflineNext]_offlineVars
               PROVE  OfflineInv'
    OBVIOUS
  <2> USE DEF OfflineInv
  <2>0. \A u \in Turns : FileOf(u) /\ KeptOf(u)
    BY DEF FileFollowsTurn
  <2>1. CASE NetworkChanges
    <3>1. OfflineTypeOK'
      BY <2>1 DEF NetworkChanges, OfflineTypeOK, LedgerTypeOK, Ticking
    <3>2. ASSUME NEW u \in Turns PROVE (FileOf(u) /\ KeptOf(u))'
      BY <2>0, <2>1 DEF NetworkChanges, OfflineTypeOK, LedgerTypeOK, FileOf, KeptOf, Copies, Ticking
    <3> QED
      BY <3>1, <3>2 DEF FileFollowsTurn
  <2>2. CASE OfflineCrash
    <3>1. OfflineTypeOK'
      BY <2>2 DEF OfflineCrash, OfflineTypeOK, LedgerTypeOK, Ticking
    <3>2. ASSUME NEW u \in Turns PROVE (FileOf(u) /\ KeptOf(u))'
      <4>1. CASE u \in monitor.taken
        BY <2>0, <2>2, <4>1 DEF OfflineCrash, OfflineTypeOK, LedgerTypeOK, FileOf, KeptOf, Copies, Ticking
      <4>2. CASE u \notin monitor.taken
        BY <2>0, <2>2, <4>2 DEF OfflineCrash, OfflineTypeOK, LedgerTypeOK, FileOf, KeptOf, Copies, Ticking
      <4> QED
        BY <4>1, <4>2
    <3> QED
      BY <3>1, <3>2 DEF FileFollowsTurn
  <2>3. CASE Check
    <3>1. OfflineTypeOK'
      BY <2>3 DEF Check, OfflineTypeOK, LedgerTypeOK, Ticking
    <3>2. ASSUME NEW u \in Turns PROVE (FileOf(u) /\ KeptOf(u))'
      BY <2>0, <2>3 DEF Check, OfflineTypeOK, LedgerTypeOK, FileOf, KeptOf, Copies, Ticking
    <3> QED
      BY <3>1, <3>2 DEF FileFollowsTurn
  <2>4. CASE DrainList
    <3>1. OfflineTypeOK'
      <4>1. CASE monitor' = [monitor EXCEPT !.pc = "tick"]
        BY <2>4, <4>1 DEF DrainList, OfflineTypeOK, LedgerTypeOK
      <4>2. CASE monitor' = [monitor EXCEPT !.pc = "drain", !.files = {t \in Turns : queue[t] # "none"}]
        BY <2>4, <4>2 DEF DrainList, OfflineTypeOK, LedgerTypeOK
      <4> QED
        BY <2>4, <4>1, <4>2 DEF DrainList
    <3>2. ASSUME NEW u \in Turns PROVE (FileOf(u) /\ KeptOf(u))'
      BY <2>0, <2>4 DEF DrainList, OfflineTypeOK, LedgerTypeOK, FileOf, KeptOf, Copies, Ticking
    <3> QED
      BY <3>1, <3>2 DEF FileFollowsTurn
  <2>5. CASE DrainEnds
    <3>1. OfflineTypeOK'
      BY <2>5 DEF DrainEnds, OfflineTypeOK, LedgerTypeOK, Ticking
    <3>2. ASSUME NEW u \in Turns PROVE (FileOf(u) /\ KeptOf(u))'
      BY <2>0, <2>5 DEF DrainEnds, OfflineTypeOK, LedgerTypeOK, FileOf, KeptOf, Copies, Ticking
    <3> QED
      BY <3>1, <3>2 DEF FileFollowsTurn
  <2>6. ASSUME NEW t \in Turns, FallBack(t) PROVE OfflineInv'
    <3>1. OfflineTypeOK'
      BY <2>6 DEF FallBack, OfflineTypeOK, LedgerTypeOK, Ticking
    <3>2. ASSUME NEW u \in Turns PROVE (FileOf(u) /\ KeptOf(u))'
      BY <2>0, <2>6 DEF FallBack, OfflineTypeOK, LedgerTypeOK, FileOf, KeptOf, Copies, Ticking
    <3> QED
      BY <3>1, <3>2 DEF FileFollowsTurn
  <2>7. ASSUME NEW t \in Turns, EnqueueOpen(t) PROVE OfflineInv'
    <3>1. OfflineTypeOK'
      BY <2>7 DEF EnqueueOpen, OfflineTypeOK, LedgerTypeOK, Ticking
    <3>2. ASSUME NEW u \in Turns PROVE (FileOf(u) /\ KeptOf(u))'
      BY <2>0, <2>7 DEF EnqueueOpen, OfflineTypeOK, LedgerTypeOK, FileOf, KeptOf, Copies, Ticking
    <3> QED
      BY <3>1, <3>2 DEF FileFollowsTurn
  <2>8. ASSUME NEW t \in Turns, EnqueueWrite(t) PROVE OfflineInv'
    <3>1. OfflineTypeOK'
      BY <2>8 DEF EnqueueWrite, OfflineTypeOK, LedgerTypeOK, Ticking
    <3>2. ASSUME NEW u \in Turns PROVE (FileOf(u) /\ KeptOf(u))'
      BY <2>0, <2>8 DEF EnqueueWrite, OfflineTypeOK, LedgerTypeOK, FileOf, KeptOf, Copies, Ticking
    <3> QED
      BY <3>1, <3>2 DEF FileFollowsTurn
  <2>9. ASSUME NEW t \in Turns, EnqueueFails(t) PROVE OfflineInv'
    <3>1. OfflineTypeOK'
      BY <2>9 DEF EnqueueFails, OfflineTypeOK, LedgerTypeOK, Ticking
    <3>2. ASSUME NEW u \in Turns PROVE (FileOf(u) /\ KeptOf(u))'
      BY <2>0, <2>9 DEF EnqueueFails, OfflineTypeOK, LedgerTypeOK, FileOf, KeptOf, Copies, Ticking
    <3> QED
      BY <3>1, <3>2 DEF FileFollowsTurn
  <2>10. ASSUME NEW t \in Turns, NEW ok \in BOOLEAN, LocalAnswer(t, ok) PROVE OfflineInv'
    <3>1. OfflineTypeOK'
      BY <2>10 DEF LocalAnswer, OfflineTypeOK, LedgerTypeOK, Ticking
    <3>2. ASSUME NEW u \in Turns PROVE (FileOf(u) /\ KeptOf(u))'
      BY <2>0, <2>10 DEF LocalAnswer, OfflineTypeOK, LedgerTypeOK, FileOf, KeptOf, Copies, Ticking
    <3> QED
      BY <3>1, <3>2 DEF FileFollowsTurn
  <2>11. ASSUME NEW t \in Turns, DrainFile(t) PROVE OfflineInv'
    <3>1. OfflineTypeOK'
      BY <2>11 DEF DrainFile, Readable, OfflineTypeOK, LedgerTypeOK, Ticking
    <3>2. ASSUME NEW u \in Turns PROVE (FileOf(u) /\ KeptOf(u))'
      <4>1. CASE u # t
        BY <2>0, <2>11, <4>1 DEF DrainFile, OfflineTypeOK, LedgerTypeOK, FileOf, KeptOf, Copies, Ticking
      <4>2. CASE u = t /\ Readable(t)
        BY <2>0, <2>11, <4>2 DEF DrainFile, Readable, OfflineTypeOK, LedgerTypeOK, FileOf, KeptOf, Copies, Ticking
      <4>3. CASE u = t /\ ~Readable(t)
        BY <2>0, <2>11, <4>3 DEF DrainFile, Readable, OfflineTypeOK, LedgerTypeOK, FileOf, KeptOf, Copies, Ticking
      <4> QED
        BY <4>1, <4>2, <4>3
    <3> QED
      BY <3>1, <3>2 DEF FileFollowsTurn
  <2>12. ASSUME NEW t \in Turns, DrainFileFails(t) PROVE OfflineInv'
    <3>1. OfflineTypeOK'
      <4>1. CASE monitor' = [monitor EXCEPT !.files = @ \ {t}] /\ UNCHANGED offLedger
        BY <2>12, <4>1 DEF DrainFileFails, OfflineTypeOK, LedgerTypeOK
      <4>2. CASE /\ monitor' = [monitor EXCEPT !.files = @ \ {t}, !.taken = @ \cup {t}]
                 /\ offLedger' = [offLedger EXCEPT ![t].unremoved = @ + 1]
        <5>1. LedgerTypeOK'
          BY <4>2 DEF OfflineTypeOK, LedgerTypeOK
        <5>2. /\ monitor' \in [pc : {"drain"}, files : SUBSET Turns, taken : SUBSET Turns]
              /\ UNCHANGED <<queue, offTurn>>
          BY <2>12, <4>2 DEF DrainFileFails, OfflineTypeOK
        <5> QED
          BY <5>1, <5>2 DEF OfflineTypeOK
      <4> QED
        BY <2>12, <4>1, <4>2 DEF DrainFileFails
    <3>2. ASSUME NEW u \in Turns PROVE (FileOf(u) /\ KeptOf(u))'
      <4>1. CASE monitor' = [monitor EXCEPT !.files = @ \ {t}] /\ UNCHANGED offLedger
        <5>1. monitor'.taken = monitor.taken /\ monitor'.files \subseteq monitor.files
          BY <4>1 DEF OfflineTypeOK
        <5> QED
          BY <2>0, <2>12, <4>1, <5>1 DEF DrainFileFails, OfflineTypeOK, LedgerTypeOK, FileOf, KeptOf, Copies, Ticking
      <4>2. CASE /\ Readable(t)
                 /\ monitor' = [monitor EXCEPT !.files = @ \ {t}, !.taken = @ \cup {t}]
                 /\ offLedger' = [offLedger EXCEPT ![t].unremoved = @ + 1]
        <5>1. CASE u # t
          BY <2>0, <2>12, <4>2, <5>1 DEF DrainFileFails, OfflineTypeOK, LedgerTypeOK, FileOf, KeptOf, Copies, Ticking
        <5>2. CASE u = t
          <6>1. /\ queue[u] = "full" /\ u \notin monitor.taken /\ u \in monitor'.taken
                /\ offLedger'[u] = [offLedger[u] EXCEPT !.unremoved = @ + 1]
            BY <2>0, <2>12, <4>2, <5>2 DEF DrainFileFails, Readable, FileOf, OfflineTypeOK, LedgerTypeOK
          <6> QED
            BY <2>0, <2>12, <4>2, <6>1 DEF DrainFileFails, OfflineTypeOK, LedgerTypeOK, FileOf, KeptOf, Copies, Ticking
        <5> QED
          BY <5>1, <5>2
      <4> QED
        BY <2>12, <4>1, <4>2 DEF DrainFileFails
    <3> QED
      BY <3>1, <3>2 DEF FileFollowsTurn
  <2>13. CASE UNCHANGED offlineVars
    <3>1. OfflineTypeOK'
      BY <2>13 DEF offlineVars, OfflineTypeOK, LedgerTypeOK, Ticking
    <3>2. ASSUME NEW u \in Turns PROVE (FileOf(u) /\ KeptOf(u))'
      BY <2>0, <2>13 DEF offlineVars, OfflineTypeOK, LedgerTypeOK, FileOf, KeptOf, Copies, Ticking
    <3> QED
      BY <3>1, <3>2 DEF FileFollowsTurn
  <2> QED
    BY <2>1, <2>2, <2>3, <2>4, <2>5, <2>6, <2>7, <2>8, <2>9, <2>10, <2>11, <2>12, <2>13 DEF OfflineNext
<1> QED
  BY <1>1, <1>2, PTL DEF OfflineSpec

\* QueuedIsKept, for any number of turns, failures and crashes: a drain that races Enqueue
\* loses no message and returns none again but those whose file os.Remove left
\* (OfflineManager.Sync).
THEOREM QueuedIsKeptHolds == OfflineSpec => []QueuedIsKept
<1>1. OfflineInv => QueuedIsKept
  BY DEF OfflineInv, FileFollowsTurn, KeptOf, QueuedIsKept
<1> QED
  BY <1>1, OfflineInvariant, PTL

-----------------------------------------------------------------------------
(* The event bus *)

BusTypeOK ==
    /\ subs \subseteq Subscribers
    /\ pub \in [Events -> [pc : {"idle", "open", "dispatch", "done"}, subs : SUBSET Subscribers]]
    /\ handlers \in [Events -> [Subscribers -> [pc : {"none", "run", "done"}, left : SUBSET Clients]]]
    /\ bus \in [closed : BOOLEAN, closer : {"no", "wait", "returned"}, late : SUBSET Events]

\* Once the bus is closed only the publishes that were under way then can still start a
\* handler, and once Close has returned only theirs can still run.
LateAreKnown ==
    /\ bus.closed <=> bus.closer # "no"
    /\ \A e \in Events : bus.closed /\ Publishing(e) => e \in bus.late
    /\ \A e \in Events, s \in Subscribers :
         bus.closer = "returned" /\ handlers[e][s].pc = "run" => e \in bus.late

DeliveryInv == BusTypeOK /\ LateAreKnown

\* The invariant of the bus holds at the start and is kept by every step of it and of the
\* gateway, whose handlers run on it.
THEOREM DeliveryInvariant == DeliverySpec => []DeliveryInv
<1>1. DeliveryInit => DeliveryInv
  BY DEF DeliveryInit, DeliveryInv, BusTypeOK, LateAreKnown, Publishing
<1>2. DeliveryInv /\ [DeliveryNext]_deliveryVars => DeliveryInv'
  <2> SUFFICES ASSUME DeliveryInv, [DeliveryNext]_deliveryVars
               PROVE  DeliveryInv'
    OBVIOUS
  <2> USE DeliveryConstants DEF DeliveryInv, BusTypeOK, LateAreKnown, Publishing
  <2>1. ASSUME NEW s \in Subscribers, Subscribe(s) \/ Unsubscribe(s) PROVE DeliveryInv'
    BY <2>1 DEF Subscribe, Unsubscribe
  <2>2. ASSUME NEW e \in Events, PublishCheck(e) PROVE DeliveryInv'
    BY <2>2, ZenonT(30) DEF PublishCheck
  <2>3. ASSUME NEW e \in Events, PublishCopy(e) PROVE DeliveryInv'
    BY <2>3 DEF PublishCopy
  <2>4. ASSUME NEW e \in Events, NEW s \in Subscribers, Dispatch(e, s) PROVE DeliveryInv'
    <3>1. BusTypeOK'
      <4>1. pub' \in [Events -> [pc : {"idle", "open", "dispatch", "done"}, subs : SUBSET Subscribers]]
        BY <2>4 DEF Dispatch
      <4>2. handlers'[e] \in [Subscribers -> [pc : {"none", "run", "done"}, left : SUBSET Clients]]
        BY <2>4 DEF Dispatch
      <4>3. \A d \in Events : d # e => handlers'[d] = handlers[d]
        BY <2>4 DEF Dispatch
      <4> QED
        BY <2>4, <4>1, <4>2, <4>3 DEF Dispatch
    <3>2. \A d \in Events : Publishing(d)' => Publishing(d)
      BY <2>4 DEF Dispatch
    <3>3. bus' = bus /\ Publishing(e)
      BY <2>4 DEF Dispatch
    <3>4. \A d \in Events, t \in Subscribers :
            handlers'[d][t].pc = "run" => handlers[d][t].pc = "run" \/ d = e
      BY <2>4 DEF Dispatch
    <3>5. LateAreKnown'
      BY <3>2, <3>3, <3>4
    <3> QED
      BY <3>1, <3>5
  <2>5. CASE Close
    BY <2>5 DEF Close
  <2>6. CASE CloseEnds
    <3>1. \A e \in Events, s \in Subscribers : handlers[e][s].pc # "run"
      <4> SUFFICES ASSUME NEW e \in Events, NEW s \in Subscribers, handlers[e][s].pc = "run"
                   PROVE  <<e, s>> \in Running
        BY <2>6 DEF CloseEnds
      <4>1. <<e, s>> \in Events \X Subscribers /\ <<e, s>>[1] = e /\ <<e, s>>[2] = s
        OBVIOUS
      <4> QED
        BY <4>1 DEF Running
    <3> QED
      BY <2>6, <3>1 DEF CloseEnds
  <2>7. ASSUME NEW e \in Events, NEW k \in Clients, Forward(e, k) PROVE DeliveryInv'
    BY <2>7 DEF Forward
  <2>8. ASSUME NEW e \in Events, NEW s \in Subscribers, HandlerEnds(e, s) PROVE DeliveryInv'
    BY <2>8 DEF HandlerEnds
  <2>9. CASE Start \/ StopGateway \/ StopEnds
    BY <2>9 DEF Start, StopGateway, StopEnds
  <2>10. ASSUME NEW k \in Clients,
                \/ Accept(k) \/ Store(k) \/ ReadRequest(k) \/ Respond(k) \/ WriteFrame(k)
                \/ Disconnect(k) \/ StopClient(k)
                \/ \E ok \in BOOLEAN : WriteEnds(k, ok)
         PROVE  DeliveryInv'
    <3>1. UNCHANGED <<subs, pub, handlers, bus>>
      BY <2>10 DEF Accept, Store, ReadRequest, Respond, WriteFrame, Disconnect, StopClient, WriteEnds
    <3> QED
      BY <3>1
  <2>11. CASE UNCHANGED deliveryVars
    BY <2>11 DEF deliveryVars
  <2> QED
    BY <2>1, <2>2, <2>3, <2>4, <2>5, <2>6, <2>7, <2>8, <2>9, <2>10, <2>11 DEF DeliveryNext, HandlerStep
<1> QED
  BY <1>1, <1>2, PTL DEF DeliverySpec

\* CloseDrains, for any number of events, subscribers and clients: when Bus.Close has
\* returned, what still runs belongs to a publish that was under way when it was called.
THEOREM CloseDrainsHolds == DeliverySpec => []CloseDrains
<1>1. DeliveryInv => CloseDrains
  BY DEF DeliveryInv, LateAreKnown, CloseDrains, Running
<1> QED
  BY <1>1, DeliveryInvariant, PTL

-----------------------------------------------------------------------------
(* The edge nodes *)

NodeCall == [pc : {"idle", "checked", "insert", "registered", "dial", "call", "media"},
             node : NodeIds \cup {NoNode}, token : Nat, late : BOOLEAN, conn : Nat, what : {"plain", "media"}]

NodesTypeOK ==
    /\ token \in [NodeIds -> Nat] /\ issued \in [NodeIds -> Nat]
    /\ caller \in [NodeCallers -> NodeCall]
    /\ \A c \in NodeCallers : ~Doing(c, "idle") => caller[c].node \in NodeIds
    /\ conn \in [NodeIds -> Nat] /\ dialled \in Nat /\ open \subseteq Nat \ {0}

\* Tokens are numbered as they are issued, so one that was revoked or replaced never
\* becomes valid again; and a call that is past the second validation came in time.
LateIsStale ==
    /\ \A n \in NodeIds : token[n] <= issued[n]
    /\ \A c \in NodeCallers :
         /\ Doing(c, "checked") => /\ caller[c].token # 0
                                   /\ caller[c].token <= issued[caller[c].node]
                                   /\ caller[c].late => token[caller[c].node] # caller[c].token
         /\ ~Doing(c, "checked") => ~caller[c].late

NodesInv == NodesTypeOK /\ LateIsStale /\ ConnsAreCached

\* Outdated marks the calls of a node that are between the two validations, and no other.
LEMMA OutdatedMarks ==
    ASSUME NodesTypeOK, NEW n \in NodeIds, caller' = Outdated(n)
    PROVE  /\ caller' \in [NodeCallers -> NodeCall]
           /\ \A c \in NodeCallers :
                /\ caller'[c].pc = caller[c].pc
                /\ caller'[c].node = caller[c].node
                /\ caller'[c].token = caller[c].token
                /\ caller'[c].late <=> caller[c].late \/ (caller[c].node = n /\ Doing(c, "checked"))
<1>1. \A c \in NodeCallers : caller'[c] = [caller[c] EXCEPT !.late = @ \/ (caller[c].node = n /\ Doing(c, "checked"))]
  BY DEF Outdated
<1>2. \A c \in NodeCallers : caller[c] \in NodeCall
  BY DEF NodesTypeOK
<1>3. \A c \in NodeCallers : (caller[c].late \/ (caller[c].node = n /\ Doing(c, "checked"))) \in BOOLEAN
  OBVIOUS
<1>4. ASSUME NEW c \in NodeCallers PROVE caller'[c] \in NodeCall
  <2> DEFINE late == caller[c].late \/ (caller[c].node = n /\ Doing(c, "checked"))
  <2>1. late \in BOOLEAN /\ caller'[c] = [caller[c] EXCEPT !.late = late] /\ caller[c] \in NodeCall
    BY <1>1, <1>2, <1>3
  <2> HIDE DEF late
  <2> QED
    BY <2>1 DEF NodeCall
<1>5. caller' \in [NodeCallers -> NodeCall]
  BY <1>4 DEF Outdated
<1>6. \A c \in NodeCallers :
        /\ caller'[c].pc = caller[c].pc
        /\ caller'[c].node = caller[c].node
        /\ caller'[c].token = caller[c].token
        /\ caller'[c].late = (caller[c].late \/ (caller[c].node = n /\ Doing(c, "checked")))
  BY <1>1, <1>2 DEF NodeCall
<1> QED
  BY <1>5, <1>6

\* A call that goes on to another place keeps everything else.
LEMMA CallMoves ==
    ASSUME NodesTypeOK, NEW c \in NodeCallers, Moves(c, "insert") \/ Moves(c, "registered") \/ Moves(c, "media")
    PROVE  /\ caller' \in [NodeCallers -> NodeCall]
           /\ \A d \in NodeCallers : d # c => caller'[d] = caller[d]
           /\ caller'[c].pc \in {"insert", "registered", "media"}
           /\ caller'[c].node = caller[c].node
           /\ caller'[c].late = caller[c].late
BY DEF NodesTypeOK, NodeCall, Moves

\* A call that ends leaves nothing of itself.
LEMMA CallEnds ==
    ASSUME NodesTypeOK, NEW c \in NodeCallers, EndCall(c)
    PROVE  /\ caller' \in [NodeCallers -> NodeCall]
           /\ \A d \in NodeCallers : d # c => caller'[d] = caller[d]
           /\ caller'[c].pc = "idle" /\ ~caller'[c].late
BY DEF NodesTypeOK, NodeCall, EndCall, NewCall

\* The invariant of the nodes holds at the start and is kept by every step.
THEOREM NodesInvariant == NodesSpec => []NodesInv
<1>1. NodesInit => NodesInv
  BY NodeConstants DEF NodesInit, NodesInv, NodesTypeOK, NodeCall, LateIsStale, ConnsAreCached, NewCall, Doing
<1>2. NodesInv /\ [NodesNext]_nodeVars => NodesInv'
  <2> SUFFICES ASSUME NodesInv, [NodesNext]_nodeVars
               PROVE  NodesInv'
    OBVIOUS
  <2> USE NodeConstants DEF NodesInv, NodesTypeOK, NodeCall, LateIsStale, ConnsAreCached, Doing, NewCall, wires
  <2>1. ASSUME NEW n \in NodeIds, GenerateToken(n) PROVE NodesInv'
    <3>1. /\ issued' = [issued EXCEPT ![n] = @ + 1] /\ token' = [token EXCEPT ![n] = issued[n] + 1]
          /\ UNCHANGED <<conn, open, dialled>>
      BY <2>1 DEF GenerateToken
    <3>2. CASE token[n] = 0
      BY <2>1, <3>1, <3>2 DEF GenerateToken
    <3>3. CASE token[n] # 0
      <4>1. caller' = Outdated(n)
        BY <2>1, <3>3 DEF GenerateToken
      <4> QED
        BY <3>1, <4>1, OutdatedMarks
    <3> QED
      BY <3>2, <3>3
  <2>2. ASSUME NEW n \in NodeIds, RevokeToken(n) PROVE NodesInv'
    <3>1. token' = [token EXCEPT ![n] = 0] /\ UNCHANGED <<issued, conn, open, dialled>> /\ caller' = Outdated(n)
      BY <2>2 DEF RevokeToken
    <3> QED
      BY <3>1, OutdatedMarks
  <2>3. ASSUME NEW c \in NodeCallers, NEW n \in NodeIds, NEW t \in 1 .. issued[n], RegisterCheck(c, n, t)
        PROVE  NodesInv'
    BY <2>3, ZenonT(30) DEF RegisterCheck, ValidateToken
  <2>4. ASSUME NEW c \in NodeCallers, RegisterLock(c) PROVE NodesInv'
    <3>1. UNCHANGED <<token, issued, conn, open, dialled>>
      BY <2>4 DEF RegisterLock
    <3>2. CASE Revalidates(c) /\ node[caller[c].node].st = "none"
      <4>1. Moves(c, "insert") /\ ~caller[c].late /\ caller[c].node \in NodeIds
        BY <2>4, <3>2 DEF RegisterLock, Revalidates, ValidateToken
      <4> QED
        BY <3>1, <4>1, CallMoves
    <3>3. CASE ~(Revalidates(c) /\ node[caller[c].node].st = "none")
      <4>1. EndCall(c)
        BY <2>4, <3>3 DEF RegisterLock
      <4> QED
        BY <3>1, <4>1, CallEnds
    <3> QED
      BY <3>2, <3>3
  <2>5. ASSUME NEW c \in NodeCallers, RegisterInsert(c) \/ RegisterReturns(c) PROVE NodesInv'
    <3>1. UNCHANGED <<token, issued, conn, open, dialled>>
      BY <2>5 DEF RegisterInsert, RegisterReturns
    <3>2. CASE RegisterInsert(c)
      <4>1. Moves(c, "registered") /\ ~caller[c].late /\ caller[c].node \in NodeIds
        BY <3>2 DEF RegisterInsert
      <4> QED
        BY <3>1, <4>1, CallMoves
    <3>3. CASE RegisterReturns(c)
      BY <3>1, <3>3, CallEnds DEF RegisterReturns
    <3> QED
      BY <2>5, <3>2, <3>3
  <2>6. ASSUME NEW n \in NodeIds, Unregister(n) \/ Heartbeat(n) PROVE NodesInv'
    BY <2>6 DEF Unregister, Heartbeat
  <2>7. CASE NodeTime \/ checkHealth
    BY <2>7 DEF NodeTime, checkHealth
  <2>8. ASSUME NEW c \in NodeCallers, NEW n \in NodeIds, NEW what \in {"plain", "media"}, Invoke(c, n, what)
        PROVE  NodesInv'
    BY <2>8, ZenonT(30) DEF Invoke
  <2>9. ASSUME NEW c \in NodeCallers, getConn(c) PROVE NodesInv'
    <3>1. CASE conn[caller[c].node] # 0
      BY <2>9, <3>1 DEF getConn
    <3>2. CASE conn[caller[c].node] = 0
      BY <2>9, <3>2, SMTT(30) DEF getConn
    <3> QED
      BY <3>1, <3>2
  <2>10. ASSUME NEW c \in NodeCallers, ExecuteFails(c) PROVE NodesInv'
    <3>1. UNCHANGED <<token, issued, dialled>> /\ EndCall(c) /\ caller[c].node \in NodeIds
      BY <2>10 DEF ExecuteFails
    <3>2. /\ conn' \in [NodeIds -> Nat] /\ open' \subseteq open
          /\ \A k \in open', n \in NodeIds : conn[n] = k => conn'[n] = k
      <4>1. CASE StillCached(c)
        <5>1. conn' = [conn EXCEPT ![caller[c].node] = 0] /\ open' = open \ {conn[caller[c].node]}
          BY <2>10, <4>1 DEF ExecuteFails, StillCached
        <5> QED
          BY <3>1, <5>1
      <4>2. CASE ~StillCached(c)
        <5>1. UNCHANGED <<conn, open>>
          BY <2>10, <4>2 DEF ExecuteFails
        <5> QED
          BY <5>1
      <4> QED
        BY <4>1, <4>2
    <3>3. NodesTypeOK' /\ LateIsStale'
      BY <3>1, <3>2, CallEnds
    <3>4. ConnsAreCached'
      BY <3>2
    <3> QED
      BY <3>3, <3>4
  <2>11. ASSUME NEW c \in NodeCallers, NEW ok \in BOOLEAN, ExecuteReturns(c, ok) PROVE NodesInv'
    <3>1. UNCHANGED <<token, issued, conn, open, dialled>>
      BY <2>11 DEF ExecuteReturns
    <3>2. CASE Moves(c, "media")
      <4>1. ~caller[c].late /\ caller[c].node \in NodeIds
        BY <2>11 DEF ExecuteReturns
      <4> QED
        BY <3>1, <3>2, <4>1, CallMoves
    <3>3. CASE EndCall(c)
      BY <3>1, <3>3, CallEnds
    <3> QED
      BY <2>11, <3>2, <3>3 DEF ExecuteReturns
  <2>12. ASSUME NEW c \in NodeCallers, NEW ok \in BOOLEAN, decodeAndWriteMedia(c, ok) PROVE NodesInv'
    BY <2>12, CallEnds DEF decodeAndWriteMedia
  <2>13. CASE UNCHANGED nodeVars
    BY <2>13 DEF nodeVars
  <2> QED
    BY <2>1, <2>2, <2>3, <2>4, <2>5, <2>6, <2>7, <2>8, <2>9, <2>10, <2>11, <2>12, <2>13 DEF NodesNext
<1> QED
  BY <1>1, <1>2, PTL DEF NodesSpec

\* NodesAreTrusted, for any number of nodes, tokens and calls: a token that was revoked
\* before Register took its lock lets nobody in, and no connection is left open that no
\* call would find (Manager.Register, GRPCInvoker.Invoke).
THEOREM NodesAreTrustedHolds == NodesSpec => []NodesAreTrusted
<1>1. NodesInv => NodesAreTrusted
  BY DEF NodesInv, LateIsStale, NodesAreTrusted, RevokedStaysOut, Doing
<1> QED
  BY <1>1, NodesInvariant, PTL

-----------------------------------------------------------------------------
(* Devices: MQTT *)

Numbers == Nat \ {0}

Queues == [msgs : Seq(Numbers), closed : BOOLEAN]

\* The types of the broker and of the tool that listens to it.
MqttTypeOK ==
    /\ queues \in Seq(Queues) /\ drains \in Seq(Nat) /\ Len(drains) = Len(queues)
    /\ current \in 0 .. Len(queues)
    /\ buffer \in Seq(Numbers) /\ got \in Seq(Numbers) /\ capped \subseteq Numbers
    /\ sent \in Nat /\ publish \in {0, sent} /\ (publish # 0 => current # 0)

\* The messages in a sequence.
Vals(s) == {s[i] : i \in DOMAIN s}

\* What a channel holds, with the message its goroutine took from it.
Stock(ch) == Vals(queues[ch].msgs) \cup ({drains[ch]} \ {0})

\* The newest message that was put into a channel.
Top == IF publish = 0 THEN sent ELSE sent - 1

Distinct(s) == \A i, j \in DOMAIN s : i # j => s[i] # s[j]

\* A channel is in order, and its goroutine holds an older message.
QueuesInOrder ==
    \A ch \in DOMAIN queues : /\ Increasing(queues[ch].msgs)
                              /\ \A m \in Vals(queues[ch].msgs) : drains[ch] < m

\* Every message somewhere is one that was sent and put into a channel.
AllBelow == /\ \A ch \in DOMAIN queues : \A m \in Stock(ch) : m <= Top
            /\ \A m \in Vals(got) \cup Vals(buffer) \cup capped : m <= Top

\* No message is in two places, or twice in one.
Apart == /\ \A c, d \in DOMAIN queues : c # d => Stock(c) \cap Stock(d) = {}
         /\ \A c \in DOMAIN queues : Stock(c) \cap (Vals(got) \cup Vals(buffer)) = {}
         /\ Vals(got) \cap Vals(buffer) = {}
         /\ Distinct(got) /\ Distinct(buffer)

\* With one channel ever made, what was read is older than the buffer, and the buffer than
\* the channel.
OneInOrder ==
    Len(queues) <= 1 =>
       /\ Increasing(got) /\ Increasing(buffer)
       /\ \A m \in Vals(got) \cup capped, n \in Vals(buffer) : m < n
       /\ \A ch \in DOMAIN queues : \A n \in Stock(ch) : \A m \in Vals(got) \cup Vals(buffer) \cup capped : m < n

MqttInv == MqttTypeOK /\ QueuesInOrder /\ AllBelow /\ Apart /\ OneInOrder

\* A message added behind others.
LEMMA Appended ==
  ASSUME NEW s \in Seq(Numbers), NEW m \in Numbers
  PROVE  /\ Append(s, m) \in Seq(Numbers) /\ Vals(Append(s, m)) = Vals(s) \cup {m}
         /\ Increasing(s) /\ (\A n \in Vals(s) : n < m) => Increasing(Append(s, m))
         /\ Distinct(s) /\ m \notin Vals(s) => Distinct(Append(s, m))
  <1> DEFINE t == Append(s, m)
  <1>1. /\ t \in Seq(Numbers) /\ Len(t) = Len(s) + 1 /\ t[Len(s) + 1] = m /\ Len(s) \in Nat
        /\ \A i \in 1 .. Len(s) : t[i] = s[i]
    BY AppendProperties, LenProperties
  <1>2. DOMAIN t = 1 .. Len(s) + 1 /\ DOMAIN s = 1 .. Len(s)
    BY <1>1, LenProperties
  <1> HIDE DEF t
  <1>3. Vals(t) = Vals(s) \cup {m}
    BY <1>1, <1>2 DEF Vals
  <1>4. Increasing(s) /\ (\A n \in Vals(s) : n < m) => Increasing(t)
    BY <1>1, <1>2 DEF Increasing, Vals
  <1>5. Distinct(s) /\ m \notin Vals(s) => Distinct(t)
    BY <1>1, <1>2 DEF Distinct, Vals
  <1> QED
    BY <1>1, <1>3, <1>4, <1>5 DEF t

\* A message taken from the front.
LEMMA TailOf ==
  ASSUME NEW s \in Seq(Numbers), s # <<>>
  PROVE  /\ Tail(s) \in Seq(Numbers) /\ Head(s) \in Numbers /\ Vals(s) = Vals(Tail(s)) \cup {Head(s)}
         /\ Increasing(s) => Increasing(Tail(s)) /\ \A n \in Vals(Tail(s)) : Head(s) < n
  <1> DEFINE t == Tail(s)
  <1>1. /\ t \in Seq(Numbers) /\ Len(t) = Len(s) - 1 /\ Head(s) = s[1] /\ Head(s) \in Numbers /\ Len(s) \in Nat \ {0}
        /\ \A i \in 1 .. Len(t) : t[i] = s[i + 1]
    BY HeadTailProperties, LenProperties, EmptySeq
  <1>2. DOMAIN t = 1 .. Len(s) - 1 /\ DOMAIN s = 1 .. Len(s)
    BY <1>1, LenProperties
  <1> HIDE DEF t
  <1>3. Vals(s) = Vals(t) \cup {Head(s)}
    <2>1. \A i \in DOMAIN s : i = 1 \/ (i - 1 \in DOMAIN t /\ t[i - 1] = s[i])
      BY <1>1, <1>2
    <2>2. \A i \in DOMAIN t : i + 1 \in DOMAIN s /\ t[i] = s[i + 1]
      BY <1>1, <1>2
    <2>3. 1 \in DOMAIN s
      BY <1>1, <1>2
    <2>4. Vals(s) \subseteq Vals(t) \cup {Head(s)}
      BY <1>1, <2>1 DEF Vals
    <2>5. Vals(t) \cup {Head(s)} \subseteq Vals(s)
      BY <1>1, <2>2, <2>3 DEF Vals
    <2> QED
      BY <2>4, <2>5
  <1>4. ASSUME Increasing(s) PROVE Increasing(t) /\ \A n \in Vals(t) : Head(s) < n
    <2>1. \A i \in DOMAIN t : i \in Nat /\ i + 1 \in DOMAIN s /\ t[i] = s[i + 1] /\ 1 < i + 1
      BY <1>1, <1>2
    <2>2. 1 \in DOMAIN s /\ Head(s) = s[1]
      BY <1>1, <1>2
    <2>3. Increasing(t)
      BY <1>4, <2>1 DEF Increasing
    <2>4. \A i \in DOMAIN t : Head(s) < t[i]
      BY <1>4, <2>1, <2>2 DEF Increasing
    <2> QED
      BY <2>3, <2>4 DEF Vals
  <1> QED
    BY <1>1, <1>3, <1>4 DEF t

\* The cap of the buffer keeps the newest messages (MQTTTool.subscribe).
LEMMA CappedIs ==
  ASSUME NEW s \in Seq(Numbers)
  PROVE  /\ Capped(s) \in Seq(Numbers) /\ Vals(Capped(s)) \subseteq Vals(s)
         /\ Increasing(s) => /\ Increasing(Capped(s))
                             /\ \A m \in Vals(s) \ Vals(Capped(s)), n \in Vals(Capped(s)) : m < n
         /\ Distinct(s) => Distinct(Capped(s))
  <1> DEFINE t == Capped(s)
             k == IF Len(s) > BufferCap THEN Len(s) - BufferCap ELSE 0
  <1>1. Len(s) \in Nat /\ DOMAIN s = 1 .. Len(s) /\ BufferCap \in Nat /\ \A i \in DOMAIN s : s[i] \in Numbers
    BY LenProperties, ElementOfSeq, DeviceConstants
  <1>2. t \in Seq(Numbers) /\ Len(t) = Len(s) - k /\ \A i \in 1 .. Len(s) - k : t[i] = s[i + k]
    <2>1. CASE Len(s) > BufferCap
      <3>1. t = SubSeq(s, k + 1, Len(s)) /\ k \in 0 .. Len(s)
        BY <1>1, <2>1 DEF Capped
      <3>2. /\ t \in Seq(Numbers) /\ Len(t) = IF k + 1 <= Len(s) THEN Len(s) - (k + 1) + 1 ELSE 0
            /\ \A i \in 1 .. Len(s) - (k + 1) + 1 : t[i] = s[(k + 1) + i - 1]
        <4> HIDE DEF t, k
        <4> QED
          BY <1>1, <3>1, SubSeqProperties
      <3> HIDE DEF t, k
      <3>3. Len(t) = Len(s) - k
        <4>1. Len(s) \in Nat /\ k \in Nat /\ k <= Len(s)
          BY <1>1, <3>1
        <4>2. Len(t) = IF k + 1 <= Len(s) THEN Len(s) - (k + 1) + 1 ELSE 0
          BY <3>2
        <4> QED
          BY <4>1, <4>2
      <3>4. ASSUME NEW i \in 1 .. Len(s) - k PROVE t[i] = s[i + k]
        <4>1. (k + 1) + i - 1 = i + k /\ i \in 1 .. Len(s) - (k + 1) + 1
          BY <1>1, <3>1
        <4> QED
          BY <3>2, <4>1
      <3> QED
        BY <3>2, <3>3, <3>4
    <2>2. CASE ~(Len(s) > BufferCap)
      BY <1>1, <2>2 DEF Capped
    <2> QED
      BY <2>1, <2>2
  <1>3. k \in 0 .. Len(s)
    BY <1>1
  <1>4. DOMAIN t = 1 .. Len(s) - k
    BY <1>2, LenProperties
  <1> HIDE DEF t, k
  <1>5. \A i \in DOMAIN t : i + k \in DOMAIN s /\ t[i] = s[i + k]
    BY <1>1, <1>2, <1>3, <1>4
  <1>6. Vals(t) \subseteq Vals(s)
    BY <1>5 DEF Vals
  <1>7. Distinct(s) => Distinct(t)
    BY <1>1, <1>3, <1>4, <1>5 DEF Distinct
  <1>8. ASSUME Increasing(s) PROVE Increasing(t) /\ \A m \in Vals(s) \ Vals(t), n \in Vals(t) : m < n
    <2>1. Increasing(t)
      BY <1>1, <1>3, <1>4, <1>5, <1>8 DEF Increasing
    <2>2. ASSUME NEW i \in DOMAIN s, s[i] \notin Vals(t), NEW j \in DOMAIN t PROVE s[i] < t[j]
      <3>1. i <= k
        <4>1. SUFFICES ASSUME i > k PROVE FALSE
          BY <1>1, <1>3
        <4>2. i - k \in DOMAIN t /\ t[i - k] = s[i]
          BY <1>1, <1>3, <1>4, <1>5, <4>1
        <4> QED
          BY <2>2, <4>2 DEF Vals
      <3>2. i < j + k
        BY <1>1, <1>3, <1>4, <3>1
      <3> QED
        BY <1>5, <1>8, <3>2 DEF Increasing
    <2> QED
      BY <2>1, <2>2 DEF Vals
  <1> QED
    BY <1>2, <1>6, <1>7, <1>8 DEF t

\* An empty place.
LEMMA EmptyPlace == Vals(<<>>) = {} /\ Increasing(<<>>) /\ Distinct(<<>>) /\ <<>> \in Seq(Numbers)
  BY EmptySeq DEF Vals, Increasing, Distinct

\* What is in one channel changes.
LEMMA QueueSet ==
  ASSUME MqttTypeOK, NEW ch \in DOMAIN queues, NEW q \in Seq(Numbers), queues' = [queues EXCEPT ![ch].msgs = q]
  PROVE  /\ queues' \in Seq(Queues) /\ Len(queues') = Len(queues) /\ DOMAIN queues' = DOMAIN queues
         /\ \A c \in DOMAIN queues : queues'[c].msgs = IF c = ch THEN q ELSE queues[c].msgs
  <1>1. queues \in Seq(Queues) /\ DOMAIN queues = 1 .. Len(queues) /\ \A c \in DOMAIN queues : queues[c] \in Queues
    BY LenProperties, ElementOfSeq DEF MqttTypeOK
  <1> DEFINE e == [queues[ch] EXCEPT !.msgs = q]
  <1>2. queues' = [queues EXCEPT ![ch] = e]
    BY <1>1
  <1>3. e \in Queues /\ e.msgs = q
    BY <1>1 DEF Queues
  <1> HIDE DEF e
  <1>4. /\ queues' \in Seq(Queues) /\ Len(queues') = Len(queues)
        /\ \A j \in 1 .. Len(queues) : queues'[j] = IF j = ch THEN e ELSE queues[j]
    BY <1>1, <1>2, <1>3, ExceptSeq, SMTT(30), ZenonT(60)
  <1> QED
    BY <1>1, <1>3, <1>4, LenProperties

\* Where every part of the state is.
LEMMA MqttTypes ==
  ASSUME MqttTypeOK
  PROVE  /\ DOMAIN queues = 1 .. Len(queues) /\ DOMAIN drains = DOMAIN queues /\ Len(queues) \in Nat
         /\ \A c \in DOMAIN queues : /\ queues[c].msgs \in Seq(Numbers) /\ drains[c] \in Nat
                                     /\ Vals(queues[c].msgs) \subseteq Numbers /\ Stock(c) \subseteq Numbers
         /\ Vals(got) \subseteq Numbers /\ Vals(buffer) \subseteq Numbers /\ capped \subseteq Numbers
         /\ Top \in Nat
  <1>1. \A s \in Seq(Numbers) : Vals(s) \subseteq Numbers
    BY ElementOfSeq, LenProperties DEF Vals
  <1>2. DOMAIN queues = 1 .. Len(queues) /\ DOMAIN drains = DOMAIN queues /\ Len(queues) \in Nat
    BY LenProperties DEF MqttTypeOK
  <1>3. ASSUME NEW c \in DOMAIN queues
        PROVE  queues[c].msgs \in Seq(Numbers) /\ drains[c] \in Nat
    <2>1. queues[c] \in Queues /\ drains[c] \in Nat
      BY <1>2, ElementOfSeq DEF MqttTypeOK
    <2> QED
      BY <2>1 DEF Queues
  <1>4. \A c \in DOMAIN queues : Stock(c) \subseteq Numbers
    BY <1>1, <1>3 DEF Stock, Numbers
  <1>5. Top \in Nat
    BY DEF Top, MqttTypeOK
  <1> QED
    BY <1>1, <1>2, <1>3, <1>4, <1>5 DEF MqttTypeOK

\* The newest message that was put somewhere has a number.
LEMMA TopIsANumber == ASSUME NEW n \in Nat, NEW p \in {0, n} PROVE (IF p = 0 THEN n ELSE n - 1) \in Nat
  OBVIOUS

\* What is in the channels stays.
LEMMA PlacesStay ==
  ASSUME MqttInv, MqttTypeOK', Top' >= Top, UNCHANGED <<drains, buffer, got, capped>>,
         Len(queues') = Len(queues), DOMAIN queues' = DOMAIN queues,
         \A c \in DOMAIN queues : queues'[c].msgs = queues[c].msgs
  PROVE  MqttInv'
  <1>1. \A c \in DOMAIN queues : Stock(c)' = Stock(c)
    BY DEF Stock
  <1>2. QueuesInOrder'
    BY DEF QueuesInOrder, MqttInv
  <1>3. Top \in Nat /\ Top' \in Nat /\ Vals(got) \cup Vals(buffer) \cup capped \subseteq Nat /\ \A c \in DOMAIN queues : Stock(c) \subseteq Nat
    <2>1. Top \in Nat /\ Vals(got) \cup Vals(buffer) \cup capped \subseteq Nat /\ \A c \in DOMAIN queues : Stock(c) \subseteq Nat
      BY MqttTypes DEF MqttInv, Numbers
    <2>2. Top' \in Nat
      <3>1. sent' \in Nat /\ publish' \in {0, sent'}
        BY DEF MqttTypeOK
      <3> QED
        BY <3>1, TopIsANumber DEF Top
    <2> QED
      BY <2>1, <2>2
  <1>4. AllBelow'
    BY <1>1, <1>3 DEF AllBelow, MqttInv
  <1>5. Apart'
    BY <1>1 DEF Apart, MqttInv
  <1>6. OneInOrder'
    BY <1>1 DEF OneInOrder, MqttInv
  <1> QED
    BY <1>2, <1>4, <1>5, <1>6 DEF MqttInv

\* A message newer than all others is put into a channel.
LEMMA PutKeeps ==
  ASSUME MqttInv, MqttTypeOK', NEW ch \in DOMAIN queues, NEW m \in Numbers, m > Top, Top' >= m,
         queues' = [queues EXCEPT ![ch].msgs = Append(@, m)], UNCHANGED <<drains, buffer, got, capped>>
  PROVE  MqttInv'
  <1>1. queues' = [queues EXCEPT ![ch].msgs = Append(queues[ch].msgs, m)]
    OBVIOUS
  <1>2. queues[ch].msgs \in Seq(Numbers)
    BY MqttTypes DEF MqttInv
  <1>3. /\ Append(queues[ch].msgs, m) \in Seq(Numbers)
        /\ Vals(Append(queues[ch].msgs, m)) = Vals(queues[ch].msgs) \cup {m}
        /\ Increasing(queues[ch].msgs) /\ (\A n \in Vals(queues[ch].msgs) : n < m) => Increasing(Append(queues[ch].msgs, m))
    BY <1>2, Appended
  <1>4. /\ Len(queues') = Len(queues) /\ DOMAIN queues' = DOMAIN queues
        /\ \A c \in DOMAIN queues : queues'[c].msgs = IF c = ch THEN Append(queues[ch].msgs, m) ELSE queues[c].msgs
    BY <1>1, <1>3, QueueSet DEF MqttInv
  <1>5. /\ \A c \in DOMAIN queues : Vals(queues'[c].msgs) = IF c = ch THEN Vals(queues[c].msgs) \cup {m} ELSE Vals(queues[c].msgs)
        /\ \A c \in DOMAIN queues : Stock(c)' = IF c = ch THEN Stock(c) \cup {m} ELSE Stock(c)
    BY <1>3, <1>4 DEF Stock
  <1>6. /\ Top \in Nat /\ Top' \in Nat /\ Vals(got) \cup Vals(buffer) \cup capped \subseteq Nat
        /\ \A c \in DOMAIN queues : Stock(c) \subseteq Nat /\ drains[c] \in Nat /\ Vals(queues[c].msgs) \subseteq Stock(c)
        /\ \A c \in DOMAIN queues : drains[c] # 0 => drains[c] \in Stock(c)
    <2>1. Top \in Nat /\ Vals(got) \cup Vals(buffer) \cup capped \subseteq Nat
      BY MqttTypes DEF MqttInv, Numbers
    <2>2. Top' \in Nat
      <3>1. sent' \in Nat /\ publish' \in {0, sent'}
        BY DEF MqttTypeOK
      <3> QED
        BY <3>1 DEF Top
    <2>3. \A c \in DOMAIN queues : Stock(c) \subseteq Nat /\ drains[c] \in Nat
      BY MqttTypes DEF MqttInv, Numbers
    <2>4. \A c \in DOMAIN queues : Vals(queues[c].msgs) \subseteq Stock(c) /\ (drains[c] # 0 => drains[c] \in Stock(c))
      BY DEF Stock
    <2> QED
      BY <2>1, <2>2, <2>3, <2>4
  <1>7. /\ \A c \in DOMAIN queues : \A n \in Stock(c) : n < m
        /\ \A n \in Vals(got) \cup Vals(buffer) \cup capped : n < m
    BY <1>6 DEF AllBelow, MqttInv, Numbers
  <1>8. QueuesInOrder'
    <2>1. \A c \in DOMAIN queues : Increasing(queues'[c].msgs)
      BY <1>3, <1>4, <1>6, <1>7 DEF QueuesInOrder, MqttInv
    <2>2. ASSUME NEW c \in DOMAIN queues, NEW n \in Vals(queues'[c].msgs) PROVE drains[c] < n
      <3>1. CASE n \in Vals(queues[c].msgs)
        BY <3>1 DEF QueuesInOrder, MqttInv
      <3>2. CASE n = m
        BY <1>6, <1>7, <3>2 DEF Numbers
      <3>3. n \in Vals(queues[c].msgs) \/ n = m
        <4>1. Vals(queues'[c].msgs) \subseteq Vals(queues[c].msgs) \cup {m}
          BY <1>5
        <4> QED
          BY <2>2, <4>1
      <3> QED
        BY <3>1, <3>2, <3>3
    <2> QED
      BY <1>4, <2>1, <2>2 DEF QueuesInOrder
  <1>9. AllBelow'
    BY <1>4, <1>5, <1>6, <1>7 DEF AllBelow, MqttInv, Numbers
  <1>10. Apart'
    <2>1. m \notin Vals(got) \cup Vals(buffer) /\ \A c \in DOMAIN queues : m \notin Stock(c)
      BY <1>6, <1>7 DEF Numbers
    <2>2. \A c \in DOMAIN queues : Stock(c)' \cap (Vals(got) \cup Vals(buffer)) = {}
      BY <1>5, <2>1 DEF Apart, MqttInv
    <2>3. \A c, d \in DOMAIN queues : c # d => Stock(c)' \cap Stock(d)' = {}
      BY <1>5, <2>1 DEF Apart, MqttInv
    <2> QED
      BY <1>4, <2>2, <2>3 DEF Apart, MqttInv
  <1>11. OneInOrder'
    BY <1>4, <1>5, <1>7 DEF OneInOrder, MqttInv
  <1> QED
    BY <1>8, <1>9, <1>10, <1>11 DEF MqttInv

\* The goroutine of a subscription receives a message.
LEMMA DrainTakesKeeps == ASSUME MqttInv, NEW ch \in DOMAIN queues, DrainTakes(ch) PROVE MqttInv'
  <1> DEFINE q == queues[ch].msgs
  <1>1. queues' = [queues EXCEPT ![ch].msgs = Tail(q)] /\ drains' = [drains EXCEPT ![ch] = Head(q)] /\ drains[ch] = 0 /\ q # <<>>
    BY DEF DrainTakes
  <1>2. /\ Tail(q) \in Seq(Numbers) /\ Head(q) \in Numbers /\ Vals(q) = Vals(Tail(q)) \cup {Head(q)}
        /\ Increasing(Tail(q)) /\ \A n \in Vals(Tail(q)) : Head(q) < n
    <2>1. q \in Seq(Numbers) /\ Increasing(q)
      BY MqttTypes DEF MqttInv, QueuesInOrder
    <2> QED
      BY <1>1, <2>1, TailOf
  <1>3. /\ queues' \in Seq(Queues) /\ Len(queues') = Len(queues) /\ DOMAIN queues' = DOMAIN queues
        /\ \A c \in DOMAIN queues : queues'[c].msgs = IF c = ch THEN Tail(q) ELSE queues[c].msgs
    <2> HIDE DEF q
    <2> QED
      BY <1>1, <1>2, QueueSet DEF MqttInv
  <1>4. /\ drains' \in Seq(Nat) /\ Len(drains') = Len(drains)
        /\ \A c \in DOMAIN queues : drains'[c] = IF c = ch THEN Head(q) ELSE drains[c]
    <2>1. drains \in Seq(Nat) /\ DOMAIN queues = 1 .. Len(drains) /\ Head(q) \in Nat
      BY <1>2, MqttTypes, LenProperties DEF MqttInv, MqttTypeOK, Numbers
    <2> HIDE DEF q
    <2> QED
      BY <1>1, <2>1, ExceptSeq
  <1>5. UNCHANGED <<current, buffer, publish, sent, got, capped, devLeft>>
    BY DEF DrainTakes, otherThanMqtt
  <1> HIDE DEF q
  <1>6. \A c \in DOMAIN queues : Stock(c)' = Stock(c)
    <2>1. ASSUME NEW c \in DOMAIN queues, c # ch PROVE Stock(c)' = Stock(c)
      BY <1>3, <1>4, <2>1 DEF Stock
    <2>2. Stock(ch)' = Vals(Tail(q)) \cup ({Head(q)} \ {0})
      BY <1>3, <1>4 DEF Stock
    <2>3. Stock(ch) = Vals(Tail(q)) \cup {Head(q)}
      BY <1>1, <1>2 DEF Stock, q
    <2> QED
      BY <1>2, <2>1, <2>2, <2>3 DEF Numbers
  <1>7. MqttTypeOK'
    BY <1>3, <1>4, <1>5 DEF MqttInv, MqttTypeOK
  <1>8. QueuesInOrder'
    BY <1>2, <1>3, <1>4 DEF QueuesInOrder, MqttInv
  <1>9. AllBelow' /\ Apart' /\ OneInOrder'
    BY <1>3, <1>5, <1>6 DEF AllBelow, Apart, OneInOrder, MqttInv, Top
  <1> QED
    BY <1>7, <1>8, <1>9 DEF MqttInv

\* The goroutine appends it to the buffer, under the lock of the tool.
LEMMA DrainAppendsKeeps == ASSUME MqttInv, NEW ch \in DOMAIN queues, DrainAppends(ch) PROVE MqttInv'
  <1> DEFINE d   == drains[ch]
             all == Append(buffer, d)
  <1>1. /\ d # 0 /\ drains' = [drains EXCEPT ![ch] = 0] /\ buffer' = Capped(all)
        /\ capped' = capped \cup (Vals(all) \ Vals(buffer'))
    BY DEF DrainAppends, Vals
  <1>2. UNCHANGED <<current, queues, publish, sent, got, devLeft>>
    BY DEF DrainAppends, otherThanMqtt
  <1>3. d \in Numbers /\ d \in Stock(ch) /\ buffer \in Seq(Numbers)
    BY <1>1, MqttTypes DEF MqttInv, MqttTypeOK, Numbers, Stock
  <1> HIDE DEF d
  <1>4. d \notin Vals(buffer) /\ d \notin Vals(got)
    BY <1>3 DEF MqttInv, Apart
  <1>5. /\ all \in Seq(Numbers) /\ Vals(all) = Vals(buffer) \cup {d} /\ Distinct(all)
        /\ Increasing(buffer) /\ (\A n \in Vals(buffer) : n < d) => Increasing(all)
    BY <1>3, <1>4, Appended DEF MqttInv, Apart
  <1> HIDE DEF all
  <1>6. /\ buffer' \in Seq(Numbers) /\ Vals(buffer') \subseteq Vals(all) /\ Distinct(buffer')
        /\ Increasing(all) => /\ Increasing(buffer')
                              /\ \A m \in Vals(all) \ Vals(buffer'), n \in Vals(buffer') : m < n
    BY <1>1, <1>5, CappedIs
  <1>7. /\ drains' \in Seq(Nat) /\ Len(drains') = Len(drains)
        /\ \A c \in DOMAIN queues : drains'[c] = IF c = ch THEN 0 ELSE drains[c]
    <2>1. drains \in Seq(Nat) /\ DOMAIN queues = 1 .. Len(drains)
      BY MqttTypes, LenProperties DEF MqttInv, MqttTypeOK
    <2> QED
      BY <1>1, <2>1, ExceptSeq
  <1>8. \A n \in Vals(queues[ch].msgs) : d < n
    BY DEF MqttInv, QueuesInOrder, d
  <1>9. /\ \A c \in DOMAIN queues : Stock(c)' = IF c = ch THEN Stock(c) \ {d} ELSE Stock(c)
        /\ \A n \in Stock(ch)' : d < n
    <2>1. Stock(ch) = Vals(queues[ch].msgs) \cup {d}
      BY <1>1 DEF Stock, d
    <2>2. Stock(ch)' = Vals(queues[ch].msgs)
      BY <1>2, <1>7 DEF Stock
    <2>3. d \notin Vals(queues[ch].msgs)
      BY <1>3, <1>8 DEF Numbers
    <2>4. \A c \in DOMAIN queues : c # ch => Stock(c)' = Stock(c)
      BY <1>2, <1>7 DEF Stock
    <2> QED
      BY <1>8, <2>1, <2>2, <2>3, <2>4
  <1>10. capped' \subseteq Numbers /\ Vals(buffer') \cup capped' \subseteq Vals(buffer) \cup capped \cup {d}
    BY <1>1, <1>3, <1>5, <1>6, MqttTypes DEF MqttInv
  <1>11. MqttTypeOK'
    BY <1>2, <1>6, <1>7, <1>10 DEF MqttInv, MqttTypeOK
  <1>12. QueuesInOrder'
    <2>1. \A c \in DOMAIN queues : \A m \in Vals(queues[c].msgs) : drains'[c] < m
      <3>1. \A c \in DOMAIN queues : Vals(queues[c].msgs) \subseteq Numbers
        BY MqttTypes DEF MqttInv
      <3>2. \A c \in DOMAIN queues : \A m \in Vals(queues[c].msgs) : drains[c] < m /\ 0 < m
        BY <3>1 DEF MqttInv, QueuesInOrder, Numbers
      <3> QED
        BY <1>7, <3>2
    <2> QED
      BY <1>2, <2>1 DEF MqttInv, QueuesInOrder
  <1>13. AllBelow'
    BY <1>2, <1>3, <1>9, <1>10 DEF MqttInv, AllBelow, Top
  <1>14. Apart'
    <2>1. \A c \in DOMAIN queues : Stock(c)' \cap (Vals(got) \cup Vals(buffer')) = {}
      BY <1>3, <1>5, <1>6, <1>9 DEF MqttInv, Apart
    <2>2. \A c, e \in DOMAIN queues : c # e => Stock(c)' \cap Stock(e)' = {}
      BY <1>9 DEF MqttInv, Apart
    <2>3. Vals(got) \cap Vals(buffer') = {}
      BY <1>4, <1>5, <1>6 DEF MqttInv, Apart
    <2> QED
      BY <1>2, <1>6, <2>1, <2>2, <2>3 DEF MqttInv, Apart
  <1>15. ASSUME Len(queues) <= 1
         PROVE  /\ Increasing(got) /\ Increasing(buffer')
                /\ \A m \in Vals(got) \cup capped', n \in Vals(buffer') : m < n
                /\ \A c \in DOMAIN queues : \A n \in Stock(c)' : \A m \in Vals(got) \cup Vals(buffer') \cup capped' : m < n
    <2>1. \A c \in DOMAIN queues : c = ch
      BY <1>15, MqttTypes DEF MqttInv
    <2>2. \A m \in Vals(got) \cup Vals(buffer) \cup capped : m < d
      BY <1>3, <1>15 DEF MqttInv, OneInOrder
    <2>3. Increasing(all)
      BY <1>5, <1>15, <2>2 DEF MqttInv, OneInOrder
    <2>4. \A m \in Vals(got) \cup capped', n \in Vals(buffer') : m < n
      BY <1>1, <1>5, <1>6, <1>15, <2>2, <2>3 DEF MqttInv, OneInOrder
    <2>5. \A n \in Stock(ch)' : \A m \in Vals(got) \cup Vals(buffer') \cup capped' : m < n
      BY <1>9, <1>10, <1>15 DEF MqttInv, OneInOrder
    <2> QED
      BY <1>6, <1>15, <2>1, <2>3, <2>4, <2>5 DEF MqttInv, OneInOrder
  <1>16. OneInOrder'
    BY <1>2, <1>15 DEF OneInOrder
  <1> QED
    BY <1>11, <1>12, <1>13, <1>14, <1>16 DEF MqttInv

\* Subscribe makes a channel.
LEMMA SubscribeKeeps == ASSUME MqttInv, mqttSubscribe PROVE MqttInv'
  <1> DEFINE new == [msgs |-> <<>>, closed |-> FALSE]
  <1>n. PICK n \in Nat : n = Len(queues) + 1
    BY MqttTypes DEF MqttInv
  <1>1. /\ queues' = Append(queues, new) /\ drains' = Append(drains, 0) /\ current' = Len(queues')
        /\ UNCHANGED <<buffer, publish, sent, got, capped>> /\ devLeft.subs > 0 /\ devLeft' = [devLeft EXCEPT !.subs = @ - 1]
    BY DEF mqttSubscribe
  <1>2. new \in Queues /\ new.msgs = <<>>
    BY EmptySeq DEF Queues
  <1> HIDE DEF new
  <1>3. /\ queues' \in Seq(Queues) /\ Len(queues') = n /\ queues'[n] = new /\ Len(queues) \in Nat
        /\ \A c \in 1 .. Len(queues) : queues'[c] = queues[c]
    BY <1>1, <1>2, <1>n, AppendProperties, LenProperties DEF MqttInv, MqttTypeOK
  <1>4. /\ drains' \in Seq(Nat) /\ Len(drains') = n /\ drains'[n] = 0
        /\ \A c \in 1 .. Len(queues) : drains'[c] = drains[c]
    BY <1>1, <1>n, AppendProperties DEF MqttInv, MqttTypeOK
  <1>5. DOMAIN queues' = 1 .. n /\ DOMAIN queues = 1 .. Len(queues) /\ DOMAIN queues' = DOMAIN queues \cup {n} /\ n \notin DOMAIN queues
    <2>1. DOMAIN queues' = 1 .. n
      BY <1>3, LenProperties
    <2>2. DOMAIN queues = 1 .. Len(queues)
      BY MqttTypes DEF MqttInv
    <2> QED
      BY <1>3, <1>n, <2>1, <2>2
  <1>6. Vals(queues'[n].msgs) = {} /\ Stock(n)' = {} /\ Increasing(queues'[n].msgs)
    <2>1. queues'[n].msgs = <<>> /\ drains'[n] = 0
      BY <1>2, <1>3, <1>4
    <2>2. Stock(n)' = Vals(queues'[n].msgs) \cup ({drains'[n]} \ {0})
      BY DEF Stock
    <2> QED
      BY <2>1, <2>2, EmptyPlace
  <1>7. \A c \in DOMAIN queues : queues'[c].msgs = queues[c].msgs /\ drains'[c] = drains[c] /\ Stock(c)' = Stock(c)
    BY <1>3, <1>4, <1>5 DEF Stock
  <1>8. MqttTypeOK'
    <2>1. current' = n /\ n \in 0 .. Len(queues') /\ n # 0
      BY <1>1, <1>3, <1>n
    <2> QED
      BY <1>1, <1>3, <1>4, <2>1 DEF MqttInv, MqttTypeOK
  <1>a. \A c \in DOMAIN queues' : Stock(c)' = IF c = n THEN {} ELSE Stock(c)
    BY <1>5, <1>6, <1>7
  <1>b. Top' = Top
    BY <1>1 DEF Top
  <1>9. QueuesInOrder'
    BY <1>5, <1>6, <1>7 DEF MqttInv, QueuesInOrder
  <1>10. AllBelow'
    BY <1>1, <1>5, <1>a, <1>b DEF MqttInv, AllBelow
  <1>11. Apart'
    BY <1>1, <1>5, <1>a DEF MqttInv, Apart
  <1>12. OneInOrder'
    <2>1. Len(queues') <= 1 => Len(queues) <= 1
      BY <1>3, <1>n
    <2> QED
      BY <1>1, <1>5, <1>a, <2>1 DEF MqttInv, OneInOrder
  <1> QED
    BY <1>8, <1>9, <1>10, <1>11, <1>12 DEF MqttInv

\* The buffer of a topic is deleted.
LEMMA DeleteBufferKeeps == ASSUME MqttInv, DeleteBuffer PROVE MqttInv'
  <1>1. buffer' = <<>> /\ UNCHANGED <<current, queues, drains, publish, sent, got, capped, devLeft>>
    BY DEF DeleteBuffer, otherThanMqtt
  <1>2. Vals(buffer') = {} /\ Increasing(buffer') /\ Distinct(buffer') /\ buffer' \in Seq(Numbers)
    BY <1>1, EmptySeq DEF Vals, Increasing, Distinct
  <1>3. \A c : Stock(c)' = Stock(c)
    BY <1>1 DEF Stock
  <1>4. MqttTypeOK' /\ QueuesInOrder'
    BY <1>1, <1>2 DEF MqttInv, MqttTypeOK, QueuesInOrder
  <1>5. AllBelow' /\ Apart' /\ OneInOrder'
    BY <1>1, <1>2, <1>3 DEF MqttInv, AllBelow, Apart, OneInOrder, Top
  <1> QED
    BY <1>4, <1>5 DEF MqttInv

\* Two sequences, one behind the other.
LEMMA Joined ==
  ASSUME NEW s \in Seq(Numbers), NEW t \in Seq(Numbers)
  PROVE  /\ s \o t \in Seq(Numbers) /\ Vals(s \o t) = Vals(s) \cup Vals(t)
         /\ Distinct(s) /\ Distinct(t) /\ Vals(s) \cap Vals(t) = {} => Distinct(s \o t)
         /\ Increasing(s) /\ Increasing(t) /\ (\A m \in Vals(s), n \in Vals(t) : m < n) => Increasing(s \o t)
  <1> DEFINE u == s \o t
             a == Len(s)
             b == Len(t)
  <1>1. /\ u \in Seq(Numbers) /\ Len(u) = a + b
        /\ \A i \in 1 .. a + b : u[i] = IF i <= a THEN s[i] ELSE t[i - a]
    BY ConcatProperties
  <1>2. DOMAIN u = 1 .. a + b /\ DOMAIN s = 1 .. a /\ DOMAIN t = 1 .. b /\ a \in Nat /\ b \in Nat
    BY <1>1, LenProperties
  <1> HIDE DEF u, a, b
  <1>3. \A i \in DOMAIN u :
           \/ i \in DOMAIN s /\ u[i] = s[i]
           \/ i > a /\ i - a \in DOMAIN t /\ u[i] = t[i - a]
    <2> TAKE i \in DOMAIN u
    <2>1. CASE i <= a
      <3>1. i \in DOMAIN s /\ i \in 1 .. a + b
        BY <1>2, <2>1
      <3>2. u[i] = s[i]
        BY <1>1, <2>1, <3>1
      <3> QED
        BY <3>1, <3>2
    <2>2. CASE ~(i <= a)
      <3>1. i > a /\ i - a \in 1 .. b
        BY <1>2, <2>2
      <3> QED
        BY <1>1, <1>2, <2>2, <3>1
    <2> QED
      BY <2>1, <2>2
  <1>4. /\ \A i \in DOMAIN s : i \in DOMAIN u /\ u[i] = s[i]
        /\ \A i \in DOMAIN t : a + i \in DOMAIN u /\ u[a + i] = t[i]
    <2>1. \A i \in DOMAIN s : i \in 1 .. a + b /\ i <= a
      BY <1>2
    <2>2. \A i \in DOMAIN t : a + i \in 1 .. a + b /\ ~(a + i <= a) /\ (a + i) - a = i
      BY <1>2
    <2> QED
      BY <1>1, <1>2, <2>1, <2>2
  <1>5. Vals(u) = Vals(s) \cup Vals(t)
    <2>1. Vals(u) \subseteq Vals(s) \cup Vals(t)
      BY <1>3 DEF Vals
    <2>2. Vals(s) \cup Vals(t) \subseteq Vals(u)
      BY <1>4 DEF Vals
    <2> QED
      BY <2>1, <2>2
  <1>6. ASSUME Distinct(s), Distinct(t), Vals(s) \cap Vals(t) = {} PROVE Distinct(u)
    <2> SUFFICES ASSUME NEW i \in DOMAIN u, NEW j \in DOMAIN u, i # j PROVE u[i] # u[j]
      BY DEF Distinct
    <2>1. i \in Nat /\ j \in Nat
      BY <1>2
    <2>2. \A k \in DOMAIN s : s[k] \in Vals(s)
      BY DEF Vals
    <2>3. \A k \in DOMAIN t : t[k] \in Vals(t)
      BY DEF Vals
    <2>4. i - a = j - a => i = j
      BY <1>2, <2>1
    <2> QED
      BY <1>3, <1>6, <2>2, <2>3, <2>4 DEF Distinct
  <1>7. ASSUME Increasing(s), Increasing(t), \A m \in Vals(s), n \in Vals(t) : m < n PROVE Increasing(u)
    <2> SUFFICES ASSUME NEW i \in DOMAIN u, NEW j \in DOMAIN u, i < j PROVE u[i] < u[j]
      BY DEF Increasing
    <2>1. i \in Nat /\ j \in Nat /\ (i > a => j > a) /\ i - a < j - a
      BY <1>2
    <2>2. \A k \in DOMAIN s, l \in DOMAIN t : s[k] < t[l]
      BY <1>7 DEF Vals
    <2>3. j \in DOMAIN s => ~(j > a)
      BY <1>2
    <2> QED
      BY <1>3, <1>7, <2>1, <2>2, <2>3 DEF Increasing
  <1> QED
    BY <1>1, <1>5, <1>6, <1>7 DEF u

\* A read takes the whole buffer.
LEMMA ReadKeeps == ASSUME MqttInv, mqttRead PROVE MqttInv'
  <1>1. /\ got' = got \o buffer /\ buffer' = <<>>
        /\ UNCHANGED <<current, queues, drains, publish, sent, capped, devLeft>>
    BY DEF mqttRead, otherThanMqtt
  <1>2. /\ got' \in Seq(Numbers) /\ Vals(got') = Vals(got) \cup Vals(buffer) /\ Distinct(got')
        /\ Len(queues) <= 1 => Increasing(got')
    BY <1>1, Joined DEF MqttInv, MqttTypeOK, Apart, OneInOrder
  <1>3. Vals(buffer') = {} /\ Increasing(buffer') /\ Distinct(buffer') /\ buffer' \in Seq(Numbers)
    BY <1>1, EmptySeq DEF Vals, Increasing, Distinct
  <1>4. \A c : Stock(c)' = Stock(c)
    BY <1>1 DEF Stock
  <1>5. MqttTypeOK' /\ QueuesInOrder'
    BY <1>1, <1>2, <1>3 DEF MqttInv, MqttTypeOK, QueuesInOrder
  <1>6. AllBelow' /\ Apart' /\ OneInOrder'
    BY <1>1, <1>2, <1>3, <1>4 DEF MqttInv, AllBelow, Apart, OneInOrder, Top
  <1> QED
    BY <1>5, <1>6 DEF MqttInv

\* A channel is closed with what is in it.
LEMMA UnsubscribeKeeps == ASSUME MqttInv, mqttUnsubscribe PROVE MqttInv'
  <1>1. /\ current \in DOMAIN queues /\ queues' = [queues EXCEPT ![current].closed = TRUE] /\ current' = 0 /\ publish = 0
        /\ UNCHANGED <<drains, buffer, publish, sent, got, capped, devLeft>>
    BY MqttTypes DEF mqttUnsubscribe, BrokerFree, otherThanMqtt, MqttInv, MqttTypeOK
  <1> DEFINE e == [queues[current] EXCEPT !.closed = TRUE]
  <1>2. queues[current] \in Queues /\ current \in 1 .. Len(queues)
    BY <1>1, MqttTypes, ElementOfSeq DEF MqttInv, MqttTypeOK
  <1>3. e \in Queues /\ e.msgs = queues[current].msgs
    BY <1>2 DEF Queues
  <1>4. queues' = [queues EXCEPT ![current] = e]
    BY <1>1
  <1> HIDE DEF e
  <1>5. /\ queues' \in Seq(Queues) /\ Len(queues') = Len(queues)
        /\ \A j \in 1 .. Len(queues) : queues'[j] = IF j = current THEN e ELSE queues[j]
    BY <1>2, <1>3, <1>4, ExceptSeq DEF MqttInv, MqttTypeOK
  <1>6. DOMAIN queues' = DOMAIN queues /\ \A c \in DOMAIN queues : queues'[c].msgs = queues[c].msgs
    BY <1>3, <1>5, MqttTypes, LenProperties DEF MqttInv
  <1>7. MqttTypeOK'
    BY <1>1, <1>5 DEF MqttInv, MqttTypeOK
  <1>8. Top' = Top /\ Top \in Nat
    BY <1>1, MqttTypes DEF Top, MqttInv
  <1> QED
    BY <1>1, <1>5, <1>6, <1>7, <1>8, PlacesStay

\* Publish puts its message into the channel, or waits for room in it.
LEMMA PublishKeeps == ASSUME MqttInv, mqttPublish PROVE MqttInv'
  <1> DEFINE m == sent + 1
  <1>1. /\ publish = 0 /\ sent' = m /\ UNCHANGED <<current, drains, buffer, got, capped, devLeft>>
        /\ sent \in Nat /\ Top = sent
    BY DEF mqttPublish, BrokerFree, otherThanMqtt, MqttInv, MqttTypeOK, Top
  <1>2. CASE UNCHANGED <<publish, queues>>
    <2>1. MqttTypeOK' /\ Top' >= Top
      BY <1>1, <1>2 DEF MqttInv, MqttTypeOK, Top
    <2> QED
      BY <1>1, <1>2, <2>1, PlacesStay
  <1>3. CASE current # 0 /\ publish' = m /\ UNCHANGED queues
    <2>1. MqttTypeOK' /\ Top' >= Top
      BY <1>1, <1>3 DEF MqttInv, MqttTypeOK, Top
    <2> QED
      BY <1>1, <1>3, <2>1, PlacesStay
  <1>4. CASE current # 0 /\ queues' = [queues EXCEPT ![current].msgs = Append(@, m)] /\ UNCHANGED publish
    <2>1. current \in DOMAIN queues /\ queues[current].msgs \in Seq(Numbers) /\ m \in Numbers
      BY <1>1, <1>4, MqttTypes DEF MqttInv, MqttTypeOK, Numbers
    <2>2. queues' = [queues EXCEPT ![current].msgs = Append(queues[current].msgs, m)]
      BY <1>4
    <2>3. Append(queues[current].msgs, m) \in Seq(Numbers)
      BY <2>1, Appended
    <2>4. queues' \in Seq(Queues) /\ Len(queues') = Len(queues)
      <3> HIDE DEF m
      <3> QED
        BY <2>1, <2>2, <2>3, QueueSet DEF MqttInv
    <2>5. MqttTypeOK'
      BY <1>1, <1>4, <2>4 DEF MqttInv, MqttTypeOK
    <2>6. m > Top /\ Top' >= m
      BY <1>1, <1>4 DEF Top
    <2> HIDE DEF m
    <2> QED
      BY <1>1, <1>4, <2>1, <2>5, <2>6, PutKeeps
  <1> QED
    BY <1>1, <1>2, <1>3, <1>4 DEF mqttPublish

\* The message that waited finds room, or is given up.
LEMMA PublishWaitsKeeps == ASSUME MqttInv, NEW ok \in BOOLEAN, PublishWaits(ok) PROVE MqttInv'
  <1>1. /\ publish # 0 /\ publish = sent /\ publish' = 0 /\ current \in DOMAIN queues /\ publish \in Numbers
        /\ UNCHANGED <<current, drains, buffer, sent, got, capped, devLeft>>
    BY MqttTypes DEF PublishWaits, BrokerFree, otherThanMqtt, MqttInv, MqttTypeOK, Numbers
  <1>2. publish > Top /\ Top' >= publish /\ Top' >= Top
    BY <1>1 DEF Top, Numbers
  <1>3. CASE ~ok
    <2>1. UNCHANGED queues
      BY <1>3 DEF PublishWaits
    <2>2. MqttTypeOK'
      BY <1>1, <2>1 DEF MqttInv, MqttTypeOK
    <2> QED
      BY <1>1, <1>2, <2>1, <2>2, PlacesStay
  <1>4. CASE ok
    <2>1. queues' = [queues EXCEPT ![current].msgs = Append(@, publish)]
      BY <1>4 DEF PublishWaits
    <2>2. queues' = [queues EXCEPT ![current].msgs = Append(queues[current].msgs, publish)]
      BY <2>1
    <2>3. Append(queues[current].msgs, publish) \in Seq(Numbers)
      BY <1>1, MqttTypes, Appended DEF MqttInv
    <2>4. queues' \in Seq(Queues) /\ Len(queues') = Len(queues)
      BY <1>1, <2>2, <2>3, QueueSet DEF MqttInv
    <2>5. MqttTypeOK'
      BY <1>1, <2>4 DEF MqttInv, MqttTypeOK
    <2> QED
      BY <1>1, <1>2, <2>1, <2>5, PutKeeps
  <1> QED
    BY <1>3, <1>4

\* The other devices leave the broker alone.
LEMMA OtherDevicesKeep == ASSUME MqttInv, UNCHANGED mqttVars PROVE MqttInv'
  <1>1. UNCHANGED <<current, queues, drains, buffer, publish, sent, got, capped>>
    BY DEF mqttVars
  <1>2. \A c : Stock(c)' = Stock(c)
    BY <1>1 DEF Stock
  <1>3. MqttTypeOK' /\ QueuesInOrder'
    BY <1>1 DEF MqttInv, MqttTypeOK, QueuesInOrder
  <1>4. AllBelow' /\ Apart' /\ OneInOrder'
    BY <1>1, <1>2 DEF MqttInv, AllBelow, Apart, OneInOrder, Top
  <1> QED
    BY <1>3, <1>4 DEF MqttInv

PortStates == [open : BOOLEAN, data : Seq(Nat), arrived : Nat, got : Seq(Nat)]

UpTo(n) == [i \in 1 .. n |-> i]

\* The numbers of the bytes that arrived.
LEMMA UpToIs == ASSUME NEW k \in Nat PROVE UpTo(k) \in Seq(Nat) /\ Len(UpTo(k)) = k /\ \A i \in 1 .. k : UpTo(k)[i] = i
  <1>1. UpTo(k) \in Seq(Nat)
    BY SMTT(30) DEF UpTo
  <1>2. DOMAIN UpTo(k) = 1 .. k /\ \A i \in 1 .. k : UpTo(k)[i] = i
    BY DEF UpTo
  <1> QED
    BY <1>1, <1>2, LenProperties

\* The next byte.
LEMMA UpToNext == ASSUME NEW k \in Nat PROVE UpTo(k) \o <<k + 1>> = UpTo(k + 1)
  <1> DEFINE n == k + 1
             u == UpTo(k)
             v == UpTo(n)
             w == <<n>>
  <1>1. u \in Seq(Nat) /\ Len(u) = k /\ \A i \in 1 .. k : u[i] = i
    BY UpToIs
  <1>2. n \in Nat /\ v \in Seq(Nat) /\ Len(v) = n /\ \A i \in 1 .. n : v[i] = i
    <2>1. n \in Nat
      OBVIOUS
    <2> HIDE DEF n
    <2> QED
      BY <2>1, UpToIs
  <1>3. w \in Seq(Nat) /\ Len(w) = 1 /\ w[1] = n
    OBVIOUS
  <1>4. n = k + 1
    OBVIOUS
  <1> HIDE DEF n, u, v, w
  <1>5. /\ u \o w \in Seq(Nat) /\ Len(u \o w) = n
        /\ \A i \in 1 .. n : (u \o w)[i] = IF i <= k THEN u[i] ELSE w[i - k]
    <2>1. /\ u \o w \in Seq(Nat) /\ Len(u \o w) = Len(u) + Len(w)
          /\ \A i \in 1 .. Len(u) + Len(w) : (u \o w)[i] = IF i <= Len(u) THEN u[i] ELSE w[i - Len(u)]
      BY <1>1, <1>3, ConcatProperties
    <2> QED
      BY <1>1, <1>3, <1>4, <2>1
  <1>6. ASSUME NEW i \in 1 .. n PROVE (u \o w)[i] = v[i]
    <2>1. CASE i <= k
      BY <1>1, <1>2, <1>4, <1>5, <2>1
    <2>2. CASE ~(i <= k)
      <3>1. i - k = 1 /\ i = n
        BY <1>4, <2>2
      <3> QED
        BY <1>2, <1>3, <1>5, <2>2, <3>1
    <2> QED
      BY <2>1, <2>2
  <1>7. u \o w = v
    BY <1>2, <1>5, <1>6, SeqEqual
  <1> QED
    BY <1>7 DEF n, u, v, w

\* Serial ports: what was read and what is still to be read are the bytes that arrived, in
\* their order.
SerialInv == ports \in [Ports -> {l \in PortStates : l.got \o l.data = UpTo(l.arrived)}]

\* One port changes.
LEMMA PortSet ==
  ASSUME SerialInv, NEW p \in Ports, NEW l \in PortStates, l.got \o l.data = UpTo(l.arrived),
         ports' = [ports EXCEPT ![p] = l]
  PROVE  SerialInv'
  BY DEF SerialInv

\* Joining sequences is associative.
LEMMA ThreeJoined ==
  ASSUME NEW s \in Seq(Nat), NEW t \in Seq(Nat), NEW u \in Seq(Nat)
  PROVE  (s \o t) \o u = s \o (t \o u)
  BY SMTT(60)

\* A byte arrives.
LEMMA InjectDataKeeps == ASSUME SerialInv, NEW p \in Ports, InjectData(p) PROVE SerialInv'
  <1> DEFINE old == ports[p]
             n   == old.arrived + 1
             d   == Append(old.data, n)
             l   == [old EXCEPT !.arrived = n, !.data = d]
  <1>1. old \in PortStates /\ old.got \o old.data = UpTo(old.arrived)
    BY DEF SerialInv
  <1>2. ports' = [ports EXCEPT ![p] = l]
    BY <1>1 DEF InjectData, SerialInv
  <1>3. old.data \in Seq(Nat) /\ old.got \in Seq(Nat) /\ old.arrived \in Nat
    BY <1>1 DEF PortStates
  <1>4. n \in Nat /\ d \in Seq(Nat) /\ d = old.data \o <<n>> /\ <<n>> \in Seq(Nat)
    <2>1. n \in Nat
      BY <1>3
    <2> HIDE DEF n, old
    <2>2. <<n>> \in Seq(Nat)
      BY <2>1
    <2>3. d \in Seq(Nat)
      BY <1>3, <2>1, AppendProperties
    <2>4. d = old.data \o <<n>>
      BY <1>3, <2>1, AppendIsConcat
    <2> QED
      BY <2>1, <2>2, <2>3, <2>4
  <1>5. old.got \o d = UpTo(old.arrived) \o <<n>>
    <2> HIDE DEF n, old, d
    <2>1. (old.got \o old.data) \o <<n>> = old.got \o (old.data \o <<n>>)
      BY <1>3, <1>4, ThreeJoined
    <2> QED
      BY <1>1, <1>4, <2>1
  <1>6. UpTo(old.arrived) \o <<n>> = UpTo(n)
    BY <1>3, UpToNext
  <1> HIDE DEF n, d
  <1>7. l \in PortStates /\ l.got = old.got /\ l.data = d /\ l.arrived = n
    BY <1>1, <1>4 DEF PortStates
  <1> HIDE DEF l, old
  <1> QED
    BY <1>2, <1>5, <1>6, <1>7, PortSet

\* A port is opened or closed.
LEMMA SerialOpensKeep == ASSUME SerialInv, NEW p \in Ports, serialOpen(p) \/ serialClose(p) PROVE SerialInv'
  <1> DEFINE old == ports[p]
  <1>1. old \in PortStates /\ old.got \o old.data = UpTo(old.arrived)
    BY DEF SerialInv
  <1>2. PICK b \in BOOLEAN : ports' = [ports EXCEPT ![p].open = b]
    BY DEF serialOpen, serialClose
  <1> DEFINE l == [old EXCEPT !.open = b]
  <1>3. ports' = [ports EXCEPT ![p] = l]
    BY <1>2 DEF SerialInv
  <1>4. l \in PortStates /\ l.got = old.got /\ l.data = old.data /\ l.arrived = old.arrived
    BY <1>1 DEF PortStates
  <1> HIDE DEF l
  <1> QED
    BY <1>1, <1>3, <1>4, PortSet

\* A read takes the first bytes.
LEMMA SerialReadKeeps == ASSUME SerialInv, NEW p \in Ports, NEW maxBytes \in 1 .. 2, serialRead(p, maxBytes) PROVE SerialInv'
  <1> DEFINE old == ports[p]
             n   == IF Len(old.data) > maxBytes THEN maxBytes ELSE Len(old.data)
             a   == SubSeq(old.data, 1, n)
             b   == SubSeq(old.data, n + 1, Len(old.data))
             l   == [old EXCEPT !.got = old.got \o a, !.data = b]
  <1>1. old \in PortStates /\ old.got \o old.data = UpTo(old.arrived)
    BY DEF SerialInv
  <1>2. ports' = [ports EXCEPT ![p] = l]
    BY <1>1 DEF serialRead, SerialInv
  <1>3. old.data \in Seq(Nat) /\ old.got \in Seq(Nat) /\ Len(old.data) \in Nat /\ \A i \in 1 .. Len(old.data) : old.data[i] \in Nat
    BY <1>1, LenProperties, ElementOfSeq DEF PortStates
  <1>4. n \in 0 .. Len(old.data)
    BY <1>3
  <1> HIDE DEF n
  <1>5. a \in Seq(Nat) /\ b \in Seq(Nat)
    <2>1. n \in Int /\ n + 1 \in Int /\ Len(old.data) \in Int
      BY <1>3, <1>4
    <2>2. \A i \in 1 .. n : old.data[i] \in Nat
      BY <1>3, <1>4
    <2>3. \A i \in n + 1 .. Len(old.data) : old.data[i] \in Nat
      BY <1>3, <1>4
    <2> QED
      BY <2>1, <2>2, <2>3, SubSeqProperties
  <1>6. a \o b = old.data
    <2>1. 1 \in 1 .. Len(old.data) + 1 /\ n \in 1 - 1 .. Len(old.data) /\ Len(old.data) \in n .. Len(old.data)
      BY <1>3, <1>4
    <2>2. a \o b = SubSeq(old.data, 1, Len(old.data))
      BY <1>3, <2>1, ConcatAdjacentSubSeq
    <2> QED
      BY <1>3, <2>2, SubSeqFull
  <1> HIDE DEF a, b
  <1>7. (old.got \o a) \o b = old.got \o old.data /\ old.got \o a \in Seq(Nat)
    <2> HIDE DEF old
    <2>1. (old.got \o a) \o b = old.got \o (a \o b)
      BY <1>3, <1>5, ThreeJoined
    <2>2. old.got \o a \in Seq(Nat)
      BY <1>3, <1>5, ConcatProperties
    <2> QED
      BY <1>6, <2>1, <2>2
  <1>8. l \in PortStates /\ l.got = old.got \o a /\ l.data = b /\ l.arrived = old.arrived
    BY <1>1, <1>5, <1>7 DEF PortStates
  <1> HIDE DEF l
  <1> QED
    BY <1>1, <1>2, <1>7, <1>8, PortSet

\* The inductive invariant of the devices.
DevicesInv == MqttInv /\ SerialInv

\* At the start nothing is anywhere.
LEMMA DevicesInitOk == ASSUME DevicesInit PROVE DevicesInv
  <1>1. /\ current = 0 /\ queues = <<>> /\ drains = <<>> /\ buffer = <<>> /\ publish = 0 /\ sent = 0 /\ got = <<>> /\ capped = {}
        /\ ports = [p \in Ports |-> [open |-> FALSE, data |-> <<>>, arrived |-> 0, got |-> <<>>]]
    BY DEF DevicesInit
  <1>2. DOMAIN queues = {} /\ Len(queues) = 0 /\ queues \in Seq(Queues) /\ drains \in Seq(Nat) /\ Len(drains) = 0
    BY <1>1, EmptySeq
  <1>3. Vals(got) = {} /\ Vals(buffer) = {}
    BY <1>1, EmptyPlace
  <1>4. MqttTypeOK
    BY <1>1, <1>2, EmptyPlace DEF MqttTypeOK
  <1>5. QueuesInOrder /\ AllBelow /\ Apart /\ OneInOrder
    BY <1>1, <1>2, <1>3, EmptyPlace DEF QueuesInOrder, AllBelow, Apart, OneInOrder
  <1>6. SerialInv
    <2> DEFINE l == [open |-> FALSE, data |-> <<>>, arrived |-> 0, got |-> <<>>]
    <2>1. l \in PortStates
      BY EmptySeq DEF PortStates
    <2>2. l.got \o l.data = <<>>
      BY ConcatEmptySeq, EmptySeq
    <2>3. UpTo(l.arrived) = <<>>
      <3>1. UpTo(0) \in Seq(Nat) /\ Len(UpTo(0)) = 0
        BY DEF UpTo
      <3> QED
        BY <3>1, EmptySeq
    <2> HIDE DEF l
    <2> QED
      BY <1>1, <2>1, <2>2, <2>3 DEF SerialInv, l
  <1> QED
    BY <1>4, <1>5, <1>6 DEF DevicesInv, MqttInv

\* Every step keeps it.
LEMMA DevicesInvKept == ASSUME DevicesInv, [DevicesNext]_deviceVars PROVE DevicesInv'
  <1>1. MqttInv /\ SerialInv
    BY DEF DevicesInv
  <1>2. CASE mqttPublish \/ mqttSubscribe \/ mqttUnsubscribe \/ DeleteBuffer \/ mqttRead
    <2>1. UNCHANGED ports
      BY <1>2 DEF mqttPublish, mqttSubscribe, mqttUnsubscribe, DeleteBuffer, mqttRead, otherThanMqtt
    <2> QED
      BY <1>1, <1>2, <2>1, PublishKeeps, SubscribeKeeps, UnsubscribeKeeps, DeleteBufferKeeps, ReadKeeps
      DEF DevicesInv, SerialInv
  <1>3. CASE \E ok \in BOOLEAN : PublishWaits(ok)
    <2>1. UNCHANGED ports
      BY <1>3 DEF PublishWaits, otherThanMqtt
    <2> QED
      BY <1>1, <1>3, <2>1, PublishWaitsKeeps DEF DevicesInv, SerialInv
  <1>4. CASE \E ch \in DOMAIN queues : DrainTakes(ch) \/ DrainAppends(ch)
    <2>1. UNCHANGED ports
      BY <1>4 DEF DrainTakes, DrainAppends, otherThanMqtt
    <2> QED
      BY <1>1, <1>4, <2>1, DrainTakesKeeps, DrainAppendsKeeps DEF DevicesInv, SerialInv
  <1>5. CASE \E p \in Ports : \/ InjectData(p) \/ serialOpen(p) \/ serialClose(p)
                              \/ \E n \in 1 .. 2 : serialRead(p, n)
    <2>1. UNCHANGED mqttVars
      BY <1>5 DEF InjectData, serialOpen, serialClose, serialRead
    <2> QED
      BY <1>1, <1>5, <2>1, OtherDevicesKeep, InjectDataKeeps, SerialOpensKeep, SerialReadKeeps DEF DevicesInv
  <1>6. CASE UNCHANGED <<mqttVars, ports>>
    BY <1>1, <1>6, OtherDevicesKeep DEF DevicesInv, SerialInv
  <1>7. CASE \/ \E p \in Pins : gpioRead(p) \/ gpioPWM(p) \/ \E v \in {0, 1} : gpioWrite(p, v)
             \/ bleConnect \/ bleDisconnect \/ \E c \in Characteristics, v \in {0, 1} : bleWrite(c, v)
             \/ UNCHANGED deviceVars
    <2>1. UNCHANGED <<mqttVars, ports>>
      BY <1>7 DEF gpioRead, gpioPWM, gpioWrite, bleConnect, bleDisconnect, bleWrite, deviceVars
    <2> QED
      BY <1>6, <2>1
  <1> QED
    BY <1>2, <1>3, <1>4, <1>5, <1>7 DEF DevicesNext

\* Messages are in one place each and in the order they were sent, from the broker through
\* every channel and its goroutine to the buffer of the tool (mqtt.go), and no byte of a
\* serial port is lost or repeated (serial.go).
THEOREM DevicesInvariant == DevicesSpec => []DevicesInv
  BY DevicesInitOk, DevicesInvKept, PTL DEF DevicesSpec

\* A sequence without repetitions is as long as it has members.
LEMMA DistinctCounts == ASSUME NEW s \in Seq(Numbers), Distinct(s) PROVE Cardinality({s[i] : i \in DOMAIN s}) = Len(s)
  <1> DEFINE T == {s[i] : i \in DOMAIN s}
  <1>1. DOMAIN s = 1 .. Len(s) /\ Len(s) \in Nat /\ s \in [1 .. Len(s) -> T]
    BY LenProperties
  <1>2. s \in Bijection(1 .. Len(s), T)
    BY <1>1 DEF Distinct, Bijection, Injection, Surjection, IsInjective
  <1>3. IsFiniteSet(1 .. Len(s)) /\ Cardinality(1 .. Len(s)) = Len(s)
    BY <1>1, FS_Interval
  <1> QED
    BY <1>2, <1>3, FS_Bijection DEF ExistsBijection

\* What the inductive invariant says of reads.
LEMMA DevicesInvGives == ASSUME DevicesInv PROVE DevicesInOrder
  <1>1. Len(queues) <= 1 => /\ Increasing(got \o buffer)
                            /\ \A m \in capped, i \in DOMAIN buffer : m < buffer[i]
    <2> SUFFICES ASSUME Len(queues) <= 1
                 PROVE Increasing(got \o buffer) /\ \A m \in capped, i \in DOMAIN buffer : m < buffer[i]
      OBVIOUS
    <2>1. \A i \in DOMAIN buffer : buffer[i] \in Vals(buffer)
      BY DEF Vals
    <2> QED
      BY <2>1, Joined DEF DevicesInv, MqttInv, MqttTypeOK, OneInOrder
  <1>2. Cardinality({got[i] : i \in DOMAIN got}) = Len(got)
    BY DistinctCounts DEF DevicesInv, MqttInv, MqttTypeOK, Apart
  <1>3. \A p \in Ports : ports[p].got \o ports[p].data = [i \in 1 .. ports[p].arrived |-> i]
    BY DEF DevicesInv, SerialInv, UpTo
  <1> QED
    BY <1>1, <1>2, <1>3 DEF DevicesInOrder

\* DevicesInOrder, for any number of messages, subscriptions and bytes: reads return no
\* message twice, with one subscription in the order they were sent and only older ones
\* dropped by the cap, and serial reads return the bytes in order.
THEOREM DevicesInOrderHolds == DevicesSpec => []DevicesInOrder
  BY DevicesInvariant, DevicesInvGives, PTL


-----------------------------------------------------------------------------
(* The terminal chat *)

UiStates == [waiting : BOOLEAN, vim : BOOLEAN, enabled : BOOLEAN, overlay : {"none", "search", "found", "modal"},
             pane : {"hidden", "left", "right"}, speed : {"normal", "fast", "instant"}, quitting : BOOLEAN]

Streams == [on : BOOLEAN, of : Int, pos : Nat]
Written == [by : {"user", "system", "assistant"}, of : Int, pos : Nat]
Histories == [accepted : SUBSET Int, late : SUBSET Int, cut : SUBSET Int, stalled : SUBSET Int, mistaken : SUBSET Nat]
Handlers == [state : {"none", "running", "sending", "over"}, cancelled : BOOLEAN]

\* The types of the chat.
TuiTypeOK ==
    /\ ui \in UiStates
    /\ gen \in Nat /\ tagGen \in Nat /\ cancelFn \in Nat /\ ticks \in Nat
    /\ stream \in Streams
    /\ screen \in Seq(Written)
    /\ handler \in [RequestIds -> Handlers]
    /\ outbox \subseteq [of : Int \ {0}, gen : Nat]
    /\ tuiSeen \in Histories
    /\ tuiLeft \in [requests : Nat, keys : Nat, tools : Nat]
    /\ \E b \in TuiBounds : tuiLeft.requests = b.requests

\* The screen: the answer that is being streamed and not cut is the last message.
StreamIsLast ==
    stream.on /\ stream.of \notin tuiSeen.cut =>
        screen # <<>> /\ screen[Len(screen)] = [by |-> "assistant", of |-> stream.of, pos |-> stream.pos]

\* The screen.
ScreenInv == StreamIsLast /\ AnswersAreWhole

\* MessageListModel.Add: the new message is the last, and the others were there before.
LEMMA AddIs ==
  ASSUME NEW s \in Seq(Written), NEW m \in Written
  PROVE  /\ Add(s, m) \in Seq(Written) /\ Add(s, m) # <<>> /\ Len(Add(s, m)) \in Nat \ {0} /\ DOMAIN Add(s, m) = 1 .. Len(Add(s, m))
         /\ Add(s, m)[Len(Add(s, m))] = m
         /\ \A i \in DOMAIN Add(s, m) : i # Len(Add(s, m)) => \E j \in DOMAIN s : Add(s, m)[i] = s[j]
  <1> DEFINE t == Append(s, m)
             n == Len(s) + 1
             a == Add(s, m)
             k == IF n > MaxMessages THEN n - MaxMessages ELSE 0
  <1>1. /\ t \in Seq(Written) /\ Len(t) = n /\ t[n] = m /\ n \in Nat \ {0} /\ DOMAIN s = 1 .. n - 1
        /\ \A i \in 1 .. n - 1 : t[i] = s[i]
    BY AppendProperties, LenProperties
  <1>2. MaxMessages \in Nat \ {0}
    BY TuiConstants
  <1>3. k \in 0 .. n - 1
    BY <1>1, <1>2
  <1>4. \A i \in 1 .. n : t[i] \in Written
    BY <1>1, ElementOfSeq
  <1> HIDE DEF n
  <1>5. a \in Seq(Written) /\ Len(a) = n - k /\ \A i \in 1 .. n - k : a[i] = t[i + k]
    <2>1. CASE n > MaxMessages
      <3>1. a = SubSeq(t, k + 1, n) /\ k + 1 \in Int /\ k + 1 <= n
        BY <1>1, <1>2, <1>3, <2>1 DEF Add
      <3> HIDE DEF a, t, k
      <3>2. \A i \in k + 1 .. n : t[i] \in Written
        BY <1>1, <1>3, <1>4
      <3>3. /\ a \in Seq(Written) /\ Len(a) = n - (k + 1) + 1
            /\ \A i \in 1 .. n - (k + 1) + 1 : a[i] = t[(k + 1) + i - 1]
        BY <1>1, <3>1, <3>2, SubSeqProperties
      <3>4. ASSUME NEW i \in 1 .. n - k PROVE a[i] = t[i + k]
        <4>1. (k + 1) + i - 1 = i + k /\ i \in 1 .. n - (k + 1) + 1
          BY <1>1, <1>3
        <4> QED
          BY <3>3, <4>1
      <3> QED
        BY <1>1, <1>3, <3>3, <3>4
    <2>2. CASE ~(n > MaxMessages)
      BY <1>1, <2>2 DEF Add
    <2> QED
      BY <2>1, <2>2
  <1> HIDE DEF a, t, k
  <1>6. Len(a) \in Nat \ {0} /\ DOMAIN a = 1 .. Len(a) /\ a # <<>>
    BY <1>1, <1>3, <1>5, LenProperties, EmptySeq
  <1>7. a[Len(a)] = m
    <2>1. n - k \in 1 .. n - k /\ (n - k) + k = n
      BY <1>1, <1>3
    <2> QED
      BY <1>1, <1>5, <2>1
  <1>8. ASSUME NEW i \in DOMAIN a, i # Len(a) PROVE \E j \in DOMAIN s : a[i] = s[j]
    <2>1. i \in 1 .. n - k /\ i + k \in 1 .. n - 1
      BY <1>1, <1>3, <1>5, <1>6, <1>8
    <2>2. a[i] = s[i + k]
      BY <1>1, <1>5, <2>1
    <2> QED
      BY <1>1, <2>1, <2>2
  <1> QED
    BY <1>5, <1>6, <1>7, <1>8 DEF a

\* Two fields of a message change.
LEMMA Relabelled ==
  ASSUME NEW w \in Written, NEW answer \in Int, NEW pos \in Nat
  PROVE  [[w EXCEPT !.of = answer] EXCEPT !.pos = pos] = [by |-> w.by, of |-> answer, pos |-> pos]
  <1>1. w = [by |-> w.by, of |-> w.of, pos |-> w.pos]
    BY DEF Written
  <1> DEFINE l == [w EXCEPT !.of = answer]
  <1>2. l = [by |-> w.by, of |-> answer, pos |-> w.pos]
    BY <1>1
  <1> HIDE DEF l
  <1>3. [l EXCEPT !.pos = pos] = [by |-> w.by, of |-> answer, pos |-> pos]
    BY <1>2
  <1> QED
    BY <1>3 DEF l

\* UpdateLast changes the last message only, and not who wrote it.
LEMMA UpdateLastIs ==
  ASSUME NEW s \in Seq(Written), s # <<>>, NEW answer \in Int, NEW pos \in Nat
  PROVE  /\ UpdateLast(s, answer, pos) \in Seq(Written)
         /\ Len(UpdateLast(s, answer, pos)) = Len(s) /\ DOMAIN UpdateLast(s, answer, pos) = 1 .. Len(s)
         /\ \A i \in 1 .. Len(s) : UpdateLast(s, answer, pos)[i] =
                IF i = Len(s) THEN [by |-> s[i].by, of |-> answer, pos |-> pos] ELSE s[i]
  <1> DEFINE e == [by |-> s[Len(s)].by, of |-> answer, pos |-> pos]
  <1>1. Len(s) \in 1 .. Len(s) /\ s[Len(s)] \in Written /\ DOMAIN s = 1 .. Len(s)
    BY LenProperties, EmptySeq, ElementOfSeq
  <1>2. e \in Written
    BY <1>1 DEF Written
  <1>3. UpdateLast(s, answer, pos) = [s EXCEPT ![Len(s)] = e]
    <2>1. [[s[Len(s)] EXCEPT !.of = answer] EXCEPT !.pos = pos] = e
      BY <1>1, Relabelled
    <2>2. [[s EXCEPT ![Len(s)].of = answer] EXCEPT ![Len(s)].pos = pos] = [s EXCEPT ![Len(s)] = e]
      <3> HIDE DEF e
      <3> QED
        BY <1>1, <2>1
    <2> QED
      BY <2>2 DEF UpdateLast
  <1> HIDE DEF e
  <1> QED
    BY <1>1, <1>2, <1>3, ExceptSeq, LenProperties DEF e

\* A message of one of the three is added.
LEMMA WroteIs ==
  ASSUME NEW s \in Seq(Written), NEW by \in {"user", "system", "assistant"}
  PROVE  /\ Add(s, Wrote(by)) \in Seq(Written) /\ Add(s, Wrote(by)) # <<>>
         /\ \A i \in DOMAIN Add(s, Wrote(by)) : Add(s, Wrote(by))[i] = Wrote(by) \/ \E j \in DOMAIN s : Add(s, Wrote(by))[i] = s[j]
  <1>1. Wrote(by) \in Written
    BY DEF Wrote, Written
  <1> DEFINE m == Wrote(by)
  <1> HIDE DEF m
  <1>2. m \in Written
    BY <1>1 DEF m
  <1>3. /\ Add(s, m) \in Seq(Written) /\ Add(s, m) # <<>> /\ Add(s, m)[Len(Add(s, m))] = m
        /\ \A i \in DOMAIN Add(s, m) : i # Len(Add(s, m)) => \E j \in DOMAIN s : Add(s, m)[i] = s[j]
    BY <1>2, AddIs
  <1>4. \A i \in DOMAIN Add(s, m) : Add(s, m)[i] = m \/ \E j \in DOMAIN s : Add(s, m)[i] = s[j]
    BY <1>3
  <1> QED
    BY <1>3, <1>4 DEF m

\* An answer is added and shown up to some rune.
LEMMA AnsweredIs ==
  ASSUME NEW s \in Seq(Written), NEW answer \in Int, NEW pos \in Nat
  PROVE  LET u == UpdateLast(Add(s, Wrote("assistant")), answer, pos)
             n == Len(u)
         IN  /\ u \in Seq(Written) /\ n \in Nat \ {0} /\ DOMAIN u = 1 .. n
             /\ u[n] = [by |-> "assistant", of |-> answer, pos |-> pos]
             /\ \A i \in DOMAIN u : i # n => \E j \in DOMAIN s : u[i] = s[j]
  <1> DEFINE m == Wrote("assistant")
             a == Add(s, m)
             u == UpdateLast(a, answer, pos)
  <1>1. m \in Written /\ m.by = "assistant"
    BY DEF Wrote, Written
  <1> HIDE DEF m
  <1>2. /\ a \in Seq(Written) /\ a # <<>> /\ Len(a) \in Nat \ {0} /\ DOMAIN a = 1 .. Len(a) /\ a[Len(a)] = m
        /\ \A i \in DOMAIN a : i # Len(a) => \E j \in DOMAIN s : a[i] = s[j]
    BY <1>1, AddIs
  <1> HIDE DEF a
  <1>3. /\ u \in Seq(Written) /\ Len(u) = Len(a) /\ DOMAIN u = 1 .. Len(a)
        /\ \A i \in 1 .. Len(a) : u[i] = IF i = Len(a) THEN [by |-> a[i].by, of |-> answer, pos |-> pos] ELSE a[i]
    <2>1. a \in Seq(Written) /\ a # <<>>
      BY <1>2
    <2> QED
      BY ONLY <2>1, UpdateLastIs, answer \in Int, pos \in Nat
  <1> HIDE DEF u
  <1>4. u[Len(u)] = [by |-> "assistant", of |-> answer, pos |-> pos]
    <2>1. Len(a) \in 1 .. Len(a)
      BY <1>2
    <2>2. u[Len(a)] = [by |-> a[Len(a)].by, of |-> answer, pos |-> pos]
      BY <1>3, <2>1
    <2> QED
      BY <1>1, <1>2, <1>3, <2>2
  <1>5. \A i \in DOMAIN u : i # Len(u) => \E j \in DOMAIN s : u[i] = s[j]
    BY <1>2, <1>3
  <1>6. u \in Seq(Written) /\ Len(u) \in Nat \ {0} /\ DOMAIN u = 1 .. Len(u)
    BY <1>2, <1>3
  <1> QED
    BY <1>4, <1>5, <1>6 DEF u, a, m

\* A message of the person or of the system cuts the answer that is being streamed.
LEMMA WriteKeeps ==
  ASSUME TuiTypeOK, TuiTypeOK', ScreenInv, NEW s \in Seq(Written),
         \A i \in DOMAIN s : \E j \in DOMAIN screen : s[i] = screen[j],
         NEW by \in {"user", "system"}, screen' = Add(s, Wrote(by)), tuiSeen'.cut = Cut(tuiSeen).cut,
         stream' = stream \/ stream' = [stream EXCEPT !.on = FALSE]
  PROVE  ScreenInv'
  <1>1. Wrote(by) \in Written /\ Wrote(by).of = 0 /\ Wrote(by).by # "assistant"
    BY DEF Wrote, Written
  <1>2. tuiSeen'.cut = tuiSeen.cut \cup (IF stream.on THEN {stream.of} ELSE {})
    BY DEF Cut, TuiTypeOK, Histories
  <1>3. stream.of = stream'.of /\ (stream'.on => stream.on)
    BY DEF TuiTypeOK, Streams
  <1>4. StreamIsLast'
    BY <1>2, <1>3 DEF StreamIsLast
  <1>5. ASSUME NEW i \in DOMAIN screen', screen'[i].of \notin tuiSeen'.cut
        PROVE  IF screen'[i].by # "assistant" THEN screen'[i].of = 0 ELSE screen'[i].pos = AnswerSize
    <2>1. screen'[i] = Wrote(by) \/ \E j \in DOMAIN s : screen'[i] = s[j]
      BY <1>5, WroteIs
    <2>2. ASSUME NEW j \in DOMAIN screen, screen'[i] = screen[j]
          PROVE  IF screen'[i].by # "assistant" THEN screen'[i].of = 0 ELSE screen'[i].pos = AnswerSize
      <3>1. stream.on => screen[j].of # stream.of
        BY <1>2, <1>5, <2>2
      <3>2. screen[j].of \notin tuiSeen.cut
        BY <1>2, <1>5, <2>2
      <3> QED
        BY <2>2, <3>1, <3>2 DEF ScreenInv, AnswersAreWhole
    <2> QED
      BY <1>1, <2>1, <2>2
  <1>6. AnswersAreWhole'
    BY <1>5 DEF AnswersAreWhole
  <1> QED
    BY <1>4, <1>6 DEF ScreenInv

\* handleOutbound shows an answer, or its beginning, in a message of its own.
LEMMA AcceptKeeps ==
  ASSUME TuiTypeOK, TuiTypeOK', ScreenInv, NEW answer \in Int, NEW whole \in BOOLEAN,
         screen' = UpdateLast(Add(screen, Wrote("assistant")), answer, IF whole THEN AnswerSize ELSE 0),
         tuiSeen'.cut = Cut(tuiSeen).cut,
         stream' = IF whole THEN [stream EXCEPT !.on = FALSE] ELSE [on |-> TRUE, of |-> answer, pos |-> 0]
  PROVE  ScreenInv'
  <1> DEFINE pos == IF whole THEN AnswerSize ELSE 0
             n   == Len(screen')
  <1>1. pos \in Nat /\ screen \in Seq(Written)
    BY TuiConstants DEF TuiTypeOK
  <1>2. screen' = UpdateLast(Add(screen, Wrote("assistant")), answer, pos)
    OBVIOUS
  <1> HIDE DEF pos
  <1>3. /\ screen' \in Seq(Written) /\ n \in Nat \ {0} /\ DOMAIN screen' = 1 .. n
        /\ \A i \in DOMAIN screen' : i # n => \E j \in DOMAIN screen : screen'[i] = screen[j]
        /\ screen'[n] = [by |-> "assistant", of |-> answer, pos |-> pos]
    BY <1>1, <1>2, AnsweredIs
  <1>4. screen'[n] = [by |-> "assistant", of |-> answer, pos |-> pos] /\ n \in DOMAIN screen'
    BY <1>3
  <1>5. tuiSeen'.cut = tuiSeen.cut \cup (IF stream.on THEN {stream.of} ELSE {})
    BY DEF Cut, TuiTypeOK, Histories
  <1>6. whole => ~stream'.on
    BY DEF TuiTypeOK, Streams
  <1>7. StreamIsLast'
    <2>1. CASE whole
      BY <1>6, <2>1 DEF StreamIsLast
    <2>2. CASE ~whole
      <3>1. stream'.of = answer /\ stream'.pos = pos
        BY <2>2 DEF pos
      <3>2. screen' # <<>>
        BY <1>3, EmptySeq
      <3> QED
        BY <1>3, <1>4, <3>1, <3>2 DEF StreamIsLast
    <2> QED
      BY <2>1, <2>2
  <1>8. ASSUME NEW i \in DOMAIN screen', i # n, screen'[i].of \notin tuiSeen'.cut
        PROVE  IF screen'[i].by # "assistant" THEN screen'[i].of = 0 ELSE screen'[i].pos = AnswerSize
    <2>1. PICK j \in DOMAIN screen : screen'[i] = screen[j]
      BY <1>3, <1>8
    <2>2. stream.on => screen[j].of # stream.of
      BY <1>5, <1>8, <2>1
    <2>3. screen[j].of \notin tuiSeen.cut
      BY <1>5, <1>8, <2>1
    <2> QED
      BY <2>1, <2>2, <2>3 DEF ScreenInv, AnswersAreWhole
  <1>9. screen'[n].pos = AnswerSize \/ (stream' = [on |-> TRUE, of |-> screen'[n].of, pos |-> screen'[n].pos] /\ n = Len(screen'))
    <2>1. screen'[n].pos = pos /\ screen'[n].of = answer
      BY <1>4
    <2>2. CASE whole
      BY <2>1, <2>2 DEF pos
    <2>3. CASE ~whole
      <3>1. pos = 0 /\ stream' = [on |-> TRUE, of |-> answer, pos |-> 0]
        BY <2>3 DEF pos
      <3> QED
        BY <1>3, <2>1, <3>1
    <2> QED
      BY <2>2, <2>3
  <1>10. AnswersAreWhole'
    <2> SUFFICES ASSUME NEW i \in DOMAIN screen', screen'[i].of \notin tuiSeen'.cut
                 PROVE  IF screen'[i].by # "assistant" THEN screen'[i].of = 0
                        ELSE screen'[i].pos = AnswerSize \/ (stream' = [on |-> TRUE, of |-> screen'[i].of, pos |-> screen'[i].pos] /\ i = Len(screen'))
      BY DEF AnswersAreWhole
    <2>1. CASE i # n
      BY <1>8, <2>1
    <2>2. CASE i = n
      <3>1. screen'[n].by = "assistant"
        BY <1>4
      <3> QED
        BY <1>9, <2>2, <3>1
    <2> QED
      BY <2>1, <2>2
  <1> QED
    BY <1>7, <1>10 DEF ScreenInv

\* A tick shows more of the answer that is being streamed.
LEMMA TickKeeps ==
  ASSUME TuiTypeOK, TuiTypeOK', ScreenInv, stream.on, NEW end \in Nat, end <= AnswerSize,
         screen' = UpdateLast(screen, stream.of, end), UNCHANGED tuiSeen,
         stream' = [stream EXCEPT !.pos = end, !.on = end < AnswerSize]
  PROVE  ScreenInv'
  <1>1. /\ stream \in Streams /\ stream.of \in Int /\ screen \in Seq(Written) /\ AnswerSize \in Nat
        /\ stream' = [on |-> end < AnswerSize, of |-> stream.of, pos |-> end]
    BY TuiConstants DEF TuiTypeOK, Streams
  <1>2. CASE screen = <<>>
    <2>1. screen' = <<>> /\ DOMAIN screen' = {}
      BY <1>2, EmptySeq DEF UpdateLast
    <2>2. AnswersAreWhole'
      BY <2>1 DEF AnswersAreWhole
    <2>3. StreamIsLast'
      BY <1>1, <1>2 DEF ScreenInv, StreamIsLast
    <2> QED
      BY <2>2, <2>3 DEF ScreenInv
  <1>3. CASE screen # <<>>
    <2> DEFINE n == Len(screen)
    <2>1. n \in Nat \ {0} /\ DOMAIN screen = 1 .. n
      BY <1>1, <1>3, LenProperties, EmptySeq
    <2>2. /\ Len(screen') = n /\ DOMAIN screen' = 1 .. n
          /\ \A i \in 1 .. n : screen'[i] = IF i = n THEN [by |-> screen[i].by, of |-> stream.of, pos |-> end] ELSE screen[i]
      <3> DEFINE u == UpdateLast(screen, stream.of, end)
      <3>1. /\ Len(u) = n /\ DOMAIN u = 1 .. n
            /\ \A i \in 1 .. n : u[i] = IF i = n THEN [by |-> screen[i].by, of |-> stream.of, pos |-> end] ELSE screen[i]
        <4>1. screen \in Seq(Written) /\ stream.of \in Int
          BY <1>1
        <4> QED
          BY <1>3, <4>1, UpdateLastIs
      <3> QED
        BY <3>1
    <2>3. screen'[n] = [by |-> screen[n].by, of |-> stream.of, pos |-> end] /\ n \in DOMAIN screen' /\ screen' # <<>>
      BY <2>1, <2>2, EmptySeq
    <2>4. stream.of \notin tuiSeen.cut => screen[n].by = "assistant"
      BY DEF ScreenInv, StreamIsLast
    <2>5. StreamIsLast'
      BY <1>1, <2>2, <2>3, <2>4 DEF StreamIsLast
    <2>6. ASSUME NEW i \in DOMAIN screen', screen'[i].of \notin tuiSeen'.cut
          PROVE  IF screen'[i].by # "assistant" THEN screen'[i].of = 0
                 ELSE screen'[i].pos = AnswerSize \/ (stream' = [on |-> TRUE, of |-> screen'[i].of, pos |-> screen'[i].pos] /\ i = Len(screen'))
      <3>1. CASE i # n
        <4>1. screen'[i] = screen[i] /\ i \in DOMAIN screen
          BY <2>1, <2>2, <3>1
        <4> QED
          BY <2>6, <3>1, <4>1 DEF ScreenInv, AnswersAreWhole
      <3>2. CASE i = n
        <4>1. stream.of \notin tuiSeen.cut /\ screen'[i].by = "assistant" /\ screen'[i].of = stream.of /\ screen'[i].pos = end
          BY <2>3, <2>4, <2>6, <3>2
        <4>2. CASE end = AnswerSize
          BY <4>1, <4>2
        <4>3. CASE end < AnswerSize
          <5>1. stream' = [on |-> TRUE, of |-> stream.of, pos |-> end]
            BY <1>1, <4>3
          <5> QED
            BY <2>2, <3>2, <4>1, <5>1
        <4> QED
          BY <1>1, <4>2, <4>3
      <3> QED
        BY <3>1, <3>2
    <2>7. AnswersAreWhole'
      BY <2>6 DEF AnswersAreWhole
    <2> QED
      BY <2>5, <2>7 DEF ScreenInv
  <1> QED
    BY <1>2, <1>3

\* The screen stays.
LEMMA ScreenStays == ASSUME ScreenInv, UNCHANGED <<screen, stream, tuiSeen>> PROVE ScreenInv'
  BY DEF ScreenInv, StreamIsLast, AnswersAreWhole

-----------------------------------------------------------------------------
(* The requests *)

\* Requests are numbered from 1, and at most the newest one is not cancelled.
RequestsInOrder ==
    /\ Newest \in Nat /\ Made = 1 .. Newest
    /\ cancelFn \in {0, Newest}
    /\ \A r \in Made : ~handler[r].cancelled => r = cancelFn
    /\ cancelFn # 0 => ~handler[cancelFn].cancelled
    /\ ui.waiting => cancelFn # 0

\* The generations: the channel knows that of the newest request.
GenerationsFit ==
    /\ tagGen <= gen
    /\ Newest > 0 => tagGen > 0
    /\ IF cancelFn = 0 THEN Newest > 0 => tagGen < gen ELSE tagGen = gen

\* Under way are the answers of handlers that send, and texts of the message tool.
OutboxFits ==
    /\ \A o \in outbox : o.gen <= tagGen
    /\ \A o \in outbox : o.of > 0 => o.of \in RequestIds /\ handler[o.of].state = "sending" /\ 0 < o.gen
    /\ \A o \in outbox : o.of > 0 => handler[o.of].cancelled \/ o.gen = gen
    /\ \A o, p \in outbox : o.of > 0 /\ o.of = p.of => o = p
    /\ tuiSeen.late \subseteq Made

\* What is streamed is the answer of the newest request, or was taken for it.
StreamIsAwaited == stream.on /\ Newest > 0 => handler[Newest].state = "over" \/ Newest \in tuiSeen.mistaken

\* A stream that will end the wait, or that was brought to a standstill.
StreamGoesOn == stream.on /\ ticks > 0 /\ (ChunkOf[ui.speed] > 0 \/ stream.of \in tuiSeen.stalled)

\* The requests, their handlers and their answers.
RequestsInv ==
    /\ RequestsInOrder /\ GenerationsFit /\ OutboxFits /\ StreamIsAwaited
    /\ WaitingHasAReason /\ AnswersAreWaitedFor /\ AnswersFindTheirRequest

\* The inductive invariant of the chat.
TuiInv == TuiTypeOK /\ ScreenInv /\ RequestsInv

\* Requests have numbers.
LEMMA RequestNumbers == RequestIds \subseteq Nat \ {0} /\ \A b \in TuiBounds : b.requests \in Nat /\ 1 .. b.requests \subseteq RequestIds
  BY TuiConstants DEF RequestIds

\* As many numbers as the last one says.
LEMMA Counted == ASSUME NEW n \in Nat PROVE Cardinality(1 .. n) = n
  BY FS_Interval

\* What the requests depend on stays.
LEMMA RequestsStay ==
  ASSUME TuiTypeOK, RequestsInv, UNCHANGED <<gen, tagGen, handler, cancelFn, outbox>>,
         tuiSeen'.late = tuiSeen.late, tuiSeen'.accepted = tuiSeen.accepted, tuiSeen'.mistaken = tuiSeen.mistaken,
         ui'.waiting => ui.waiting, ui.quitting => ui'.quitting, stream'.on => stream.on,
         ui.waiting => ui'.waiting \/ stream.on, ui'.waiting /\ ~ui'.quitting /\ StreamGoesOn => StreamGoesOn'
  PROVE  RequestsInv'
  <1>1. Made' = Made /\ Newest' = Newest
    BY DEF Made, Newest
  <1>2. RequestsInOrder' /\ GenerationsFit' /\ OutboxFits'
    BY <1>1 DEF RequestsInv, RequestsInOrder, GenerationsFit, OutboxFits
  <1>3. WaitingHasAReason'
    BY <1>1 DEF RequestsInv, WaitingHasAReason, StreamGoesOn
  <1>4. AnswersFindTheirRequest'
    BY <1>1 DEF RequestsInv, AnswersFindTheirRequest
  <1>5. StreamIsAwaited'
    BY <1>1 DEF RequestsInv, StreamIsAwaited
  <1>6. AnswersAreWaitedFor'
    BY <1>1 DEF RequestsInv, StreamIsAwaited, AnswersAreWaitedFor
  <1> QED
    BY <1>2, <1>3, <1>4, <1>5, <1>6 DEF RequestsInv

\* What becomes of the flags, of the stream and of the screen.
LEMMA UiTypes ==
  ASSUME TuiTypeOK
  PROVE  /\ Ready(ui) \in UiStates /\ ~Ready(ui).waiting /\ Ready(ui).quitting = ui.quitting
         /\ Cut(tuiSeen) \in Histories
         /\ Cut(tuiSeen).late = tuiSeen.late /\ Cut(tuiSeen).accepted = tuiSeen.accepted
         /\ Cut(tuiSeen).stalled = tuiSeen.stalled /\ Cut(tuiSeen).mistaken = tuiSeen.mistaken
         /\ [stream EXCEPT !.on = FALSE] \in Streams
         /\ \A by \in {"user", "system", "assistant"} : Add(screen, Wrote(by)) \in Seq(Written) /\ Add(<<>>, Wrote(by)) \in Seq(Written)
  <1>1. Ready(ui) \in UiStates /\ ~Ready(ui).waiting /\ Ready(ui).quitting = ui.quitting
    BY DEF Ready, TuiTypeOK, UiStates
  <1>3. /\ Cut(tuiSeen) \in Histories
        /\ Cut(tuiSeen).late = tuiSeen.late /\ Cut(tuiSeen).accepted = tuiSeen.accepted
        /\ Cut(tuiSeen).stalled = tuiSeen.stalled /\ Cut(tuiSeen).mistaken = tuiSeen.mistaken
    BY DEF Cut, TuiTypeOK, Streams, Histories
  <1>4. [stream EXCEPT !.on = FALSE] \in Streams
    BY DEF TuiTypeOK, Streams
  <1>5. \A by \in {"user", "system", "assistant"} : Add(screen, Wrote(by)) \in Seq(Written) /\ Add(<<>>, Wrote(by)) \in Seq(Written)
    BY WroteIs, EmptySeq DEF TuiTypeOK
  <1> QED
    BY <1>1, <1>3, <1>4, <1>5

\* The context of a request is cancelled, and nothing else of it changes.
LEMMA CancelledIs ==
  ASSUME handler \in [RequestIds -> Handlers], NEW r \in RequestIds \cup {0}
  PROVE  /\ Cancelled(r) \in [RequestIds -> Handlers]
         /\ \A q \in RequestIds : Cancelled(r)[q].state = handler[q].state
         /\ \A q \in RequestIds : Cancelled(r)[q].cancelled <=> handler[q].cancelled \/ (r # 0 /\ q = r)
  <1>1. CASE r = 0
    BY <1>1 DEF Cancelled
  <1>2. CASE r # 0
    <2> DEFINE h == [handler[r] EXCEPT !.cancelled = TRUE]
    <2>1. h \in Handlers /\ h.cancelled = TRUE /\ h.state = handler[r].state
      BY <1>2 DEF Handlers
    <2>2. Cancelled(r) = [handler EXCEPT ![r] = h]
      BY <1>2 DEF Cancelled
    <2> HIDE DEF h
    <2>3. \A q \in RequestIds : Cancelled(r)[q] = IF q = r THEN h ELSE handler[q]
      BY <1>2, <2>2
    <2>4. Cancelled(r) \in [RequestIds -> Handlers]
      BY <1>2, <2>1, <2>2
    <2> QED
      BY <1>2, <2>1, <2>3, <2>4
  <1> QED
    BY <1>1, <1>2

\* handleSubmit of a line: the request before is cancelled, and the channel learns the new
\* generation before the handler starts.
LEMMA MakeRequestKeeps ==
  ASSUME TuiInv, MakeRequest, UNCHANGED <<outbox, tuiLeft>>
  PROVE  TuiInv'
  <1> DEFINE r == Newest + 1
  <1>1. /\ TuiTypeOK /\ ScreenInv /\ RequestsInOrder /\ GenerationsFit /\ OutboxFits /\ Newest \in Nat /\ Made = 1 .. Newest
        /\ Newest < tuiLeft.requests
    BY DEF TuiInv, RequestsInv, RequestsInOrder, MakeRequest
  <1>2. PICK b \in TuiBounds : tuiLeft.requests = b.requests
    BY <1>1 DEF TuiTypeOK
  <1>3. r \in RequestIds /\ r \in Nat /\ r > 0 /\ r \notin Made
    BY <1>1, <1>2, RequestNumbers
  <1>4. cancelFn \in RequestIds \cup {0}
    BY <1>1, <1>3, RequestNumbers DEF RequestsInOrder, Made
  <1> DEFINE h == Cancelled(cancelFn)
  <1>5. /\ handler' = [h EXCEPT ![r] = [state |-> "running", cancelled |-> FALSE]]
        /\ cancelFn' = r /\ screen' = Add(screen, Wrote("user")) /\ gen' = gen + 1 /\ tagGen' = gen + 1
        /\ ui' = [ui EXCEPT !.waiting = TRUE, !.vim = TRUE, !.enabled = FALSE]
        /\ stream' = [stream EXCEPT !.on = FALSE] /\ tuiSeen' = Cut(tuiSeen) /\ ticks' = ticks
    BY DEF MakeRequest, OnGenBump
  <1>6. h \in [RequestIds -> Handlers] /\ \A q \in RequestIds : h[q].state = handler[q].state
    BY <1>1, <1>4, CancelledIs DEF TuiTypeOK
  <1>7. \A q \in Made : h[q].cancelled
    <2>1. \A q \in RequestIds : h[q].cancelled <=> handler[q].cancelled \/ (cancelFn # 0 /\ q = cancelFn)
      BY <1>1, <1>4, CancelledIs DEF TuiTypeOK
    <2> HIDE DEF h
    <2> QED
      BY <1>1, <2>1 DEF RequestsInOrder, Made
  <1> HIDE DEF h
  <1>8. /\ handler' \in [RequestIds -> Handlers] /\ handler'[r] = [state |-> "running", cancelled |-> FALSE]
        /\ \A q \in RequestIds \ {r} : handler'[q] = h[q]
    BY <1>3, <1>5, <1>6 DEF Handlers
  <1>9. ui' \in UiStates /\ ui'.waiting /\ ui'.quitting = ui.quitting
    BY <1>1, <1>5 DEF TuiTypeOK, UiStates
  <1>10. TuiTypeOK'
    <2>1. stream' \in Streams /\ screen' \in Seq(Written)
      BY <1>1, <1>5, UiTypes
    <2>2. tuiSeen' \in Histories
      BY <1>1, <1>5, UiTypes
    <2>3. gen' \in Nat /\ tagGen' \in Nat /\ cancelFn' \in Nat /\ ticks' \in Nat
      BY <1>1, <1>3, <1>5 DEF TuiTypeOK
    <2> QED
      BY <1>1, <1>8, <1>9, <2>1, <2>2, <2>3 DEF TuiTypeOK
  <1>11. ScreenInv'
    BY <1>1, <1>5, <1>10, WriteKeeps DEF TuiTypeOK
  <1>12. Made' = Made \cup {r}
    BY <1>3, <1>6, <1>8 DEF Made
  <1>13. Made' = 1 .. r /\ Newest' = r
    <2>1. Made' = 1 .. r
      BY <1>1, <1>12
    <2> QED
      BY <1>3, <2>1, Counted DEF Newest
  <1>14. RequestsInOrder'
    BY <1>3, <1>5, <1>7, <1>8, <1>12, <1>13 DEF RequestsInOrder, Made
  <1>15. GenerationsFit'
    BY <1>1, <1>3, <1>5, <1>13 DEF GenerationsFit, TuiTypeOK
  <1>16. OutboxFits'
    <2>1. \A o \in outbox : o.gen \in Nat /\ (o.of > 0 => o.of \in Made /\ o.of # r)
      BY <1>1, <1>3 DEF OutboxFits, Made, TuiTypeOK
    <2>2. \A o \in outbox : o.gen <= tagGen'
      BY <1>1, <1>5, <2>1 DEF OutboxFits, GenerationsFit, TuiTypeOK
    <2>3. \A o \in outbox : o.of > 0 => handler'[o.of].state = "sending" /\ handler'[o.of].cancelled
      BY <1>1, <1>6, <1>7, <1>8, <2>1 DEF OutboxFits, Made
    <2>4. tuiSeen'.late \subseteq Made'
      BY <1>1, <1>5, <1>12, UiTypes DEF OutboxFits
    <2> QED
      BY <1>1, <2>2, <2>3, <2>4 DEF OutboxFits
  <1>17. WaitingHasAReason'
    BY <1>5, <1>8, <1>13 DEF WaitingHasAReason
  <1>18. AnswersFindTheirRequest'
    <2>1. tuiSeen'.late = tuiSeen.late
      BY <1>1, <1>5, UiTypes
    <2>2. Newest' \notin tuiSeen'.late
      BY <1>1, <1>3, <1>13, <2>1 DEF OutboxFits
    <2>3. \A q \in Made' : handler'[q] # [state |-> "over", cancelled |-> FALSE]
      BY <1>7, <1>8, <1>12 DEF Made
    <2> QED
      BY <2>2, <2>3 DEF AnswersFindTheirRequest
  <1>19. StreamIsAwaited' /\ AnswersAreWaitedFor'
    BY <1>1, <1>5, <1>9 DEF StreamIsAwaited, AnswersAreWaitedFor, TuiTypeOK, Streams
  <1> QED
    BY <1>10, <1>11, <1>14, <1>15, <1>16, <1>17, <1>18, <1>19 DEF TuiInv, RequestsInv

\* cancelRequest: the generation goes on, and what still comes is of an older one.
LEMMA CancelKeeps ==
  ASSUME TuiInv, cancelRequest, ui.waiting, UNCHANGED outbox,
         tuiLeft' \in [requests : Nat, keys : Nat, tools : Nat], tuiLeft'.requests = tuiLeft.requests
  PROVE  TuiInv'
  <1>1. /\ TuiTypeOK /\ ScreenInv /\ RequestsInOrder /\ GenerationsFit /\ OutboxFits /\ AnswersFindTheirRequest
        /\ Newest \in Nat /\ Made = 1 .. Newest
    BY DEF TuiInv, RequestsInv, RequestsInOrder
  <1>2. cancelFn \in RequestIds /\ cancelFn = Newest /\ Newest > 0
    BY <1>1 DEF RequestsInOrder, Made
  <1>3. /\ handler' = Cancelled(cancelFn) /\ cancelFn' = 0 /\ gen' = gen + 1 /\ ui' = Ready(ui)
        /\ stream' = [stream EXCEPT !.on = FALSE] /\ screen' = Add(screen, Wrote("system")) /\ tuiSeen' = Cut(tuiSeen)
        /\ UNCHANGED <<tagGen, ticks>>
    BY DEF cancelRequest
  <1>4. handler' \in [RequestIds -> Handlers] /\ \A q \in RequestIds : handler'[q].state = handler[q].state
    BY <1>1, <1>2, <1>3, CancelledIs DEF TuiTypeOK
  <1>5. \A q \in Made : handler'[q].cancelled
    <2>1. \A q \in RequestIds : handler'[q].cancelled <=> handler[q].cancelled \/ (cancelFn # 0 /\ q = cancelFn)
      BY <1>1, <1>2, <1>3, CancelledIs DEF TuiTypeOK
    <2> QED
      BY <1>1, <2>1 DEF RequestsInOrder, Made
  <1>6. TuiTypeOK'
    <2>1. ui' \in UiStates /\ stream' \in Streams /\ screen' \in Seq(Written)
      BY <1>1, <1>3, UiTypes
    <2>2. tuiSeen' \in Histories
      BY <1>1, <1>3, UiTypes
    <2>3. gen' \in Nat /\ cancelFn' \in Nat
      BY <1>1, <1>3 DEF TuiTypeOK
    <2> QED
      BY <1>1, <1>3, <1>4, <2>1, <2>2, <2>3 DEF TuiTypeOK
  <1>7. ScreenInv'
    BY <1>1, <1>3, <1>6, WriteKeeps DEF TuiTypeOK
  <1>8. Made' = Made /\ Newest' = Newest
    BY <1>4 DEF Made, Newest
  <1>9. ~ui'.waiting
    BY <1>1, <1>3, UiTypes
  <1>10. RequestsInOrder'
    BY <1>1, <1>3, <1>5, <1>8, <1>9 DEF RequestsInOrder
  <1>11. GenerationsFit'
    BY <1>1, <1>2, <1>3, <1>8 DEF GenerationsFit, TuiTypeOK
  <1>12. OutboxFits'
    <2>1. \A o \in outbox : o.of > 0 => o.of \in Made
      BY <1>1 DEF OutboxFits, Made, TuiTypeOK
    <2>2. \A o \in outbox : o.of > 0 => handler'[o.of].state = "sending" /\ handler'[o.of].cancelled
      BY <1>1, <1>4, <1>5, <2>1 DEF OutboxFits, Made
    <2>3. tuiSeen'.late \subseteq Made'
      BY <1>1, <1>3, <1>8, UiTypes DEF OutboxFits
    <2> QED
      BY <1>1, <1>3, <2>2, <2>3 DEF OutboxFits
  <1>13. WaitingHasAReason'
    BY <1>9 DEF WaitingHasAReason
  <1>14. AnswersFindTheirRequest'
    <2>1. tuiSeen'.late = tuiSeen.late
      BY <1>1, <1>3, UiTypes
    <2> QED
      BY <1>1, <1>5, <1>8, <2>1 DEF AnswersFindTheirRequest
  <1>15. StreamIsAwaited' /\ AnswersAreWaitedFor'
    BY <1>1, <1>2, <1>3, <1>5, <1>8 DEF StreamIsAwaited, AnswersAreWaitedFor, TuiTypeOK, Streams
  <1> QED
    BY <1>6, <1>7, <1>10, <1>11, <1>12, <1>13, <1>14, <1>15 DEF TuiInv, RequestsInv

\* The handler sends its answer with the generation the channel knows.
LEMMA HandlerSendsKeeps == ASSUME TuiInv, NEW r \in RequestIds, HandlerSends(r) PROVE TuiInv'
  <1>1. /\ TuiTypeOK /\ ScreenInv /\ RequestsInOrder /\ GenerationsFit /\ OutboxFits /\ AnswersFindTheirRequest /\ WaitingHasAReason
        /\ StreamIsAwaited /\ AnswersAreWaitedFor /\ handler[r].state = "running" /\ r \in Made /\ Newest \in Nat /\ Made = 1 .. Newest
        /\ UNCHANGED <<ui, gen, tagGen, stream, ticks, screen, cancelFn, tuiSeen, tuiLeft>>
    BY DEF TuiInv, RequestsInv, HandlerSends, Made, RequestsInOrder
  <1> DEFINE to == IF ui.quitting THEN "over" ELSE "sending"
             o  == [of |-> r, gen |-> tagGen]
             h  == [handler[r] EXCEPT !.state = to]
  <1>2. handler' = [handler EXCEPT ![r] = h] /\ outbox' = IF ui.quitting THEN outbox ELSE outbox \cup {o}
    BY <1>1 DEF HandlerSends, TuiTypeOK
  <1>3. h \in Handlers /\ h.state = to /\ h.cancelled = handler[r].cancelled
    BY <1>1 DEF TuiTypeOK, Handlers
  <1>4. o \in [of : Int \ {0}, gen : Nat] /\ o.of = r /\ o.gen = tagGen /\ r > 0
    BY <1>1, RequestNumbers DEF TuiTypeOK
  <1>5. to \in {"over", "sending"} /\ (ui.quitting <=> to = "over")
    OBVIOUS
  <1> HIDE DEF to, h, o
  <1>6. /\ handler' \in [RequestIds -> Handlers] /\ handler'[r] = h /\ \A q \in RequestIds \ {r} : handler'[q] = handler[q]
        /\ \A q \in RequestIds : handler'[q].cancelled = handler[q].cancelled
    BY <1>1, <1>2, <1>3 DEF TuiTypeOK
  <1>7. TuiTypeOK'
    BY <1>1, <1>2, <1>4, <1>6 DEF TuiTypeOK
  <1>8. ScreenInv'
    BY <1>1, ScreenStays
  <1>9. Made' = Made /\ Newest' = Newest
    BY <1>1, <1>3, <1>5, <1>6 DEF Made, Newest
  <1>10. RequestsInOrder'
    <2>1. cancelFn # 0 => cancelFn \in RequestIds
      BY <1>1 DEF RequestsInOrder, Made
    <2> QED
      BY <1>1, <1>6, <1>9, <2>1 DEF RequestsInOrder, Made
  <1>11. GenerationsFit'
    BY <1>1, <1>9 DEF GenerationsFit
  <1>12. ~handler[r].cancelled => r = cancelFn /\ r = Newest /\ tagGen = gen
    BY <1>1 DEF RequestsInOrder, GenerationsFit
  <1>13. \A p \in outbox : p.of # r /\ (p.of > 0 => p.of \in RequestIds)
    BY <1>1, <1>4 DEF OutboxFits, TuiTypeOK
  <1>14. OutboxFits'
    <2>1. \A p \in outbox : p.of > 0 => handler'[p.of] = handler[p.of]
      BY <1>6, <1>13
    <2>2. tagGen > 0 /\ tagGen <= tagGen
      BY <1>1 DEF GenerationsFit, TuiTypeOK
    <2>3. ~ui.quitting => handler'[o.of].state = "sending" /\ 0 < o.gen /\ o.gen <= tagGen /\ (handler'[o.of].cancelled \/ o.gen = gen)
      BY <1>3, <1>4, <1>5, <1>6, <1>12, <2>2
    <2>4. \A p, q \in outbox' : p.of > 0 /\ p.of = q.of => p = q
      BY <1>1, <1>2, <1>4, <1>13 DEF OutboxFits
    <2> QED
      BY <1>1, <1>2, <1>4, <1>9, <2>1, <2>3, <2>4 DEF OutboxFits
  <1>15. WaitingHasAReason'
    <2> SUFFICES ASSUME ui.waiting, ~ui.quitting, ~StreamGoesOn
                 PROVE  /\ ~handler'[Newest].cancelled
                        /\ \/ handler'[Newest].state = "running" /\ tagGen = gen
                           \/ [of |-> Newest, gen |-> gen] \in outbox'
      BY <1>1, <1>9 DEF WaitingHasAReason, StreamGoesOn
    <2>1. Newest \in RequestIds
      BY <1>1 DEF Made
    <2>2. /\ ~handler[Newest].cancelled
          /\ ((handler[Newest].state = "running" /\ tagGen = gen) \/ [of |-> Newest, gen |-> gen] \in outbox)
      BY <1>1 DEF WaitingHasAReason, StreamGoesOn
    <2>3. CASE r = Newest
      <3>1. o = [of |-> Newest, gen |-> gen]
        BY <1>12, <2>2, <2>3 DEF o
      <3> QED
        BY <1>2, <1>6, <2>1, <2>2, <3>1
    <2>4. CASE r # Newest
      BY <1>2, <1>6, <2>1, <2>2, <2>4
    <2> QED
      BY <2>3, <2>4
  <1>16. AnswersFindTheirRequest'
    <2>1. ASSUME NEW q \in Made, handler'[q] = [state |-> "over", cancelled |-> FALSE], ~ui.quitting
          PROVE  q \in tuiSeen.accepted
      <3>1. q # r
        BY <1>3, <1>5, <1>6, <2>1
      <3> QED
        BY <1>1, <1>6, <2>1, <3>1 DEF AnswersFindTheirRequest, Made
    <2> QED
      BY <1>1, <1>9, <2>1 DEF AnswersFindTheirRequest
  <1>17. StreamIsAwaited' /\ AnswersAreWaitedFor'
    <2>1. Newest > 0 => Newest \in RequestIds
      BY <1>1 DEF Made
    <2>2. Newest > 0 => (handler'[Newest].state = "over" <=> handler[Newest].state = "over" \/ (ui.quitting /\ Newest = r))
      BY <1>1, <1>3, <1>5, <1>6, <2>1
    <2>3. Newest > 0 => handler'[Newest].cancelled = handler[Newest].cancelled
      BY <1>6, <2>1
    <2> QED
      BY <1>1, <1>9, <2>2, <2>3 DEF StreamIsAwaited, AnswersAreWaitedFor
  <1> QED
    BY <1>7, <1>8, <1>10, <1>11, <1>14, <1>15, <1>16, <1>17 DEF TuiInv, RequestsInv

\* A text of the message tool has the generation of the moment, and no handler waits for it.
LEMMA MessageToolSendsKeeps == ASSUME TuiInv, MessageToolSends PROVE TuiInv'
  <1> DEFINE o == [of |-> -tuiLeft.tools, gen |-> tagGen]
  <1>1. /\ TuiTypeOK /\ ScreenInv /\ RequestsInv /\ tuiLeft.tools > 0 /\ outbox' = outbox \cup {o}
        /\ tuiLeft' = [tuiLeft EXCEPT !.tools = @ - 1]
        /\ UNCHANGED <<ui, gen, tagGen, stream, ticks, screen, handler, cancelFn, tuiSeen>>
    BY DEF TuiInv, MessageToolSends
  <1>2. /\ tuiLeft.tools \in Nat /\ tagGen \in Nat
        /\ tuiLeft' \in [requests : Nat, keys : Nat, tools : Nat] /\ tuiLeft'.requests = tuiLeft.requests
    BY <1>1 DEF TuiTypeOK
  <1>3. o \in [of : Int \ {0}, gen : Nat] /\ o.gen = tagGen /\ ~(o.of > 0)
    BY <1>1, <1>2
  <1> HIDE DEF o
  <1>4. TuiTypeOK'
    BY <1>1, <1>2, <1>3 DEF TuiTypeOK
  <1>5. ScreenInv'
    BY <1>1, ScreenStays
  <1>6. Made' = Made /\ Newest' = Newest
    BY <1>1 DEF Made, Newest
  <1>7. RequestsInOrder' /\ GenerationsFit' /\ StreamIsAwaited' /\ AnswersAreWaitedFor' /\ AnswersFindTheirRequest'
    BY <1>1, <1>6
    DEF RequestsInv, RequestsInOrder, GenerationsFit, StreamIsAwaited, AnswersAreWaitedFor, AnswersFindTheirRequest
  <1>8. OutboxFits'
    <2>1. o.gen <= tagGen
      BY <1>2, <1>3
    <2>2. \A p, q \in outbox' : p.of > 0 /\ p.of = q.of => p = q
      BY <1>1, <1>3 DEF RequestsInv, OutboxFits
    <2> QED
      BY <1>1, <1>3, <1>6, <2>1, <2>2 DEF RequestsInv, OutboxFits
  <1>9. WaitingHasAReason'
    BY <1>1, <1>6 DEF RequestsInv, WaitingHasAReason
  <1> QED
    BY <1>4, <1>5, <1>7, <1>8, <1>9 DEF TuiInv, RequestsInv

\* What arrives is accepted or discarded: an answer that is accepted is that of the newest
\* request or of one it cancelled, and another text that is accepted is taken for its answer.
LEMMA handleOutboundKeeps == ASSUME TuiInv, NEW o \in outbox, handleOutbound(o) PROVE TuiInv'
  <1>1. /\ TuiTypeOK /\ ScreenInv /\ RequestsInOrder /\ GenerationsFit /\ OutboxFits /\ AnswersFindTheirRequest /\ WaitingHasAReason
        /\ AnswersAreWaitedFor /\ StreamIsAwaited
        /\ Newest \in Nat /\ Made = 1 .. Newest /\ o \in [of : Int \ {0}, gen : Nat] /\ o.of \in Int /\ o.of # 0 /\ o.gen \in Nat
        /\ UNCHANGED <<gen, tagGen, cancelFn, tuiLeft>> /\ ~ui.quitting /\ outbox' = outbox \ {o}
    BY DEF TuiInv, RequestsInv, RequestsInOrder, handleOutbound, TuiTypeOK
  <1>2. o.of > 0 => /\ o.of \in Made /\ handler[o.of].state = "sending" /\ 0 < o.gen /\ o.gen <= tagGen
                    /\ (handler[o.of].cancelled \/ o.gen = gen)
    BY <1>1 DEF OutboxFits, Made
  <1>3. /\ handler' \in [RequestIds -> Handlers]
        /\ \A q \in RequestIds : /\ handler'[q].state = IF q = o.of THEN "over" ELSE handler[q].state
                                 /\ handler'[q].cancelled = handler[q].cancelled
    <2>1. CASE o.of > 0
      <3> DEFINE h == [handler[o.of] EXCEPT !.state = "over"]
      <3>1. handler' = [handler EXCEPT ![o.of] = h]
        BY <2>1 DEF handleOutbound
      <3>2. handler \in [RequestIds -> Handlers] /\ o.of \in RequestIds
        BY <1>1, <1>2, <2>1 DEF TuiTypeOK, Made
      <3>3. h \in Handlers /\ h.state = "over" /\ h.cancelled = handler[o.of].cancelled
        BY <3>2 DEF Handlers
      <3> HIDE DEF h
      <3>4. \A q \in RequestIds : handler'[q] = IF q = o.of THEN h ELSE handler[q]
        BY <3>1, <3>2
      <3> QED
        BY <3>1, <3>2, <3>3, <3>4
    <2>2. CASE ~(o.of > 0)
      <3>1. handler' = handler /\ o.of \notin RequestIds
        BY <2>2, RequestNumbers DEF handleOutbound
      <3> QED
        BY <1>1, <3>1 DEF TuiTypeOK
    <2> QED
      BY <2>1, <2>2
  <1>4. Made' = Made /\ Newest' = Newest
    <2>1. ASSUME NEW q \in RequestIds, q = o.of PROVE handler[q].state = "sending"
      <3>1. o.of > 0
        BY <2>1, RequestNumbers
      <3>2. handler[o.of].state = "sending"
        BY <1>2, <3>1
      <3> QED
        BY <2>1, <3>2
    <2>2. Made' = Made
      BY <1>3, <2>1 DEF Made
    <2> QED
      BY <2>2 DEF Newest
  <1>5. GenerationsFit'
    BY <1>1, <1>4 DEF GenerationsFit
  <1>6. \A p \in outbox' : p \in outbox /\ (p.of > 0 => p.of \in RequestIds /\ p.of # o.of)
    BY <1>1 DEF OutboxFits, TuiTypeOK
  <1>7. Newest > 0 => Newest \in RequestIds
    BY <1>1 DEF Made
  <1>8. CASE Accepts(o)
    <2> DEFINE whole == ui.speed = "instant"
               pos   == IF whole THEN AnswerSize ELSE 0
               late  == IF o.of > 0 /\ handler[o.of].cancelled THEN {o.of} ELSE {}
    <2>1. /\ screen' = UpdateLast(Add(screen, Wrote("assistant")), o.of, pos)
          /\ ui' = IF whole THEN Ready(ui) ELSE ui
          /\ stream' = IF whole THEN [stream EXCEPT !.on = FALSE] ELSE [on |-> TRUE, of |-> o.of, pos |-> 0]
          /\ ticks' = IF whole THEN ticks ELSE ticks + 1
          /\ tuiSeen' = [Cut(tuiSeen) EXCEPT !.accepted = @ \cup {o.of},
                                             !.late = IF o.of > 0 /\ handler[o.of].cancelled THEN @ \cup {o.of} ELSE @,
                                             !.mistaken = IF o.of # Newest THEN @ \cup {Newest} ELSE @]
      BY <1>8 DEF handleOutbound
    <2> HIDE DEF pos
    <2>2. pos \in Nat
      BY TuiConstants DEF pos
    <2>3. screen' \in Seq(Written)
      BY <1>1, <2>1, <2>2, AnsweredIs DEF TuiTypeOK
    <2>4. stream' \in Streams /\ (~whole => stream'.on /\ ticks' > 0) /\ (whole => ~stream'.on) /\ ticks' \in Nat
      <3>1. ticks \in Nat /\ [stream EXCEPT !.on = FALSE] \in Streams /\ ~[stream EXCEPT !.on = FALSE].on
        BY <1>1, UiTypes DEF TuiTypeOK, Streams
      <3>2. [on |-> TRUE, of |-> o.of, pos |-> 0] \in Streams
        BY <1>1 DEF Streams
      <3> HIDE DEF whole
      <3>3. CASE whole
        BY <2>1, <3>1, <3>3
      <3>4. CASE ~whole
        BY <2>1, <3>1, <3>2, <3>4
      <3> QED
        BY <3>3, <3>4
    <2>5. /\ ui' \in UiStates /\ ui'.quitting = ui.quitting /\ (whole => ~ui'.waiting) /\ (ui'.waiting => ui.waiting)
          /\ (~whole => ui' = ui)
      BY <1>1, <2>1, UiTypes DEF TuiTypeOK
    <2>6. /\ tuiSeen' \in Histories /\ tuiSeen'.cut = Cut(tuiSeen).cut
          /\ tuiSeen'.accepted = tuiSeen.accepted \cup {o.of}
          /\ tuiSeen'.late = tuiSeen.late \cup late
          /\ (o.of # Newest => Newest \in tuiSeen'.mistaken)
      <3>1. PICK seen : seen = Cut(tuiSeen)
        OBVIOUS
      <3>2. seen \in Histories /\ seen.late = tuiSeen.late /\ seen.accepted = tuiSeen.accepted
        BY <1>1, <3>1, UiTypes
      <3> QED
        BY <1>1, <2>1, <3>1, <3>2 DEF Histories
    <2>7. TuiTypeOK'
      BY <1>1, <1>3, <2>3, <2>4, <2>5, <2>6 DEF TuiTypeOK
    <2>8. ScreenInv'
      <3>1. whole \in BOOLEAN
        OBVIOUS
      <3>2. screen' = UpdateLast(Add(screen, Wrote("assistant")), o.of, IF whole THEN AnswerSize ELSE 0)
        BY <2>1 DEF pos
      <3> HIDE DEF whole
      <3> QED
        BY <1>1, <2>1, <2>6, <2>7, <3>1, <3>2, AcceptKeeps
    <2>9. RequestsInOrder'
      <3>1. cancelFn # 0 => cancelFn \in RequestIds
        BY <1>1 DEF RequestsInOrder, Made
      <3> QED
        BY <1>1, <1>3, <1>4, <2>5, <3>1 DEF RequestsInOrder, Made
    <2>10. o.of > 0 => o.of \in Made /\ (handler[o.of].cancelled => o.of # Newest)
      <3> SUFFICES ASSUME o.of > 0 PROVE o.of \in Made /\ (handler[o.of].cancelled => o.of # Newest)
        OBVIOUS
      <3>1. o.gen = gen /\ o.of \in Made
        BY <1>1, <1>2, <1>8 DEF Accepts
      <3>2. cancelFn # 0
        BY <1>1, <1>2, <3>1 DEF GenerationsFit, TuiTypeOK
      <3> QED
        BY <1>1, <3>1, <3>2 DEF RequestsInOrder
    <2>11. OutboxFits'
      <3>1. tuiSeen'.late \subseteq Made'
        BY <1>1, <1>4, <2>6, <2>10 DEF OutboxFits
      <3> QED
        BY <1>1, <1>3, <1>6, <3>1 DEF OutboxFits
    <2>12. WaitingHasAReason'
      <3>1. ~whole => ChunkOf[ui.speed] > 0
        BY <1>1, TuiConstants DEF TuiTypeOK, UiStates
      <3>2. ui'.waiting => ~whole
        BY <2>5
      <3>3. ui'.waiting => stream'.on /\ ticks' > 0 /\ ChunkOf[ui'.speed] > 0
        BY <2>4, <2>5, <3>1, <3>2
      <3> QED
        BY <3>3 DEF WaitingHasAReason
    <2>13. Newest > 0 => handler'[Newest].state = "over" \/ Newest \in tuiSeen'.mistaken
      BY <1>3, <1>7, <2>6
    <2>14. StreamIsAwaited' /\ AnswersAreWaitedFor'
      BY <1>4, <2>13 DEF StreamIsAwaited, AnswersAreWaitedFor
    <2>15. AnswersFindTheirRequest'
      <3>1. Newest \notin tuiSeen'.late
        BY <1>1, <2>6, <2>10 DEF AnswersFindTheirRequest
      <3>2. ASSUME NEW q \in Made, handler'[q] = [state |-> "over", cancelled |-> FALSE]
            PROVE  q \in tuiSeen'.accepted
        <4>1. CASE q = o.of
          BY <2>6, <4>1
        <4>2. CASE q # o.of
          <5>1. q \in RequestIds /\ handler'[q].state = "over" /\ handler'[q].cancelled = FALSE
            BY <3>2 DEF Made
          <5>2. handler[q].state = "over" /\ handler[q].cancelled = FALSE /\ handler[q] \in Handlers
            BY <1>1, <1>3, <4>2, <5>1 DEF TuiTypeOK
          <5>3. handler[q] = [state |-> "over", cancelled |-> FALSE]
            BY <5>2 DEF Handlers
          <5> QED
            BY <1>1, <2>6, <5>3 DEF AnswersFindTheirRequest
        <4> QED
          BY <4>1, <4>2
      <3> QED
        BY <1>4, <3>1, <3>2 DEF AnswersFindTheirRequest
    <2> QED
      BY <1>5, <2>7, <2>8, <2>9, <2>11, <2>12, <2>14, <2>15 DEF TuiInv, RequestsInv
  <1>9. CASE ~Accepts(o)
    <2>1. UNCHANGED <<screen, ui, stream, ticks, tuiSeen>>
      BY <1>9 DEF handleOutbound
    <2>2. o.of > 0 => handler[o.of].cancelled
      BY <1>2, <1>9 DEF Accepts
    <2>3. TuiTypeOK'
      BY <1>1, <1>3, <2>1 DEF TuiTypeOK
    <2>4. ScreenInv'
      BY <1>1, <2>1, ScreenStays
    <2>5. RequestsInOrder'
      <3>1. cancelFn # 0 => cancelFn \in RequestIds
        BY <1>1 DEF RequestsInOrder, Made
      <3> QED
        BY <1>1, <1>3, <1>4, <2>1, <3>1 DEF RequestsInOrder, Made
    <2>6. OutboxFits'
      BY <1>1, <1>3, <1>4, <1>6, <2>1 DEF OutboxFits
    <2>7. WaitingHasAReason'
      <3> SUFFICES ASSUME ui.waiting, ~StreamGoesOn
                   PROVE  /\ ~handler'[Newest].cancelled
                          /\ \/ handler'[Newest].state = "running" /\ tagGen = gen
                             \/ [of |-> Newest, gen |-> gen] \in outbox'
        BY <1>1, <1>4, <2>1 DEF WaitingHasAReason, StreamGoesOn
      <3>1. /\ ~handler[Newest].cancelled
            /\ ((handler[Newest].state = "running" /\ tagGen = gen) \/ [of |-> Newest, gen |-> gen] \in outbox)
        BY <1>1 DEF WaitingHasAReason, StreamGoesOn
      <3>2. Newest > 0 /\ Newest \in RequestIds
        BY <1>1, <1>7 DEF RequestsInOrder
      <3>3. Newest # o.of
        BY <2>2, <3>1, <3>2
      <3>4. [of |-> Newest, gen |-> gen] # o
        BY <3>3
      <3> QED
        BY <1>1, <1>3, <3>1, <3>2, <3>3, <3>4
    <2>8. StreamIsAwaited' /\ AnswersAreWaitedFor'
      BY <1>1, <1>3, <1>4, <1>7, <2>1, <2>2 DEF StreamIsAwaited, AnswersAreWaitedFor
    <2>9. AnswersFindTheirRequest'
      <3>1. ASSUME NEW q \in Made, handler'[q] = [state |-> "over", cancelled |-> FALSE]
            PROVE  q \in tuiSeen.accepted
        <4>1. q \in RequestIds /\ q > 0 /\ handler'[q].state = "over" /\ handler'[q].cancelled = FALSE
          BY <1>1, <3>1 DEF Made
        <4>2. handler[q].cancelled = FALSE /\ q # o.of
          BY <1>3, <2>2, <4>1
        <4>3. handler[q].state = "over" /\ handler[q] \in Handlers
          BY <1>1, <1>3, <4>1, <4>2 DEF TuiTypeOK
        <4>4. handler[q] = [state |-> "over", cancelled |-> FALSE]
          BY <4>2, <4>3 DEF Handlers
        <4> QED
          BY <1>1, <4>4 DEF AnswersFindTheirRequest
      <3> QED
        BY <1>1, <1>4, <2>1, <3>1 DEF AnswersFindTheirRequest
    <2> QED
      BY <1>5, <2>3, <2>4, <2>5, <2>6, <2>7, <2>8, <2>9 DEF TuiInv, RequestsInv
  <1> QED
    BY <1>8, <1>9

\* A tick arrives, with or without a stream.
LEMMA StreamTickKeeps == ASSUME TuiInv, handleStreamTick PROVE TuiInv'
  <1>1. /\ TuiTypeOK /\ ScreenInv /\ RequestsInv /\ ~ui.quitting /\ ticks > 0
        /\ UNCHANGED <<gen, tagGen, handler, cancelFn, outbox, tuiSeen, tuiLeft>>
    BY DEF TuiInv, handleStreamTick
  <1>2. CASE ~stream.on
    <2>1. UNCHANGED <<screen, ui, stream>> /\ ticks' = ticks - 1
      BY <1>2 DEF handleStreamTick
    <2>2. TuiTypeOK'
      BY <1>1, <2>1 DEF TuiTypeOK
    <2>3. ScreenInv'
      BY <1>1, <2>1, ScreenStays
    <2>4. RequestsInv'
      BY <1>1, <1>2, <2>1, RequestsStay DEF StreamGoesOn
    <2> QED
      BY <2>2, <2>3, <2>4 DEF TuiInv
  <1>3. CASE stream.on
    <2> DEFINE to == stream.pos + ChunkOf[ui.speed]
               end == IF to >= AnswerSize THEN AnswerSize ELSE to
    <2>1. /\ screen' = UpdateLast(screen, stream.of, end)
          /\ stream' = [stream EXCEPT !.pos = end, !.on = end < AnswerSize]
          /\ ui' = IF end >= AnswerSize THEN Ready(ui) ELSE ui
          /\ ticks' = IF end >= AnswerSize THEN ticks - 1 ELSE ticks
      BY <1>3 DEF handleStreamTick
    <2>2. /\ stream \in Streams /\ stream.of \in Int /\ stream.pos \in Nat /\ ui \in UiStates /\ ticks \in Nat
          /\ screen \in Seq(Written) /\ AnswerSize \in Nat /\ ui.speed \in DOMAIN ChunkOf
      BY <1>1, TuiConstants DEF TuiTypeOK, Streams, UiStates
    <2>3. ChunkOf[ui.speed] \in Nat
      BY <2>2, TuiConstants
    <2>4. end \in Nat /\ end <= AnswerSize
      BY <2>2, <2>3
    <2> HIDE DEF end
    <2>5. screen' \in Seq(Written)
      <3>1. CASE screen = <<>>
        BY <2>1, <2>2, <3>1 DEF UpdateLast
      <3>2. CASE screen # <<>>
        BY <2>1, <2>2, <2>4, <3>2, UpdateLastIs
      <3> QED
        BY <3>1, <3>2
    <2>6. stream' = [on |-> end < AnswerSize, of |-> stream.of, pos |-> end] /\ stream' \in Streams
      <3>1. (end < AnswerSize) \in BOOLEAN
        OBVIOUS
      <3>2. stream = [on |-> stream.on, of |-> stream.of, pos |-> stream.pos]
        BY <2>2 DEF Streams
      <3> DEFINE on == end < AnswerSize
      <3>3. stream' = [stream EXCEPT !.pos = end, !.on = on]
        BY <2>1
      <3> HIDE DEF on
      <3>4. stream' = [on |-> on, of |-> stream.of, pos |-> end]
        BY <3>2, <3>3
      <3>5. stream'.of \in Int /\ on \in BOOLEAN
        BY <2>2, <3>1, <3>4 DEF on
      <3> QED
        BY <2>2, <2>4, <3>4, <3>5 DEF on, Streams
    <2>7. ui' \in UiStates /\ ui'.quitting = ui.quitting /\ (ui'.waiting => ui.waiting) /\ (ui'.waiting => end < AnswerSize) /\ ticks' \in Nat
      BY <1>1, <2>1, <2>2, <2>4, UiTypes
    <2>8. TuiTypeOK'
      BY <1>1, <2>5, <2>6, <2>7 DEF TuiTypeOK
    <2>9. ScreenInv'
      BY <1>1, <1>3, <2>1, <2>4, <2>8, TickKeeps
    <2>10. RequestsInv'
      <3>1. ui'.waiting => stream'.on /\ ticks' = ticks /\ ui'.speed = ui.speed
        <4>1. end < AnswerSize => ~(end >= AnswerSize)
          BY <2>2, <2>4
        <4>2. stream'.on = (end < AnswerSize)
          BY <2>6
        <4> QED
          BY <2>1, <2>7, <4>1, <4>2
      <3>2. stream'.of = stream.of
        BY <2>6
      <3> QED
        BY <1>1, <1>3, <2>7, <3>1, <3>2, RequestsStay DEF StreamGoesOn
    <2> QED
      BY <2>8, <2>9, <2>10 DEF TuiInv
  <1> QED
    BY <1>2, <1>3

\* /clear empties the screen.
LEMMA ClearKeeps == ASSUME TuiInv, Clear, UNCHANGED outbox, tuiLeft' \in [requests : Nat, keys : Nat, tools : Nat], tuiLeft'.requests = tuiLeft.requests PROVE TuiInv'
  <1>1. /\ TuiTypeOK /\ ScreenInv /\ RequestsInv /\ screen' = Add(<<>>, Wrote("system")) /\ tuiSeen' = Cut(tuiSeen)
        /\ UNCHANGED <<ui, gen, tagGen, stream, ticks, handler, cancelFn>>
    BY DEF TuiInv, Clear
  <1>2. screen' \in Seq(Written) /\ tuiSeen' \in Histories
    BY <1>1, UiTypes
  <1>3. TuiTypeOK'
    BY <1>1, <1>2 DEF TuiTypeOK
  <1>4. ScreenInv'
    <2> DEFINE s == <<>>
    <2>1. s \in Seq(Written) /\ \A i \in DOMAIN s : \E j \in DOMAIN screen : s[i] = screen[j]
      BY EmptySeq
    <2>2. screen' = Add(s, Wrote("system"))
      BY <1>1
    <2> HIDE DEF s
    <2> QED
      BY <1>1, <1>3, <2>1, <2>2, WriteKeeps
  <1>5. RequestsInv'
    BY <1>1, UiTypes, RequestsStay DEF StreamGoesOn
  <1> QED
    BY <1>3, <1>4, <1>5 DEF TuiInv

\* A command answers with a message.
LEMMA RepliedKeeps ==
  ASSUME TuiInv, Replied(ui), UNCHANGED <<outbox, tuiLeft>>
  PROVE  TuiInv'
  <1>1. /\ TuiTypeOK /\ ScreenInv /\ RequestsInv /\ screen' = Add(screen, Wrote("system")) /\ tuiSeen' = Cut(tuiSeen) /\ ui' = ui
        /\ UNCHANGED <<gen, tagGen, stream, ticks, handler, cancelFn>>
    BY DEF TuiInv, Replied
  <1>2. screen' \in Seq(Written) /\ tuiSeen' \in Histories
    BY <1>1, UiTypes
  <1>3. TuiTypeOK'
    BY <1>1, <1>2 DEF TuiTypeOK
  <1>4. ScreenInv'
    BY <1>1, <1>3, WriteKeeps DEF TuiTypeOK
  <1>5. RequestsInv'
    BY <1>1, UiTypes, RequestsStay DEF StreamGoesOn
  <1> QED
    BY <1>3, <1>4, <1>5 DEF TuiInv

\* Only flags of the chat change, and neither that it waits nor back from quitting.
LEMMA FlagsKeep ==
  ASSUME TuiInv, ui' \in UiStates, ui'.waiting = ui.waiting, ui'.speed = ui.speed, ui.quitting => ui'.quitting,
         UNCHANGED <<gen, tagGen, stream, ticks, screen, handler, cancelFn, outbox, tuiSeen>>, tuiLeft' \in [requests : Nat, keys : Nat, tools : Nat], tuiLeft'.requests = tuiLeft.requests
  PROVE  TuiInv'
  <1>1. TuiTypeOK /\ ScreenInv /\ RequestsInv
    BY DEF TuiInv
  <1>2. TuiTypeOK'
    BY <1>1 DEF TuiTypeOK
  <1>3. ScreenInv'
    BY <1>1, ScreenStays
  <1>4. RequestsInv'
    BY <1>1, RequestsStay DEF StreamGoesOn
  <1> QED
    BY <1>2, <1>3, <1>4 DEF TuiInv

\* Keys and tools leave the bound on requests alone.
LEMMA LeftForRequests ==
  ASSUME tuiLeft \in [requests : Nat, keys : Nat, tools : Nat],
         \/ Pressed
         \/ tuiLeft' = tuiLeft
         \/ tuiLeft.tools > 0 /\ tuiLeft' = [tuiLeft EXCEPT !.tools = tuiLeft.tools - 1]
  PROVE  tuiLeft' \in [requests : Nat, keys : Nat, tools : Nat] /\ tuiLeft'.requests = tuiLeft.requests
  BY DEF Pressed

\* The flags after quitting.
LEMMA QuitIs == ASSUME ui \in UiStates, Quit PROVE ui' \in UiStates /\ ui'.waiting = ui.waiting /\ ui'.speed = ui.speed /\ ui'.quitting
  BY DEF Quit, UiStates

\* /speed, also while an answer is being streamed: then it goes on, or is noted as stalled.
LEMMA SpeedChangesKeeps == ASSUME TuiInv, SpeedChanges, UNCHANGED <<outbox, tuiLeft>> PROVE TuiInv'
  <1> DEFINE speed == CycleStreamSpeed(ui.speed)
             seen  == Cut(tuiSeen)
  <1>1. /\ TuiTypeOK /\ ScreenInv /\ RequestsInv /\ screen' = Add(screen, Wrote("system")) /\ ui' = [ui EXCEPT !.speed = speed]
        /\ tuiSeen' = (IF stream.on /\ speed = "instant" THEN [seen EXCEPT !.stalled = @ \cup {stream.of}] ELSE seen)
        /\ UNCHANGED <<gen, tagGen, stream, ticks, handler, cancelFn>>
    BY DEF TuiInv, SpeedChanges
  <1>2. speed \in {"normal", "fast", "instant"}
    BY <1>1 DEF CycleStreamSpeed, TuiTypeOK, UiStates
  <1>3. seen \in Histories /\ seen.late = tuiSeen.late /\ seen.accepted = tuiSeen.accepted /\ seen.mistaken = tuiSeen.mistaken
    BY <1>1, UiTypes
  <1>4. stream.of \in Int
    BY <1>1 DEF TuiTypeOK, Streams
  <1> HIDE DEF speed, seen
  <1>5. ui' \in UiStates /\ ui'.waiting = ui.waiting /\ ui'.quitting = ui.quitting /\ ui'.speed = speed
    BY <1>1, <1>2 DEF TuiTypeOK, UiStates
  <1>6. /\ tuiSeen' \in Histories /\ tuiSeen'.cut = seen.cut
        /\ tuiSeen'.late = tuiSeen.late /\ tuiSeen'.accepted = tuiSeen.accepted /\ tuiSeen'.mistaken = tuiSeen.mistaken
    BY <1>1, <1>3, <1>4 DEF Histories
  <1>7. stream.on /\ speed = "instant" => stream.of \in tuiSeen'.stalled
    BY <1>1, <1>3 DEF Histories
  <1>8. TuiTypeOK'
    BY <1>1, <1>5, <1>6, UiTypes DEF TuiTypeOK
  <1>9. ScreenInv'
    <2>1. \A i \in DOMAIN screen : \E j \in DOMAIN screen : screen[i] = screen[j]
      OBVIOUS
    <2> QED
      BY <1>1, <1>6, <1>8, <2>1, WriteKeeps DEF TuiTypeOK, seen
  <1>10. StreamGoesOn => StreamGoesOn'
    <2>1. speed # "instant" => ChunkOf[speed] > 0
      BY <1>2, TuiConstants
    <2> QED
      BY <1>1, <1>5, <1>7, <2>1 DEF StreamGoesOn
  <1>11. RequestsInv'
    BY <1>1, <1>5, <1>6, <1>10, RequestsStay
  <1> QED
    BY <1>8, <1>9, <1>11 DEF TuiInv

\* The flags after a key that moves between the parts of the screen.
LEMMA FocusIs == ASSUME ui \in UiStates, FocusMoves PROVE ui' \in UiStates /\ ui'.waiting = ui.waiting /\ ui'.speed = ui.speed /\ ui'.quitting = ui.quitting
  BY DEF FocusMoves, UiStates

\* Every line that can be entered.
LEMMA handleSubmitKeeps == ASSUME TuiInv, NEW line \in Lines, handleSubmit(line) PROVE TuiInv'
  <1>1. UNCHANGED <<outbox, tuiLeft>> /\ ui \in UiStates /\ tuiLeft \in [requests : Nat, keys : Nat, tools : Nat]
    BY DEF handleSubmit, TuiInv, TuiTypeOK
  <1>2. CASE MakeRequest
    BY <1>1, <1>2, MakeRequestKeeps
  <1>3. CASE Replied(ui)
    BY <1>1, <1>3, RepliedKeeps
  <1>4. CASE SpeedChanges
    BY <1>1, <1>4, SpeedChangesKeeps
  <1>5. CASE Clear
    BY <1>1, <1>5, ClearKeeps
  <1>6. CASE ui.waiting /\ cancelRequest
    BY <1>1, <1>6, CancelKeeps
  <1>7. CASE Quit /\ UNCHANGED <<gen, tagGen, stream, ticks, screen, handler, cancelFn, tool, tuiSeen>>
    BY <1>1, <1>7, QuitIs, FlagsKeep
  <1> QED
    BY <1>2, <1>3, <1>4, <1>5, <1>6, <1>7 DEF handleSubmit

\* The chat at its start.
LEMMA TuiInitGood == TuiInit => TuiInv
  <1> SUFFICES ASSUME TuiInit PROVE TuiInv
    OBVIOUS
  <1>1. \A r \in RequestIds : handler[r] = [state |-> "none", cancelled |-> FALSE]
    BY DEF TuiInit
  <1>2. TuiTypeOK
    <2>0. tuiSeen \in Histories
      BY DEF TuiInit, Histories
    <2>1. tuiLeft \in [requests : Nat, keys : Nat, tools : Nat]
      BY TuiConstants DEF TuiInit
    <2>2. screen \in Seq(Written) /\ stream \in Streams /\ ui \in UiStates
      BY EmptySeq DEF TuiInit, UiStates, Streams
    <2>3. handler \in [RequestIds -> Handlers]
      BY DEF TuiInit, Handlers
    <2> QED
      BY <2>0, <2>1, <2>2, <2>3 DEF TuiInit, TuiTypeOK
  <1>3. Made = {} /\ Newest = 0
    <2>1. Made = {}
      BY <1>1 DEF Made
    <2> QED
      BY <2>1, FS_EmptySet DEF Newest
  <1>4. ScreenInv
    BY EmptySeq DEF TuiInit, ScreenInv, StreamIsLast, AnswersAreWhole
  <1>5. RequestsInv
    BY <1>3
    DEF TuiInit, RequestsInv, RequestsInOrder, GenerationsFit, OutboxFits, WaitingHasAReason,
        StreamIsAwaited, AnswersAreWaitedFor, AnswersFindTheirRequest
  <1> QED
    BY <1>2, <1>4, <1>5 DEF TuiInv

\* Every message of the loop keeps the invariant.
LEMMA TuiInvKept == TuiInv /\ [TuiNext]_tuiVars => TuiInv'
  <1> SUFFICES ASSUME TuiInv, [TuiNext]_tuiVars PROVE TuiInv'
    OBVIOUS
  <1>1. ui \in UiStates /\ tuiLeft \in [requests : Nat, keys : Nat, tools : Nat]
    BY DEF TuiInv, TuiTypeOK
  <1>2. CASE \E r \in RequestIds : HandlerSends(r)
    BY <1>2, HandlerSendsKeeps
  <1>3. CASE \E o \in outbox : handleOutbound(o)
    BY <1>3, handleOutboundKeeps
  <1>4. CASE handleStreamTick
    BY <1>4, StreamTickKeeps
  <1>5. CASE \E line \in Lines : EnterLine(line)
    BY <1>1, <1>5, LeftForRequests, FlagsKeep DEF EnterLine
  <1>6. CASE \E line \in Lines : handleSubmit(line)
    BY <1>6, handleSubmitKeeps
  <1>7. CASE CtrlC
    <2>1. UNCHANGED outbox /\ tuiLeft' \in [requests : Nat, keys : Nat, tools : Nat] /\ tuiLeft'.requests = tuiLeft.requests
      BY <1>1, <1>7, LeftForRequests DEF CtrlC
    <2>2. CASE ui.waiting /\ cancelRequest
      BY <2>1, <2>2, CancelKeeps
    <2>3. CASE Quit /\ UNCHANGED <<gen, tagGen, stream, ticks, screen, handler, cancelFn, tool, tuiSeen>>
      BY <1>1, <2>1, <2>3, QuitIs, FlagsKeep
    <2> QED
      BY <1>7, <2>2, <2>3 DEF CtrlC
  <1>8. CASE CtrlL
    BY <1>1, <1>8, LeftForRequests, ClearKeeps DEF CtrlL
  <1>9. CASE handleKey
    BY <1>1, <1>9, LeftForRequests, FocusIs, FlagsKeep DEF handleKey
  <1>10. CASE QuitMsg
    BY <1>1, <1>10, QuitIs, FlagsKeep DEF QuitMsg
  <1>11. CASE ToolRuns
    BY <1>1, <1>11, LeftForRequests, FlagsKeep DEF ToolRuns
  <1>12. CASE StartTool \/ CompleteTool
    BY <1>1, <1>12, FlagsKeep DEF StartTool, CompleteTool
  <1>13. CASE UNCHANGED tuiVars
    BY <1>1, <1>13, FlagsKeep DEF tuiVars
  <1>14. CASE MessageToolSends
    BY <1>14, MessageToolSendsKeeps
  <1> QED
    BY <1>2, <1>3, <1>4, <1>5, <1>6, <1>7, <1>8, <1>9, <1>10, <1>11, <1>12, <1>13, <1>14 DEF TuiNext

\* At most the newest request is not cancelled, of the answers of handlers that were not
\* cancelled only its is of the current generation, what is streamed is its answer or was
\* taken for it, and an answer that is streamed and not cut is the last message of the
\* screen (ChatModel.Update, TUIChannel.Send for handlers and the message tool).
THEOREM TuiInvariant == TuiSpec => []TuiInv
  BY TuiInitGood, TuiInvKept, PTL DEF TuiSpec

\* ChatIsTrue, for any number of requests, keys, texts of the message tool and runes: the
\* chat waits for a handler, its answer or a stream that makes progress, or hangs on one
\* that /speed brought to a standstill; it waits until the newest request has answered or
\* another text was taken for its answer; the answer of a request that was not cancelled is
\* accepted; and what is shown is whole unless it was cut.
THEOREM ChatIsTrueHolds == TuiSpec => []ChatIsTrue
  <1>1. TuiInv => ChatIsTrue
    BY DEF TuiInv, RequestsInv, ScreenInv, ChatIsTrue
  <1> QED
    BY <1>1, TuiInvariant, PTL

=============================================================================
