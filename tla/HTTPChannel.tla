---------------------------- MODULE HTTPChannel -----------------------------
(***************************************************************************)
(* The HTTP channel: internal/adapter/channel/http.go, with the handler of *)
(* cmd/agent.  Every request waits on a channel of its own, which Send     *)
(* finds by the session's name: one entry per session, whoever made it.    *)
(***************************************************************************)
EXTENDS Integers, FiniteSets

CONSTANTS HttpRequests,   \* requests
          HttpSessions,   \* the sessions they may name
          Nobody          \* no request

ASSUME HttpConstants == Nobody \notin HttpRequests \cup HttpSessions

VARIABLES pending,     \* HTTPChannel.pending: whose channel a session's answers go to
          respCh,      \* the buffer of every request's channel: whose answer is in it
          request,     \* of every request: where it is, its session, the channel Send found
          reply,       \* whose answer a request was given; itself an error of its own
          overlapped   \* the requests that met another one of their session

httpVars == <<pending, respCh, request, reply, overlapped>>

HttpInit ==
    /\ pending = [s \in HttpSessions |-> Nobody]
    /\ respCh = [r \in HttpRequests |-> Nobody]
    /\ request = [r \in HttpRequests |-> [pc |-> "new", session |-> Nobody, ch |-> Nobody]]
    /\ reply = [r \in HttpRequests |-> Nobody]
    /\ overlapped = {}

IsAt(r, pc)     == request[r].pc = pc
HttpGo(r, pc) == request' = [request EXCEPT ![r].pc = pc]

\* handleChat: the request is well formed, and its channel takes the session's place.
Register(r, s) ==
    /\ IsAt(r, "new")
    /\ pending' = [pending EXCEPT ![s] = r]
    /\ request' = [request EXCEPT ![r].pc = "turn", ![r].session = s]
    /\ LET others == {o \in HttpRequests : request[o].session = s /\ ~IsAt(o, "done")}
       IN  overlapped' = IF others = {} THEN overlapped ELSE overlapped \cup others \cup {r}
    /\ UNCHANGED <<respCh, reply>>

\* Router.Handle returned, and Send looks for the session's channel.
SendLooksUp(r) ==
    /\ IsAt(r, "turn")
    /\ request' = [request EXCEPT ![r].pc = "send", ![r].ch = pending[request[r].session]]
    /\ UNCHANGED <<pending, respCh, reply, overlapped>>

\* An error when there is no channel, or one that stays full for five seconds.
SendDelivers(r, ok) ==
    /\ IsAt(r, "send")
    /\ IF ok
       THEN /\ request[r].ch # Nobody /\ respCh[request[r].ch] = Nobody
            /\ respCh' = [respCh EXCEPT ![request[r].ch] = r]
            /\ HttpGo(r, "wait") /\ UNCHANGED reply
       ELSE /\ request[r].ch # Nobody => respCh[request[r].ch] # Nobody
            /\ reply' = [reply EXCEPT ![r] = r] /\ HttpGo(r, "leave") /\ UNCHANGED respCh
    /\ UNCHANGED <<pending, overlapped>>

\* The request takes what is in its channel.
Receives(r) ==
    /\ IsAt(r, "wait") /\ respCh[r] # Nobody
    /\ reply' = [reply EXCEPT ![r] = respCh[r]]
    /\ respCh' = [respCh EXCEPT ![r] = Nobody]
    /\ HttpGo(r, "leave")
    /\ UNCHANGED <<pending, overlapped>>

\* The client goes away, during the turn or the wait.
ClientLeaves(r) ==
    /\ IsAt(r, "turn") \/ IsAt(r, "send") \/ IsAt(r, "wait")
    /\ HttpGo(r, "leave")
    /\ UNCHANGED <<pending, respCh, reply, overlapped>>

\* Mutant: the request does not clean up.
MutDropPending(r) == pending

DropPending(r) == [pending EXCEPT ![request[r].session] = Nobody]

\* The deferred delete: of the session's entry, whoever's it is by now.
HttpReturns(r) ==
    /\ IsAt(r, "leave")
    /\ pending' = DropPending(r)
    /\ HttpGo(r, "done")
    /\ UNCHANGED <<respCh, reply, overlapped>>

HttpNext == \E r \in HttpRequests :
    \/ SendLooksUp(r) \/ Receives(r) \/ ClientLeaves(r) \/ HttpReturns(r)
    \/ \E s \in HttpSessions : Register(r, s)
    \/ \E ok \in BOOLEAN : SendDelivers(r, ok)

HttpSpec == HttpInit /\ [][HttpNext]_httpVars

-----------------------------------------------------------------------------
\* A request that never met another request of its session is given its own answer: it
\* does not wait for one that went elsewhere, finds nobody else's in its channel, and
\* leaves no entry behind.
AnswerIsMine ==
    \A r \in HttpRequests \ overlapped :
        /\ reply[r] \in {r, Nobody}
        /\ IsAt(r, "wait") => respCh[r] = r
        /\ IsAt(r, "done") => \A s \in HttpSessions : pending[s] # r
=============================================================================
