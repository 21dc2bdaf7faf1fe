------------------------------ MODULE Requests ------------------------------
(***************************************************************************)
(* A message on its way through the gateway (internal/adapter/gateway/     *)
(* handler.go), the router (internal/usecase/router.go) and the session    *)
(* store, with everything that runs beside it: other requests of the same  *)
(* session, chat.abort, session.delete, the reaper, the curator, a crash.  *)
(*                                                                         *)
(* The agent's turn is the two messages it adds; module AgentTurn has the  *)
(* inside of it.  The composition is the one of cmd/agent: no session      *)
(* lock, so requests of one session interleave.                            *)
(***************************************************************************)
EXTENDS SessionStore

CONSTANTS GatewayRequests,   \* come as chat.send or chat.stream, the others from a channel
          Workloads          \* bounds: which requests come, deletes, reaps, failed writes,
                             \* crashes, aborts, whether the network is down and a curator is wired

ASSUME RequestWorkloads ==
    /\ GatewayRequests \subseteq Requests
    /\ Workloads \subseteq [requests : SUBSET Requests, deletes : Nat, reaps : Nat,
                            failures : Nat, crashes : Nat, aborts : Nat, offline : BOOLEAN, curator : BOOLEAN]

VARIABLES left,            \* what the workload still allows
          req,             \* the locals of every request
          activeRequests,  \* HandlerDeps.ActiveRequests: whose cancel function a session has
          cancelled,       \* the requests whose context has ended
          contacted,       \* Onboarding: the sessions that were welcomed
          curator,         \* the background curation of every request
          deleter, reaper, \* the locals of session.delete and of ReapStaleSessions
          births, welcomes,\* how often a session began empty, and was welcomed
          excused,         \* requests whose turn may be lost: see Remembered
          gone             \* messages removed for good: see DeletedStaysGone

gateVars   == <<activeRequests, cancelled>>
removeVars == <<deleter, reaper>>
greetVars  == <<contacted, births, welcomes>>
ghostVars  == <<excused, gone>>
vars == <<storeVars, left, req, gateVars, curator, removeVars, greetVars, ghostVars>>

Waiting == [pc |-> "idle", obj |-> NoRequest, saved |-> NoRequest, image |-> {}, answered |-> FALSE]

Init == /\ StoreInit
        /\ left \in Workloads
        /\ req = [r \in Requests |-> Waiting]
        /\ activeRequests = [s \in Sessions |-> NoRequest]
        /\ cancelled = {} /\ contacted = {}
        /\ curator = [r \in Requests |-> "none"]
        /\ deleter = [s \in Sessions |-> "idle"]
        /\ reaper = [pc |-> "idle", stale |-> {}]
        /\ births = [s \in Sessions |-> 0] /\ welcomes = [s \in Sessions |-> 0]
        /\ excused = {} /\ gone = {}

At(r, pc) == req[r].pc = pc
Moves(r, pc) == req' = [req EXCEPT ![r].pc = pc]

\* A request is in flight from its arrival to its answer.
InFlight(s) == {r \in Requests : SessionOf[r] = s /\ req[r].pc \notin {"idle", "done", "dead"}}

\* It may still write to the session or to its file.
Touching(s) == {r \in InFlight(s) : req[r].pc \notin {"enter", "leave"}}

\* The two steps of os.WriteFile, and the marshalled image that waits for them.
Saving(s) == {r \in InFlight(s) : req[r].pc \in {"write", "writing"}}

\* A session being deleted or reaped, up to the removal of its file.
Removing(s) == deleter[s] = "remove" \/ (reaper.pc # "idle" /\ s \in reaper.stale)

-----------------------------------------------------------------------------
(* chatSendHandler, chatStreamHandler, and Router.handleInner *)

\* Context and cancel function are made and stored, over that of an older request.
Arrive(r) ==
    /\ r \in left.requests /\ At(r, "idle")
    /\ activeRequests' = IF r \in GatewayRequests THEN [activeRequests EXCEPT ![SessionOf[r]] = r] ELSE activeRequests
    /\ Moves(r, "enter")
    /\ UNCHANGED <<storeVars, left, cancelled, curator, removeVars, greetVars, ghostVars>>

\* The caller may not execute tools, no agent is found, or the scanner blocks the
\* message: handleInner returns before it touches the session.
Refuse(r) ==
    /\ At(r, "enter")
    /\ Moves(r, "leave")
    /\ UNCHANGED <<storeVars, left, gateVars, curator, removeVars, greetVars, ghostVars>>

\* GetOrCreate.  It disturbs a removal that is under way.
Load(r) ==
    /\ At(r, "enter")
    /\ GetOrCreate(r)
    /\ req' = [req EXCEPT ![r].pc = "ask", ![r].obj = sessions'[SessionOf[r]]]
    /\ births' = [births EXCEPT ![SessionOf[r]] =
                    IF sessions'[SessionOf[r]] = r /\ msgs'[r] = {} THEN @ + 1 ELSE @]
    /\ gone' = IF Removing(SessionOf[r]) THEN gone \ msgs'[sessions'[SessionOf[r]]] ELSE gone
    /\ UNCHANGED <<left, gateVars, curator, removeVars, contacted, welcomes, excused>>

\* HandleMessage adds the user's message ...
Ask(r) ==
    /\ At(r, "ask")
    /\ AddMessage(req[r].obj, <<r, "user">>)
    /\ Moves(r, "model")
    /\ UNCHANGED <<left, gateVars, curator, removeVars, greetVars, ghostVars>>

\* ... and the model's answer.
Answer(r) ==
    /\ At(r, "model")
    /\ AddMessage(req[r].obj, <<r, "answer">>)
    /\ req' = [req EXCEPT ![r].pc = "count", ![r].answered = TRUE]
    /\ UNCHANGED <<left, gateVars, curator, removeVars, greetVars, ghostVars>>

\* The agent fails, always so once the context has ended and the model has not answered:
\* the router returns the error without saving, or, when offline, lets the local model answer.
AgentFails(r) ==
    /\ At(r, "model")
    /\ \E pc \in IF left.offline THEN {"leave", "count"} ELSE {"leave"} : Moves(r, pc)
    /\ UNCHANGED <<storeVars, left, gateVars, curator, removeVars, greetVars, ghostVars>>

\* msgCount == 2.
Newcomer(r) == Cardinality(msgs[req[r].obj]) = 2

\* The count, the lookup of the contacts and the mark are three steps.
Count(r) ==
    /\ At(r, "count")
    /\ Moves(r, IF Newcomer(r) THEN "first" ELSE "save")
    /\ UNCHANGED <<storeVars, left, gateVars, curator, removeVars, greetVars, ghostVars>>

IsFirstContact(r) ==
    /\ At(r, "first")
    /\ Moves(r, IF SessionOf[r] \in contacted THEN "save" ELSE "mark")
    /\ UNCHANGED <<storeVars, left, gateVars, curator, removeVars, greetVars, ghostVars>>

MarkContacted(r) ==
    /\ At(r, "mark")
    /\ contacted' = contacted \cup {SessionOf[r]}
    /\ welcomes' = [welcomes EXCEPT ![SessionOf[r]] = @ + 1]
    /\ Moves(r, "save")
    /\ UNCHANGED <<storeVars, left, gateVars, curator, removeVars, births, ghostVars>>

\* Save looks the session up again.  Not found is an error that is only logged.
SaveLookUp(r) ==
    /\ At(r, "save")
    /\ LET o == sessions[SessionOf[r]]
       IN  req' = [req EXCEPT ![r].pc = IF o = NoRequest THEN "curate" ELSE "marshal", ![r].saved = o]
    /\ UNCHANGED <<storeVars, left, gateVars, curator, removeVars, greetVars, ghostVars>>

\* The image is made under the session's mutex.  From here to the end of the write it
\* competes with every other save of the session: what only the others have may be lost.
\* So may what a new session has when the image is of one that was removed.
SaveMarshal(r) ==
    /\ At(r, "marshal")
    /\ req' = [req EXCEPT ![r].pc = "write", ![r].image = msgs[req[r].saved]]
    /\ excused' = IF Saving(SessionOf[r]) = {} /\ req[r].saved = sessions[SessionOf[r]] THEN excused
                  ELSE excused \cup {q \in Requests : SessionOf[q] = SessionOf[r]}
    /\ UNCHANGED <<storeVars, left, gateVars, curator, removeVars, greetVars, gone>>

SaveOpen(r) ==
    /\ At(r, "write")
    /\ OpenFile(SessionOf[r])
    /\ Moves(r, "writing")
    /\ UNCHANGED <<sessions, msgs, old, left, gateVars, curator, removeVars, greetVars, ghostVars>>

SaveWrite(r) ==
    /\ At(r, "writing")
    /\ WriteFile(SessionOf[r], req[r].image)
    /\ Moves(r, "curate")
    /\ UNCHANGED <<sessions, msgs, left, gateVars, curator, removeVars, greetVars, ghostVars>>

\* The disk is full: the file stays truncated.
SaveFails(r) ==
    /\ At(r, "writing") /\ left.failures > 0
    /\ left' = [left EXCEPT !.failures = @ - 1]
    /\ excused' = excused \cup {q \in Requests : SessionOf[q] = SessionOf[r]}
    /\ Moves(r, "curate")
    /\ UNCHANGED <<storeVars, gateVars, curator, removeVars, greetVars, gone>>

\* The curator is started and the answer returned.
StartCurator(r) ==
    /\ At(r, "curate")
    /\ curator' = IF left.curator THEN [curator EXCEPT ![r] = "running"] ELSE curator
    /\ Moves(r, "leave")
    /\ UNCHANGED <<storeVars, left, gateVars, removeVars, greetVars, ghostVars>>

\* Mutant: an answer that was returned leaves its cancel function behind.
MutForgotten(r) == IF req[r].answered THEN activeRequests ELSE [activeRequests EXCEPT ![SessionOf[r]] = NoRequest]

\* Whatever cancel function the session has is deleted.
Forgotten(r) == [activeRequests EXCEPT ![SessionOf[r]] = NoRequest]

\* The deferred calls of the two chat handlers.
Leave(r) ==
    /\ At(r, "leave")
    /\ IF r \in GatewayRequests
         THEN activeRequests' = Forgotten(r) /\ cancelled' = cancelled \cup {r}
         ELSE UNCHANGED <<activeRequests, cancelled>>
    /\ Moves(r, "done")
    /\ UNCHANGED <<storeVars, left, curator, removeVars, greetVars, ghostVars>>

\* CurateConversation runs under the context of the request.
Curate(r) ==
    /\ curator[r] = "running"
    /\ \E result \in IF r \in cancelled THEN {"failed"} ELSE {"stored", "failed"} :
           curator' = [curator EXCEPT ![r] = result]
    /\ UNCHANGED <<storeVars, left, req, gateVars, removeVars, greetVars, ghostVars>>

-----------------------------------------------------------------------------
(* The other handlers, the reaper, time and crashes *)

\* chatAbortHandler: LoadAndDelete, and the cancel function is called.
Abort(s) ==
    /\ left.aborts > 0 /\ activeRequests[s] # NoRequest
    /\ left' = [left EXCEPT !.aborts = @ - 1]
    /\ cancelled' = cancelled \cup {activeRequests[s]}
    /\ activeRequests' = [activeRequests EXCEPT ![s] = NoRequest]
    /\ UNCHANGED <<storeVars, req, curator, removeVars, greetVars, ghostVars>>

\* What a removal that nobody disturbs takes away for good.
Removed(s) == IF Touching(s) = {} THEN gone \cup msgs[sessions[s]] ELSE gone

\* Requests that a removal meets in flight, or that came before, may be lost with it.
Interrupted(s) == excused \cup {r \in Requests : SessionOf[r] = s /\ req[r].pc # "idle"}

\* session.delete on a session that is in the table.
DeleteSession(s) ==
    /\ left.deletes > 0 /\ deleter[s] = "idle" /\ sessions[s] # NoRequest
    /\ left' = [left EXCEPT !.deletes = @ - 1]
    /\ Forget(s)
    /\ deleter' = [deleter EXCEPT ![s] = "remove"]
    /\ gone' = Removed(s) /\ excused' = Interrupted(s)
    /\ UNCHANGED <<msgs, old, file, req, gateVars, curator, reaper, greetVars>>

\* os.Remove follows without the lock.  A request that came in between has loaded the
\* file, or has saved a new one that is removed now.
DeleteFile(s) ==
    /\ deleter[s] = "remove"
    /\ RemoveSession(s)
    /\ deleter' = [deleter EXCEPT ![s] = "idle"]
    /\ excused' = Interrupted(s)
    /\ UNCHANGED <<sessions, msgs, old, left, req, gateVars, curator, reaper, greetVars, gone>>

ReapScan ==
    /\ left.reaps > 0 /\ reaper.pc = "idle" /\ Stale # {}
    /\ left' = [left EXCEPT !.reaps = @ - 1]
    /\ reaper' = [pc |-> "forget", stale |-> Stale]
    /\ UNCHANGED <<storeVars, req, gateVars, curator, deleter, greetVars, ghostVars>>

\* Phase 2 does not look at the sessions again.
ReapForget ==
    /\ reaper.pc = "forget"
    /\ sessions' = [s \in Sessions |-> IF s \in reaper.stale THEN NoRequest ELSE sessions[s]]
    /\ reaper' = [reaper EXCEPT !.pc = "remove"]
    /\ gone' = UNION {IF sessions[s] = NoRequest THEN gone ELSE Removed(s) : s \in reaper.stale}
    /\ excused' = UNION {Interrupted(s) : s \in reaper.stale}
    /\ UNCHANGED <<msgs, old, file, left, req, gateVars, curator, deleter, greetVars>>

ReapFile(s) ==
    /\ reaper.pc = "remove" /\ s \in reaper.stale
    /\ RemoveSession(s)
    /\ reaper' = IF reaper.stale = {s} THEN [pc |-> "idle", stale |-> {}]
                 ELSE [reaper EXCEPT !.stale = @ \ {s}]
    /\ excused' = Interrupted(s)
    /\ UNCHANGED <<sessions, msgs, old, left, req, gateVars, curator, deleter, greetVars, gone>>

\* A request takes less than a day.
Age ==
    /\ \A s \in Sessions : InFlight(s) = {} /\ ~Removing(s)
    /\ reaper.pc = "idle" /\ left.reaps > 0
    /\ StoreAges /\ old' # old
    /\ UNCHANGED <<left, req, gateVars, curator, removeVars, greetVars, ghostVars>>

\* The process dies and is started again.  What it was writing is torn, and a removal
\* it did not finish has not happened.
ProcessCrash ==
    /\ left.crashes > 0
    /\ left' = [left EXCEPT !.crashes = @ - 1]
    /\ StoreCrash
    /\ req' = [r \in Requests |-> IF r \in InFlight(SessionOf[r]) THEN [req[r] EXCEPT !.pc = "dead"] ELSE req[r]]
    /\ activeRequests' = [s \in Sessions |-> NoRequest]
    /\ contacted' = {} /\ curator' = [r \in Requests |-> IF curator[r] = "running" THEN "none" ELSE curator[r]]
    /\ deleter' = [s \in Sessions |-> "idle"] /\ reaper' = [pc |-> "idle", stale |-> {}]
    /\ excused' = excused \cup {r \in Requests : file[SessionOf[r]].st = "torn"}
    /\ gone' = gone \ UNION {file[s].msgs : s \in {s \in Sessions : Removing(s)}}
    /\ UNCHANGED <<cancelled, births, welcomes>>

Serve(r) == \/ Arrive(r) \/ Refuse(r) \/ Load(r) \/ Ask(r) \/ Answer(r) \/ AgentFails(r)
            \/ Count(r) \/ IsFirstContact(r) \/ MarkContacted(r)
            \/ SaveLookUp(r) \/ SaveMarshal(r) \/ SaveOpen(r) \/ SaveWrite(r) \/ SaveFails(r)
            \/ StartCurator(r) \/ Leave(r) \/ Curate(r)

Next == \/ \E r \in Requests : Serve(r)
        \/ \E s \in Sessions : Abort(s) \/ DeleteSession(s) \/ DeleteFile(s) \/ ReapFile(s)
        \/ ReapScan \/ ReapForget \/ Age \/ ProcessCrash

Spec == Init /\ [][Next]_vars

-----------------------------------------------------------------------------
\* What a request of the session would find now.
Known(s) == IF sessions[s] # NoRequest THEN msgs[sessions[s]]
            ELSE IF Loadable(s) THEN file[s].msgs ELSE {}

\* A turn that was answered is part of the session for every later request, also after
\* a restart (Router.handleInner saves before it answers).  It may be lost only when the
\* session was deleted or reaped, when two saves of the session overlapped, when a
\* write failed, or when the crash came in the middle of a write.
TurnsAreKept ==
    \A r \in Requests :
        At(r, "done") /\ req[r].answered /\ r \notin excused => {r} \X {"user", "answer"} \subseteq Known(SessionOf[r])

\* A user is welcomed at most once for every time the session began empty, although the
\* count of the messages, IsFirstContact and MarkContacted are separate steps, and a
\* restart forgets the contacts.  (The local model's answers are not added to the
\* session, so when offline two requests can both find two messages.)
WelcomeOnce == ~left.offline => \A s \in Sessions : welcomes[s] <= births[s]

\* What the program knows of a user survives: the turns that were answered, and that the
\* user was welcomed.
Remembered == TurnsAreKept /\ WelcomeOnce

\* The cancel function that chat.abort finds belongs to a request of that session which
\* is still under way, whatever other requests of the session came and went.
AbortHitsRunning == \A s \in Sessions : activeRequests[s] # NoRequest => activeRequests[s] \in InFlight(s)

\* Once a delete or the reaper is done, what it removed does not come back, neither in
\* memory nor from disk, unless a request was using the session meanwhile.
DeletedStaysGone ==
    \A s \in Sessions : ~Removing(s) => Known(s) \cap gone = {}
=============================================================================
