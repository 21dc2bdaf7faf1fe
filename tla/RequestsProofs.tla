--------------------------- MODULE RequestsProofs ---------------------------
(***************************************************************************)
(* Requests and the session store, for every number of sessions and of     *)
(* requests, and every workload: chat.abort cancels what is running, what  *)
(* a delete or the reaper removed does not come back, an answered turn is  *)
(* kept, and a user is welcomed once.                                      *)
(*                                                                         *)
(* The session lock is not wired, so the requests of a session interleave  *)
(* at every step, with removals of it and with crashes.                    *)
(*                                                                         *)
(* Beside them the calls of the gateway: a method runs for whoever may     *)
(* call it and with the fields it needs, tenants are rows with their       *)
(* directories, and the audit log has a line for every event until         *)
(* retention or a fault takes it.                                          *)
(***************************************************************************)
EXTENDS Requests, Gateway, SequenceTheorems, FiniteSetTheorems, TLAPS

-----------------------------------------------------------------------------
(* Types, and to whom objects and messages belong *)

\* From GetOrCreate to the return, and from the lookup of Save to its last step.
Working == {"ask", "model", "count", "first", "mark", "save", "marshal", "write", "writing", "curate"}
SavePcs == {"marshal", "write", "writing"}
Pcs     == Working \cup {"idle", "enter", "leave", "done", "dead"}

Objects == Requests \cup {NoRequest}

Locals == [pc : Pcs, obj : Objects, saved : Objects, image : SUBSET Messages, answered : BOOLEAN]

FileStates == [st : {"none", "torn", "ok"}, msgs : SUBSET Messages]

Budgets == [requests : SUBSET Requests, deletes : Nat, reaps : Nat, failures : Nat,
            crashes : Nat, aborts : Nat, offline : BOOLEAN, curator : BOOLEAN]

Reapers == [pc : {"idle", "forget", "remove"}, stale : SUBSET Sessions]

RequestsTypeOK ==
    /\ sessions \in [Sessions -> Objects]
    /\ msgs \in [Requests -> SUBSET Messages]
    /\ file \in [Sessions -> FileStates]
    /\ left \in Budgets
    /\ req \in [Requests -> Locals]
    /\ activeRequests \in [Sessions -> Objects]
    /\ deleter \in [Sessions -> {"idle", "remove"}]
    /\ reaper \in Reapers
    /\ births \in [Sessions -> Nat]
    /\ welcomes \in [Sessions -> Nat]

\* What the requests of a session may have added to it so far.
SaidBy(r) == {m \in Messages : /\ m[1] = r
                               /\ m[2] = "user" => req[r].pc \notin {"idle", "enter", "ask"}
                               /\ m[2] = "answer" => req[r].answered}
Said(s) == {m \in Messages : SessionOf[m[1]] = s /\ m \in SaidBy(m[1])}

\* An object of a session that its GetOrCreate has made.
ObjectOf(o, s) == o \in Requests /\ SessionOf[o] = s /\ req[o].pc \notin {"idle", "enter"}

\* A session's object, file and requests are its own, and hold only what was said in it.
SessionsAreApart ==
    /\ \A s \in Sessions : sessions[s] # NoRequest => ObjectOf(sessions[s], s)
    /\ \A r \in Requests : req[r].pc \in Working => ObjectOf(req[r].obj, SessionOf[r])
    /\ \A r \in Requests : req[r].pc \in SavePcs => ObjectOf(req[r].saved, SessionOf[r])
    /\ \A r \in Requests : req[r].pc \in {"idle", "enter", "ask", "model"} => ~req[r].answered

SaidIsSaid ==
    /\ \A o \in Requests : msgs[o] \subseteq Said(SessionOf[o])
    /\ \A r \in Requests : req[r].image \subseteq Said(SessionOf[r])
    /\ \A s \in Sessions : file[s].msgs \subseteq Said(s)
    /\ \A m \in gone : m \in Messages /\ m \in SaidBy(m[1])

ReqInv == RequestsTypeOK /\ SessionsAreApart /\ SaidIsSaid

\* chat.abort: the cancel function of a session is that of a gateway request in flight.
AbortInv ==
    /\ AbortHitsRunning
    /\ \A s \in Sessions : activeRequests[s] # NoRequest => activeRequests[s] \in GatewayRequests

-----------------------------------------------------------------------------
Clean(ms) == ms \cap gone = {}

\* Nothing removed for good is in an object that is in use, in an image that waits for
\* its write, or in a file that stays.
GoneInv ==
    /\ \A s \in Sessions : sessions[s] # NoRequest => Clean(msgs[sessions[s]])
    /\ \A r \in Requests : req[r].pc \in Working => Clean(msgs[req[r].obj])
    /\ \A r \in Requests : req[r].pc \in SavePcs => Clean(msgs[req[r].saved])
    /\ \A r \in Requests : req[r].pc \in {"write", "writing"} => Clean(req[r].image)
    /\ \A s \in Sessions : ~Removing(s) /\ Loadable(s) => Clean(file[s].msgs)

-----------------------------------------------------------------------------
Turn(r) == {<<r, "user">>, <<r, "answer">>}

\* An unexcused request works on the session's object, until it is saved ...
Unsaved == {"ask", "model", "count", "first", "mark", "save", "marshal", "write", "writing"}

OnItsWay(r) ==
    LET s == SessionOf[r] IN
    req[r].pc \in Unsaved =>
        /\ sessions[s] = req[r].obj
        /\ req[r].pc = "marshal" => req[r].saved = sessions[s]
        /\ req[r].pc = "model" => <<r, "user">> \in msgs[req[r].obj]
        /\ req[r].answered => Turn(r) \subseteq msgs[req[r].obj]
        /\ req[r].answered /\ req[r].pc \in {"write", "writing"} => Turn(r) \subseteq req[r].image

\* ... and is then in whatever is read or written.
Kept(r) ==
    LET s == SessionOf[r] IN
    req[r].answered /\ req[r].pc \in {"curate", "leave", "done"} =>
        /\ sessions[s] # NoRequest => Turn(r) \subseteq msgs[sessions[s]]
        /\ \A q \in Saving(s) : Turn(r) \subseteq req[q].image
        /\ file[s].st = "torn" \/ (file[s].st = "ok" /\ Turn(r) \subseteq file[s].msgs)
        /\ sessions[s] = NoRequest => file[s].st = "ok" /\ \A q \in Requests : SessionOf[q] = s => req[q].pc \notin Working

TurnInv ==
    /\ \A r \in Requests : r \notin excused => OnItsWay(r) /\ Kept(r)
    /\ \A s \in Sessions : \A r, q \in Saving(s) : r # q => \A x \in Requests : SessionOf[x] = s => x \in excused
    /\ reaper.pc # "idle" => reaper.stale # {}

-----------------------------------------------------------------------------
\* A welcome that is on its way, and an object whose first request may still be welcomed.
Greeting(s) == {r \in Requests : SessionOf[r] = s /\ req[r].pc \in {"first", "mark"}}
Awaits(o) == \/ msgs[o] = {} /\ \/ sessions[SessionOf[o]] = o
                                 \/ \E r \in Requests : req[r].pc = "ask" /\ req[r].obj = o
             \/ \E r \in Requests : req[r].pc \in {"model", "count"} /\ req[r].obj = o /\ msgs[o] \subseteq Turn(r)
Hopes(s) == {o \in Requests : SessionOf[o] = s /\ Awaits(o)}
Tokens(s) == ({"greeting"} \X Greeting(s)) \cup ({"hope"} \X Hopes(s))

AddedInv == \A r \in Requests :
    /\ req[r].pc = "model" => <<r, "user">> \in msgs[req[r].obj]
    /\ req[r].pc = "count" /\ ~left.offline => Turn(r) \subseteq msgs[req[r].obj]

WelcomeInv ==
    ~left.offline => AddedInv /\ \A s \in Sessions : welcomes[s] + Cardinality(Tokens(s)) <= births[s]

\* A step of a request gives it a new place; the other locals stay, but for those named.
Goes(r, pc, fields) ==
    /\ req' \in [Requests -> Locals]
    /\ \A q \in Requests : q # r => req'[q] = req[q]
    /\ req'[r].pc = pc
    /\ "obj" \in fields => req'[r].obj = req[r].obj
    /\ "saved" \in fields => req'[r].saved = req[r].saved
    /\ "image" \in fields => req'[r].image = req[r].image
    /\ "answered" \in fields => req'[r].answered = req[r].answered

Others == {"obj", "saved", "image", "answered"}

\* A request moves on with what it has.
LEMMA MovesGoes ==
    ASSUME req \in [Requests -> Locals], NEW r \in Requests, NEW pc \in Pcs, Moves(r, pc)
    PROVE  Goes(r, pc, Others)
<1> DEFINE l == [req[r] EXCEPT !.pc = pc]
<1>1. l \in Locals /\ l.pc = pc /\ l.obj = req[r].obj /\ l.saved = req[r].saved /\ l.image = req[r].image /\ l.answered = req[r].answered
  BY DEF Locals
<1>2. req' = [req EXCEPT ![r] = l]
  BY DEF Moves
<1> HIDE DEF l
<1> QED
  BY <1>1, <1>2 DEF Goes

\* A request gets the object of its session.
LEMMA LoadGoes ==
    ASSUME req \in [Requests -> Locals], NEW r \in Requests, NEW o \in Objects,
           req' = [req EXCEPT ![r].pc = "ask", ![r].obj = o]
    PROVE  Goes(r, "ask", {"saved", "image", "answered"}) /\ req'[r].obj = o
<1> DEFINE l == [req[r] EXCEPT !.pc = "ask", !.obj = o]
<1>1. /\ l \in Locals /\ l.pc = "ask" /\ l.obj = o
      /\ l.saved = req[r].saved /\ l.image = req[r].image /\ l.answered = req[r].answered
  BY ZenonT(30) DEF Locals, Pcs, Working
<1>2. req' = [req EXCEPT ![r] = l]
  OBVIOUS
<1> HIDE DEF l
<1> QED
  BY <1>1, <1>2 DEF Goes

\* A request has its answer.
LEMMA AnswerGoes ==
    ASSUME req \in [Requests -> Locals], NEW r \in Requests,
           req' = [req EXCEPT ![r].pc = "count", ![r].answered = TRUE]
    PROVE  Goes(r, "count", {"obj", "saved", "image"}) /\ req'[r].answered
<1> DEFINE l == [req[r] EXCEPT !.pc = "count", !.answered = TRUE]
<1>1. /\ l \in Locals /\ l.pc = "count" /\ l.answered = TRUE
      /\ l.obj = req[r].obj /\ l.saved = req[r].saved /\ l.image = req[r].image
  BY ZenonT(30) DEF Locals, Pcs, Working
<1>2. req' = [req EXCEPT ![r] = l]
  OBVIOUS
<1> HIDE DEF l
<1> QED
  BY <1>1, <1>2 DEF Goes

\* Save looks its object up.
LEMMA LookUpGoes ==
    ASSUME req \in [Requests -> Locals], NEW r \in Requests, NEW o \in Objects, NEW pc \in Pcs,
           req' = [req EXCEPT ![r].pc = pc, ![r].saved = o]
    PROVE  Goes(r, pc, {"obj", "image", "answered"}) /\ req'[r].saved = o
<1> DEFINE l == [req[r] EXCEPT !.pc = pc, !.saved = o]
<1>1. /\ l \in Locals /\ l.pc = pc /\ l.saved = o
      /\ l.obj = req[r].obj /\ l.image = req[r].image /\ l.answered = req[r].answered
  BY ZenonT(30) DEF Locals, Pcs, Working
<1>2. req' = [req EXCEPT ![r] = l]
  OBVIOUS
<1> HIDE DEF l
<1> QED
  BY <1>1, <1>2 DEF Goes

\* Save takes the image of its object.
LEMMA MarshalGoes ==
    ASSUME req \in [Requests -> Locals], NEW r \in Requests, NEW image \in SUBSET Messages,
           req' = [req EXCEPT ![r].pc = "write", ![r].image = image]
    PROVE  Goes(r, "write", {"obj", "saved", "answered"}) /\ req'[r].image = image
<1> DEFINE l == [req[r] EXCEPT !.pc = "write", !.image = image]
<1>1. /\ l \in Locals /\ l.pc = "write" /\ l.image = image
      /\ l.obj = req[r].obj /\ l.saved = req[r].saved /\ l.answered = req[r].answered
  BY ZenonT(30) DEF Locals, Pcs, Working
<1>2. req' = [req EXCEPT ![r] = l]
  OBVIOUS
<1> HIDE DEF l
<1> QED
  BY <1>1, <1>2 DEF Goes


\* Where every step of a request takes it.
LEMMA LocalsStep ==
    ASSUME RequestsTypeOK, SessionsAreApart, NEW r \in Requests
    PROVE  /\ Arrive(r) => Goes(r, "enter", Others)
           /\ Refuse(r) => Goes(r, "leave", Others)
           /\ Load(r) => /\ Goes(r, "ask", {"saved", "image", "answered"})
                         /\ req'[r].obj = sessions'[SessionOf[r]]
                         /\ req'[r].obj \in Requests
                         /\ sessions' \in [Sessions -> Objects]
           /\ Ask(r) => Goes(r, "model", Others)
           /\ Answer(r) => Goes(r, "count", {"obj", "saved", "image"}) /\ req'[r].answered
           /\ AgentFails(r) => Goes(r, "leave", Others) \/ (left.offline /\ Goes(r, "count", Others))
           /\ Count(r) => Goes(r, IF Newcomer(r) THEN "first" ELSE "save", Others)
           /\ IsFirstContact(r) => Goes(r, IF SessionOf[r] \in contacted THEN "save" ELSE "mark", Others)
           /\ MarkContacted(r) => Goes(r, "save", Others)
           /\ SaveLookUp(r) => /\ Goes(r, IF sessions[SessionOf[r]] = NoRequest THEN "curate" ELSE "marshal", {"obj", "image", "answered"})
                               /\ req'[r].saved = sessions[SessionOf[r]]
           /\ SaveMarshal(r) => Goes(r, "write", {"obj", "saved", "answered"}) /\ req'[r].image = msgs[req[r].saved]
           /\ SaveOpen(r) => Goes(r, "writing", Others)
           /\ SaveWrite(r) => Goes(r, "curate", Others)
           /\ SaveFails(r) => Goes(r, "curate", Others)
           /\ StartCurator(r) => Goes(r, "leave", Others)
           /\ Leave(r) => Goes(r, "done", Others)
<1>1. req \in [Requests -> Locals]
  BY DEF RequestsTypeOK
<1>2. ASSUME NEW pc \in Pcs, Moves(r, pc) PROVE Goes(r, pc, Others)
  BY <1>1, <1>2, MovesGoes
<1>3. {"enter", "leave", "model", "count", "first", "save", "mark", "writing", "curate", "done", "marshal"} \subseteq Pcs
  BY DEF Pcs, Working
<1>4. /\ Arrive(r) => Goes(r, "enter", Others)
      /\ Refuse(r) => Goes(r, "leave", Others)
      /\ Ask(r) => Goes(r, "model", Others)
      /\ MarkContacted(r) => Goes(r, "save", Others)
      /\ SaveOpen(r) => Goes(r, "writing", Others)
      /\ SaveWrite(r) => Goes(r, "curate", Others)
      /\ SaveFails(r) => Goes(r, "curate", Others)
      /\ StartCurator(r) => Goes(r, "leave", Others)
      /\ Leave(r) => Goes(r, "done", Others)
  BY <1>2, <1>3 DEF Arrive, Refuse, Ask, MarkContacted, SaveOpen, SaveWrite, SaveFails, StartCurator, Leave
<1>5. /\ AgentFails(r) => Goes(r, "leave", Others) \/ (left.offline /\ Goes(r, "count", Others))
      /\ Count(r) => Goes(r, IF Newcomer(r) THEN "first" ELSE "save", Others)
      /\ IsFirstContact(r) => Goes(r, IF SessionOf[r] \in contacted THEN "save" ELSE "mark", Others)
  BY <1>2, <1>3 DEF AgentFails, Count, IsFirstContact
<1>6. ASSUME Load(r)
      PROVE  /\ Goes(r, "ask", {"saved", "image", "answered"}) /\ req'[r].obj = sessions'[SessionOf[r]]
             /\ req'[r].obj \in Requests /\ sessions' \in [Sessions -> Objects]
  <2>1. sessions' \in [Sessions -> Objects] /\ SessionOf[r] \in Sessions /\ sessions'[SessionOf[r]] \in Requests
    <3>1. GetOrCreate(r) /\ sessions \in [Sessions -> Objects] /\ SessionOf[r] \in Sessions
      BY <1>6, SessionOfRequests DEF Load, RequestsTypeOK
    <3>2. CASE sessions[SessionOf[r]] # NoRequest
      BY <3>1, <3>2 DEF GetOrCreate, Objects
    <3>3. CASE sessions[SessionOf[r]] = NoRequest
      BY <3>1, <3>3 DEF GetOrCreate, Objects
    <3> QED
      BY <3>1, <3>2, <3>3
  <2>2. req' = [req EXCEPT ![r].pc = "ask", ![r].obj = sessions'[SessionOf[r]]]
    BY <1>6 DEF Load
  <2>3. sessions'[SessionOf[r]] \in Objects
    BY <2>1 DEF Objects
  <2> QED
    BY <1>1, <2>1, <2>2, <2>3, LoadGoes
<1>7. Answer(r) => Goes(r, "count", {"obj", "saved", "image"}) /\ req'[r].answered
  BY <1>1, AnswerGoes DEF Answer
<1>8. ASSUME SaveLookUp(r)
      PROVE  /\ Goes(r, IF sessions[SessionOf[r]] = NoRequest THEN "curate" ELSE "marshal", {"obj", "image", "answered"})
             /\ req'[r].saved = sessions[SessionOf[r]]
  <2> DEFINE o == sessions[SessionOf[r]]
             pc == IF o = NoRequest THEN "curate" ELSE "marshal"
  <2>1. o \in Objects /\ pc \in Pcs /\ req' = [req EXCEPT ![r].pc = pc, ![r].saved = o]
    BY <1>3, <1>8, SessionOfRequests DEF SaveLookUp, RequestsTypeOK
  <2> HIDE DEF o, pc
  <2>2. Goes(r, pc, {"obj", "image", "answered"}) /\ req'[r].saved = o
    BY <1>1, <2>1, LookUpGoes
  <2> QED
    BY <2>2 DEF o, pc
<1>9. ASSUME SaveMarshal(r)
      PROVE  Goes(r, "write", {"obj", "saved", "answered"}) /\ req'[r].image = msgs[req[r].saved]
  <2> DEFINE image == msgs[req[r].saved]
  <2>1. req[r].saved \in Requests
    BY <1>9 DEF SaveMarshal, At, SessionsAreApart, ObjectOf, SavePcs
  <2>2. image \in SUBSET Messages
    BY <2>1 DEF RequestsTypeOK
  <2>3. req' = [req EXCEPT ![r].pc = "write", ![r].image = image]
    BY <1>9 DEF SaveMarshal
  <2> HIDE DEF image
  <2>4. Goes(r, "write", {"obj", "saved", "answered"}) /\ req'[r].image = image
    BY <1>1, <2>2, <2>3, MarshalGoes
  <2> QED
    BY <2>4 DEF image
<1> QED
  BY <1>4, <1>5, <1>6, <1>7, <1>8, <1>9

\* The workload shrinks, and what it says of the network and the curator stays.
LEMMA BudgetStep ==
    ASSUME left \in Budgets, [Next]_vars
    PROVE  left' \in Budgets /\ left'.offline = left.offline
<1>1. \/ left' = left
      \/ left.failures > 0 /\ left' = [left EXCEPT !.failures = @ - 1]
      \/ left.deletes > 0 /\ left' = [left EXCEPT !.deletes = @ - 1]
      \/ left.reaps > 0 /\ left' = [left EXCEPT !.reaps = @ - 1]
      \/ left.crashes > 0 /\ left' = [left EXCEPT !.crashes = @ - 1]
      \/ left.aborts > 0 /\ left' = [left EXCEPT !.aborts = @ - 1]
  BY ZenonT(60) DEF Next, Serve, vars, Arrive, Refuse, Load, Ask, Answer, AgentFails, Count, IsFirstContact,
     MarkContacted, SaveLookUp, SaveMarshal, SaveOpen, SaveWrite, SaveFails, StartCurator, Leave, Curate,
     Abort, DeleteSession, DeleteFile, ReapFile, ReapScan, ReapForget, Age, ProcessCrash
<1> QED
  BY <1>1 DEF Budgets

\* AddMessage adds one message to one object.
LEMMA AddEffect ==
    ASSUME RequestsTypeOK, NEW o \in Requests, NEW m \in Messages, AddMessage(o, m)
    PROVE  /\ msgs' \in [Requests -> SUBSET Messages] /\ msgs'[o] = msgs[o] \cup {m}
           /\ \A q \in Requests : q # o => msgs'[q] = msgs[q]
           /\ sessions' = sessions /\ file' = file
<1>1. msgs \in [Requests -> SUBSET Messages] /\ msgs' = [msgs EXCEPT ![o] = @ \cup {m}]
  BY DEF RequestsTypeOK, AddMessage
<1> QED
  BY <1>1 DEF AddMessage

\* What os.WriteFile leaves: the image, or a file that does not parse.
LEMMA WriteEffect ==
    ASSUME RequestsTypeOK, NEW s \in Sessions, NEW image \in SUBSET Messages, WriteFile(s, image)
    PROVE  /\ file' \in [Sessions -> FileStates]
           /\ \A t \in Sessions : t # s => file'[t] = file[t]
           /\ \/ file'[s].st = "ok" /\ file'[s].msgs = image
              \/ file'[s].st = "torn" /\ file'[s].msgs = file[s].msgs
<1>1. file \in [Sessions -> FileStates] /\ file[s].msgs \in SUBSET Messages
  BY DEF RequestsTypeOK, FileStates
<1>2. PICK f \in Overwrites(s, image) : file' = [file EXCEPT ![s] = f]
  BY DEF WriteFile
<1>3. /\ f \in FileStates
      /\ \/ f.st = "ok" /\ f.msgs = image
         \/ f.st = "torn" /\ f.msgs = file[s].msgs
  BY <1>1, <1>2 DEF Overwrites, Image, FileStates
<1> QED
  BY <1>1, <1>2, <1>3

\* GetOrCreate finds the session, or makes an object of what its file holds.
LEMMA LoadEffect ==
    ASSUME RequestsTypeOK, NEW r \in Requests, Load(r)
    PROVE  LET s == SessionOf[r] IN
           /\ s \in Sessions /\ file' = file
           /\ msgs' \in [Requests -> SUBSET Messages] /\ births' \in [Sessions -> Nat]
           /\ \A t \in Sessions : t # s => sessions'[t] = sessions[t] /\ births'[t] = births[t]
           /\ \/ /\ sessions[s] # NoRequest /\ sessions' = sessions /\ msgs' = msgs
              \/ /\ sessions[s] = NoRequest /\ sessions'[s] = r
                 /\ \A q \in Requests : q # r => msgs'[q] = msgs[q]
                 /\ msgs'[r] = IF file[s].st = "ok" THEN file[s].msgs ELSE {}
                 /\ births'[s] = IF msgs'[r] = {} THEN births[s] + 1 ELSE births[s]
<1> DEFINE s == SessionOf[r]
<1>1. s \in Sessions
  BY SessionOfRequests
<1>2. /\ sessions \in [Sessions -> Objects] /\ msgs \in [Requests -> SUBSET Messages]
      /\ births \in [Sessions -> Nat] /\ file[s].msgs \in SUBSET Messages
  BY <1>1 DEF RequestsTypeOK, FileStates
<1>3. births' \in [Sessions -> Nat] /\ \A t \in Sessions : t # s => births'[t] = births[t]
  BY <1>1, <1>2 DEF Load
<1>4. CASE sessions[s] # NoRequest
  BY <1>1, <1>2, <1>3, <1>4 DEF Load, GetOrCreate
<1>5. CASE sessions[s] = NoRequest
  <2>1. /\ sessions' = [sessions EXCEPT ![s] = r] /\ file' = file
        /\ msgs' = [msgs EXCEPT ![r] = IF file[s].st = "ok" THEN file[s].msgs ELSE {}]
        /\ births' = [births EXCEPT ![s] = IF sessions'[s] = r /\ msgs'[r] = {} THEN @ + 1 ELSE @]
    BY <1>5 DEF Load, GetOrCreate, Loadable
  <2>2. sessions'[s] = r /\ \A t \in Sessions : t # s => sessions'[t] = sessions[t]
    BY <1>1, <1>2, <2>1
  <2>3. /\ msgs' \in [Requests -> SUBSET Messages] /\ \A q \in Requests : q # r => msgs'[q] = msgs[q]
        /\ msgs'[r] = IF file[s].st = "ok" THEN file[s].msgs ELSE {}
    BY <1>2, <2>1
  <2>4. births'[s] = IF msgs'[r] = {} THEN births[s] + 1 ELSE births[s]
    BY <1>1, <1>2, <2>1, <2>2
  <2> QED
    BY <1>1, <1>3, <1>5, <2>1, <2>2, <2>3, <2>4
<1> QED
  BY <1>4, <1>5

\* Every step keeps the types.
LEMMA StepTypes ==
    ASSUME ReqInv, [Next]_vars PROVE RequestsTypeOK'
<1> USE SessionOfRequests, NoRequestIsNone, RequestWorkloads
<1>0. /\ RequestsTypeOK /\ SessionsAreApart /\ left' \in Budgets
      /\ {"ask", "model"} \subseteq Working
  BY BudgetStep DEF ReqInv, RequestsTypeOK, Working
<1>1. ASSUME NEW r \in Requests, Serve(r) PROVE RequestsTypeOK'
  <2>1. CASE Arrive(r)
    BY <1>0, LocalsStep, <2>1
    DEF Arrive, At, Objects, Goes, RequestsTypeOK, storeVars, gateVars, removeVars, greetVars, ghostVars
  <2>2. CASE Refuse(r)
    BY <1>0, LocalsStep, <2>2
    DEF Refuse, At, Goes, RequestsTypeOK, storeVars, gateVars, removeVars, greetVars, ghostVars
  <2>3. CASE Load(r)
    <3>1. sessions' \in [Sessions -> Objects] /\ req' \in [Requests -> Locals]
      BY <1>0, <2>3, LocalsStep DEF Goes
    <3>2. msgs' \in [Requests -> SUBSET Messages] /\ births' \in [Sessions -> Nat] /\ file' = file
      BY <1>0, <2>3, LoadEffect
    <3> QED
      BY <1>0, <2>3, <3>1, <3>2 DEF Load, RequestsTypeOK, gateVars, removeVars
  <2>4. CASE Ask(r)
    <3>1. req[r].obj \in Requests /\ <<r, "user">> \in Messages
      BY <1>0, <2>4 DEF Ask, At, SessionsAreApart, ObjectOf, Messages
    <3> QED
      BY <1>0, <2>4, <3>1, LocalsStep, AddEffect DEF Ask, Goes, RequestsTypeOK, gateVars, removeVars, greetVars
  <2>5. CASE Answer(r)
    <3>1. req[r].obj \in Requests /\ <<r, "answer">> \in Messages
      BY <1>0, <2>5 DEF Answer, At, SessionsAreApart, ObjectOf, Messages
    <3> QED
      BY <1>0, <2>5, <3>1, LocalsStep, AddEffect DEF Answer, Goes, RequestsTypeOK, gateVars, removeVars, greetVars
  <2>6. CASE AgentFails(r)
    BY <1>0, LocalsStep, <2>6
    DEF AgentFails, At, Goes, RequestsTypeOK, storeVars, gateVars, removeVars, greetVars, ghostVars
  <2>7. CASE Count(r)
    BY <1>0, LocalsStep, <2>7
    DEF Count, At, Goes, RequestsTypeOK, storeVars, gateVars, removeVars, greetVars, ghostVars
  <2>8. CASE IsFirstContact(r)
    BY <1>0, LocalsStep, <2>8
    DEF IsFirstContact, At, Goes, RequestsTypeOK, storeVars, gateVars, removeVars, greetVars, ghostVars
  <2>9. CASE MarkContacted(r)
    <3>1. welcomes \in [Sessions -> Nat] /\ welcomes' = [welcomes EXCEPT ![SessionOf[r]] = @ + 1]
      BY <1>0, <2>9 DEF MarkContacted, RequestsTypeOK
    <3>2. welcomes' \in [Sessions -> Nat]
      BY <3>1
    <3> QED
      BY <1>0, <2>9, <3>2, LocalsStep DEF MarkContacted, Goes, RequestsTypeOK, storeVars, gateVars, removeVars
  <2>10. CASE SaveLookUp(r)
    BY <1>0, LocalsStep, <2>10
    DEF SaveLookUp, At, Goes, RequestsTypeOK, storeVars, gateVars, removeVars, greetVars, ghostVars
  <2>11. CASE SaveMarshal(r)
    BY <1>0, LocalsStep, <2>11
    DEF SaveMarshal, At, Goes, RequestsTypeOK, storeVars, gateVars, removeVars, greetVars, ghostVars
  <2>12. CASE SaveOpen(r)
    BY <1>0, LocalsStep, <2>12
    DEF SaveOpen, At, OpenFile, Truncated, FileStates, Goes, RequestsTypeOK, storeVars, gateVars, removeVars,
        greetVars, ghostVars
  <2>13. CASE SaveWrite(r)
    <3>1. SessionOf[r] \in Sessions /\ req[r].image \in SUBSET Messages
      BY <1>0 DEF RequestsTypeOK, Locals
    <3> QED
      BY <1>0, <2>13, <3>1, LocalsStep, WriteEffect
      DEF SaveWrite, Goes, RequestsTypeOK, gateVars, removeVars, greetVars
  <2>14. CASE SaveFails(r)
    BY <1>0, LocalsStep, <2>14
    DEF SaveFails, At, Goes, RequestsTypeOK, storeVars, gateVars, removeVars, greetVars, ghostVars
  <2>15. CASE StartCurator(r)
    BY <1>0, LocalsStep, <2>15
    DEF StartCurator, At, Goes, RequestsTypeOK, storeVars, gateVars, removeVars, greetVars, ghostVars
  <2>16. CASE Leave(r)
    BY <1>0, LocalsStep, <2>16
    DEF Leave, At, Forgotten, Objects, Goes, RequestsTypeOK, storeVars, gateVars, removeVars, greetVars,
        ghostVars
  <2>17. CASE Curate(r)
    BY <1>0, LocalsStep, <2>17
    DEF Curate, Goes, RequestsTypeOK, storeVars, gateVars, removeVars, greetVars, ghostVars
  <2> QED
    BY <1>1, <2>1, <2>2, <2>3, <2>4, <2>5, <2>6, <2>7, <2>8, <2>9, <2>10, <2>11, <2>12, <2>13, <2>14, <2>15,
       <2>16, <2>17 DEF Serve
<1>2. ASSUME NEW s \in Sessions, Abort(s) \/ DeleteSession(s) \/ DeleteFile(s) \/ ReapFile(s) PROVE RequestsTypeOK'
  <2>1. CASE Abort(s)
    BY <1>0, <2>1 DEF Abort, Objects, RequestsTypeOK, storeVars, gateVars, removeVars, greetVars, ghostVars
  <2>2. CASE DeleteSession(s)
    BY <1>0, <2>2
    DEF DeleteSession, Forget, Objects, RequestsTypeOK, storeVars, gateVars, removeVars, greetVars, ghostVars
  <2>3. CASE DeleteFile(s)
    BY <1>0, <2>3
    DEF DeleteFile, RemoveSession, NoFile, FileStates, RequestsTypeOK, storeVars, gateVars, removeVars,
        greetVars, ghostVars
  <2>4. CASE ReapFile(s)
    BY <1>0, <2>4
    DEF ReapFile, RemoveSession, NoFile, FileStates, Reapers, RequestsTypeOK, storeVars, gateVars, removeVars,
        greetVars, ghostVars
  <2> QED
    BY <1>2, <2>1, <2>2, <2>3, <2>4
<1>3. CASE ReapScan
  BY <1>0, <1>3 DEF ReapScan, Stale, Reapers, RequestsTypeOK, storeVars, gateVars, removeVars, greetVars, ghostVars
<1>4. CASE ReapForget
  BY <1>0, <1>4
  DEF ReapForget, Objects, Reapers, RequestsTypeOK, storeVars, gateVars, removeVars, greetVars, ghostVars
<1>5. CASE Age
  BY <1>0, <1>5 DEF Age, StoreAges, RequestsTypeOK, storeVars, gateVars, removeVars, greetVars, ghostVars
<1>6. CASE ProcessCrash
  BY <1>0, <1>6, SMTT(30)
  DEF ProcessCrash, StoreCrash, Objects, Reapers, Locals, Pcs, RequestsTypeOK, storeVars, gateVars, removeVars,
      greetVars, ghostVars
<1>7. CASE UNCHANGED vars
  BY <1>0, <1>7 DEF vars, RequestsTypeOK, storeVars, gateVars, removeVars, greetVars, ghostVars
<1> QED
  BY <1>1, <1>2, <1>3, <1>4, <1>5, <1>6, <1>7 DEF Next

\* No request goes back, and what was said stays said.
LEMMA Progress ==
    ASSUME ReqInv, [Next]_vars, NEW r \in Requests
    PROVE  /\ req[r].pc \notin {"idle", "enter"} => req'[r].pc \notin {"idle", "enter"}
           /\ req[r].pc \notin {"idle", "enter", "ask"} => req'[r].pc \notin {"idle", "enter", "ask"}
           /\ req[r].answered => req'[r].answered
           /\ req'[r].pc \in {"idle", "enter", "ask", "model"} => req'[r].answered = req[r].answered
           /\ req'[r].pc \in {"idle", "enter", "ask", "model"} => req[r].pc \in {"idle", "enter", "ask", "model"}
<1>0. RequestsTypeOK /\ SessionsAreApart
  BY DEF ReqInv
<1>1. ASSUME NEW q \in Requests, Serve(q), q = r
      PROVE  \/ req' = req
             \/ /\ req[r].pc = "idle" /\ req'[r].pc = "enter" /\ req'[r].answered = req[r].answered
             \/ /\ req[r].pc = "enter" /\ req'[r].pc \in {"leave", "ask"} /\ req'[r].answered = req[r].answered
             \/ /\ req[r].pc = "ask" /\ req'[r].pc = "model" /\ req'[r].answered = req[r].answered
             \/ /\ req[r].pc \notin {"idle", "enter", "ask"}
                /\ req'[r].pc \notin {"idle", "enter", "ask", "model"}
                /\ req[r].answered => req'[r].answered
  <2>1. CASE Arrive(r) \/ Refuse(r) \/ Load(r) \/ Ask(r) \/ Answer(r) \/ AgentFails(r) \/ Count(r) \/ IsFirstContact(r)
    BY <1>0, <2>1, LocalsStep
    DEF Goes, Others, Arrive, Refuse, Load, Ask, Answer, AgentFails, Count, IsFirstContact, At
  <2>2. CASE MarkContacted(r) \/ SaveLookUp(r) \/ SaveMarshal(r) \/ SaveOpen(r) \/ SaveWrite(r) \/ SaveFails(r)
    BY <1>0, <2>2, LocalsStep
    DEF Goes, Others, MarkContacted, SaveLookUp, SaveMarshal, SaveOpen, SaveWrite, SaveFails, At
  <2>3. CASE StartCurator(r) \/ Leave(r) \/ Curate(r)
    BY <1>0, <2>3, LocalsStep DEF Goes, Others, StartCurator, Leave, Curate, At
  <2> QED
    BY <1>1, <2>1, <2>2, <2>3 DEF Serve
<1>2. ASSUME NEW q \in Requests, Serve(q), q # r PROVE req'[r] = req[r]
  BY <1>0, <1>2, LocalsStep DEF Serve, Goes, Curate
<1>3. CASE ProcessCrash
  <2>1. req'[r] = req[r] \/ (req'[r].pc = "dead" /\ req'[r].answered = req[r].answered)
    BY <1>0, <1>3 DEF ProcessCrash, RequestsTypeOK, Locals
  <2> QED
    BY <2>1
<1>4. CASE UNCHANGED req
  BY <1>4
<1>5. \/ \E q \in Requests : Serve(q)
      \/ ProcessCrash
      \/ UNCHANGED req
  BY DEF Next, vars, Abort, DeleteSession, DeleteFile, ReapFile, ReapScan, ReapForget, Age
<1> QED
  BY <1>0, <1>1, <1>2, <1>3, <1>4, <1>5

\* Where the object of a session, of a request and of a save come from.
LEMMA ObjectsStep ==
    ASSUME ReqInv, [Next]_vars
    PROVE  /\ \A s \in Sessions : \/ sessions'[s] \in {sessions[s], NoRequest}
                                  \/ \E r \in Requests : Load(r) /\ SessionOf[r] = s /\ sessions'[s] = r
           /\ \A r \in Requests : req'[r].pc \in Working =>
                \/ Load(r)
                \/ req[r].pc \in Working /\ req'[r].obj = req[r].obj
           /\ \A r \in Requests : req'[r].pc \in SavePcs =>
                \/ req'[r].saved = sessions[SessionOf[r]] /\ sessions[SessionOf[r]] # NoRequest
                \/ req[r].pc \in SavePcs /\ req'[r].saved = req[r].saved
<1>0. RequestsTypeOK /\ SessionsAreApart
  BY DEF ReqInv
<1>1. ASSUME NEW s \in Sessions
      PROVE  \/ sessions'[s] \in {sessions[s], NoRequest}
             \/ \E r \in Requests : Load(r) /\ SessionOf[r] = s /\ sessions'[s] = r
  <2>1. CASE \E r \in Requests : Load(r)
    BY <1>0, <2>1, LoadEffect
  <2>2. CASE ~(\E r \in Requests : Load(r)) /\ ~(\E q \in Sessions : DeleteSession(q)) /\ ~ReapForget /\ ~ProcessCrash
    <3>1. sessions' = sessions
      BY <2>2
      DEF Next, Serve, vars, storeVars, Arrive, Refuse, Ask, Answer, AddMessage, AgentFails, Count,
          IsFirstContact,
         MarkContacted, SaveLookUp, SaveMarshal, SaveOpen, SaveWrite, SaveFails, StartCurator, Leave, Curate, Abort,
         DeleteFile, ReapFile, ReapScan, Age, StoreAges
    <3> QED
      BY <3>1
  <2>3. CASE \E q \in Sessions : DeleteSession(q)
    BY <1>0, <2>3 DEF DeleteSession, Forget, RequestsTypeOK
  <2>4. CASE ReapForget \/ ProcessCrash
    BY <1>0, <2>4 DEF ReapForget, ProcessCrash, StoreCrash
  <2> QED
    BY <2>1, <2>2, <2>3, <2>4
<1>2. ASSUME NEW r \in Requests
      PROVE  /\ req'[r].pc \in Working => Load(r) \/ (req[r].pc \in Working /\ req'[r].obj = req[r].obj)
             /\ req'[r].pc \in SavePcs =>
                  \/ req'[r].saved = sessions[SessionOf[r]] /\ sessions[SessionOf[r]] # NoRequest
                  \/ req[r].pc \in SavePcs /\ req'[r].saved = req[r].saved
  <2>1. CASE \/ Arrive(r) \/ Refuse(r) \/ Load(r) \/ Ask(r) \/ Answer(r) \/ AgentFails(r) \/ Count(r) \/ IsFirstContact(r)
    BY <1>0, <2>1, LocalsStep
    DEF Goes, Others, Arrive, Refuse, Load, Ask, Answer, AgentFails, Count, IsFirstContact, At,
       Working, SavePcs
  <2>2. CASE \/ MarkContacted(r) \/ SaveLookUp(r) \/ SaveMarshal(r) \/ SaveOpen(r) \/ SaveWrite(r) \/ SaveFails(r)
             \/ StartCurator(r) \/ Leave(r)
    BY <1>0, <2>2, LocalsStep
    DEF Goes, Others, MarkContacted, SaveLookUp, SaveMarshal, SaveOpen, SaveWrite, SaveFails,
       StartCurator, Leave, At, Working, SavePcs
  <2>3. CASE req'[r] = req[r]
    BY <2>3
  <2>4. CASE ProcessCrash
    <3>1. req'[r] = req[r] \/ req'[r].pc = "dead"
      BY <1>0, <2>4 DEF ProcessCrash, RequestsTypeOK, Locals
    <3> QED
      BY <3>1 DEF Working, SavePcs
  <2>5. ASSUME NEW q \in Requests, Serve(q), q # r PROVE req'[r] = req[r]
    BY <1>0, <2>5, LocalsStep DEF Serve, Goes, Curate
  <2>6. \/ \E q \in Requests : Serve(q)
        \/ ProcessCrash
        \/ req' = req
    BY DEF Next, vars, Abort, DeleteSession, DeleteFile, ReapFile, ReapScan, ReapForget, Age
  <2>7. Curate(r) => req' = req
    BY DEF Curate
  <2> QED
    BY <2>1, <2>2, <2>3, <2>4, <2>5, <2>6, <2>7 DEF Serve
<1> QED
  BY <1>1, <1>2

\* Every step keeps sessions apart.
LEMMA StepApart ==
    ASSUME ReqInv, [Next]_vars PROVE SessionsAreApart'
<1> DEFINE Made(o, s) == o \in Requests /\ SessionOf[o] = s /\ req'[o].pc \notin {"idle", "enter"}
<1>0. RequestsTypeOK /\ SessionsAreApart
  BY DEF ReqInv
<1>1. \A o, s : ObjectOf(o, s) => Made(o, s)
  BY Progress DEF ObjectOf
<1>2. ASSUME NEW r \in Requests, Load(r)
      PROVE  Made(sessions'[SessionOf[r]], SessionOf[r]) /\ req'[r].obj = sessions'[SessionOf[r]]
  <2>1. CASE sessions[SessionOf[r]] # NoRequest
    <3>1. sessions'[SessionOf[r]] = sessions[SessionOf[r]] /\ ObjectOf(sessions[SessionOf[r]], SessionOf[r])
      BY <1>0, <1>2, <2>1, LoadEffect DEF SessionsAreApart
    <3>2. req'[r].obj = sessions'[SessionOf[r]]
      BY <1>0, <1>2, LocalsStep
    <3>3. Made(sessions[SessionOf[r]], SessionOf[r])
      BY <1>1, <3>1
    <3> QED
      BY <3>1, <3>2, <3>3
  <2>2. CASE sessions[SessionOf[r]] = NoRequest
    <3>1. sessions'[SessionOf[r]] = r
      BY <1>0, <1>2, <2>2, LoadEffect
    <3>2. req'[r].pc = "ask" /\ req'[r].obj = r
      BY <1>0, <1>2, <3>1, LocalsStep DEF Goes
    <3> QED
      BY <3>1, <3>2
  <2> QED
    BY <2>1, <2>2
<1> HIDE DEF Made
<1>3. \A s \in Sessions : sessions'[s] # NoRequest => Made(sessions'[s], s)
  BY <1>0, <1>1, <1>2, ObjectsStep DEF SessionsAreApart
<1>4. \A r \in Requests : req'[r].pc \in Working => Made(req'[r].obj, SessionOf[r])
  BY <1>0, <1>1, <1>2, ObjectsStep DEF SessionsAreApart
<1>5. \A r \in Requests : req'[r].pc \in SavePcs => Made(req'[r].saved, SessionOf[r])
  BY <1>0, <1>1, ObjectsStep, SessionOfRequests DEF SessionsAreApart
<1>6. \A r \in Requests : req'[r].pc \in {"idle", "enter", "ask", "model"} => ~req'[r].answered
  BY <1>0, Progress DEF SessionsAreApart
<1> QED
  BY <1>3, <1>4, <1>5, <1>6 DEF SessionsAreApart, ObjectOf, Made

\* What was said in a session stays said.
LEMMA SaidGrows ==
    ASSUME ReqInv, [Next]_vars
    PROVE  /\ \A r \in Requests : SaidBy(r) \subseteq SaidBy(r)'
           /\ \A s : Said(s) \subseteq Said(s)'
<1>1. \A r \in Requests : SaidBy(r) \subseteq SaidBy(r)'
  BY Progress DEF SaidBy
<1>2. \A m \in Messages : m[1] \in Requests
  BY DEF Messages
<1> QED
  BY <1>1, <1>2 DEF Said

\* Who changes an object, an image and a file, and what is removed for good.
LEMMA MessagesStep ==
    ASSUME ReqInv, [Next]_vars
    PROVE  /\ \A o \in Requests :
                \/ msgs'[o] = msgs[o]
                \/ ProcessCrash /\ msgs'[o] = {}
                \/ /\ Load(o) /\ sessions[SessionOf[o]] = NoRequest
                   /\ msgs'[o] = IF file[SessionOf[o]].st = "ok" THEN file[SessionOf[o]].msgs ELSE {}
                \/ \E r \in Requests : req[r].obj = o /\ \/ Ask(r) /\ msgs'[o] = msgs[o] \cup {<<r, "user">>}
                                                         \/ Answer(r) /\ msgs'[o] = msgs[o] \cup {<<r, "answer">>}
           /\ \A r \in Requests : \/ req'[r].image = req[r].image
                                  \/ SaveMarshal(r) /\ req'[r].image = msgs[req[r].saved]
           /\ \A s \in Sessions :
                \/ file'[s] = file[s]
                \/ (DeleteFile(s) \/ ReapFile(s)) /\ file'[s] = NoFile
                \/ \E r \in Requests : SaveOpen(r) /\ SessionOf[r] = s /\ file'[s] = Truncated
                \/ \E r \in Requests : /\ SaveWrite(r) /\ SessionOf[r] = s
                                       /\ \/ file'[s].st = "ok" /\ file'[s].msgs = req[r].image
                                          \/ file'[s].st = "torn" /\ file'[s].msgs = file[s].msgs
<1>0. RequestsTypeOK /\ SessionsAreApart
  BY DEF ReqInv
<1>1. ASSUME NEW o \in Requests
      PROVE  \/ msgs'[o] = msgs[o]
             \/ ProcessCrash /\ msgs'[o] = {}
             \/ /\ Load(o) /\ sessions[SessionOf[o]] = NoRequest
                /\ msgs'[o] = IF file[SessionOf[o]].st = "ok" THEN file[SessionOf[o]].msgs ELSE {}
             \/ \E r \in Requests : req[r].obj = o /\ \/ Ask(r) /\ msgs'[o] = msgs[o] \cup {<<r, "user">>}
                                                      \/ Answer(r) /\ msgs'[o] = msgs[o] \cup {<<r, "answer">>}
  <2>1. ASSUME NEW r \in Requests, Load(r)
        PROVE  \/ msgs'[o] = msgs[o]
               \/ /\ Load(o) /\ sessions[SessionOf[o]] = NoRequest
                  /\ msgs'[o] = IF file[SessionOf[o]].st = "ok" THEN file[SessionOf[o]].msgs ELSE {}
    BY <1>0, <2>1, LoadEffect
  <2>2. ASSUME NEW r \in Requests, Ask(r)
        PROVE  msgs'[o] = msgs[o] \/ (req[r].obj = o /\ msgs'[o] = msgs[o] \cup {<<r, "user">>})
    <3>1. AddMessage(req[r].obj, <<r, "user">>) /\ req[r].obj \in Requests /\ <<r, "user">> \in Messages
      BY <1>0, <2>2 DEF Ask, At, SessionsAreApart, ObjectOf, Working, Messages
    <3> QED
      BY <1>0, <3>1, AddEffect
  <2>3. ASSUME NEW r \in Requests, Answer(r)
        PROVE  msgs'[o] = msgs[o] \/ (req[r].obj = o /\ msgs'[o] = msgs[o] \cup {<<r, "answer">>})
    <3>1. AddMessage(req[r].obj, <<r, "answer">>) /\ req[r].obj \in Requests /\ <<r, "answer">> \in Messages
      BY <1>0, <2>3 DEF Answer, At, SessionsAreApart, ObjectOf, Working, Messages
    <3> QED
      BY <1>0, <3>1, AddEffect
  <2>4. CASE ProcessCrash
    BY <2>4 DEF ProcessCrash, StoreCrash
  <2>5. CASE ~(\E r \in Requests : Load(r) \/ Ask(r) \/ Answer(r)) /\ ~ProcessCrash
    <3>1. msgs' = msgs
      BY <2>5
      DEF Next, Serve, vars, storeVars, ghostVars, Arrive, Refuse, AgentFails, Count, IsFirstContact,
          MarkContacted, SaveLookUp, StartCurator, Leave, Curate, Abort, ReapScan,
         SaveMarshal, SaveOpen, SaveWrite, SaveFails, DeleteSession, DeleteFile, ReapFile, ReapForget, Age, StoreAges
    <3> QED
      BY <3>1
  <2> QED
    BY <2>1, <2>2, <2>3, <2>4, <2>5
<1>2. ASSUME NEW r \in Requests
      PROVE  req'[r].image = req[r].image \/ (SaveMarshal(r) /\ req'[r].image = msgs[req[r].saved])
  <2>1. CASE Serve(r)
    BY <1>0, <2>1, LocalsStep DEF Serve, Goes, Others, Curate
  <2>2. ASSUME NEW q \in Requests, Serve(q), q # r PROVE req'[r] = req[r]
    BY <1>0, <2>2, LocalsStep DEF Serve, Goes, Curate
  <2>3. CASE ProcessCrash
    BY <1>0, <2>3 DEF ProcessCrash, RequestsTypeOK, Locals
  <2>4. \/ \E q \in Requests : Serve(q)
        \/ ProcessCrash
        \/ req' = req
    BY DEF Next, vars, Abort, DeleteSession, DeleteFile, ReapFile, ReapScan, ReapForget, Age
  <2> QED
    BY <2>1, <2>2, <2>3, <2>4
<1>3. ASSUME NEW s \in Sessions
      PROVE  \/ file'[s] = file[s]
             \/ (DeleteFile(s) \/ ReapFile(s)) /\ file'[s] = NoFile
             \/ \E r \in Requests : SaveOpen(r) /\ SessionOf[r] = s /\ file'[s] = Truncated
             \/ \E r \in Requests : /\ SaveWrite(r) /\ SessionOf[r] = s
                                    /\ \/ file'[s].st = "ok" /\ file'[s].msgs = req[r].image
                                       \/ file'[s].st = "torn" /\ file'[s].msgs = file[s].msgs
  <2>1. ASSUME NEW r \in Requests, SaveOpen(r)
        PROVE  file'[s] = file[s] \/ (SessionOf[r] = s /\ file'[s] = Truncated)
    BY <1>0, <2>1 DEF SaveOpen, OpenFile, RequestsTypeOK
  <2>2. ASSUME NEW r \in Requests, SaveWrite(r)
        PROVE  \/ file'[s] = file[s]
               \/ /\ SessionOf[r] = s
                  /\ \/ file'[s].st = "ok" /\ file'[s].msgs = req[r].image
                     \/ file'[s].st = "torn" /\ file'[s].msgs = file[s].msgs
    <3>1. req[r].image \in SUBSET Messages /\ WriteFile(SessionOf[r], req[r].image) /\ SessionOf[r] \in Sessions
      BY <1>0, <2>2, SessionOfRequests DEF SaveWrite, RequestsTypeOK, Locals
    <3> QED
      BY <1>0, <3>1, WriteEffect
  <2>3. ASSUME NEW q \in Sessions, DeleteFile(q) \/ ReapFile(q)
        PROVE  file'[s] = file[s] \/ (q = s /\ file'[s] = NoFile)
    BY <1>0, <2>3 DEF DeleteFile, ReapFile, RemoveSession, RequestsTypeOK
  <2>4. CASE ~(\E r \in Requests : SaveOpen(r) \/ SaveWrite(r)) /\ ~(\E q \in Sessions : DeleteFile(q) \/ ReapFile(q))
    <3>1. file' = file
      BY <2>4
      DEF Next, Serve, vars, storeVars, ghostVars, Arrive, Refuse, AgentFails, Count, IsFirstContact,
          MarkContacted, SaveLookUp, StartCurator, Leave, Curate, Abort, ReapScan, Load, GetOrCreate, Ask,
          Answer, AddMessage,
         SaveMarshal, SaveFails, DeleteSession, ReapForget, Age, StoreAges, ProcessCrash, StoreCrash
    <3> QED
      BY <3>1
  <2> QED
    BY <2>1, <2>2, <2>3, <2>4
<1> QED
  BY <1>1, <1>2, <1>3

\* Only a removal that meets no request in the session takes messages away for good.
LEMMA GoneStep ==
    ASSUME ReqInv, [Next]_vars, NEW m \in gone', m \notin gone
    PROVE  \E s \in Sessions : /\ DeleteSession(s) \/ (ReapForget /\ s \in reaper.stale)
                               /\ sessions[s] # NoRequest /\ Touching(s) = {} /\ m \in msgs[sessions[s]]
<1>0. RequestsTypeOK
  BY DEF ReqInv
<1>1. ASSUME NEW s \in Sessions, DeleteSession(s)
      PROVE  sessions[s] # NoRequest /\ Touching(s) = {} /\ m \in msgs[sessions[s]]
  BY <1>1 DEF DeleteSession, Removed
<1>2. ASSUME ReapForget
      PROVE  \E s \in Sessions : /\ s \in reaper.stale
                                 /\ sessions[s] # NoRequest /\ Touching(s) = {} /\ m \in msgs[sessions[s]]
  <2>1. PICK s \in reaper.stale : m \in IF sessions[s] = NoRequest THEN gone ELSE Removed(s)
    BY <1>2 DEF ReapForget
  <2>2. s \in Sessions
    BY <1>0, <2>1 DEF RequestsTypeOK, Reapers
  <2> QED
    BY <2>1, <2>2 DEF Removed
<1>3. CASE ~ReapForget /\ ~(\E s \in Sessions : DeleteSession(s))
  <2>1. gone' \subseteq gone
    BY <1>3
    DEF Next, Serve, vars, storeVars, ghostVars, Arrive, Refuse, AgentFails, Count, IsFirstContact,
        MarkContacted, SaveLookUp, StartCurator, Leave, Curate, Abort, ReapScan, Load, Ask, Answer,
       SaveMarshal, SaveOpen, SaveWrite, SaveFails, DeleteFile, ReapFile, Age, ProcessCrash
  <2> QED
    BY <2>1
<1> QED
  BY <1>1, <1>2, <1>3

\* Every step keeps what objects, images and files hold within what was said.
LEMMA StepSaid ==
    ASSUME ReqInv, [Next]_vars PROVE SaidIsSaid'
<1>0. RequestsTypeOK /\ SessionsAreApart /\ SaidIsSaid
  BY DEF ReqInv
<1>1. ASSUME NEW o \in Requests PROVE msgs'[o] \subseteq Said(SessionOf[o])'
  <2>1. CASE msgs'[o] = msgs[o] \/ msgs'[o] = {} \/ msgs'[o] = file[SessionOf[o]].msgs
    BY <1>0, <2>1, SaidGrows, SessionOfRequests DEF SaidIsSaid
  <2>2. ASSUME NEW r \in Requests, req[r].obj = o, Ask(r), msgs'[o] = msgs[o] \cup {<<r, "user">>}
        PROVE  msgs'[o] \subseteq Said(SessionOf[o])'
    <3>1. SessionOf[r] = SessionOf[o] /\ req'[r].pc = "model" /\ <<r, "user">> \in Messages
      BY <1>0, <2>2, LocalsStep DEF Ask, At, SessionsAreApart, ObjectOf, Working, Goes, Messages
    <3>2. <<r, "user">> \in Said(SessionOf[o])'
      BY <3>1 DEF Said, SaidBy
    <3> QED
      BY <1>0, <2>2, <3>2, SaidGrows DEF SaidIsSaid
  <2>3. ASSUME NEW r \in Requests, req[r].obj = o, Answer(r), msgs'[o] = msgs[o] \cup {<<r, "answer">>}
        PROVE  msgs'[o] \subseteq Said(SessionOf[o])'
    <3>1. SessionOf[r] = SessionOf[o] /\ req'[r].pc = "count" /\ req'[r].answered /\ <<r, "answer">> \in Messages
      BY <1>0, <2>3, LocalsStep, ZenonT(30) DEF Answer, At, SessionsAreApart, ObjectOf, Working, Goes, Messages
    <3>2. <<r, "answer">> \in Said(SessionOf[o])'
      BY <3>1 DEF Said, SaidBy
    <3> QED
      BY <1>0, <2>3, <3>2, SaidGrows DEF SaidIsSaid
  <2> QED
    BY <2>1, <2>2, <2>3, MessagesStep
<1>2. ASSUME NEW r \in Requests PROVE req'[r].image \subseteq Said(SessionOf[r])'
  <2>1. CASE req'[r].image = req[r].image
    BY <1>0, <2>1, SaidGrows DEF SaidIsSaid
  <2>2. CASE SaveMarshal(r) /\ req'[r].image = msgs[req[r].saved]
    <3>1. req[r].saved \in Requests /\ SessionOf[req[r].saved] = SessionOf[r]
      BY <1>0, <2>2 DEF SaveMarshal, At, SessionsAreApart, ObjectOf, SavePcs
    <3> QED
      BY <1>0, <2>2, <3>1, SaidGrows DEF SaidIsSaid
  <2> QED
    BY <2>1, <2>2, MessagesStep
<1>3. ASSUME NEW s \in Sessions PROVE file'[s].msgs \subseteq Said(s)'
  <2>1. \/ file'[s].msgs = file[s].msgs
        \/ file'[s].msgs = {}
        \/ \E r \in Requests : SessionOf[r] = s /\ file'[s].msgs = req[r].image
    BY MessagesStep DEF NoFile, Truncated
  <2> QED
    BY <1>0, <2>1, SaidGrows DEF SaidIsSaid
<1>4. ASSUME NEW m \in gone' PROVE m \in Messages /\ m \in SaidBy(m[1])'
  <2>1. m \in Messages /\ m \in SaidBy(m[1])
    <3>1. CASE m \in gone
      BY <1>0, <3>1 DEF SaidIsSaid
    <3>2. CASE m \notin gone
      <4>1. PICK s \in Sessions : sessions[s] # NoRequest /\ m \in msgs[sessions[s]]
        BY <3>2, GoneStep
      <4>2. sessions[s] \in Requests
        BY <1>0, <4>1 DEF RequestsTypeOK, Objects
      <4> QED
        BY <1>0, <4>1, <4>2 DEF SaidIsSaid, Said
    <3> QED
      BY <3>1, <3>2
  <2>2. m[1] \in Requests
    BY <2>1 DEF Messages
  <2> QED
    BY <2>1, <2>2, SaidGrows
<1> QED
  BY <1>1, <1>2, <1>3, <1>4 DEF SaidIsSaid

\* The invariant of the session store holds initially, and every step keeps it.
LEMMA ReqInit == Init => ReqInv
<1> SUFFICES ASSUME Init PROVE ReqInv
  OBVIOUS
<1>1. RequestsTypeOK
  <2>1. left \in Budgets
    BY RequestWorkloads DEF Init, Budgets
  <2>2. Waiting \in Locals /\ NoFile \in FileStates
    BY DEF Waiting, Locals, Pcs, Objects, NoFile, FileStates
  <2> QED
    BY <2>1, <2>2 DEF Init, StoreInit, RequestsTypeOK, Objects, Reapers
<1>2. SessionsAreApart
  BY DEF Init, StoreInit, Waiting, SessionsAreApart, Working, SavePcs
<1>3. SaidIsSaid
  BY SessionOfRequests DEF Init, StoreInit, Waiting, NoFile, SaidIsSaid
<1> QED
  BY <1>1, <1>2, <1>3 DEF ReqInv

\* Every step keeps what is known of requests, objects, files and images.
LEMMA ReqStep == ReqInv /\ [Next]_vars => ReqInv'
BY StepTypes, StepApart, StepSaid DEF ReqInv

\* Every object, file and image holds only what requests of its session have said, whatever
\* requests, removals, failures and crashes there are (GetOrCreate, Save, loadFromDisk).
THEOREM RequestsInvariant == Spec => []ReqInv
BY ReqInit, ReqStep, PTL DEF Spec

-----------------------------------------------------------------------------
(* chat.abort *)

\* The invariant of the cancel functions is inductive.
LEMMA AbortStep == ReqInv /\ AbortInv /\ [Next]_vars => AbortInv'
<1> SUFFICES ASSUME ReqInv, AbortInv, [Next]_vars, NEW s \in Sessions, activeRequests'[s] # NoRequest
             PROVE  /\ activeRequests'[s] \in GatewayRequests
                    /\ SessionOf[activeRequests'[s]] = s
                    /\ req'[activeRequests'[s]].pc \notin {"idle", "done", "dead"}
  BY RequestWorkloads DEF AbortInv, AbortHitsRunning, InFlight
<1>0. RequestsTypeOK /\ SessionsAreApart /\ activeRequests \in [Sessions -> Objects]
  BY DEF ReqInv, RequestsTypeOK
<1>1. ASSUME NEW r \in Requests, Arrive(r), activeRequests' # activeRequests
      PROVE  /\ activeRequests'[s] \in GatewayRequests
             /\ SessionOf[activeRequests'[s]] = s
             /\ req'[activeRequests'[s]].pc \notin {"idle", "done", "dead"}
  <2>1. r \in GatewayRequests /\ activeRequests' = [activeRequests EXCEPT ![SessionOf[r]] = r]
    BY <1>1 DEF Arrive
  <2>2. req'[r].pc = "enter" /\ \A q \in Requests : q # r => req'[q] = req[q]
    BY <1>0, <1>1, LocalsStep DEF Goes
  <2>3. CASE s = SessionOf[r]
    BY <1>0, <2>1, <2>2, <2>3
  <2>4. CASE s # SessionOf[r]
    BY <1>0, <2>1, <2>2, <2>4 DEF AbortInv, AbortHitsRunning, InFlight
  <2> QED
    BY <2>3, <2>4
<1>2. ASSUME activeRequests'[s] = activeRequests[s],
             \A r \in Requests : req[r].pc \notin {"idle", "done", "dead"} /\ r = activeRequests[s]
                                 => req'[r].pc \notin {"idle", "done", "dead"}
      PROVE  /\ activeRequests'[s] \in GatewayRequests
             /\ SessionOf[activeRequests'[s]] = s
             /\ req'[activeRequests'[s]].pc \notin {"idle", "done", "dead"}
  BY <1>2 DEF AbortInv, AbortHitsRunning, InFlight
<1>3. ASSUME NEW r \in Requests, Serve(r), ~Leave(r), activeRequests' = activeRequests
      PROVE  \A q \in Requests : req[q].pc \notin {"idle", "done", "dead"} => req'[q].pc \notin {"idle", "done", "dead"}
  BY <1>0, <1>3, LocalsStep DEF Serve, Goes, Curate
<1>4. ASSUME NEW r \in Requests, Leave(r)
      PROVE  /\ activeRequests'[s] = activeRequests[s]
             /\ \A q \in Requests : req[q].pc \notin {"idle", "done", "dead"} /\ q = activeRequests[s]
                                    => req'[q].pc \notin {"idle", "done", "dead"}
  <2>1. \A q \in Requests : q # r => req'[q] = req[q]
    BY <1>0, <1>4, LocalsStep DEF Goes
  <2>2. CASE r \in GatewayRequests
    <3>1. activeRequests' = [activeRequests EXCEPT ![SessionOf[r]] = NoRequest]
      BY <1>4, <2>2 DEF Leave, Forgotten
    <3>2. SessionOf[r] # s /\ activeRequests'[s] = activeRequests[s]
      BY <1>0, <3>1
    <3>3. activeRequests[s] # r
      BY <3>2 DEF AbortInv, AbortHitsRunning, InFlight
    <3> QED
      BY <2>1, <3>2, <3>3
  <2>3. CASE r \notin GatewayRequests
    BY <1>4, <2>1, <2>3 DEF Leave, AbortInv
  <2> QED
    BY <2>2, <2>3
<1>5. \/ \E r \in Requests : Arrive(r) /\ activeRequests' # activeRequests
      \/ \E r \in Requests : Leave(r)
      \/ \E r \in Requests : Serve(r) /\ ~Leave(r) /\ activeRequests' = activeRequests
      \/ req' = req /\ (activeRequests' = activeRequests \/ \E q \in Sessions : activeRequests' = [activeRequests EXCEPT ![q] = NoRequest])
  <2>1. ~ProcessCrash
    BY DEF ProcessCrash
  <2>2. ASSUME NEW r \in Requests, Serve(r), ~Leave(r), ~Arrive(r) PROVE activeRequests' = activeRequests
    BY <2>2
    DEF Serve, gateVars, Refuse, Load, Ask, Answer, AgentFails, Count, IsFirstContact, MarkContacted,
        SaveLookUp,
       SaveMarshal, SaveOpen, SaveWrite, SaveFails, StartCurator, Curate
  <2>3. ASSUME NEW q \in Sessions, Abort(q) \/ DeleteSession(q) \/ DeleteFile(q) \/ ReapFile(q)
        PROVE  req' = req /\ (activeRequests' = activeRequests \/ activeRequests' = [activeRequests EXCEPT ![q] = NoRequest])
    BY <2>3 DEF Abort, DeleteSession, DeleteFile, ReapFile, gateVars
  <2>4. CASE ReapScan \/ ReapForget \/ Age \/ UNCHANGED vars
    BY <2>4 DEF ReapScan, ReapForget, Age, vars, gateVars
  <2> QED
    BY <2>1, <2>2, <2>3, <2>4 DEF Next, Serve
<1> QED
  BY <1>0, <1>1, <1>2, <1>3, <1>4, <1>5

\* chat.abort cancels a request of its session that is under way: the cancel function is
\* stored when the request arrives and removed, whosever it is, when a request leaves.
THEOREM AbortHitsRunningHolds == Spec => []AbortHitsRunning
<1>1. Init => AbortInv
  BY DEF Init, AbortInv, AbortHitsRunning
<1>2. AbortInv => AbortHitsRunning
  BY DEF AbortInv
<1> QED
  BY <1>1, <1>2, AbortStep, RequestsInvariant, PTL DEF Spec

-----------------------------------------------------------------------------
(* Delete and the reaper *)

\* A removal ends when the file is removed, or in a crash.
LEMMA RemovalEnds ==
    ASSUME ReqInv, [Next]_vars, NEW s \in Sessions, Removing(s), ~Removing(s)'
    PROVE  DeleteFile(s) \/ ReapFile(s) \/ ProcessCrash
<1>0. RequestsTypeOK /\ deleter \in [Sessions -> {"idle", "remove"}] /\ reaper \in Reapers
  BY DEF ReqInv, RequestsTypeOK
<1>1. ASSUME NEW q \in Sessions, DeleteSession(q) PROVE FALSE
  BY <1>0, <1>1 DEF DeleteSession, Removing
<1>2. ASSUME NEW q \in Sessions, DeleteFile(q), q # s PROVE FALSE
  BY <1>0, <1>2 DEF DeleteFile, Removing
<1>3. ASSUME NEW q \in Sessions, ReapFile(q), q # s PROVE FALSE
  <2>1. deleter' = deleter
    BY <1>3 DEF ReapFile
  <2>2. reaper' = IF reaper.stale = {q} THEN [pc |-> "idle", stale |-> {}] ELSE [reaper EXCEPT !.stale = @ \ {q}]
    BY <1>3 DEF ReapFile
  <2>3. CASE s \in reaper.stale
    <3>1. reaper'.pc = reaper.pc /\ reaper'.stale = reaper.stale \ {q}
      BY <1>0, <1>3, <2>2, <2>3 DEF Reapers
    <3> QED
      BY <1>3, <2>1, <2>3, <3>1 DEF Removing
  <2>4. CASE s \notin reaper.stale
    BY <2>1, <2>4 DEF Removing
  <2> QED
    BY <2>3, <2>4
<1>4. ASSUME ReapScan \/ ReapForget PROVE FALSE
  BY <1>0, <1>4 DEF ReapScan, ReapForget, Removing, Reapers
<1>5. ASSUME NEW r \in Requests, Serve(r) PROVE deleter' = deleter /\ reaper' = reaper
  BY <1>5
  DEF Serve, removeVars, Arrive, Refuse, Load, Ask, Answer, AgentFails, Count, IsFirstContact, MarkContacted,
     SaveLookUp, SaveMarshal, SaveOpen, SaveWrite, SaveFails, StartCurator, Leave, Curate
<1>6. deleter' # deleter \/ reaper' # reaper
  BY DEF Removing
<1>7. ASSUME NEW q \in Sessions, Abort(q) PROVE deleter' = deleter /\ reaper' = reaper
  BY <1>7 DEF Abort, removeVars
<1>8. CASE Age \/ UNCHANGED vars
  BY <1>6, <1>8 DEF Age, vars, removeVars
<1> QED
  BY <1>1, <1>2, <1>3, <1>4, <1>5, <1>6, <1>7, <1>8 DEF Next

\* What waits to be written was marshalled.
LEMMA ImageStep ==
    ASSUME ReqInv, [Next]_vars, NEW r \in Requests, req'[r].pc \in {"write", "writing"}
    PROVE  \/ req[r].pc \in {"write", "writing"} /\ req'[r].image = req[r].image
           \/ SaveMarshal(r) /\ req'[r].image = msgs[req[r].saved]
<1>0. RequestsTypeOK /\ SessionsAreApart
  BY DEF ReqInv
<1>1. CASE Serve(r)
  BY <1>0, <1>1, LocalsStep DEF Serve, Goes, Others, Curate, SaveOpen, At
<1>2. ASSUME NEW q \in Requests, Serve(q), q # r PROVE req'[r] = req[r]
  BY <1>0, <1>2, LocalsStep DEF Serve, Goes, Curate
<1>3. CASE ProcessCrash
  <2>1. req'[r] = req[r] \/ req'[r].pc = "dead"
    BY <1>0, <1>3 DEF ProcessCrash, RequestsTypeOK, Locals
  <2> QED
    BY <2>1
<1>4. \/ \E q \in Requests : Serve(q)
      \/ ProcessCrash
      \/ req' = req
  BY DEF Next, vars, Abort, DeleteSession, DeleteFile, ReapFile, ReapScan, ReapForget, Age
<1> QED
  BY <1>1, <1>2, <1>3, <1>4

\* What a removal takes away for good is nowhere in use.
LEMMA NewlyGone ==
    ASSUME ReqInv, GoneInv, [Next]_vars, NEW m \in gone', m \notin gone
    PROVE  /\ \A s \in Sessions : sessions'[s] # NoRequest => m \notin msgs'[sessions'[s]]
           /\ \A r \in Requests : req'[r].pc \in Working => m \notin msgs'[req'[r].obj]
           /\ \A r \in Requests : req'[r].pc \in SavePcs => m \notin msgs'[req'[r].saved]
           /\ \A r \in Requests : req'[r].pc \in {"write", "writing"} => m \notin req'[r].image
           /\ \A s \in Sessions : ~Removing(s)' => m \notin file'[s].msgs
<1>0. RequestsTypeOK /\ SessionsAreApart /\ SaidIsSaid
  BY DEF ReqInv
<1>1. PICK s0 \in Sessions : /\ DeleteSession(s0) \/ (ReapForget /\ s0 \in reaper.stale)
                             /\ sessions[s0] # NoRequest /\ Touching(s0) = {} /\ m \in msgs[sessions[s0]]
  BY GoneStep
<1>2. SessionOf[m[1]] = s0
  BY <1>0, <1>1 DEF SessionsAreApart, ObjectOf, SaidIsSaid, Said
<1>3. /\ msgs' = msgs /\ file' = file /\ req' = req /\ sessions'[s0] = NoRequest /\ Removing(s0)'
      /\ \A s \in Sessions : sessions'[s] \in {sessions[s], NoRequest}
  <2>1. CASE DeleteSession(s0)
    BY <1>0, <2>1 DEF DeleteSession, Forget, Removing, RequestsTypeOK
  <2>2. CASE ReapForget /\ s0 \in reaper.stale
    BY <1>0, <2>2 DEF ReapForget, Removing, RequestsTypeOK, Reapers
  <2> QED
    BY <1>1, <2>1, <2>2
<1>4. \A o \in Requests : SessionOf[o] # s0 => m \notin msgs[o]
  BY <1>0, <1>2 DEF SaidIsSaid, Said
<1>5. \A r \in Requests : req[r].pc \in Working => SessionOf[r] # s0
  BY <1>1 DEF Touching, InFlight, Working
<1>6. SavePcs \subseteq Working /\ {"write", "writing"} \subseteq Working
  BY DEF SavePcs, Working
<1>7. \A s \in Sessions : sessions'[s] # NoRequest => m \notin msgs'[sessions'[s]]
  BY <1>0, <1>3, <1>4 DEF SessionsAreApart, ObjectOf
<1>8. \A r \in Requests : /\ req'[r].pc \in Working => m \notin msgs'[req'[r].obj]
                          /\ req'[r].pc \in SavePcs => m \notin msgs'[req'[r].saved]
  BY <1>0, <1>3, <1>4, <1>5, <1>6 DEF SessionsAreApart, ObjectOf
<1>9. \A r \in Requests : req'[r].pc \in {"write", "writing"} => m \notin req'[r].image
  BY <1>0, <1>2, <1>3, <1>5, <1>6 DEF SaidIsSaid, Said
<1>10. \A s \in Sessions : ~Removing(s)' => m \notin file'[s].msgs
  BY <1>0, <1>2, <1>3 DEF SaidIsSaid, Said
<1> QED
  BY <1>7, <1>8, <1>9, <1>10

\* What was removed for good before, and still counts as removed, is nowhere in use.
LEMMA StillGone ==
    ASSUME ReqInv, GoneInv, [Next]_vars, NEW m \in gone', m \in gone
    PROVE  /\ \A s \in Sessions : sessions'[s] # NoRequest => m \notin msgs'[sessions'[s]]
           /\ \A r \in Requests : req'[r].pc \in Working => m \notin msgs'[req'[r].obj]
           /\ \A r \in Requests : req'[r].pc \in SavePcs => m \notin msgs'[req'[r].saved]
           /\ \A r \in Requests : req'[r].pc \in {"write", "writing"} => m \notin req'[r].image
           /\ \A s \in Sessions : ~Removing(s)' /\ Loadable(s)' => m \notin file'[s].msgs
<1>0. RequestsTypeOK /\ SessionsAreApart /\ SaidIsSaid
  BY DEF ReqInv
<1>1. ASSUME NEW r \in Requests, Load(r)
      PROVE  m \notin msgs'[sessions'[SessionOf[r]]]
  <2>1. CASE Removing(SessionOf[r])
    BY <1>1, <2>1 DEF Load
  <2>2. CASE ~Removing(SessionOf[r])
    BY <1>0, <1>1, <2>2, LoadEffect, SessionOfRequests DEF GoneInv, Clean, Loadable
  <2> QED
    BY <2>1, <2>2
<1>2. ASSUME NEW o \in Requests, m \in msgs'[o]
      PROVE  m \in msgs[o]
  <2>1. CASE Load(o) /\ sessions[SessionOf[o]] = NoRequest
    BY <1>0, <1>1, <1>2, <2>1, LoadEffect
  <2>2. ASSUME NEW r \in Requests, Ask(r) PROVE m # <<r, "user">>
    BY <1>0, <2>2 DEF SaidIsSaid, SaidBy, Ask, At
  <2>3. ASSUME NEW r \in Requests, Answer(r) PROVE m # <<r, "answer">>
    BY <1>0, <2>3 DEF SaidIsSaid, SaidBy, Answer, At, SessionsAreApart
  <2> QED
    BY <1>2, <2>1, <2>2, <2>3, MessagesStep
<1>3. /\ \A s \in Sessions : sessions[s] # NoRequest => sessions[s] \in Requests /\ m \notin msgs[sessions[s]]
      /\ \A r \in Requests : req[r].pc \in Working => req[r].obj \in Requests /\ m \notin msgs[req[r].obj]
      /\ \A r \in Requests : req[r].pc \in SavePcs => req[r].saved \in Requests /\ m \notin msgs[req[r].saved]
  BY <1>0 DEF GoneInv, Clean, SessionsAreApart, ObjectOf
<1>4. ASSUME NEW s \in Sessions, sessions'[s] # NoRequest PROVE m \notin msgs'[sessions'[s]]
  BY <1>1, <1>2, <1>3, <1>4, ObjectsStep
<1>5. ASSUME NEW r \in Requests, req'[r].pc \in Working PROVE m \notin msgs'[req'[r].obj]
  <2>1. CASE Load(r)
    BY <1>0, <1>1, <2>1, LocalsStep
  <2> QED
    BY <1>2, <1>3, <1>5, <2>1, ObjectsStep
<1>6. ASSUME NEW r \in Requests, req'[r].pc \in SavePcs PROVE m \notin msgs'[req'[r].saved]
  BY <1>2, <1>3, <1>6, ObjectsStep, SessionOfRequests
<1>7. ASSUME NEW r \in Requests, req'[r].pc \in {"write", "writing"} PROVE m \notin req'[r].image
  BY <1>3, <1>7, ImageStep DEF GoneInv, Clean, SaveMarshal, At, SavePcs
<1>8. ASSUME NEW s \in Sessions, ~Removing(s)', Loadable(s)' PROVE m \notin file'[s].msgs
  <2>1. CASE file'[s] = file[s]
    <3>1. CASE ~Removing(s)
      BY <1>8, <2>1, <3>1 DEF GoneInv, Clean, Loadable
    <3>2. CASE ProcessCrash /\ Removing(s)
      BY <2>1, <3>2 DEF ProcessCrash
    <3>3. CASE DeleteFile(s) \/ ReapFile(s)
      BY <1>0, <1>8, <3>3 DEF DeleteFile, ReapFile, RemoveSession, NoFile, Loadable, RequestsTypeOK
    <3> QED
      BY <1>8, <3>1, <3>2, <3>3, RemovalEnds
  <2>2. CASE file'[s] = NoFile \/ file'[s] = Truncated \/ file'[s].st = "torn"
    BY <1>8, <2>2 DEF NoFile, Truncated, Loadable
  <2>3. ASSUME NEW r \in Requests, SaveWrite(r), file'[s].msgs = req[r].image PROVE m \notin file'[s].msgs
    BY <2>3 DEF SaveWrite, At, GoneInv, Clean
  <2> QED
    BY <2>1, <2>2, <2>3, MessagesStep
<1> QED
  BY <1>4, <1>5, <1>6, <1>7, <1>8

\* Once a delete or the reaper is done, what it removed does not come back, neither in
\* memory nor from disk, unless a request was using the session meanwhile (Delete and
\* ReapStaleSessions remove the file after they have left the lock).
THEOREM DeletedStaysGoneHolds == Spec => []DeletedStaysGone
<1>1. Init => GoneInv
  BY DEF Init, StoreInit, GoneInv, Clean
<1>2. ReqInv /\ GoneInv /\ [Next]_vars => GoneInv'
  BY NewlyGone, StillGone DEF GoneInv, Clean
<1>3. GoneInv => DeletedStaysGone
  BY DEF GoneInv, Clean, DeletedStaysGone, Known
<1> QED
  BY <1>1, <1>2, <1>3, RequestsInvariant, PTL DEF Spec

-----------------------------------------------------------------------------
(* Answered turns *)

\* Nobody is excused and then not, and a removal excuses the requests that came before.
LEMMA ExcusedStep ==
    ASSUME ReqInv, TurnInv, [Next]_vars
    PROVE  /\ excused \subseteq excused'
           /\ \A s \in Sessions : DeleteSession(s) \/ DeleteFile(s) \/ ReapFile(s) \/ (ReapForget /\ s \in reaper.stale)
                => \A r \in Requests : SessionOf[r] = s /\ req[r].pc # "idle" => r \in excused'
           /\ reaper'.pc # "idle" => reaper'.stale # {}
<1>0. reaper \in Reapers
  BY DEF ReqInv, RequestsTypeOK
<1>1. ASSUME ReapForget
      PROVE  /\ excused \subseteq excused'
             /\ \A s \in reaper.stale : \A r \in Requests : SessionOf[r] = s /\ req[r].pc # "idle" => r \in excused'
             /\ reaper'.stale # {}
  BY <1>0, <1>1 DEF ReapForget, Interrupted, TurnInv, Reapers
<1>2. ASSUME NEW s \in Sessions, DeleteSession(s) \/ DeleteFile(s) \/ ReapFile(s)
      PROVE  /\ excused \subseteq excused'
             /\ \A r \in Requests : SessionOf[r] = s /\ req[r].pc # "idle" => r \in excused'
  BY <1>2 DEF DeleteSession, DeleteFile, ReapFile, Interrupted
<1>3. ASSUME NEW s \in Sessions, DeleteSession(s) \/ DeleteFile(s) \/ ReapFile(s)
      PROVE  reaper'.pc # "idle" => reaper'.stale # {}
  BY <1>0, <1>3 DEF DeleteSession, DeleteFile, ReapFile, TurnInv, Reapers
<1>4. ASSUME NEW r \in Requests, Serve(r) PROVE excused \subseteq excused' /\ reaper' = reaper
  BY <1>4 DEF Serve, ghostVars, removeVars, Arrive, Refuse, Load, Ask, Answer, AgentFails, Count, IsFirstContact,
     MarkContacted, SaveLookUp, SaveMarshal, SaveOpen, SaveWrite, SaveFails, StartCurator, Leave, Curate
<1>5. ASSUME NEW s \in Sessions, Abort(s) PROVE excused \subseteq excused' /\ reaper' = reaper
  BY <1>5 DEF Abort, ghostVars, removeVars
<1>6. ASSUME ReapScan \/ Age \/ ProcessCrash \/ UNCHANGED vars
      PROVE  excused \subseteq excused' /\ (reaper'.pc # "idle" => reaper'.stale # {})
  BY <1>6 DEF ReapScan, Age, ProcessCrash, vars, ghostVars, removeVars, TurnInv
<1> QED
  BY <1>1, <1>2, <1>3, <1>4, <1>5, <1>6 DEF Next, TurnInv

\* The session of a request that is not excused keeps its object, and that its messages,
\* up to a crash.
LEMMA SessionStays ==
    ASSUME ReqInv, TurnInv, [Next]_vars, ~ProcessCrash,
           NEW r \in Requests, r \notin excused', req[r].pc # "idle"
    PROVE  LET s == SessionOf[r] IN
           /\ sessions[s] # NoRequest => sessions'[s] = sessions[s] /\ msgs[sessions[s]] \subseteq msgs'[sessions[s]]
           /\ sessions[s] = NoRequest /\ sessions'[s] # NoRequest =>
                \E q \in Requests : /\ Load(q) /\ SessionOf[q] = s /\ sessions'[s] = q
                                    /\ msgs'[q] = IF file[s].st = "ok" THEN file[s].msgs ELSE {}
<1> DEFINE s == SessionOf[r]
<1>0. RequestsTypeOK /\ SessionsAreApart /\ s \in Sessions
  BY SessionOfRequests DEF ReqInv
<1>1. ASSUME sessions[s] # NoRequest PROVE sessions'[s] = sessions[s]
  <2>1. CASE \E q \in Requests : Load(q)
    BY <1>0, <1>1, <2>1, LoadEffect
  <2>2. CASE \E q \in Sessions : DeleteSession(q)
    BY <1>0, <2>2, ExcusedStep DEF DeleteSession, Forget, RequestsTypeOK
  <2>3. CASE ReapForget
    BY <1>0, <2>3, ExcusedStep DEF ReapForget, RequestsTypeOK
  <2>4. CASE ~(\E q \in Requests : Load(q)) /\ ~(\E q \in Sessions : DeleteSession(q)) /\ ~ReapForget
    <3>1. sessions' = sessions
      BY <2>4
      DEF Next, Serve, vars, storeVars, Arrive, Refuse, Ask, Answer, AddMessage, AgentFails, Count,
          IsFirstContact,
         MarkContacted, SaveLookUp, SaveMarshal, SaveOpen, SaveWrite, SaveFails, StartCurator, Leave, Curate, Abort,
         DeleteFile, ReapFile, ReapScan, Age, StoreAges
    <3> QED
      BY <3>1
  <2> QED
    BY <2>1, <2>2, <2>3, <2>4
<1>2. ASSUME sessions[s] # NoRequest PROVE msgs[sessions[s]] \subseteq msgs'[sessions[s]]
  <2>1. sessions[s] \in Requests /\ SessionOf[sessions[s]] = s
    BY <1>0, <1>2 DEF SessionsAreApart, ObjectOf
  <2> QED
    BY <1>2, <2>1, MessagesStep
<1>3. ASSUME sessions[s] = NoRequest, sessions'[s] # NoRequest
      PROVE  \E q \in Requests : /\ Load(q) /\ SessionOf[q] = s /\ sessions'[s] = q
                                 /\ msgs'[q] = IF file[s].st = "ok" THEN file[s].msgs ELSE {}
  <2>1. PICK q \in Requests : Load(q) /\ SessionOf[q] = s /\ sessions'[s] = q
    BY <1>0, <1>3, ObjectsStep
  <2> QED
    BY <1>0, <1>3, <2>1, LoadEffect
<1> QED
  BY <1>1, <1>2, <1>3

\* A step is a step of one request, a crash, or leaves the requests alone.
LEMMA WhoSteps ==
    ASSUME ReqInv, [Next]_vars, NEW r \in Requests
    PROVE  \/ Serve(r)
           \/ req'[r] = req[r] /\ ~ProcessCrash
           \/ ProcessCrash /\ \/ req'[r] = req[r] /\ req[r].pc \in {"idle", "done", "dead"}
                              \/ req'[r].pc = "dead"
<1>0. RequestsTypeOK /\ SessionsAreApart
  BY DEF ReqInv
<1>1. ASSUME NEW q \in Requests, Serve(q), q # r PROVE req'[r] = req[r]
  BY <1>0, <1>1, LocalsStep DEF Serve, Goes, Curate
<1>2. ASSUME ProcessCrash
      PROVE  (req'[r] = req[r] /\ req[r].pc \in {"idle", "done", "dead"}) \/ req'[r].pc = "dead"
  BY <1>0, <1>2 DEF ProcessCrash, RequestsTypeOK, Locals, InFlight
<1>3. \/ \E q \in Requests : Serve(q)
      \/ ProcessCrash
      \/ req' = req
  BY DEF Next, vars, Abort, DeleteSession, DeleteFile, ReapFile, ReapScan, ReapForget, Age
<1> QED
  BY <1>1, <1>2, <1>3

\* A request on its way keeps the session's object.
LEMMA StepOnItsWay ==
    ASSUME ReqInv, TurnInv, [Next]_vars, NEW r \in Requests, r \notin excused'
    PROVE  OnItsWay(r)'
<1> DEFINE s == SessionOf[r]
<1>0. RequestsTypeOK /\ SessionsAreApart /\ s \in Sessions /\ SessionsAreApart'
  BY SessionOfRequests, StepApart DEF ReqInv
<1>1. OnItsWay(r)
  BY ExcusedStep DEF TurnInv
<1>2. SUFFICES ASSUME req'[r].pc \in Unsaved
               PROVE  /\ sessions'[s] = req'[r].obj
                      /\ req'[r].pc = "marshal" => req'[r].saved = sessions'[s]
                      /\ req'[r].pc = "model" => <<r, "user">> \in msgs'[req'[r].obj]
                      /\ req'[r].answered => Turn(r) \subseteq msgs'[req'[r].obj]
                      /\ req'[r].answered /\ req'[r].pc \in {"write", "writing"} => Turn(r) \subseteq req'[r].image
  BY DEF OnItsWay
<1>3. CASE ProcessCrash
  <2>1. req'[r].pc \in {"idle", "done", "dead"}
    BY <1>3, WhoSteps DEF ProcessCrash, InFlight
  <2> QED
    BY <1>2, <2>1 DEF Unsaved
<1>4. ASSUME ~ProcessCrash, req[r].pc \in Unsaved
      PROVE  /\ sessions'[s] = req[r].obj /\ req[r].obj = sessions[s] /\ msgs[req[r].obj] \subseteq msgs'[req[r].obj]
             /\ req[r].obj \in Requests /\ sessions[s] # NoRequest
  <2>1. sessions[s] = req[r].obj /\ req[r].obj \in Requests /\ req[r].pc # "idle"
    BY <1>0, <1>1, <1>4 DEF OnItsWay, SessionsAreApart, ObjectOf, Unsaved, Working
  <2> QED
    BY <1>4, <2>1, SessionStays, NoRequestIsNone
<1>5. CASE req'[r] = req[r] /\ ~ProcessCrash
  BY <1>1, <1>2, <1>4, <1>5 DEF OnItsWay
<1>6. CASE Load(r)
  <2>1. req'[r].pc = "ask" /\ req'[r].obj = sessions'[s]
    BY <1>0, <1>6, LocalsStep DEF Goes
  <2> QED
    BY <1>0, <2>1 DEF SessionsAreApart
<1>7. CASE Ask(r) /\ ~ProcessCrash
  <2>1. req[r].pc = "ask" /\ req[r].pc \in Unsaved /\ AddMessage(req[r].obj, <<r, "user">>) /\ <<r, "user">> \in Messages
    BY <1>7 DEF Ask, At, Unsaved, Messages
  <2>2. req'[r].pc = "model" /\ req'[r].obj = req[r].obj
    BY <1>0, <1>7, LocalsStep DEF Goes, Others
  <2>3. <<r, "user">> \in msgs'[req[r].obj]
    BY <1>0, <1>4, <1>7, <2>1, AddEffect
  <2> QED
    BY <1>0, <1>4, <1>7, <2>1, <2>2, <2>3 DEF SessionsAreApart
<1>8. CASE Answer(r) /\ ~ProcessCrash
  <2>1. /\ req[r].pc = "model" /\ req[r].pc \in Unsaved
        /\ AddMessage(req[r].obj, <<r, "answer">>) /\ <<r, "answer">> \in Messages
    BY <1>8 DEF Answer, At, Unsaved, Messages
  <2>2. req'[r].pc = "count" /\ req'[r].obj = req[r].obj
    BY <1>0, <1>8, LocalsStep DEF Goes
  <2>3. <<r, "answer">> \in msgs'[req[r].obj]
    BY <1>0, <1>4, <1>8, <2>1, AddEffect
  <2>4. <<r, "user">> \in msgs[req[r].obj]
    BY <1>1, <2>1 DEF OnItsWay
  <2> QED
    BY <1>4, <1>8, <2>1, <2>2, <2>3, <2>4 DEF Turn
<1>9. CASE SaveMarshal(r) /\ ~ProcessCrash
  <2>1. req[r].pc = "marshal" /\ req[r].pc \in Unsaved
    BY <1>9 DEF SaveMarshal, At, Unsaved
  <2>2. /\ req'[r].pc = "write" /\ req'[r].obj = req[r].obj /\ req'[r].answered = req[r].answered
        /\ req'[r].image = msgs[req[r].saved]
    BY <1>0, <1>9, LocalsStep DEF Goes
  <2>3. req[r].saved = req[r].obj
    BY <1>1, <2>1 DEF OnItsWay
  <2> QED
    BY <1>1, <1>4, <1>9, <2>1, <2>2, <2>3 DEF OnItsWay
<1>10. CASE SaveLookUp(r) /\ ~ProcessCrash
  <2>1. req[r].pc = "save" /\ req[r].pc \in Unsaved
    BY <1>10 DEF SaveLookUp, At, Unsaved
  <2>2. /\ req'[r].pc \in {"curate", "marshal"} /\ req'[r].obj = req[r].obj /\ req'[r].answered = req[r].answered
        /\ req'[r].saved = sessions[s]
    BY <1>0, <1>10, LocalsStep DEF Goes
  <2> QED
    BY <1>1, <1>4, <1>10, <2>1, <2>2 DEF OnItsWay
<1>11. CASE SaveOpen(r) /\ ~ProcessCrash
  <2>1. req[r].pc = "write" /\ req[r].pc \in Unsaved
    BY <1>11 DEF SaveOpen, At, Unsaved
  <2>2. /\ req'[r].pc = "writing" /\ req'[r].obj = req[r].obj /\ req'[r].answered = req[r].answered
        /\ req'[r].image = req[r].image
    BY <1>0, <1>11, LocalsStep DEF Goes, Others
  <2> QED
    BY <1>1, <1>4, <1>11, <2>1, <2>2 DEF OnItsWay
<1>12. CASE (AgentFails(r) \/ Count(r) \/ IsFirstContact(r) \/ MarkContacted(r)) /\ ~ProcessCrash
  <2>1. req[r].pc \in Unsaved
    BY <1>12 DEF AgentFails, Count, IsFirstContact, MarkContacted, At, Unsaved
  <2>2. /\ req'[r].pc \in {"leave", "count", "first", "save", "mark"} /\ req'[r].obj = req[r].obj
        /\ req'[r].answered = req[r].answered
    BY <1>0, <1>12, LocalsStep DEF Goes, Others
  <2> QED
    BY <1>1, <1>4, <1>12, <2>1, <2>2 DEF OnItsWay
<1>13. CASE Arrive(r) \/ Refuse(r) \/ SaveWrite(r) \/ SaveFails(r) \/ StartCurator(r) \/ Leave(r)
  <2>1. req'[r].pc \in {"enter", "leave", "curate", "done"}
    BY <1>0, <1>13, LocalsStep DEF Goes
  <2> QED
    BY <1>2, <2>1 DEF Unsaved
<1>14. Curate(r) => req'[r] = req[r]
  BY DEF Curate
<1> QED
  BY <1>3, <1>5, <1>6, <1>7, <1>8, <1>9, <1>10, <1>11, <1>12, <1>13, <1>14, WhoSteps DEF Serve

\* A request becomes saved by its own write.
LEMMA BecomesSaved ==
    ASSUME ReqInv, TurnInv, [Next]_vars, NEW r \in Requests, r \notin excused',
           req'[r].answered, req'[r].pc \in {"curate", "leave", "done"}
    PROVE  \/ SaveWrite(r) /\ req[r].answered
           \/ req[r].answered /\ req[r].pc \in {"curate", "leave", "done"}
<1>0. RequestsTypeOK /\ SessionsAreApart
  BY DEF ReqInv
<1>1. OnItsWay(r)
  BY ExcusedStep DEF TurnInv
<1>2. ~SaveFails(r)
  BY DEF SaveFails
<1>3. SaveLookUp(r) => req'[r].pc = "marshal"
  <2>1. SaveLookUp(r) => sessions[SessionOf[r]] \in Requests
    BY <1>0, <1>1 DEF SaveLookUp, At, OnItsWay, Unsaved, SessionsAreApart, ObjectOf, Working
  <2> QED
    BY <1>0, <2>1, LocalsStep, NoRequestIsNone DEF Goes
<1>4. CASE Refuse(r) \/ AgentFails(r)
  <2>1. ~req'[r].answered
    BY <1>0, <1>4, LocalsStep DEF Goes, Others, Refuse, AgentFails, At, SessionsAreApart
  <2> QED
    BY <2>1
<1>5. CASE \/ Arrive(r) \/ Load(r) \/ Ask(r) \/ Answer(r) \/ Count(r) \/ IsFirstContact(r) \/ MarkContacted(r)
           \/ SaveMarshal(r) \/ SaveOpen(r)
  BY <1>0, <1>5, LocalsStep DEF Goes
<1>6. CASE SaveWrite(r) \/ StartCurator(r) \/ Leave(r) \/ Curate(r)
  BY <1>0, <1>6, LocalsStep DEF Goes, Others, StartCurator, Leave, Curate, At
<1> QED
  BY <1>2, <1>3, <1>4, <1>5, <1>6, WhoSteps DEF Serve

\* What a saved request left in memory, in images and in the file stays there.
LEMMA StepKept ==
    ASSUME ReqInv, TurnInv, [Next]_vars, NEW r \in Requests, r \notin excused'
    PROVE  Kept(r)'
<1> DEFINE s == SessionOf[r]
<1>0. RequestsTypeOK /\ SessionsAreApart /\ s \in Sessions
  BY SessionOfRequests DEF ReqInv
<1>1. OnItsWay(r) /\ Kept(r) /\ r \notin excused
  BY ExcusedStep DEF TurnInv
<1>2. SUFFICES ASSUME req'[r].answered, req'[r].pc \in {"curate", "leave", "done"}
               PROVE  /\ sessions'[s] # NoRequest => Turn(r) \subseteq msgs'[sessions'[s]]
                      /\ \A q \in Saving(s)' : Turn(r) \subseteq req'[q].image
                      /\ file'[s].st = "torn" \/ (file'[s].st = "ok" /\ Turn(r) \subseteq file'[s].msgs)
                      /\ sessions'[s] = NoRequest =>
                           /\ file'[s].st = "ok"
                           /\ \A q \in Requests : SessionOf[q] = s => req'[q].pc \notin Working
  BY DEF Kept
<1>3. ASSUME NEW q \in Saving(s)'
      PROVE  /\ q \in Requests /\ SessionOf[q] = s
             /\ \/ q \in Saving(s) /\ req'[q].image = req[q].image
                \/ SaveMarshal(q) /\ req'[q].image = msgs[req[q].saved]
  BY <1>3, ImageStep DEF Saving, InFlight
<1>4. CASE SaveWrite(r) /\ req[r].answered
  <2>1. /\ req[r].pc = "writing" /\ sessions[s] = req[r].obj /\ req[r].obj \in Requests
        /\ Turn(r) \subseteq msgs[req[r].obj] /\ Turn(r) \subseteq req[r].image
    BY <1>0, <1>1, <1>4 DEF SaveWrite, At, OnItsWay, Unsaved, SessionsAreApart, ObjectOf, Working
  <2>2. sessions' = sessions /\ msgs' = msgs
    BY <1>4 DEF SaveWrite
  <2>3. ASSUME NEW q \in Saving(s)' PROVE FALSE
    <3>1. r \in Saving(s)
      BY <2>1 DEF Saving, InFlight
    <3>2. q # r
      BY <1>2, <2>3 DEF Saving
    <3>3. q \in Saving(s)
      <4>1. req'[q] = req[q]
        BY <1>0, <1>3, <1>4, <3>2, LocalsStep DEF Goes
      <4> QED
        BY <1>3, <2>3, <4>1 DEF Saving, InFlight
    <3> QED
      BY <1>0, <1>1, <3>1, <3>2, <3>3 DEF TurnInv
  <2>4. file'[s].st = "torn" \/ (file'[s].st = "ok" /\ Turn(r) \subseteq file'[s].msgs)
    <3>1. req[r].image \in SUBSET Messages /\ WriteFile(s, req[r].image)
      BY <1>0, <1>4 DEF SaveWrite, RequestsTypeOK, Locals
    <3> QED
      BY <1>0, <2>1, <3>1, WriteEffect
  <2> QED
    BY <2>1, <2>2, <2>3, <2>4, NoRequestIsNone
<1>5. CASE req[r].answered /\ req[r].pc \in {"curate", "leave", "done"}
  <2>1. /\ sessions[s] # NoRequest => Turn(r) \subseteq msgs[sessions[s]]
        /\ \A q \in Saving(s) : Turn(r) \subseteq req[q].image
        /\ file[s].st = "torn" \/ (file[s].st = "ok" /\ Turn(r) \subseteq file[s].msgs)
        /\ sessions[s] = NoRequest =>
             /\ file[s].st = "ok"
             /\ \A q \in Requests : SessionOf[q] = s => req[q].pc \notin Working
    BY <1>1, <1>5 DEF Kept
  <2>2. CASE ProcessCrash
    <3>1. sessions'[s] = NoRequest /\ file' = file /\ (file[s].st = "torn" => r \in excused')
      BY <1>0, <2>2 DEF ProcessCrash, StoreCrash
    <3>2. \A q \in Requests : req'[q].pc \in {"idle", "done", "dead"}
      BY <2>2, WhoSteps DEF ProcessCrash, InFlight
    <3>3. Saving(s)' = {} /\ \A q \in Requests : req'[q].pc \notin Working
      BY <3>2 DEF Saving, InFlight, Working
    <3> QED
      BY <2>1, <3>1, <3>3
  <2>3. CASE ~ProcessCrash
    <3>1. sessions'[s] # NoRequest => Turn(r) \subseteq msgs'[sessions'[s]]
      BY <1>0, <1>5, <2>1, <2>3, SessionStays
    <3>2. ASSUME NEW q \in Saving(s)' PROVE Turn(r) \subseteq req'[q].image
      <4>1. CASE q \in Saving(s) /\ req'[q].image = req[q].image
        BY <2>1, <4>1
      <4>2. CASE SaveMarshal(q) /\ req'[q].image = msgs[req[q].saved]
        <5>1. req[q].saved = sessions[s]
          BY <1>3, <4>2 DEF SaveMarshal
        <5>2. req[q].saved \in Requests
          BY <1>0, <1>3, <4>2 DEF SaveMarshal, At, SessionsAreApart, ObjectOf, SavePcs
        <5> QED
          BY <2>1, <4>2, <5>1, <5>2, NoRequestIsNone
      <4> QED
        BY <1>3, <4>1, <4>2
    <3>3. file'[s].st = "torn" \/ (file'[s].st = "ok" /\ Turn(r) \subseteq file'[s].msgs)
      <4>1. ~DeleteFile(s) /\ ~ReapFile(s)
        BY <1>0, <1>5, ExcusedStep
      <4>2. ASSUME NEW q \in Requests, SaveWrite(q), SessionOf[q] = s PROVE Turn(r) \subseteq req[q].image
        BY <2>1, <4>2 DEF SaveWrite, At, Saving, InFlight
      <4> QED
        BY <1>0, <2>1, <4>1, <4>2, MessagesStep DEF Truncated
    <3>4. ASSUME sessions'[s] = NoRequest
          PROVE  file'[s].st = "ok" /\ \A q \in Requests : SessionOf[q] = s => req'[q].pc \notin Working
      <4>1. sessions[s] = NoRequest
        BY <1>0, <1>5, <2>3, <3>4, SessionStays
      <4>2. ASSUME NEW q \in Requests, SessionOf[q] = s PROVE ~SaveOpen(q) /\ ~SaveWrite(q)
        BY <2>1, <4>1, <4>2 DEF SaveOpen, SaveWrite, At, Working
      <4>3. ~DeleteFile(s) /\ ~ReapFile(s)
        BY <1>0, <1>5, ExcusedStep
      <4>4. file'[s] = file[s]
        BY <1>0, <4>2, <4>3, MessagesStep
      <4>5. ASSUME NEW q \in Requests, SessionOf[q] = s PROVE req'[q].pc \notin Working
        <5>1. Load(q) => sessions'[s] \in Requests
          BY <1>0, <4>5, LocalsStep
        <5> QED
          BY <2>1, <3>4, <4>1, <4>5, <5>1, ObjectsStep, NoRequestIsNone
      <4> QED
        BY <2>1, <4>1, <4>4, <4>5
    <3> QED
      BY <3>1, <3>2, <3>3, <3>4
  <2> QED
    BY <2>2, <2>3
<1> QED
  BY <1>2, <1>4, <1>5, BecomesSaved

\* The invariant of the turns is inductive.
LEMMA TurnStep == ReqInv /\ TurnInv /\ [Next]_vars => TurnInv'
<1> SUFFICES ASSUME ReqInv, TurnInv, [Next]_vars PROVE TurnInv'
  OBVIOUS
<1>0. RequestsTypeOK /\ SessionsAreApart
  BY DEF ReqInv
<1>1. ASSUME NEW s \in Sessions, NEW r \in Saving(s)', NEW q \in Saving(s)', r # q,
             NEW x \in Requests, SessionOf[x] = s
      PROVE  x \in excused'
  <2>1. r \in Requests /\ q \in Requests /\ SessionOf[r] = s /\ SessionOf[q] = s
    BY DEF Saving, InFlight
  <2>2. (r \in Saving(s) \/ SaveMarshal(r)) /\ (q \in Saving(s) \/ SaveMarshal(q))
    BY <2>1, ImageStep DEF Saving, InFlight
  <2>3. CASE r \in Saving(s) /\ q \in Saving(s)
    BY <1>1, <2>3, ExcusedStep DEF TurnInv
  <2>4. ASSUME NEW a \in Requests, NEW b \in Requests, a # b, SaveMarshal(a), SessionOf[a] = s, b \in Saving(s)'
        PROVE  x \in excused'
    <3>1. req'[b] = req[b]
      BY <1>0, <2>4, LocalsStep DEF Goes
    <3>2. b \in Saving(s)
      BY <2>4, <3>1 DEF Saving, InFlight
    <3> QED
      BY <1>1, <2>4, <3>2 DEF SaveMarshal
  <2> QED
    BY <1>1, <2>1, <2>2, <2>3, <2>4
<1>2. \A r \in Requests : r \notin excused' => OnItsWay(r)' /\ Kept(r)'
  BY StepOnItsWay, StepKept
<1> QED
  BY <1>1, <1>2, ExcusedStep DEF TurnInv

\* A turn that was answered is found by every later request, also after a restart, unless
\* the session was removed, saves of it overlapped, a write failed or a crash tore the file.
THEOREM TurnsAreKeptHolds == Spec => []TurnsAreKept
<1>1. Init => TurnInv
  BY DEF Init, StoreInit, Waiting, TurnInv, OnItsWay, Kept, Unsaved, Saving, InFlight
<1>2. ASSUME ReqInv, TurnInv PROVE TurnsAreKept
  <2> SUFFICES ASSUME NEW r \in Requests, At(r, "done"), req[r].answered, r \notin excused
               PROVE  Turn(r) \subseteq Known(SessionOf[r])
    <3>1. \A r \in Requests : {r} \X {"user", "answer"} \subseteq Turn(r)
      BY DEF Turn
    <3> QED
      BY <3>1 DEF TurnsAreKept
  <2>1. Kept(r) /\ req[r].pc = "done"
    BY <1>2 DEF TurnInv, At
  <2> QED
    BY <2>1 DEF Kept, Known, Loadable
<1> QED
  BY <1>1, <1>2, TurnStep, RequestsInvariant, PTL DEF Spec

-----------------------------------------------------------------------------
(* The welcome *)

\* How the cardinality of a finite set follows the tokens it gains and loses.
LEMMA Counting ==
    ASSUME NEW S, NEW T, IsFiniteSet(S)
    PROVE  /\ Cardinality(S) \in Nat
           /\ T \subseteq S => Cardinality(T) \in Nat /\ Cardinality(T) <= Cardinality(S)
           /\ \A x : T \subseteq S \cup {x} => Cardinality(T) \in Nat /\ Cardinality(T) <= Cardinality(S) + 1
           /\ \A x \in S : T \subseteq S \ {x} => Cardinality(T) \in Nat /\ Cardinality(T) + 1 <= Cardinality(S)
           /\ \A x \in S : \A y : T \subseteq (S \ {x}) \cup {y} => Cardinality(T) \in Nat /\ Cardinality(T) <= Cardinality(S)
<1>1. Cardinality(S) \in Nat
  BY FS_CardinalityType
<1>2. T \subseteq S => Cardinality(T) \in Nat /\ Cardinality(T) <= Cardinality(S)
  BY FS_Subset, FS_CardinalityType
<1>3. ASSUME NEW x, NEW R, IsFiniteSet(R), T \subseteq R \cup {x}
      PROVE  Cardinality(T) \in Nat /\ Cardinality(T) <= Cardinality(R) + 1
  <2>1. IsFiniteSet(R \cup {x}) /\ Cardinality(R \cup {x}) \in Nat /\ Cardinality(R) \in Nat
    BY <1>3, FS_AddElement, FS_CardinalityType
  <2>2. Cardinality(R \cup {x}) = Cardinality(R) \/ Cardinality(R \cup {x}) = Cardinality(R) + 1
    BY <1>3, FS_AddElement
  <2>3. Cardinality(T) \in Nat /\ Cardinality(T) <= Cardinality(R \cup {x})
    BY <1>3, <2>1, FS_Subset, FS_CardinalityType
  <2> QED
    BY <2>1, <2>2, <2>3
<1>4. ASSUME NEW x \in S
      PROVE  IsFiniteSet(S \ {x}) /\ Cardinality(S \ {x}) = Cardinality(S) - 1 /\ Cardinality(S \ {x}) \in Nat
  BY <1>1, <1>4, FS_RemoveElement, FS_CardinalityType
<1>5. ASSUME NEW x \in S, T \subseteq S \ {x} PROVE Cardinality(T) \in Nat /\ Cardinality(T) + 1 <= Cardinality(S)
  <2>1. Cardinality(T) \in Nat /\ Cardinality(T) <= Cardinality(S \ {x})
    BY <1>4, <1>5, FS_Subset, FS_CardinalityType
  <2>2. Cardinality(S \ {x}) = Cardinality(S) - 1
    BY <1>4, <1>5
  <2> QED
    BY <1>1, <2>1, <2>2
<1>6. ASSUME NEW x \in S, NEW y, T \subseteq (S \ {x}) \cup {y}
      PROVE  Cardinality(T) \in Nat /\ Cardinality(T) <= Cardinality(S)
  <2>1. Cardinality(T) \in Nat /\ Cardinality(T) <= Cardinality(S \ {x}) + 1
    BY <1>3, <1>4, <1>6
  <2>2. Cardinality(S \ {x}) = Cardinality(S) - 1
    BY <1>4, <1>6
  <2> QED
    BY <1>1, <2>1, <2>2
<1> QED
  BY <1>1, <1>2, <1>3, <1>5, <1>6

\* Tokens are finitely many.
LEMMA TokensFinite == ASSUME NEW s PROVE IsFiniteSet(Tokens(s))
<1>1. Tokens(s) \subseteq {"greeting", "hope"} \X Requests
  BY DEF Tokens, Greeting, Hopes
<1>2. IsFiniteSet({"greeting", "hope"})
  <2>1. IsFiniteSet({"greeting"} \cup {"hope"})
    BY FS_Singleton, FS_AddElement
  <2>2. {"greeting"} \cup {"hope"} = {"greeting", "hope"}
    OBVIOUS
  <2> QED
    BY <2>1, <2>2
<1>3. IsFiniteSet({"greeting", "hope"} \X Requests)
  BY <1>2, FS_Product, SessionOfRequests
<1> QED
  BY <1>1, <1>3, FS_Subset

\* A session that has two messages, both of one turn, has no other.
LEMMA TwoMessages ==
    ASSUME NEW r \in Requests, NEW ms \in SUBSET Messages, Turn(r) \subseteq ms, Cardinality(ms) = 2
    PROVE  ms = Turn(r)
<1>1. IsFiniteSet(Messages)
  <2>1. IsFiniteSet({"user"} \cup {"answer"}) /\ {"user"} \cup {"answer"} = {"user", "answer"}
    BY FS_Singleton, FS_AddElement
  <2> QED
    BY <2>1, FS_Product, SessionOfRequests DEF Messages
<1>2. IsFiniteSet(ms)
  BY <1>1, FS_Subset
<1>3. Cardinality(Turn(r)) = 2
  <2>1. IsFiniteSet({<<r, "user">>}) /\ Cardinality({<<r, "user">>}) = 1
    BY FS_Singleton
  <2>2. <<r, "answer">> \notin {<<r, "user">>}
    OBVIOUS
  <2>3. Cardinality({<<r, "user">>} \cup {<<r, "answer">>}) = 2
    <3> DEFINE A == {<<r, "user">>}
               x == <<r, "answer">>
    <3>1. IsFiniteSet(A) /\ Cardinality(A) = 1 /\ x \notin A
      BY <2>1, <2>2
    <3> HIDE DEF A, x
    <3>2. Cardinality(A \cup {x}) = Cardinality(A) + 1
      BY <3>1, FS_AddElement
    <3>3. Cardinality(A \cup {x}) = 2
      BY <3>1, <3>2
    <3> QED
      BY <3>3 DEF A, x
  <2>4. Turn(r) = {<<r, "user">>} \cup {<<r, "answer">>}
    BY DEF Turn
  <2> QED
    BY <2>3, <2>4
<1> QED
  BY <1>2, <1>3, FS_Subset

\* An object in use keeps its messages, up to a crash.
LEMMA ObjectGrows ==
    ASSUME ReqInv, [Next]_vars, ~ProcessCrash, NEW o \in Requests, req[o].pc \notin {"idle", "enter"}
    PROVE  msgs[o] \subseteq msgs'[o]
<1>1. ~Load(o)
  BY DEF Load, At
<1> QED
  BY <1>1, MessagesStep

\* A request that waits for the model has added its message, one that counts has added both.
LEMMA StepAdded ==
    ASSUME ReqInv, AddedInv, [Next]_vars, ~left.offline
    PROVE  AddedInv'
<1>0. RequestsTypeOK /\ SessionsAreApart /\ left'.offline = left.offline
  BY BudgetStep DEF ReqInv, RequestsTypeOK
<1> SUFFICES ASSUME NEW r \in Requests
             PROVE  /\ req'[r].pc = "model" => <<r, "user">> \in msgs'[req'[r].obj]
                    /\ req'[r].pc = "count" => Turn(r) \subseteq msgs'[req'[r].obj]
  BY DEF AddedInv
<1>1. req[r].pc \in Working => req[r].obj \in Requests /\ (~ProcessCrash => msgs[req[r].obj] \subseteq msgs'[req[r].obj])
  BY <1>0, ObjectGrows DEF SessionsAreApart, ObjectOf
<1>2. CASE req'[r] = req[r] /\ ~ProcessCrash
  BY <1>0, <1>1, <1>2 DEF AddedInv, Working
<1>3. CASE ProcessCrash
  <2>1. req'[r].pc \in {"idle", "done", "dead"}
    BY <1>3, WhoSteps DEF ProcessCrash, InFlight
  <2> QED
    BY <2>1
<1>4. CASE Ask(r)
  <2>1. AddMessage(req[r].obj, <<r, "user">>) /\ <<r, "user">> \in Messages /\ req[r].obj \in Requests
    BY <1>1, <1>4 DEF Ask, At, Working, Messages
  <2>2. req'[r].pc = "model" /\ req'[r].obj = req[r].obj
    BY <1>0, <1>4, LocalsStep DEF Goes, Others
  <2> QED
    BY <1>0, <2>1, <2>2, AddEffect
<1>5. CASE Answer(r)
  <2>1. /\ AddMessage(req[r].obj, <<r, "answer">>) /\ <<r, "answer">> \in Messages /\ req[r].obj \in Requests
        /\ <<r, "user">> \in msgs[req[r].obj]
    BY <1>1, <1>5 DEF Answer, At, Working, Messages, AddedInv
  <2>2. req'[r].pc = "count" /\ req'[r].obj = req[r].obj
    BY <1>0, <1>5, LocalsStep DEF Goes
  <2> QED
    BY <1>0, <2>1, <2>2, AddEffect DEF Turn
<1>6. ASSUME Serve(r), ~Ask(r), ~Answer(r), ~Curate(r) PROVE req'[r].pc \notin {"model", "count"}
  BY <1>0, <1>6, LocalsStep DEF Serve, Goes
<1>7. Curate(r) => req'[r] = req[r]
  BY DEF Curate
<1> QED
  BY <1>2, <1>3, <1>4, <1>5, <1>6, <1>7, WhoSteps

\* Only a session that begins empty gives hope of a first contact.
LEMMA HopesStep ==
    ASSUME ReqInv, AddedInv, [Next]_vars, ~left.offline, NEW o \in Requests, Awaits(o)'
    PROVE  Awaits(o) \/ (Load(o) /\ sessions[SessionOf[o]] = NoRequest /\ msgs'[o] = {})
<1>0. RequestsTypeOK /\ SessionsAreApart /\ SaidIsSaid
  BY DEF ReqInv
<1>1. ~ProcessCrash
  <2> SUFFICES ASSUME ProcessCrash PROVE FALSE
    OBVIOUS
  <2>1. \A r \in Requests : req'[r].pc \in {"idle", "done", "dead"}
    BY WhoSteps DEF ProcessCrash, InFlight
  <2>2. sessions'[SessionOf[o]] = NoRequest
    BY SessionOfRequests DEF ProcessCrash, StoreCrash
  <2> QED
    BY <2>1, <2>2, NoRequestIsNone DEF Awaits
<1>2. ASSUME msgs'[o] = {}, ~Load(o) \/ sessions[SessionOf[o]] # NoRequest PROVE msgs[o] = {}
  BY <1>1, <1>2, MessagesStep
<1>3. ASSUME sessions'[SessionOf[o]] = o, ~Load(o) \/ sessions[SessionOf[o]] # NoRequest
      PROVE  sessions[SessionOf[o]] = o
  <2>1. CASE \E r \in Requests : Load(r)
    BY <1>0, <1>3, <2>1, LoadEffect, SessionOfRequests
  <2> QED
    BY <1>3, <2>1, ObjectsStep, NoRequestIsNone, SessionOfRequests
<1>4. CASE msgs'[o] = {} /\ sessions'[SessionOf[o]] = o
  BY <1>2, <1>3, <1>4 DEF Awaits
<1>5. ASSUME NEW r \in Requests, msgs'[o] = {}, req'[r].pc = "ask", req'[r].obj = o
      PROVE  Awaits(o) \/ (Load(o) /\ sessions[SessionOf[o]] = NoRequest)
  <2>1. CASE Load(r)
    <3>1. sessions'[SessionOf[r]] = o
      BY <1>0, <1>5, <2>1, LocalsStep
    <3>2. SessionOf[o] = SessionOf[r]
      BY <1>0, <1>5, <2>1, <3>1, LoadEffect DEF SessionsAreApart, ObjectOf
    <3> QED
      BY <1>4, <1>5, <3>1, <3>2
  <2>2. CASE ~Load(r)
    <3>1. req[r] = req'[r]
      <4>1. ASSUME Serve(r), ~Curate(r) PROVE FALSE
        BY <1>0, <1>5, <2>2, <4>1, LocalsStep DEF Serve, Goes
      <4> QED
        BY <1>1, <4>1, WhoSteps DEF Curate
    <3> QED
      BY <1>2, <1>5, <3>1 DEF Awaits
  <2> QED
    BY <2>1, <2>2
<1>6. ASSUME NEW r \in Requests, req'[r].pc \in {"model", "count"}, req'[r].obj = o, msgs'[o] \subseteq Turn(r)
      PROVE  Awaits(o)
  <2>1. req[r].pc \in Working /\ req[r].obj = o /\ msgs[o] \subseteq Turn(r)
    <3>1. ~Load(r)
      BY <1>0, <1>6, LocalsStep DEF Goes
    <3>2. req[r].pc \in Working /\ req[r].obj = o
      BY <1>6, <3>1, ObjectsStep DEF Working
    <3>3. msgs[o] \subseteq msgs'[o]
      BY <1>0, <1>1, <3>2, ObjectGrows DEF SessionsAreApart, ObjectOf
    <3> QED
      BY <1>6, <3>2, <3>3
  <2>2. CASE req[r].pc \in {"model", "count"}
    BY <2>1, <2>2 DEF Awaits
  <2>3. CASE req[r].pc = "ask"
    <3>1. \A m \in msgs[o] : m \in SaidBy(m[1])
      BY <1>0 DEF SaidIsSaid, Said
    <3>2. \A m \in Turn(r) : m \notin SaidBy(m[1])
      BY <1>0, <2>3 DEF Turn, SaidBy, SessionsAreApart
    <3>3. msgs[o] = {}
      BY <2>1, <3>1, <3>2
    <3> QED
      BY <2>1, <2>3, <3>3 DEF Awaits
  <2>4. req[r].pc \in {"ask", "model", "count"}
    <3>1. ASSUME Serve(r), ~Curate(r) PROVE req[r].pc \in {"ask", "model", "count"}
      <4>1. Ask(r) \/ Answer(r) \/ AgentFails(r)
        BY <1>0, <1>6, <3>1, LocalsStep DEF Serve, Goes
      <4> QED
        BY <4>1 DEF Ask, Answer, AgentFails, At
    <3> QED
      BY <1>1, <1>6, <3>1, WhoSteps DEF Curate
  <2> QED
    BY <2>2, <2>3, <2>4
<1>7. CASE \E r \in Requests : req'[r].pc = "ask" /\ req'[r].obj = o /\ msgs'[o] = {}
  BY <1>5, <1>7
<1> QED
  BY <1>4, <1>6, <1>7 DEF Awaits

\* Only a request that counts two messages is on its way to a welcome.
LEMMA GreetingStep ==
    ASSUME ReqInv, [Next]_vars, NEW r \in Requests, req'[r].pc \in {"first", "mark"}
    PROVE  (Count(r) /\ Newcomer(r)) \/ (req[r].pc \in {"first", "mark"} /\ ~MarkContacted(r))
<1>0. RequestsTypeOK /\ SessionsAreApart
  BY DEF ReqInv
<1>1. ASSUME Serve(r), ~Curate(r)
      PROVE  (Count(r) /\ Newcomer(r)) \/ (req[r].pc \in {"first", "mark"} /\ ~MarkContacted(r))
  <2>1. (Count(r) /\ Newcomer(r)) \/ IsFirstContact(r)
    BY <1>0, <1>1, LocalsStep DEF Serve, Goes
  <2> QED
    BY <2>1 DEF IsFirstContact, MarkContacted, At
<1>2. MarkContacted(r) => req'[r].pc = "save"
  BY <1>0, LocalsStep DEF Goes
<1> QED
  BY <1>1, <1>2, WhoSteps DEF Curate

\* Who changes the counters.
LEMMA CountersStep ==
    ASSUME ReqInv, [Next]_vars, NEW s \in Sessions
    PROVE  /\ births'[s] \in Nat /\ births'[s] >= births[s]
           /\ \A o \in Requests : Load(o) /\ sessions[s] = NoRequest /\ SessionOf[o] = s /\ msgs'[o] = {} => births'[s] = births[s] + 1
           /\ \/ welcomes'[s] = welcomes[s]
              \/ \E r \in Requests : MarkContacted(r) /\ SessionOf[r] = s /\ welcomes'[s] = welcomes[s] + 1
<1>0. RequestsTypeOK /\ births \in [Sessions -> Nat] /\ welcomes \in [Sessions -> Nat]
  BY DEF ReqInv, RequestsTypeOK
<1>1. ASSUME NEW o \in Requests, Load(o)
      PROVE  /\ births'[s] \in Nat /\ births'[s] >= births[s] /\ welcomes' = welcomes
             /\ sessions[s] = NoRequest /\ SessionOf[o] = s /\ msgs'[o] = {} => births'[s] = births[s] + 1
  <2>1. welcomes' = welcomes /\ births' \in [Sessions -> Nat]
    BY <1>0, <1>1, LoadEffect DEF Load
  <2>2. births'[s] = births[s] \/ births'[s] = births[s] + 1
    BY <1>0, <1>1, SessionOfRequests DEF Load
  <2>3. sessions[s] = NoRequest /\ SessionOf[o] = s /\ msgs'[o] = {} => births'[s] = births[s] + 1
    BY <1>0, <1>1, LoadEffect
  <2> QED
    BY <1>0, <2>1, <2>2, <2>3
<1>2. ASSUME NEW r \in Requests, MarkContacted(r)
      PROVE  births' = births /\ (welcomes'[s] = welcomes[s] \/ (SessionOf[r] = s /\ welcomes'[s] = welcomes[s] + 1))
  BY <1>0, <1>2 DEF MarkContacted
<1>3. CASE ~(\E r \in Requests : Load(r) \/ MarkContacted(r))
  <2>1. births' = births /\ welcomes' = welcomes
    BY <1>3 DEF Next, Serve, vars, greetVars, Arrive, Refuse, Ask, Answer, AgentFails, Count, IsFirstContact,
       SaveLookUp, SaveMarshal, SaveOpen, SaveWrite, SaveFails, StartCurator, Leave, Curate, Abort,
       DeleteSession, DeleteFile, ReapFile, ReapScan, ReapForget, Age, ProcessCrash
  <2> QED
    BY <1>0, <1>3, <2>1
<1>4. ASSUME NEW r \in Requests, MarkContacted(r), NEW o \in Requests, Load(o) PROVE FALSE
  <2>1. req'[r].pc = "save" /\ req'[o].pc = "ask" /\ \A q \in Requests : q # r => req'[q] = req[q]
    BY <1>0, <1>4, LocalsStep DEF Goes, ReqInv
  <2> QED
    BY <1>4, <2>1 DEF Load, MarkContacted, At
<1> QED
  BY <1>0, <1>1, <1>2, <1>3, <1>4

\* The invariant of the welcome is inductive: a token is gained only with a birth, moved
\* when a newcomer is counted, and spent with a welcome.
LEMMA WelcomeStep == ReqInv /\ WelcomeInv /\ [Next]_vars => WelcomeInv'
<1>0. SUFFICES ASSUME ReqInv, AddedInv, [Next]_vars, ~left.offline, NEW s \in Sessions,
                      welcomes[s] + Cardinality(Tokens(s)) <= births[s]
               PROVE  welcomes'[s] + Cardinality(Tokens(s)') <= births'[s]
  <2>1. ASSUME ReqInv PROVE left \in Budgets
    BY <2>1 DEF ReqInv, RequestsTypeOK
  <2> QED
    BY <2>1, StepAdded, BudgetStep DEF WelcomeInv
<1>1. /\ RequestsTypeOK /\ SessionsAreApart /\ welcomes[s] \in Nat /\ births[s] \in Nat
      /\ Cardinality(Tokens(s)) \in Nat /\ IsFiniteSet(Tokens(s))
  BY <1>0, TokensFinite, Counting DEF ReqInv, RequestsTypeOK
<1>2. \A r \in Requests : /\ <<"greeting", r>> \in Tokens(s) <=> SessionOf[r] = s /\ req[r].pc \in {"first", "mark"}
                          /\ <<"hope", r>> \in Tokens(s) <=> SessionOf[r] = s /\ Awaits(r)
  BY DEF Tokens, Greeting, Hopes
<1>3. \A r \in Requests : /\ <<"greeting", r>> \in Tokens(s)' <=> SessionOf[r] = s /\ req'[r].pc \in {"first", "mark"}
                          /\ <<"hope", r>> \in Tokens(s)' <=> SessionOf[r] = s /\ Awaits(r)'
  BY DEF Tokens, Greeting, Hopes
<1>4. \A x \in Tokens(s)' : \E r \in Requests : x = <<"greeting", r>> \/ x = <<"hope", r>>
  BY DEF Tokens, Greeting, Hopes
<1>5. CASE \E r \in Requests : Count(r) /\ Newcomer(r) /\ SessionOf[r] = s
  <2>1. PICK r \in Requests : Count(r) /\ Newcomer(r) /\ SessionOf[r] = s
    BY <1>5
  <2>0. PICK o \in Requests : o = req[r].obj /\ SessionOf[o] = s
    BY <1>1, <2>1 DEF Count, At, SessionsAreApart, ObjectOf, Working
  <2>2. /\ req[r].pc = "count"
        /\ Turn(r) \subseteq msgs[o] /\ Cardinality(msgs[o]) = 2 /\ msgs[o] \in SUBSET Messages
    BY <1>0, <1>1, <2>0, <2>1 DEF Count, At, Newcomer, AddedInv, RequestsTypeOK
  <2>3. msgs[o] = Turn(r)
    BY <2>2, TwoMessages
  <2>4. <<"hope", o>> \in Tokens(s)
    <3>1. Awaits(o)
      BY <2>0, <2>2, <2>3 DEF Awaits
    <3> QED
      BY <1>2, <2>0, <3>1
  <2>5. req'[r].pc = "first" /\ \A q \in Requests : q # r => req'[q] = req[q]
    BY <1>1, <2>1, LocalsStep DEF Goes
  <2>6. msgs' = msgs /\ welcomes' = welcomes /\ births' = births
    BY <2>1 DEF Count, storeVars, greetVars
  <2>7. ~Awaits(o)'
    <3>1. \A q \in Requests : msgs'[o] \subseteq Turn(q) => q = r
      <4>1. <<r, "user">> \in msgs'[o]
        BY <2>3, <2>6 DEF Turn
      <4>2. \A q \in Requests : <<r, "user">> \in Turn(q) => q = r
        BY DEF Turn
      <4> QED
        BY <4>1, <4>2
    <3>2. msgs'[o] # {}
      BY <2>3, <2>6 DEF Turn
    <3> QED
      BY <2>5, <3>1, <3>2 DEF Awaits
  <2>8. ASSUME NEW q \in Requests PROVE ~Load(q) /\ (Count(q) => q = r)
    <3>1. Load(q) => req'[q].pc = "ask"
      BY <1>1, LocalsStep DEF Goes
    <3>2. Count(q) => req'[q].pc # "count"
      BY <1>1, LocalsStep DEF Goes
    <3> QED
      BY <2>5, <3>1, <3>2 DEF Load, Count, At
  <2>9. Tokens(s)' \subseteq (Tokens(s) \ {<<"hope", o>>}) \cup {<<"greeting", r>>}
    <3> SUFFICES ASSUME NEW x \in Tokens(s)', x # <<"greeting", r>> PROVE x \in Tokens(s) /\ x # <<"hope", o>>
      OBVIOUS
    <3>1. PICK q \in Requests : x = <<"greeting", q>> \/ x = <<"hope", q>>
      BY <1>4
    <3>2. CASE x = <<"greeting", q>>
      BY <1>0, <1>2, <1>3, <2>8, <3>2, GreetingStep
    <3>3. CASE x = <<"hope", q>>
      BY <1>0, <1>2, <1>3, <2>7, <2>8, <3>3, HopesStep
    <3> QED
      BY <3>1, <3>2, <3>3
  <2>10. Cardinality(Tokens(s)') \in Nat /\ Cardinality(Tokens(s)') <= Cardinality(Tokens(s))
    <3> DEFINE S == Tokens(s)
               T == Tokens(s)'
               x == <<"hope", o>>
               y == <<"greeting", r>>
    <3>1. IsFiniteSet(S) /\ x \in S /\ T \subseteq (S \ {x}) \cup {y}
      BY <1>1, <2>4, <2>9
    <3> HIDE DEF S, T, x, y
    <3>2. Cardinality(T) \in Nat /\ Cardinality(T) <= Cardinality(S)
      BY <3>1, Counting
    <3> QED
      BY <3>2 DEF S, T
  <2> QED
    BY <1>0, <1>1, <2>6, <2>10
<1>6. CASE ~(\E r \in Requests : Count(r) /\ Newcomer(r) /\ SessionOf[r] = s)
  <2>1. ASSUME NEW r \in Requests, <<"greeting", r>> \in Tokens(s)'
        PROVE  <<"greeting", r>> \in Tokens(s) /\ ~MarkContacted(r)
    BY <1>0, <1>2, <1>3, <1>6, <2>1, GreetingStep
  <2>2. ASSUME NEW o \in Requests, <<"hope", o>> \in Tokens(s)', <<"hope", o>> \notin Tokens(s)
        PROVE  Load(o) /\ SessionOf[o] = s /\ sessions[s] = NoRequest /\ msgs'[o] = {}
    BY <1>0, <1>2, <1>3, <2>2, HopesStep
  <2>3. ASSUME NEW r \in Requests, MarkContacted(r), NEW q \in Requests PROVE ~Load(q)
    <3>1. Load(q) => req'[q].pc = "ask" /\ \A x \in Requests : x # q => req'[x] = req[x]
      BY <1>1, LocalsStep DEF Goes
    <3>2. req[r].pc = "mark" /\ req'[r].pc = "save"
      BY <1>1, <2>3, LocalsStep DEF Goes, MarkContacted, At
    <3> QED
      BY <3>1, <3>2 DEF Load, At
  <2>4. CASE \E r \in Requests : MarkContacted(r) /\ SessionOf[r] = s
    <3>1. PICK r \in Requests : MarkContacted(r) /\ SessionOf[r] = s
      BY <2>4
    <3> DEFINE x == <<"greeting", r>>
    <3>2. x \in Tokens(s)
      BY <1>2, <3>1 DEF MarkContacted, At
    <3>3. Tokens(s)' \subseteq Tokens(s) \ {x}
      BY <1>4, <2>1, <2>2, <2>3, <3>1
    <3>4. Cardinality(Tokens(s)') \in Nat /\ Cardinality(Tokens(s)') + 1 <= Cardinality(Tokens(s))
      BY <1>1, <3>2, <3>3, Counting
    <3>5. welcomes'[s] = welcomes[s] + 1 /\ births'[s] = births[s]
      BY <1>1, <3>1 DEF MarkContacted, RequestsTypeOK
    <3> QED
      BY <1>0, <1>1, <3>4, <3>5
  <2>5. CASE ~(\E r \in Requests : MarkContacted(r) /\ SessionOf[r] = s)
    <3>1. welcomes'[s] = welcomes[s] /\ births'[s] \in Nat /\ births'[s] >= births[s]
      BY <1>0, <2>5, CountersStep
    <3>2. CASE Tokens(s)' \subseteq Tokens(s)
      <4>1. Cardinality(Tokens(s)') \in Nat /\ Cardinality(Tokens(s)') <= Cardinality(Tokens(s))
        BY <1>1, <3>2, Counting
      <4> QED
        BY <1>0, <1>1, <3>1, <4>1
    <3>3. ASSUME NEW o \in Requests, <<"hope", o>> \in Tokens(s)', <<"hope", o>> \notin Tokens(s)
          PROVE  welcomes'[s] + Cardinality(Tokens(s)') <= births'[s]
      <4>1. Load(o) /\ SessionOf[o] = s /\ sessions[s] = NoRequest /\ msgs'[o] = {}
        BY <2>2, <3>3
      <4>2. births'[s] = births[s] + 1
        BY <1>0, <4>1, CountersStep
      <4>3. \A q \in Requests : Load(q) => q = o
        <5>1. \A q \in Requests : Load(q) => sessions'[s] = q \/ SessionOf[q] # s
          BY <1>1, <4>1, LoadEffect
        <5>2. \A q \in Requests : Load(q) /\ SessionOf[q] # s => sessions'[s] = sessions[s]
          BY <1>1, LoadEffect
        <5> QED
          BY <1>1, <4>1, <5>1, <5>2, LoadEffect, NoRequestIsNone
      <4>4. Tokens(s)' \subseteq Tokens(s) \cup {<<"hope", o>>}
        BY <1>4, <2>1, <2>2, <4>3
      <4>5. Cardinality(Tokens(s)') \in Nat /\ Cardinality(Tokens(s)') <= Cardinality(Tokens(s)) + 1
        BY <1>1, <4>4, Counting
      <4> QED
        BY <1>0, <1>1, <3>1, <4>2, <4>5
    <3>4. Tokens(s)' \subseteq Tokens(s) \/ \E o \in Requests : <<"hope", o>> \in Tokens(s)' /\ <<"hope", o>> \notin Tokens(s)
      BY <1>4, <2>1
    <3> QED
      BY <3>2, <3>3, <3>4
  <2> QED
    BY <2>4, <2>5
<1> QED
  BY <1>5, <1>6

\* What the program knows of a user survives: an answered turn is found by every later
\* request, and a user is welcomed at most once for every time the session began empty,
\* although the count, IsFirstContact and MarkContacted are separate steps.
THEOREM RememberedHolds == Spec => []Remembered
<1>1. Init => WelcomeInv
  <2> SUFFICES ASSUME Init PROVE WelcomeInv
    OBVIOUS
  <2>1. AddedInv
    BY DEF Init, Waiting, AddedInv
  <2>2. ASSUME NEW s \in Sessions PROVE Tokens(s) = {}
    BY SessionOfRequests, NoRequestIsNone DEF Init, StoreInit, Waiting, Tokens, Greeting, Hopes, Awaits
  <2>3. ASSUME NEW s \in Sessions PROVE welcomes[s] + Cardinality(Tokens(s)) <= births[s]
    <3>1. Cardinality(Tokens(s)) = 0
      BY <2>2, FS_EmptySet
    <3>2. welcomes[s] = 0 /\ births[s] = 0
      BY DEF Init
    <3> QED
      BY <3>1, <3>2
  <2> QED
    BY <2>1, <2>3 DEF WelcomeInv
<1>2. ReqInv /\ WelcomeInv => WelcomeOnce
  <2> SUFFICES ASSUME ReqInv, WelcomeInv, ~left.offline, NEW s \in Sessions PROVE welcomes[s] <= births[s]
    BY DEF WelcomeOnce
  <2>1. /\ welcomes[s] \in Nat /\ births[s] \in Nat /\ Cardinality(Tokens(s)) \in Nat
        /\ welcomes[s] + Cardinality(Tokens(s)) <= births[s]
    BY TokensFinite, Counting DEF ReqInv, RequestsTypeOK, WelcomeInv
  <2> QED
    BY <2>1
<1>3. Spec => []WelcomeOnce
  BY <1>1, <1>2, WelcomeStep, RequestsInvariant, PTL DEF Spec
<1> QED
  BY <1>3, TurnsAreKeptHolds, PTL DEF Remembered


-----------------------------------------------------------------------------
(* The calls of the gateway *)

\* What a call does once its payload was read, and all its steps.
Serving == {"handle", "run", "insert", "dirs", "read", "write", "drop"}
RpcPcs == {"idle", "guard", "log", "respond"} \cup Serving

\* The rows of tenants.
Rows == [name : {"old", "new"}, plan : {"free", "paid"}]

\* The locals of a call, as a record.
IsRpc(r) == r = [pc |-> r.pc, token |-> r.token, m |-> r.m, given |-> r.given, tenant |-> r.tenant, field |-> r.field,
                 row |-> r.row, event |-> r.event, told |-> r.told]

\* The step belongs to the method.
PcFits(pc, name, row) ==
    /\ pc \in {"insert", "dirs"} => name = "tenant.create"
    /\ pc \in {"read", "write"} => name = "tenant.update"
    /\ pc = "drop" => name = "tenant.delete"
    /\ pc = "write" => row \in Rows

\* The method and the tenant belong to the step.
Routed(r) ==
    /\ r.tenant \in TenantIds \cup {"none"}
    /\ r.pc # "idle" => r.m \in AllMethods
    /\ r.pc # "idle" /\ r.m.part = "tenants" => r.tenant \in TenantIds
    /\ r.pc # "idle" /\ r.m.name = "tenant.update" => r.field \in {"name", "plan"}
    /\ PcFits(r.pc, r.m.name, r.row)

\* Past its guard, a call is served when its roles allow it and refused when they do not.
May(r) == Authorize(EffectiveRoles(r.token), r.m.perm)
\* What a call was told by its step, when its roles allow the method or not.
GuardFits(pc, told, may) ==
    /\ pc \in {"guard"} \cup Serving => told = "nothing"
    /\ pc \in Serving => may
    /\ pc \in {"log", "respond"} => IF told = "forbidden" THEN ~may ELSE may \/ told = "no such method"
Guarded(r) == gwSetup.rbac => GuardFits(r.pc, r.told, May(r))

\* What every call is at each of its steps.
CallFits(r) == IsRpc(r) /\ r.pc \in RpcPcs /\ Routed(r) /\ Guarded(r)

\* The calls.
CallsInv == /\ gwSetup \in GwSetups
            /\ DOMAIN rpc = RpcCalls
            /\ \A c \in RpcCalls : CallFits(rpc[c])

\* What was seen.
Seen == [made : SUBSET TenantIds, said : SUBSET (TenantIds \X {"name", "plan"}), stale : SUBSET TenantIds,
         logged : Seq(Nat), spoiled : SUBSET Nat, swallowed : SUBSET Nat]

\* The tenants: who makes one holds the lock from its row to its directories.
TenantsInv ==
    /\ tenantRow \in [TenantIds -> Rows \cup {NoTenant}]
    /\ gwSeen \in Seen
    /\ \A c \in RpcCalls : RpcAt(c, "dirs") => tenantLock = c /\ tenantRow[rpc[c].tenant] # NoTenant
    /\ TenantsAreTrue

\* Lines of the log, and the events that they are for.
Lines == [event : Nat, parses : BOOLEAN, ended : BOOLEAN]
Events == [kind : {"denied", "gdpr", "create", "delete"}, tenant : TenantIds \cup {"none"}, day : Nat]

\* Every event is logged at most once, by the call that has it.
EventsInv ==
    /\ auditEvents \in Seq(Events)
    /\ \A k \in DOMAIN gwSeen.logged : gwSeen.logged[k] \in DOMAIN auditEvents
    /\ \A j, k \in DOMAIN gwSeen.logged : gwSeen.logged[j] = gwSeen.logged[k] => j = k
    /\ \A c \in RpcCalls : RpcAt(c, "log") => /\ rpc[c].event \in DOMAIN auditEvents
                                             /\ \A k \in DOMAIN gwSeen.logged : gwSeen.logged[k] # rpc[c].event
    /\ \A c, d \in RpcCalls : RpcAt(c, "log") /\ RpcAt(d, "log") /\ rpc[c].event = rpc[d].event => c = d

\* The lines that are not whole are those of spoiled events.
FileInv ==
    /\ gwDay \in Nat
    /\ auditFile \in Seq(Lines)
    /\ \A i \in DOMAIN auditFile : (auditFile[i].parses /\ auditFile[i].ended) \/ auditFile[i].event \in gwSeen.spoiled
    /\ TrailIsKept

\* What the bounds may be; the failures and crashes so far, and the line without its end
\* that will swallow the next event.
Bounds == [tokens : SUBSET DOMAIN TokenRoles, methods : SUBSET STRING, calls : Nat, days : Nat,
           cleanups : Nat, faults : Nat, crashes : Nat]
Met == (gwSetup.bounds.faults - gwLeft.faults) + (gwSetup.bounds.crashes - gwLeft.crashes)
Tears == IF Torn THEN 1 ELSE 0

\* Every event that was swallowed, or will be, has its failure or its crash.
TearsInv ==
    /\ gwLeft \in Bounds
    /\ IsFiniteSet(gwSeen.swallowed)
    /\ Cardinality(gwSeen.swallowed) + Tears <= Met

-----------------------------------------------------------------------------
(* Methods and permissions *)

\* Methods of one part have one permission.
LEMMA MethodsAre ==
  ASSUME NEW part, NEW perm, NEW list, NEW m \in Methods(part, perm, list)
  PROVE  m.perm = perm /\ m.part = part /\ \E x \in list : m.name = x[1]
  BY DEF Methods

\* Every permission a method asks for is one that admins have.
LEMMA PermissionsAre == ASSUME NEW m \in AllMethods PROVE m.perm \in AdminPermissions
  <1>1. CASE m \in coreMethods
    BY <1>1, MethodsAre DEF coreMethods, AdminPermissions, OperatorPermissions
  <1>2. CASE m \in cronMethods
    BY <1>2, MethodsAre DEF cronMethods, AdminPermissions, OperatorPermissions
  <1>3. CASE m \in processMethods
    BY <1>3, MethodsAre DEF processMethods, AdminPermissions, OperatorPermissions
  <1>4. CASE m \in nodeMethods
    BY <1>4, MethodsAre DEF nodeMethods, AdminPermissions, OperatorPermissions
  <1>5. CASE m \in tenantMethods
    BY <1>5, MethodsAre DEF tenantMethods, AdminPermissions, OperatorPermissions
  <1>6. CASE m \in gdprMethods
    BY <1>6, MethodsAre DEF gdprMethods, AdminPermissions, OperatorPermissions
  <1>7. CASE m \in otherMethods
    BY <1>7, MethodsAre DEF otherMethods, AdminPermissions, OperatorPermissions
  <1> QED
    BY <1>1, <1>2, <1>3, <1>4, <1>5, <1>6, <1>7 DEF AllMethods

\* Only the methods of tenants have their names.
LEMMA TenantMethodsAre ==
  ASSUME NEW m \in AllMethods, m.name \in {"tenant.create", "tenant.update", "tenant.delete"}
  PROVE  m.part = "tenants"
  <1>1. CASE m \in coreMethods
    BY <1>1, MethodsAre DEF coreMethods
  <1>2. CASE m \in cronMethods
    BY <1>2, MethodsAre DEF cronMethods
  <1>3. CASE m \in processMethods
    BY <1>3, MethodsAre DEF processMethods
  <1>4. CASE m \in nodeMethods
    BY <1>4, MethodsAre DEF nodeMethods
  <1>5. CASE m \in tenantMethods
    BY <1>5, MethodsAre DEF tenantMethods
  <1>6. CASE m \in gdprMethods
    BY <1>6, MethodsAre DEF gdprMethods
  <1>7. CASE m \in otherMethods
    BY <1>7, MethodsAre DEF otherMethods
  <1> QED
    BY <1>1, <1>2, <1>3, <1>4, <1>5, <1>6, <1>7 DEF AllMethods

\* The lowest role that has a permission.
LEMMA LowestIs ==
  ASSUME NEW perm \in AdminPermissions
  PROVE  /\ LowestFor(perm) \in Roles /\ perm \in RolePermissions[LowestFor(perm)]
         /\ \A q \in Roles : perm \in RolePermissions[q] => Rank[LowestFor(perm)] <= Rank[q]
  <1> DEFINE Low(r) == perm \in RolePermissions[r] /\ \A q \in Roles : perm \in RolePermissions[q] => Rank[r] <= Rank[q]
  <1>1. \E r \in Roles : Low(r)
    <2>1. ASSUME perm \in ViewerPermissions PROVE Low("viewer")
      BY <2>1 DEF RolePermissions, Roles, Rank
    <2>2. ASSUME perm \notin ViewerPermissions, perm \in UserPermissions PROVE Low("user")
      BY <2>2 DEF RolePermissions, Roles, Rank
    <2>3. ASSUME perm \notin ViewerPermissions, perm \notin UserPermissions, perm \in OperatorPermissions
          PROVE  Low("operator")
      BY <2>3 DEF RolePermissions, Roles, Rank
    <2>4. ASSUME perm \notin ViewerPermissions, perm \notin UserPermissions, perm \notin OperatorPermissions
          PROVE  Low("admin")
      BY <2>4 DEF RolePermissions, Roles, Rank
    <2>5. {"viewer", "user", "operator", "admin"} \subseteq Roles
      BY DEF Roles
    <2> HIDE DEF Low
    <2> QED
      BY <2>1, <2>2, <2>3, <2>4, <2>5
  <1> QED
    BY <1>1 DEF LowestFor

\* A higher role has the permissions of a lower one.
LEMMA HigherHasMore ==
  ASSUME NEW r \in Roles, NEW q \in Roles, Rank[r] >= Rank[q], NEW perm \in RolePermissions[q]
  PROVE  perm \in RolePermissions[r]
  BY DEF Roles, Rank, RolePermissions, ViewerPermissions, UserPermissions, OperatorPermissions, AdminPermissions

\* Authorize decides by the rank of the roles.
LEMMA AuthorizeIsByRank ==
  ASSUME NEW m \in AllMethods, NEW k
  PROVE  Authorize(EffectiveRoles(k), m.perm) <=> \E r \in EffectiveRoles(k) : Rank[r] >= Rank[LowestFor(m.perm)]
  <1>1. EffectiveRoles(k) \subseteq Roles
    BY DEF EffectiveRoles, Roles
  <1>2. m.perm \in AdminPermissions
    BY PermissionsAre
  <1>3. \A r \in Roles : Rank[r] \in Nat
    BY DEF Roles, Rank
  <1>4. ASSUME NEW r \in EffectiveRoles(k)
        PROVE  m.perm \in RolePermissions[r] <=> Rank[r] >= Rank[LowestFor(m.perm)]
    BY <1>1, <1>2, <1>3, LowestIs, HigherHasMore
  <1> QED
    BY <1>4 DEF Authorize

\* What the invariant says of the guard.
LEMMA GuardFollows == ASSUME CallsInv PROVE GuardIsExact
  <1> SUFFICES ASSUME gwSetup.rbac, NEW c \in RpcCalls, rpc[c].pc \notin {"idle", "guard"},
                      rpc[c].told # "no such method"
               PROVE  (\E r \in EffectiveRoles(rpc[c].token) : Rank[r] >= Rank[LowestFor(rpc[c].m.perm)]) <=> rpc[c].told # "forbidden"
    BY DEF GuardIsExact
  <1>1. CallFits(rpc[c])
    BY DEF CallsInv
  <1>2. rpc[c].m \in AllMethods
    BY <1>1 DEF CallFits, Routed
  <1>3. rpc[c].pc \in Serving \/ rpc[c].pc \in {"log", "respond"}
    BY <1>1 DEF CallFits, RpcPcs
  <1>4. Authorize(EffectiveRoles(rpc[c].token), rpc[c].m.perm) <=> rpc[c].told # "forbidden"
    BY <1>1, <1>3 DEF CallFits, Guarded, GuardFits, May
  <1> QED
    BY <1>2, <1>4, AuthorizeIsByRank

-----------------------------------------------------------------------------
(* Calls *)

\* One call goes on to a step, with what it keeps.
Hops(c, pc, row, event, told) ==
    /\ DOMAIN rpc' = RpcCalls
    /\ \A d \in RpcCalls \ {c} : rpc'[d] = rpc[d]
    /\ rpc'[c] = [pc |-> pc, token |-> rpc[c].token, m |-> rpc[c].m, given |-> rpc[c].given, tenant |-> rpc[c].tenant,
                  field |-> rpc[c].field, row |-> row, event |-> event, told |-> told]

\* One field of the record changes.
LEMMA FieldChanges ==
  ASSUME NEW a, NEW b, NEW d, NEW e, NEW f, NEW g, NEW h, NEW i, NEW j, NEW q, NEW v,
         q = [pc |-> a, token |-> b, m |-> d, given |-> e, tenant |-> f, field |-> g, row |-> h, event |-> i, told |-> j]
  PROVE  /\ [q EXCEPT !.pc = v] = [pc |-> v, token |-> b, m |-> d, given |-> e, tenant |-> f, field |-> g, row |-> h, event |-> i, told |-> j]
         /\ [q EXCEPT !.row = v] = [pc |-> a, token |-> b, m |-> d, given |-> e, tenant |-> f, field |-> g, row |-> v, event |-> i, told |-> j]
         /\ [q EXCEPT !.event = v] = [pc |-> a, token |-> b, m |-> d, given |-> e, tenant |-> f, field |-> g, row |-> h, event |-> v, told |-> j]
         /\ [q EXCEPT !.told = v] = [pc |-> a, token |-> b, m |-> d, given |-> e, tenant |-> f, field |-> g, row |-> h, event |-> i, told |-> v]
  OBVIOUS

\* A call moves on.
LEMMA RpcMoves ==
  ASSUME NEW r, IsRpc(r), NEW pc, NEW s, s = [r EXCEPT !.pc = pc]
  PROVE  s = [pc |-> pc, token |-> r.token, m |-> r.m, given |-> r.given, tenant |-> r.tenant,
               field |-> r.field, row |-> r.row, event |-> r.event, told |-> r.told]
  <1>1. PICK a, b, d, e, f, g, h, i, j : /\ a = r.pc /\ b = r.token /\ d = r.m /\ e = r.given /\ f = r.tenant
                                        /\ g = r.field /\ h = r.row /\ i = r.event /\ j = r.told
    OBVIOUS
  <1>2. r = [pc |-> a, token |-> b, m |-> d, given |-> e, tenant |-> f, field |-> g, row |-> h, event |-> i, told |-> j]
    BY <1>1 DEF IsRpc
  <1>3. s = [pc |-> pc, token |-> b, m |-> d, given |-> e, tenant |-> f, field |-> g, row |-> h, event |-> i, told |-> j]
    BY <1>2, FieldChanges
  <1> QED
    BY <1>1, <1>3

\* A call is answered.
LEMMA RpcAnswers ==
  ASSUME NEW r, IsRpc(r), NEW told, NEW s, s = [r EXCEPT !.pc = "respond", !.told = told]
  PROVE  s = [pc |-> "respond", token |-> r.token, m |-> r.m, given |-> r.given, tenant |-> r.tenant,
               field |-> r.field, row |-> r.row, event |-> r.event, told |-> told]
  <1>1. PICK a, b, d, e, f, g, h, i, j : /\ a = r.pc /\ b = r.token /\ d = r.m /\ e = r.given /\ f = r.tenant
                                        /\ g = r.field /\ h = r.row /\ i = r.event /\ j = r.told
    OBVIOUS
  <1>2. r = [pc |-> a, token |-> b, m |-> d, given |-> e, tenant |-> f, field |-> g, row |-> h, event |-> i, told |-> j]
    BY <1>1 DEF IsRpc
  <1>3. PICK p : p = [r EXCEPT !.pc = "respond"]
    OBVIOUS
  <1>4. p = [pc |-> "respond", token |-> b, m |-> d, given |-> e, tenant |-> f, field |-> g, row |-> h, event |-> i, told |-> j]
    BY <1>2, <1>3, FieldChanges
  <1>5. s = [p EXCEPT !.told = told]
    BY <1>3
  <1>6. s = [pc |-> "respond", token |-> b, m |-> d, given |-> e, tenant |-> f, field |-> g, row |-> h, event |-> i, told |-> told]
    BY <1>4, <1>5, FieldChanges
  <1> QED
    BY <1>1, <1>6

\* A call has an event to log.
LEMMA RpcLogs ==
  ASSUME NEW r, IsRpc(r), NEW event, NEW told, NEW s, s = [r EXCEPT !.pc = "log", !.event = event, !.told = told]
  PROVE  s = [pc |-> "log", token |-> r.token, m |-> r.m, given |-> r.given, tenant |-> r.tenant,
               field |-> r.field, row |-> r.row, event |-> event, told |-> told]
  <1>1. PICK a, b, d, e, f, g, h, i, j : /\ a = r.pc /\ b = r.token /\ d = r.m /\ e = r.given /\ f = r.tenant
                                        /\ g = r.field /\ h = r.row /\ i = r.event /\ j = r.told
    OBVIOUS
  <1>2. r = [pc |-> a, token |-> b, m |-> d, given |-> e, tenant |-> f, field |-> g, row |-> h, event |-> i, told |-> j]
    BY <1>1 DEF IsRpc
  <1>3. PICK p : p = [r EXCEPT !.pc = "log"]
    OBVIOUS
  <1>4. p = [pc |-> "log", token |-> b, m |-> d, given |-> e, tenant |-> f, field |-> g, row |-> h, event |-> i, told |-> j]
    BY <1>2, <1>3, FieldChanges
  <1>5. PICK o : o = [p EXCEPT !.event = event]
    OBVIOUS
  <1>6. o = [pc |-> "log", token |-> b, m |-> d, given |-> e, tenant |-> f, field |-> g, row |-> h, event |-> event, told |-> j]
    BY <1>4, <1>5, FieldChanges
  <1>7. s = [o EXCEPT !.told = told]
    BY <1>3, <1>5
  <1>8. s = [pc |-> "log", token |-> b, m |-> d, given |-> e, tenant |-> f, field |-> g, row |-> h, event |-> event, told |-> told]
    BY <1>6, <1>7, FieldChanges
  <1> QED
    BY <1>1, <1>8

\* A call has read a row.
LEMMA RpcReads ==
  ASSUME NEW r, IsRpc(r), NEW row, NEW s, s = [r EXCEPT !.row = row, !.pc = "write"]
  PROVE  s = [pc |-> "write", token |-> r.token, m |-> r.m, given |-> r.given, tenant |-> r.tenant,
               field |-> r.field, row |-> row, event |-> r.event, told |-> r.told]
  <1>1. PICK a, b, d, e, f, g, h, i, j : /\ a = r.pc /\ b = r.token /\ d = r.m /\ e = r.given /\ f = r.tenant
                                        /\ g = r.field /\ h = r.row /\ i = r.event /\ j = r.told
    OBVIOUS
  <1>2. r = [pc |-> a, token |-> b, m |-> d, given |-> e, tenant |-> f, field |-> g, row |-> h, event |-> i, told |-> j]
    BY <1>1 DEF IsRpc
  <1>3. PICK p : p = [r EXCEPT !.row = row]
    OBVIOUS
  <1>4. p = [pc |-> a, token |-> b, m |-> d, given |-> e, tenant |-> f, field |-> g, row |-> row, event |-> i, told |-> j]
    BY <1>2, <1>3, FieldChanges
  <1>5. s = [p EXCEPT !.pc = "write"]
    BY <1>3
  <1>6. s = [pc |-> "write", token |-> b, m |-> d, given |-> e, tenant |-> f, field |-> g, row |-> row, event |-> i, told |-> j]
    BY <1>4, <1>5, FieldChanges
  <1> QED
    BY <1>1, <1>6

\* The ways of going on.
LEMMA GoIs == ASSUME CallsInv, NEW c \in RpcCalls, NEW pc, RpcGo(c, pc) PROVE Hops(c, pc, rpc[c].row, rpc[c].event, rpc[c].told)
  <1>1. IsRpc(rpc[c]) /\ DOMAIN rpc = RpcCalls
    BY DEF CallsInv, CallFits
  <1>2. PICK l : l = [rpc[c] EXCEPT !.pc = pc]
    OBVIOUS
  <1>3. rpc' = [rpc EXCEPT ![c] = l]
    BY <1>1, <1>2 DEF RpcGo
  <1>4. l = [pc |-> pc, token |-> rpc[c].token, m |-> rpc[c].m, given |-> rpc[c].given, tenant |-> rpc[c].tenant,
             field |-> rpc[c].field, row |-> rpc[c].row, event |-> rpc[c].event, told |-> rpc[c].told]
    BY <1>1, <1>2, RpcMoves
  <1> QED
    BY <1>1, <1>3, <1>4 DEF Hops

\* An answer to the caller.
LEMMA RespondIs == ASSUME CallsInv, NEW c \in RpcCalls, NEW told, Respond(c, told) PROVE Hops(c, "respond", rpc[c].row, rpc[c].event, told)
  <1>1. IsRpc(rpc[c]) /\ DOMAIN rpc = RpcCalls
    BY DEF CallsInv, CallFits
  <1>4. PICK l : l = [rpc[c] EXCEPT !.pc = "respond", !.told = told]
    OBVIOUS
  <1>2. rpc' = [rpc EXCEPT ![c] = l]
    BY <1>1, <1>4 DEF Respond
  <1>3. l = [pc |-> "respond", token |-> rpc[c].token, m |-> rpc[c].m, given |-> rpc[c].given, tenant |-> rpc[c].tenant,
             field |-> rpc[c].field, row |-> rpc[c].row, event |-> rpc[c].event, told |-> told]
    BY <1>1, <1>4, RpcAnswers
  <1> QED
    BY <1>1, <1>2, <1>3 DEF Hops

\* An event to be logged.
LEMMA LogsIs ==
  ASSUME CallsInv, NEW c \in RpcCalls, NEW kind, NEW told, Logs(c, kind, told)
  PROVE  Hops(c, "log", rpc[c].row, Len(auditEvents) + 1, told)
  <1>1. IsRpc(rpc[c]) /\ DOMAIN rpc = RpcCalls
    BY DEF CallsInv, CallFits
  <1>2. PICK n : n = Len(auditEvents) + 1
    OBVIOUS
  <1>3. PICK l : l = [rpc[c] EXCEPT !.pc = "log", !.event = n, !.told = told]
    OBVIOUS
  <1>4. rpc' = [rpc EXCEPT ![c] = l]
    BY <1>1, <1>2, <1>3 DEF Logs
  <1>5. l = [pc |-> "log", token |-> rpc[c].token, m |-> rpc[c].m, given |-> rpc[c].given, tenant |-> rpc[c].tenant,
             field |-> rpc[c].field, row |-> rpc[c].row, event |-> n, told |-> told]
    BY <1>1, <1>3, RpcLogs
  <1> QED
    BY <1>1, <1>2, <1>4, <1>5 DEF Hops

\* A row that was read.
LEMMA ReadsIs ==
  ASSUME CallsInv, NEW c \in RpcCalls, NEW row, rpc' = [rpc EXCEPT ![c].row = row, ![c].pc = "write"]
  PROVE  Hops(c, "write", row, rpc[c].event, rpc[c].told)
  <1>1. IsRpc(rpc[c]) /\ DOMAIN rpc = RpcCalls
    BY DEF CallsInv, CallFits
  <1>2. PICK l : l = [rpc[c] EXCEPT !.row = row, !.pc = "write"]
    OBVIOUS
  <1>3. rpc' = [rpc EXCEPT ![c] = l]
    BY <1>1, <1>2
  <1>4. l = [pc |-> "write", token |-> rpc[c].token, m |-> rpc[c].m, given |-> rpc[c].given, tenant |-> rpc[c].tenant,
             field |-> rpc[c].field, row |-> row, event |-> rpc[c].event, told |-> rpc[c].told]
    BY <1>1, <1>2, RpcReads
  <1> QED
    BY <1>1, <1>3, <1>4 DEF Hops

\* A call that goes on keeps its method, its tenant and its roles.
LEMMA GoesKeeps ==
  ASSUME CallsInv, UNCHANGED gwSetup, NEW c \in RpcCalls, rpc[c].pc # "idle", NEW pc \in RpcPcs \ {"idle"},
         NEW row, NEW event, NEW told,
         Hops(c, pc, row, event, told),
         PcFits(pc, rpc[c].m.name, row), gwSetup.rbac => GuardFits(pc, told, May(rpc[c]))
  PROVE  CallsInv'
  <1> DEFINE l == rpc'[c]
  <1>1. /\ l.pc = pc /\ l.token = rpc[c].token /\ l.m = rpc[c].m /\ l.given = rpc[c].given /\ l.tenant = rpc[c].tenant
        /\ l.field = rpc[c].field /\ l.row = row /\ l.event = event /\ l.told = told
    <2>1. l = [pc |-> pc, token |-> rpc[c].token, m |-> rpc[c].m, given |-> rpc[c].given, tenant |-> rpc[c].tenant,
               field |-> rpc[c].field, row |-> row, event |-> event, told |-> told]
      BY DEF Hops
    <2> HIDE DEF l
    <2> QED
      BY <2>1
  <1>2. IsRpc(l)
    <2>1. l = [pc |-> pc, token |-> rpc[c].token, m |-> rpc[c].m, given |-> rpc[c].given, tenant |-> rpc[c].tenant,
               field |-> rpc[c].field, row |-> row, event |-> event, told |-> told]
      BY DEF Hops
    <2> HIDE DEF l
    <2> QED
      BY <1>1, <2>1 DEF IsRpc
  <1>3. Routed(rpc[c]) /\ \A d \in RpcCalls : CallFits(rpc[d])
    BY DEF CallsInv, CallFits
  <1> HIDE DEF l
  <1>4. Routed(l)
    BY <1>1, <1>3 DEF Routed
  <1>5. Guarded(l)
    BY <1>1 DEF Guarded, May
  <1>6. CallFits(l)
    BY <1>1, <1>2, <1>4, <1>5 DEF CallFits
  <1>7. \A d \in RpcCalls : CallFits(rpc'[d])
    BY <1>3, <1>6 DEF Hops, l
  <1>8. \A d \in RpcCalls : CallFits(rpc[d])'
    BY <1>7 DEF CallFits, Guarded
  <1> QED
    BY <1>8 DEF CallsInv, Hops

\* What is true of a call before its step.
LEMMA CallIs ==
  ASSUME CallsInv, NEW c \in RpcCalls, rpc[c].pc # "idle"
  PROVE  /\ rpc[c].m \in AllMethods /\ rpc[c].tenant \in TenantIds \cup {"none"}
         /\ gwSetup.rbac => GuardFits(rpc[c].pc, rpc[c].told, May(rpc[c]))
         /\ rpc[c].pc \in {"insert", "dirs", "read", "write", "drop"} => rpc[c].tenant \in TenantIds
         /\ rpc[c].pc = "write" => rpc[c].row \in Rows /\ rpc[c].field \in {"name", "plan"}
  <1>1. Routed(rpc[c]) /\ Guarded(rpc[c])
    BY DEF CallsInv, CallFits
  <1>2. rpc[c].m \in AllMethods
    BY <1>1 DEF Routed
  <1>3. rpc[c].pc \in {"insert", "dirs", "read", "write", "drop"} => rpc[c].m.part = "tenants"
    BY <1>1, <1>2, TenantMethodsAre DEF Routed, PcFits
  <1> QED
    BY <1>1, <1>2, <1>3 DEF Routed, Guarded, PcFits

\* A call that is answered.
LEMMA RespondKeeps ==
  ASSUME CallsInv, UNCHANGED gwSetup, NEW c \in RpcCalls, rpc[c].pc # "idle", NEW told, Respond(c, told),
         gwSetup.rbac => GuardFits("respond", told, May(rpc[c]))
  PROVE  CallsInv'
  BY RespondIs, GoesKeeps DEF PcFits, RpcPcs

\* A call that has an event to log.
LEMMA LogsKeeps ==
  ASSUME CallsInv, UNCHANGED gwSetup, NEW c \in RpcCalls, rpc[c].pc # "idle", NEW kind, NEW told,
         Logs(c, kind, told),
         gwSetup.rbac => GuardFits("log", told, May(rpc[c]))
  PROVE  CallsInv'
  BY LogsIs, GoesKeeps DEF PcFits, RpcPcs

\* A call that moves on.
LEMMA GoKeeps ==
  ASSUME CallsInv, UNCHANGED gwSetup, NEW c \in RpcCalls, rpc[c].pc # "idle", NEW pc \in RpcPcs \ {"idle"},
         RpcGo(c, pc),
         PcFits(pc, rpc[c].m.name, rpc[c].row), gwSetup.rbac => GuardFits(pc, rpc[c].told, May(rpc[c]))
  PROVE  CallsInv'
  BY GoIs, GoesKeeps

\* While it is served, a call may be answered with anything but a refusal.
LEMMA ServedMayAnswer ==
  ASSUME CallsInv, NEW c \in RpcCalls, rpc[c].pc \in Serving, NEW told, told # "forbidden"
  PROVE  gwSetup.rbac => /\ GuardFits("respond", told, May(rpc[c])) /\ GuardFits("log", told, May(rpc[c]))
                         /\ \A pc \in Serving : GuardFits(pc, rpc[c].told, May(rpc[c]))
  BY CallIs DEF Serving, GuardFits

\* The steps of the calls.
LEMMA GuardCalls == ASSUME CallsInv, NEW c \in RpcCalls, requirePerm(c) PROVE CallsInv'
  <1>1. rpc[c].pc = "guard" /\ UNCHANGED gwSetup /\ (gwSetup.rbac => rpc[c].told = "nothing")
    BY CallIs DEF requirePerm, RpcAt, GuardFits
  <1>2. CASE gwSetup.rbac /\ ~May(rpc[c]) /\ gwSetup.audit
    <2>1. Logs(c, "denied", "forbidden")
      BY <1>2 DEF requirePerm, May
    <2> QED
      BY <1>1, <1>2, <2>1, LogsKeeps DEF GuardFits, Serving
  <1>3. CASE gwSetup.rbac /\ ~May(rpc[c]) /\ ~gwSetup.audit
    <2>1. Respond(c, "forbidden")
      BY <1>3 DEF requirePerm, May
    <2> QED
      BY <1>1, <1>3, <2>1, RespondKeeps DEF GuardFits, Serving
  <1>4. CASE ~(gwSetup.rbac /\ ~May(rpc[c]))
    <2>1. RpcGo(c, "handle")
      BY <1>4 DEF requirePerm, May
    <2>2. gwSetup.rbac => GuardFits("handle", rpc[c].told, May(rpc[c]))
      BY <1>1, <1>4 DEF GuardFits
    <2> QED
      BY <1>1, <2>1, <2>2, GoKeeps DEF PcFits, RpcPcs, Serving
  <1> QED
    BY <1>2, <1>3, <1>4

\* The handler looks at the payload.
LEMMA PayloadCalls == ASSUME CallsInv, NEW c \in RpcCalls, ReadPayload(c) PROVE CallsInv'
  <1>1. rpc[c].pc = "handle" /\ UNCHANGED gwSetup
    BY DEF ReadPayload, RpcAt
  <1>2. rpc[c].pc \in Serving /\ rpc[c].pc # "idle"
    BY <1>1 DEF Serving
  <1>3. CASE Respond(c, "invalid payload")
    BY <1>1, <1>2, <1>3, RespondKeeps, ServedMayAnswer
  <1>4. CASE RpcGo(c, FirstOfRpc(rpc[c].m.name))
    <2>1. PICK pc : pc = FirstOfRpc(rpc[c].m.name)
      OBVIOUS
    <2>2. pc \in Serving \ {"write", "dirs"} /\ PcFits(pc, rpc[c].m.name, rpc[c].row)
      BY <2>1 DEF FirstOfRpc, PcFits, Serving
    <2>3. pc \in RpcPcs \ {"idle"}
      BY <2>2 DEF RpcPcs, Serving
    <2>4. gwSetup.rbac => GuardFits(pc, rpc[c].told, May(rpc[c]))
      BY <1>1, <1>2, <2>2, ServedMayAnswer
    <2> QED
      BY <1>1, <1>2, <1>4, <2>1, <2>2, <2>3, <2>4, GoKeeps
  <1> QED
    BY <1>3, <1>4 DEF ReadPayload

\* The component does it, or returns an error.
LEMMA PassOnCalls == ASSUME CallsInv, NEW c \in RpcCalls, PassOn(c) PROVE CallsInv'
  <1>1. rpc[c].pc = "run" /\ UNCHANGED gwSetup
    BY DEF PassOn, RpcAt
  <1>2. rpc[c].pc \in Serving /\ rpc[c].pc # "idle"
    BY <1>1 DEF Serving
  <1>3. CASE Logs(c, "gdpr", "ok")
    BY <1>1, <1>2, <1>3, LogsKeeps, ServedMayAnswer
  <1>4. CASE \E told \in {"ok", "error"} : Respond(c, told)
    BY <1>1, <1>2, <1>4, RespondKeeps, ServedMayAnswer
  <1>5. Logs(c, "gdpr", "ok") \/ Respond(c, "ok") \/ Respond(c, "error")
    BY DEF PassOn
  <1> QED
    BY <1>3, <1>4, <1>5

\* TenantManager.Create writes the row.
LEMMA CreateCalls == ASSUME CallsInv, NEW c \in RpcCalls, CreateTenant(c) PROVE CallsInv'
  <1>1. rpc[c].pc = "insert" /\ UNCHANGED gwSetup
    BY DEF CreateTenant, RpcAt
  <1>2. rpc[c].pc \in Serving /\ rpc[c].pc # "idle" /\ rpc[c].m.name = "tenant.create"
    BY <1>1 DEF Serving, CallsInv, CallFits, Routed, PcFits
  <1>3. CASE RpcGo(c, "dirs")
    <2>1. PcFits("dirs", rpc[c].m.name, rpc[c].row) /\ "dirs" \in RpcPcs \ {"idle"} /\ "dirs" \in Serving
      BY <1>2 DEF PcFits, RpcPcs, Serving
    <2> QED
      BY <1>1, <1>2, <1>3, <2>1, GoKeeps, ServedMayAnswer
  <1>4. CASE Respond(c, "error")
    BY <1>1, <1>2, <1>4, RespondKeeps, ServedMayAnswer
  <1> QED
    BY <1>3, <1>4 DEF CreateTenant

\* The directories are made or not.
LEMMA MakeDirsCalls == ASSUME CallsInv, NEW c \in RpcCalls, MakeDirs(c) PROVE CallsInv'
  <1>1. rpc[c].pc = "dirs" /\ UNCHANGED gwSetup
    BY DEF MakeDirs, RpcAt
  <1>2. rpc[c].pc \in Serving /\ rpc[c].pc # "idle"
    BY <1>1 DEF Serving
  <1>3. CASE Logs(c, "create", "ok")
    BY <1>1, <1>2, <1>3, LogsKeeps, ServedMayAnswer
  <1>4. CASE \E told \in {"ok", "error"} : Respond(c, told)
    BY <1>1, <1>2, <1>4, RespondKeeps, ServedMayAnswer
  <1>5. Logs(c, "create", "ok") \/ Respond(c, "ok") \/ Respond(c, "error")
    BY DEF MakeDirs
  <1> QED
    BY <1>3, <1>4, <1>5

\* tenantUpdateHandler reads the row.
LEMMA ReadCalls == ASSUME CallsInv, TenantsInv, NEW c \in RpcCalls, ReadTenant(c) PROVE CallsInv'
  <1>1. rpc[c].pc = "read" /\ UNCHANGED gwSetup
    BY DEF ReadTenant, RpcAt
  <1>2. rpc[c].pc \in Serving /\ rpc[c].pc # "idle" /\ rpc[c].m.name = "tenant.update"
    BY <1>1 DEF Serving, CallsInv, CallFits, Routed, PcFits
  <1>3. PICK row : row = tenantRow[rpc[c].tenant]
    OBVIOUS
  <1>4. rpc[c].tenant \in TenantIds
    BY <1>1, <1>2, CallIs
  <1>5. CASE row = NoTenant
    <2>1. Respond(c, "error")
      BY <1>3, <1>5 DEF ReadTenant
    <2> QED
      BY <1>1, <1>2, <2>1, RespondKeeps, ServedMayAnswer
  <1>6. CASE row # NoTenant
    <2>1. rpc' = [rpc EXCEPT ![c].row = row, ![c].pc = "write"]
      BY <1>3, <1>6 DEF ReadTenant
    <2>2. row \in Rows
      BY <1>3, <1>4, <1>6 DEF TenantsInv
    <2>3. PcFits("write", rpc[c].m.name, row) /\ "write" \in RpcPcs \ {"idle"} /\ "write" \in Serving
      BY <1>2, <2>2 DEF PcFits, RpcPcs, Serving
    <2> QED
      BY <1>1, <1>2, <2>1, <2>3, ReadsIs, GoesKeeps, ServedMayAnswer
  <1> QED
    BY <1>5, <1>6

\* It writes the row back.
LEMMA UpdateCalls == ASSUME CallsInv, NEW c \in RpcCalls, UpdateTenant(c) PROVE CallsInv'
  <1>1. rpc[c].pc = "write" /\ UNCHANGED gwSetup /\ \E told \in {"ok", "error"} : Respond(c, told)
    BY DEF UpdateTenant, RpcAt
  <1>2. rpc[c].pc \in Serving /\ rpc[c].pc # "idle"
    BY <1>1 DEF Serving
  <1> QED
    BY <1>1, <1>2, RespondKeeps, ServedMayAnswer

\* The row is deleted.
LEMMA DeleteCalls == ASSUME CallsInv, NEW c \in RpcCalls, DeleteTenant(c) PROVE CallsInv'
  <1>1. rpc[c].pc = "drop" /\ UNCHANGED gwSetup
    BY DEF DeleteTenant, RpcAt
  <1>2. rpc[c].pc \in Serving /\ rpc[c].pc # "idle"
    BY <1>1 DEF Serving
  <1>3. CASE Logs(c, "delete", "ok")
    BY <1>1, <1>2, <1>3, LogsKeeps, ServedMayAnswer
  <1>4. CASE \E told \in {"ok", "error"} : Respond(c, told)
    BY <1>1, <1>2, <1>4, RespondKeeps, ServedMayAnswer
  <1>5. Logs(c, "delete", "ok") \/ Respond(c, "ok") \/ Respond(c, "error")
    BY DEF DeleteTenant
  <1> QED
    BY <1>3, <1>4, <1>5

\* Log returns.
LEMMA LogCalls == ASSUME CallsInv, NEW c \in RpcCalls, Log(c) PROVE CallsInv'
  <1>1. rpc[c].pc = "log" /\ UNCHANGED gwSetup /\ RpcGo(c, "respond")
    BY DEF Log, RpcAt
  <1>2. rpc[c].pc # "idle"
    BY <1>1
  <1>3. PcFits("respond", rpc[c].m.name, rpc[c].row) /\ "respond" \in RpcPcs \ {"idle"}
    BY DEF PcFits, RpcPcs
  <1>4. gwSetup.rbac => GuardFits("respond", rpc[c].told, May(rpc[c]))
    BY <1>1, <1>2, CallIs DEF GuardFits, Serving
  <1> QED
    BY <1>1, <1>2, <1>3, <1>4, GoKeeps

\* A call that is idle, and the calls when one of them becomes another.
LEMMA IdleFits == CallFits(RpcIdle)
  <1>1. IsRpc(RpcIdle)
    BY DEF IsRpc, RpcIdle
  <1>2. RpcIdle.pc = "idle" /\ RpcIdle.tenant = "none"
    BY DEF RpcIdle
  <1> QED
    BY <1>1, <1>2 DEF CallFits, Routed, Guarded, GuardFits, PcFits, RpcPcs, Serving

\* A call becomes another.
LEMMA OneCallChanges ==
  ASSUME CallsInv, UNCHANGED gwSetup, NEW c \in RpcCalls, NEW l, CallFits(l), rpc' = [rpc EXCEPT ![c] = l]
  PROVE  CallsInv'
  <1>1. \A d \in RpcCalls : CallFits(rpc'[d])
    BY DEF CallsInv
  <1>2. \A d \in RpcCalls : CallFits(rpc[d])'
    BY <1>1 DEF CallFits, Guarded
  <1> QED
    BY <1>2 DEF CallsInv

\* The answer is sent, and the goroutine of the call ends.
LEMMA ResponseCalls == ASSUME CallsInv, NEW c \in RpcCalls, sendResponse(c) PROVE CallsInv'
  BY OneCallChanges, IdleFits DEF sendResponse

\* The process ends, and with it every call.
LEMMA CrashCalls == ASSUME CallsInv, GatewayCrash PROVE CallsInv'
  <1>1. \A d \in RpcCalls : CallFits(rpc'[d])
    BY IdleFits DEF GatewayCrash
  <1>2. \A d \in RpcCalls : CallFits(rpc[d])'
    BY <1>1 DEF CallFits, Guarded, GatewayCrash
  <1> QED
    BY <1>2 DEF CallsInv, GatewayCrash

\* A frame makes a call, and only one of a known method is guarded.
LEMMA DispatchCalls ==
  ASSUME CallsInv, NEW c \in RpcCalls, NEW k, NEW m \in AllMethods, NEW given, dispatchRPC(c, k, m, given)
  PROVE  CallsInv'
  <1>1. PICK pc, told : /\ pc = IF m \in RegisterDefaultHandlers THEN "guard" ELSE "respond"
                       /\ told = IF m \in RegisterDefaultHandlers THEN "nothing" ELSE "no such method"
    OBVIOUS
  <1>2. PICK t \in IF m.part = "tenants" THEN TenantIds ELSE {"none"},
             f \in IF m.name = "tenant.update" THEN {"name", "plan"} ELSE {"none"} :
          rpc' = [rpc EXCEPT ![c] = [RpcIdle EXCEPT !.token = k, !.m = m, !.given = given, !.tenant = t, !.field = f,
                                                    !.pc = pc, !.told = told]]
    BY <1>1 DEF dispatchRPC
  <1>3. PICK l : l = [RpcIdle EXCEPT !.token = k, !.m = m, !.given = given, !.tenant = t, !.field = f, !.pc = pc, !.told = told]
    OBVIOUS
  <1>4. l = [pc |-> pc, token |-> k, m |-> m, given |-> given, tenant |-> t, field |-> f,
             row |-> NoTenant, event |-> 0, told |-> told]
    BY <1>3 DEF RpcIdle
  <1>5. IsRpc(l)
    BY <1>4 DEF IsRpc
  <1>6. /\ l.pc = pc /\ l.m = m /\ l.tenant = t /\ l.field = f /\ l.told = told
    BY <1>4
  <1>7. Routed(l)
    BY <1>1, <1>2, <1>6 DEF Routed, PcFits
  <1>8. Guarded(l)
    BY <1>1, <1>6 DEF Guarded, GuardFits, Serving
  <1>9. CallFits(l)
    BY <1>1, <1>5, <1>6, <1>7, <1>8 DEF CallFits, RpcPcs
  <1> QED
    BY <1>2, <1>3, <1>9, OneCallChanges DEF dispatchRPC

-----------------------------------------------------------------------------
(* Tenants *)

\* No row is the absence of one.
LEMMA RowsAre == /\ \A row \in Rows : row # NoTenant /\ row = [name |-> row.name, plan |-> row.plan]
                 /\ NoTenant.name = "none" /\ NoTenant.plan = "none" /\ NewTenant \in Rows
                 /\ \A row \in Rows : /\ Patched(row, "name") \in Rows /\ Patched(row, "plan") \in Rows
                                      /\ Patched(row, "name").name = "new" /\ Patched(row, "name").plan = row.plan
                                      /\ Patched(row, "plan").plan = "paid" /\ Patched(row, "plan").name = row.name
  BY DEF Rows, NoTenant, NewTenant, Patched

\* Which calls make directories, after a call has gone on.
LEMMA GoesDirs ==
  ASSUME NEW c \in RpcCalls, NEW pc, NEW row, NEW event, NEW told, Hops(c, pc, row, event, told),
         NEW d \in RpcCalls, RpcAt(d, "dirs")'
  PROVE  /\ d # c => RpcAt(d, "dirs")
         /\ d = c => pc = "dirs"
         /\ rpc'[d].tenant = rpc[d].tenant
  BY DEF Hops, RpcAt

\* Steps that leave the tenants alone.
LEMMA TenantsStay ==
  ASSUME TenantsInv, tenantRow' = tenantRow, tenantDirs' = tenantDirs, gwSeen' \in Seen,
         gwSeen'.made = gwSeen.made,
         gwSeen'.said = gwSeen.said, gwSeen'.stale = gwSeen.stale,
         \A d \in RpcCalls : RpcAt(d, "dirs")' => tenantLock' = d /\ tenantRow[rpc'[d].tenant] # NoTenant
  PROVE  TenantsInv'
  BY DEF TenantsInv, TenantsAreTrue

\* ... of which a call goes on, but not to make directories.
LEMMA GoesTenants ==
  ASSUME TenantsInv, UNCHANGED <<tenantVars>>, gwSeen' \in Seen, gwSeen'.made = gwSeen.made,
         gwSeen'.said = gwSeen.said, gwSeen'.stale = gwSeen.stale,
         NEW c \in RpcCalls, NEW pc, NEW row, NEW event, NEW told, Hops(c, pc, row, event, told), pc # "dirs"
  PROVE  TenantsInv'
  <1>1. ASSUME NEW d \in RpcCalls, RpcAt(d, "dirs")' PROVE tenantLock' = d /\ tenantRow[rpc'[d].tenant] # NoTenant
    <2>1. RpcAt(d, "dirs") /\ rpc'[d].tenant = rpc[d].tenant
      BY <1>1, GoesDirs
    <2> QED
      BY <2>1 DEF TenantsInv, tenantVars
  <1> QED
    BY <1>1, TenantsStay DEF tenantVars

\* The steps of the calls.
LEMMA AnyGoesTenants ==
  ASSUME CallsInv, TenantsInv, UNCHANGED <<tenantVars, gwSeen>>, NEW c \in RpcCalls,
         \/ \E pc \in RpcPcs \ {"dirs"} : RpcGo(c, pc)
         \/ \E told : Respond(c, told)
         \/ \E kind, told : Logs(c, kind, told)
  PROVE  TenantsInv'
  <1>1. gwSeen' \in Seen /\ gwSeen' = gwSeen /\ UNCHANGED <<tenantVars>>
    BY DEF TenantsInv
  <1>2. ASSUME NEW pc \in RpcPcs \ {"dirs"}, RpcGo(c, pc) PROVE TenantsInv'
    BY <1>1, <1>2, GoIs, GoesTenants
  <1>3. ASSUME NEW told, Respond(c, told) PROVE TenantsInv'
    BY <1>1, <1>3, RespondIs, GoesTenants
  <1>4. ASSUME NEW kind, NEW told, Logs(c, kind, told) PROVE TenantsInv'
    BY <1>1, <1>4, LogsIs, GoesTenants
  <1> QED
    BY <1>2, <1>3, <1>4

\* The guard leaves the tenants alone, like every step of a call that is none of theirs.
LEMMA GuardTenants == ASSUME CallsInv, TenantsInv, NEW c \in RpcCalls, requirePerm(c) PROVE TenantsInv'
  <1>1. "handle" \in RpcPcs \ {"dirs"}
    BY DEF RpcPcs, Serving
  <1> QED
    BY <1>1, AnyGoesTenants DEF requirePerm

\* The look at the payload.
LEMMA PayloadTenants == ASSUME CallsInv, TenantsInv, NEW c \in RpcCalls, ReadPayload(c) PROVE TenantsInv'
  <1>1. PICK pc : pc = FirstOfRpc(rpc[c].m.name)
    OBVIOUS
  <1>2. pc \in RpcPcs \ {"dirs"}
    BY <1>1 DEF RpcPcs, Serving, FirstOfRpc
  <1> QED
    BY <1>1, <1>2, AnyGoesTenants DEF ReadPayload

\* The call that is passed on.
LEMMA PassOnTenants == ASSUME CallsInv, TenantsInv, NEW c \in RpcCalls, PassOn(c) PROVE TenantsInv'
  BY AnyGoesTenants DEF PassOn

\* The read of a row takes no lock and writes nothing.
LEMMA ReadTenants == ASSUME CallsInv, TenantsInv, NEW c \in RpcCalls, ReadTenant(c) PROVE TenantsInv'
  <1>1. gwSeen' \in Seen /\ gwSeen' = gwSeen /\ UNCHANGED <<tenantVars>>
    BY DEF TenantsInv, ReadTenant
  <1>2. PICK row : row = tenantRow[rpc[c].tenant]
    OBVIOUS
  <1>3. CASE row = NoTenant
    BY <1>1, <1>2, <1>3, AnyGoesTenants DEF ReadTenant
  <1>4. CASE row # NoTenant
    <2>1. rpc' = [rpc EXCEPT ![c].row = row, ![c].pc = "write"]
      BY <1>2, <1>4 DEF ReadTenant
    <2> QED
      BY <1>1, <2>1, ReadsIs, GoesTenants
  <1> QED
    BY <1>3, <1>4

\* The log.
LEMMA LogTenants == ASSUME CallsInv, TenantsInv, NEW c \in RpcCalls, Log(c), gwSeen' \in Seen PROVE TenantsInv'
  <1>1. gwSeen'.made = gwSeen.made /\ gwSeen'.said = gwSeen.said /\ gwSeen'.stale = gwSeen.stale
    BY DEF Log, WriteStops, TenantsInv, Seen
  <1>2. UNCHANGED <<tenantVars>> /\ RpcGo(c, "respond")
    BY DEF Log
  <1> QED
    BY <1>1, <1>2, GoIs, GoesTenants

\* The end of a call.
LEMMA ResponseTenants == ASSUME CallsInv, TenantsInv, NEW c \in RpcCalls, sendResponse(c) PROVE TenantsInv'
  <1>1. \A d \in RpcCalls : RpcAt(d, "dirs")' => RpcAt(d, "dirs") /\ rpc'[d] = rpc[d]
    BY DEF sendResponse, RpcAt, RpcIdle, CallsInv
  <1> QED
    BY <1>1, TenantsStay DEF TenantsInv, sendResponse, tenantVars, RpcAt

\* The beginning of a call.
LEMMA DispatchTenants ==
  ASSUME CallsInv, TenantsInv, NEW c \in RpcCalls, NEW k, NEW m \in AllMethods, NEW given,
         dispatchRPC(c, k, m, given)
  PROVE  TenantsInv'
  <1>6. PICK pc, told : /\ pc = IF m \in RegisterDefaultHandlers THEN "guard" ELSE "respond"
                       /\ told = IF m \in RegisterDefaultHandlers THEN "nothing" ELSE "no such method"
    OBVIOUS
  <1>1. PICK t \in IF m.part = "tenants" THEN TenantIds ELSE {"none"},
             f \in IF m.name = "tenant.update" THEN {"name", "plan"} ELSE {"none"} :
          rpc' = [rpc EXCEPT ![c] = [RpcIdle EXCEPT !.token = k, !.m = m, !.given = given, !.tenant = t, !.field = f,
                                                    !.pc = pc, !.told = told]]
    BY <1>6 DEF dispatchRPC
  <1>2. PICK l : l = [RpcIdle EXCEPT !.token = k, !.m = m, !.given = given, !.tenant = t, !.field = f, !.pc = pc, !.told = told]
    OBVIOUS
  <1>3. l = [pc |-> pc, token |-> k, m |-> m, given |-> given, tenant |-> t, field |-> f,
             row |-> NoTenant, event |-> 0, told |-> told]
    BY <1>2 DEF RpcIdle
  <1>4. l.pc = pc
    BY <1>3
  <1>5. \A d \in RpcCalls : RpcAt(d, "dirs")' => RpcAt(d, "dirs") /\ rpc'[d] = rpc[d]
    <2>1. rpc' = [rpc EXCEPT ![c] = l]
      BY <1>1, <1>2
    <2>2. l.pc # "dirs"
      BY <1>4, <1>6
    <2> QED
      BY <2>1, <2>2 DEF RpcAt, CallsInv
  <1> QED
    BY <1>5, TenantsStay DEF TenantsInv, dispatchRPC, tenantVars, RpcAt

\* A crash leaves the rows and the directories, and frees the lock.
LEMMA CrashTenants == ASSUME CallsInv, TenantsInv, GatewayCrash, gwSeen' \in Seen PROVE TenantsInv'
  <1>1. gwSeen'.made = gwSeen.made /\ gwSeen'.said = gwSeen.said /\ gwSeen'.stale = gwSeen.stale
    BY DEF GatewayCrash, WriteStops, TenantsInv, Seen
  <1>2. \A d \in RpcCalls : ~RpcAt(d, "dirs")'
    BY DEF GatewayCrash, RpcAt, RpcIdle
  <1> QED
    BY <1>1, <1>2, TenantsStay DEF GatewayCrash

\* A tenant is created by a call that takes the lock.
LEMMA CreateTenants ==
  ASSUME GatewayConstants, CallsInv, TenantsInv, NEW c \in RpcCalls, CreateTenant(c)
  PROVE  TenantsInv'
  <1>1. PICK t : t = rpc[c].tenant
    OBVIOUS
  <1>2. rpc[c].pc = "insert" /\ t \in TenantIds /\ gwSeen' = gwSeen /\ tenantDirs' = tenantDirs
    BY <1>1, CallIs DEF CreateTenant, RpcAt
  <1>3. \A d \in RpcCalls : ~RpcAt(d, "dirs")
    BY DEF CreateTenant, TenantsInv, GatewayConstants
  <1>4. CASE Respond(c, "error") /\ UNCHANGED <<tenantRow, tenantLock>>
    BY <1>2, <1>4, AnyGoesTenants DEF tenantVars
  <1>5. CASE /\ tenantRow[t] = NoTenant /\ tenantRow' = [tenantRow EXCEPT ![t] = NewTenant]
             /\ tenantLock' = c /\ RpcGo(c, "dirs")
    <2>1. tenantRow \in [TenantIds -> Rows \cup {NoTenant}] /\ gwSeen \in Seen /\ TenantsAreTrue
      BY DEF TenantsInv
    <2>2. tenantRow' \in [TenantIds -> Rows \cup {NoTenant}]
      BY <1>5, <2>1, RowsAre
    <2>3. tenantRow'[t] = NewTenant /\ \A u \in TenantIds \ {t} : tenantRow'[u] = tenantRow[u]
      BY <1>2, <1>5, <2>1
    <2>4. \A d \in RpcCalls : RpcAt(d, "dirs")' => d = c
      BY <1>3, <1>5, GoIs, GoesDirs
    <2>5. rpc'[c].tenant = t
      <3>1. rpc'[c] = [pc |-> "dirs", token |-> rpc[c].token, m |-> rpc[c].m, given |-> rpc[c].given, tenant |-> t,
                       field |-> rpc[c].field, row |-> rpc[c].row, event |-> rpc[c].event, told |-> rpc[c].told]
        BY <1>1, <1>5, GoIs DEF Hops
      <3> QED
        BY <3>1
    <2>6. \A d \in RpcCalls : RpcAt(d, "dirs")' => tenantLock' = d /\ tenantRow'[rpc'[d].tenant] # NoTenant
      BY <1>5, <2>3, <2>4, <2>5, RowsAre
    <2>7. t \notin gwSeen.made /\ (t \notin gwSeen.stale => <<t, "name">> \notin gwSeen.said /\ <<t, "plan">> \notin gwSeen.said)
      BY <1>2, <1>5, <2>1, RowsAre DEF TenantsAreTrue
    <2>8. gwSeen.made \subseteq TenantIds
      BY <2>1 DEF Seen
    <2>9. TenantsAreTrue'
      BY <1>2, <2>1, <2>3, <2>7, <2>8 DEF TenantsAreTrue
    <2> QED
      BY <1>2, <2>1, <2>2, <2>6, <2>9 DEF TenantsInv
  <1> QED
    BY <1>1, <1>4, <1>5 DEF CreateTenant

\* Its directories are made by the call that holds the lock.
LEMMA MakeDirsTenants ==
  ASSUME CallsInv, TenantsInv, NEW c \in RpcCalls, MakeDirs(c)
  PROVE  TenantsInv'
  <1>1. PICK t : t = rpc[c].tenant
    OBVIOUS
  <1>2. rpc[c].pc = "dirs" /\ t \in TenantIds /\ tenantRow' = tenantRow /\ tenantRow[t] # NoTenant /\ tenantLock = c
    BY <1>1, CallIs DEF MakeDirs, RpcAt, TenantsInv
  <1>3. PICK pc, event, told : Hops(c, pc, rpc[c].row, event, told) /\ pc # "dirs"
    <2>1. Logs(c, "create", "ok") \/ \E told : Respond(c, told)
      BY DEF MakeDirs
    <2> QED
      BY <2>1, LogsIs, RespondIs
  <1>4. \A d \in RpcCalls : ~RpcAt(d, "dirs")'
    <2>1. \A d \in RpcCalls : RpcAt(d, "dirs") => d = c
      BY <1>2 DEF TenantsInv
    <2> QED
      BY <1>3, <2>1, GoesDirs
  <1>5. gwSeen \in Seen /\ TenantsAreTrue
    BY DEF TenantsInv
  <1>6. CASE tenantDirs' = tenantDirs \cup {t} /\ gwSeen' = [gwSeen EXCEPT !.made = @ \cup {t}]
    <2>1. /\ gwSeen' \in Seen /\ gwSeen'.made = gwSeen.made \cup {t} /\ gwSeen'.said = gwSeen.said
          /\ gwSeen'.stale = gwSeen.stale
      BY <1>2, <1>5, <1>6 DEF Seen
    <2>2. TenantsAreTrue'
      BY <1>2, <1>5, <1>6, <2>1 DEF TenantsAreTrue
    <2> QED
      BY <1>2, <1>4, <2>1, <2>2 DEF TenantsInv
  <1>7. CASE UNCHANGED <<tenantDirs, gwSeen>>
    BY <1>2, <1>4, <1>5, <1>7, TenantsStay
  <1> QED
    BY <1>1, <1>6, <1>7 DEF MakeDirs

\* An update writes what it read, which is the row unless somebody wrote in between.
LEMMA UpdateTenants ==
  ASSUME GatewayConstants, CallsInv, TenantsInv, NEW c \in RpcCalls, UpdateTenant(c)
  PROVE  TenantsInv'
  <1>1. PICK t, f, row : t = rpc[c].tenant /\ f = rpc[c].field /\ row = rpc[c].row
    OBVIOUS
  <1>2. /\ rpc[c].pc = "write" /\ t \in TenantIds /\ tenantDirs' = tenantDirs /\ row \in Rows /\ f \in {"name", "plan"}
        /\ tenantLock' = tenantLock /\ \E told : Respond(c, told)
    BY <1>1, CallIs DEF UpdateTenant, RpcAt
  <1>3. \A d \in RpcCalls : ~RpcAt(d, "dirs")
    BY DEF UpdateTenant, TenantsInv, GatewayConstants
  <1>4. \A d \in RpcCalls : ~RpcAt(d, "dirs")'
    <2>1. PICK told : Hops(c, "respond", rpc[c].row, rpc[c].event, told)
      BY <1>2, RespondIs
    <2> QED
      BY <1>3, <2>1, GoesDirs
  <1>5. tenantRow \in [TenantIds -> Rows \cup {NoTenant}] /\ gwSeen \in Seen /\ TenantsAreTrue
    BY DEF TenantsInv
  <1>6. CASE UNCHANGED <<tenantRow, gwSeen>>
    BY <1>2, <1>4, <1>5, <1>6, TenantsStay
  <1>7. CASE /\ tenantRow[t] # NoTenant /\ tenantRow' = [tenantRow EXCEPT ![t] = Patched(row, f)]
             /\ gwSeen' = [gwSeen EXCEPT !.said = @ \cup {<<t, f>>}, !.stale = IF tenantRow[t] # row THEN @ \cup {t} ELSE @]
    <2>1. Patched(row, f) \in Rows
      BY <1>2, RowsAre
    <2>2. tenantRow' \in [TenantIds -> Rows \cup {NoTenant}]
      BY <1>5, <1>7, <2>1
    <2>3. tenantRow'[t] = Patched(row, f) /\ \A u \in TenantIds \ {t} : tenantRow'[u] = tenantRow[u]
      BY <1>2, <1>5, <1>7
    <2>8. PICK new : new = IF tenantRow[t] # row THEN gwSeen.stale \cup {t} ELSE gwSeen.stale
      OBVIOUS
    <2>9. gwSeen' = [gwSeen EXCEPT !.said = @ \cup {<<t, f>>}, !.stale = new] /\ new \in SUBSET TenantIds
      BY <1>2, <1>5, <1>7, <2>8 DEF Seen
    <2>10. gwSeen.said \cup {<<t, f>>} \in SUBSET (TenantIds \X {"name", "plan"})
      BY <1>2, <1>5 DEF Seen
    <2>11. /\ gwSeen' \in Seen /\ gwSeen'.made = gwSeen.made /\ gwSeen'.said = gwSeen.said \cup {<<t, f>>}
           /\ gwSeen'.stale = new
      BY <1>5, <2>9, <2>10 DEF Seen
    <2>4. /\ gwSeen' \in Seen /\ gwSeen'.made = gwSeen.made /\ gwSeen'.said = gwSeen.said \cup {<<t, f>>}
          /\ gwSeen'.stale = IF tenantRow[t] # row THEN gwSeen.stale \cup {t} ELSE gwSeen.stale
      BY <2>8, <2>11
    <2>5. \A u \in gwSeen'.made : tenantRow'[u] # NoTenant /\ u \in tenantDirs'
      <3>1. gwSeen.made \subseteq TenantIds
        BY <1>5 DEF Seen
      <3> QED
        BY <1>2, <1>5, <2>1, <2>3, <2>4, <3>1, RowsAre DEF TenantsAreTrue
    <2>6. ASSUME NEW u \in TenantIds \ gwSeen'.stale
          PROVE  /\ <<u, "name">> \in gwSeen'.said => tenantRow'[u].name = "new"
                 /\ <<u, "plan">> \in gwSeen'.said => tenantRow'[u].plan = "paid"
      <3>1. CASE u # t
        BY <1>5, <2>3, <2>4, <3>1 DEF TenantsAreTrue
      <3>2. CASE u = t
        <4>1. tenantRow[t] = row /\ t \notin gwSeen.stale
          BY <2>4, <3>2
        <4>2. /\ <<t, "name">> \in gwSeen.said => row.name = "new"
              /\ <<t, "plan">> \in gwSeen.said => row.plan = "paid"
          BY <1>2, <1>5, <4>1 DEF TenantsAreTrue
        <4>3. CASE f = "name"
          BY <1>2, <2>3, <2>4, <3>2, <4>2, <4>3, RowsAre
        <4>4. CASE f = "plan"
          BY <1>2, <2>3, <2>4, <3>2, <4>2, <4>4, RowsAre
        <4> QED
          BY <1>2, <4>3, <4>4
      <3> QED
        BY <3>1, <3>2
    <2> QED
      BY <1>4, <2>2, <2>4, <2>5, <2>6 DEF TenantsInv, TenantsAreTrue
  <1> QED
    BY <1>1, <1>6, <1>7 DEF UpdateTenant

\* What is deleted was neither made nor updated any more.
LEMMA DeleteTenants ==
  ASSUME GatewayConstants, CallsInv, TenantsInv, NEW c \in RpcCalls, DeleteTenant(c)
  PROVE  TenantsInv'
  <1>1. PICK t : t = rpc[c].tenant
    OBVIOUS
  <1>2. rpc[c].pc = "drop" /\ t \in TenantIds /\ tenantDirs' = tenantDirs /\ tenantLock' = tenantLock
    BY <1>1, CallIs DEF DeleteTenant, RpcAt
  <1>3. \A d \in RpcCalls : ~RpcAt(d, "dirs")
    BY DEF DeleteTenant, TenantsInv, GatewayConstants
  <1>4. \A d \in RpcCalls : ~RpcAt(d, "dirs")'
    <2>1. PICK pc, event, told : Hops(c, pc, rpc[c].row, event, told) /\ pc # "dirs"
      <3>1. Logs(c, "delete", "ok") \/ \E told : Respond(c, told)
        BY DEF DeleteTenant
      <3> QED
        BY <3>1, LogsIs, RespondIs
    <2> QED
      BY <1>3, <2>1, GoesDirs
  <1>5. tenantRow \in [TenantIds -> Rows \cup {NoTenant}] /\ gwSeen \in Seen /\ TenantsAreTrue
    BY DEF TenantsInv
  <1>6. CASE UNCHANGED <<tenantRow, gwSeen>>
    BY <1>2, <1>4, <1>5, <1>6, TenantsStay
  <1>7. CASE /\ tenantRow' = [tenantRow EXCEPT ![t] = NoTenant]
             /\ gwSeen' = [gwSeen EXCEPT !.made = @ \ {t}, !.said = @ \ {<<t, "name">>, <<t, "plan">>}]
    <2>1. tenantRow' \in [TenantIds -> Rows \cup {NoTenant}] /\ \A u \in TenantIds \ {t} : tenantRow'[u] = tenantRow[u]
      BY <1>2, <1>5, <1>7
    <2>2. /\ gwSeen' \in Seen /\ gwSeen'.made = gwSeen.made \ {t} /\ gwSeen'.stale = gwSeen.stale
          /\ gwSeen'.said = gwSeen.said \ {<<t, "name">>, <<t, "plan">>}
      BY <1>5, <1>7 DEF Seen
    <2>3. gwSeen.made \subseteq TenantIds
      BY <1>5 DEF Seen
    <2>4. TenantsAreTrue'
      BY <1>2, <1>5, <2>1, <2>2, <2>3 DEF TenantsAreTrue
    <2> QED
      BY <1>4, <2>1, <2>2, <2>4 DEF TenantsInv
  <1> QED
    BY <1>1, <1>6, <1>7 DEF DeleteTenant

-----------------------------------------------------------------------------
(* Events *)

\* Which calls have an event to log, after a call has gone on.
LEMMA GoesLog ==
  ASSUME NEW c \in RpcCalls, NEW pc, NEW row, NEW event, NEW told, Hops(c, pc, row, event, told),
         NEW d \in RpcCalls, RpcAt(d, "log")'
  PROVE  /\ d # c => RpcAt(d, "log") /\ rpc'[d].event = rpc[d].event
         /\ d = c => pc = "log" /\ rpc'[d].event = event
  BY DEF Hops, RpcAt

\* Steps that log nothing and make no event.
LEMMA EventsStay ==
  ASSUME EventsInv, auditEvents' = auditEvents, gwSeen'.logged = gwSeen.logged,
         \A d \in RpcCalls : RpcAt(d, "log")' => RpcAt(d, "log") /\ rpc'[d].event = rpc[d].event
  PROVE  EventsInv'
  BY DEF EventsInv

\* ... of which a call goes on.
LEMMA GoesEvents ==
  ASSUME EventsInv, auditEvents' = auditEvents, gwSeen'.logged = gwSeen.logged,
         NEW c \in RpcCalls, NEW pc, NEW row, NEW event, NEW told, Hops(c, pc, row, event, told), pc # "log"
  PROVE  EventsInv'
  BY GoesLog, EventsStay

\* A call has a new event.
LEMMA NewEvent ==
  ASSUME CallsInv, EventsInv, gwDay \in Nat, gwSeen \in Seen, gwSeen'.logged = gwSeen.logged,
         NEW c \in RpcCalls, rpc[c].pc # "idle",
         NEW kind \in {"denied", "gdpr", "create", "delete"}, NEW told, Logs(c, kind, told)
  PROVE  /\ EventsInv' /\ Len(auditEvents') = Len(auditEvents) + 1
         /\ \A e \in 1 .. Len(auditEvents) : auditEvents'[e] = auditEvents[e]
  <1> DEFINE n == Len(auditEvents) + 1
  <1>1. PICK new : new = [kind |-> kind, tenant |-> rpc[c].tenant, day |-> gwDay]
    OBVIOUS
  <1>2. new \in Events
    BY <1>1, CallIs DEF Events
  <1>3. auditEvents \in Seq(Events) /\ auditEvents' = Append(auditEvents, new)
    BY <1>1 DEF EventsInv, Logs
  <1>4. /\ auditEvents' \in Seq(Events) /\ Len(auditEvents') = n
        /\ \A e \in 1 .. Len(auditEvents) : auditEvents'[e] = auditEvents[e]
    BY <1>2, <1>3, AppendProperties
  <1>5. Len(auditEvents) \in Nat /\ DOMAIN auditEvents = 1 .. Len(auditEvents) /\ DOMAIN auditEvents' = 1 .. n
    BY <1>3, <1>4, LenProperties
  <1>6. Hops(c, "log", rpc[c].row, n, told)
    BY LogsIs
  <1>7. n \notin DOMAIN auditEvents /\ n \in DOMAIN auditEvents' /\ DOMAIN auditEvents \subseteq DOMAIN auditEvents'
    BY <1>5
  <1> HIDE DEF n
  <1>8. ASSUME NEW d \in RpcCalls, RpcAt(d, "log")'
        PROVE  \/ d = c /\ rpc'[d].event = n
               \/ d # c /\ RpcAt(d, "log") /\ rpc'[d].event = rpc[d].event /\ rpc[d].event # n
    BY <1>6, <1>7, <1>8, GoesLog DEF EventsInv
  <1> QED
    BY <1>4, <1>7, <1>8 DEF EventsInv, n

\* A call has logged its event.
LEMMA LoggedEvent ==
  ASSUME EventsInv, gwSeen \in Seen, auditEvents' = auditEvents, NEW c \in RpcCalls, RpcAt(c, "log"),
         gwSeen'.logged = Append(gwSeen.logged, rpc[c].event),
         \A d \in RpcCalls : RpcAt(d, "log")' => d # c /\ RpcAt(d, "log") /\ rpc'[d].event = rpc[d].event
  PROVE  EventsInv' /\ rpc[c].event \in Nat
  <1>1. PICK e, new : e = rpc[c].event /\ new = Append(gwSeen.logged, e)
    OBVIOUS
  <1>2. auditEvents \in Seq(Events) /\ gwSeen.logged \in Seq(Nat)
    BY DEF EventsInv, Seen
  <1>3. e \in DOMAIN auditEvents /\ \A k \in DOMAIN gwSeen.logged : gwSeen.logged[k] # e
    BY <1>1 DEF EventsInv
  <1>4. e \in Nat
    BY <1>2, <1>3, LenProperties
  <1>5. /\ DOMAIN gwSeen.logged = 1 .. Len(gwSeen.logged) /\ Len(gwSeen.logged) \in Nat
        /\ DOMAIN new = 1 .. Len(gwSeen.logged) + 1 /\ new[Len(gwSeen.logged) + 1] = e
        /\ \A k \in DOMAIN gwSeen.logged : new[k] = gwSeen.logged[k]
    BY <1>1, <1>2, <1>4, LenProperties, AppendProperties
  <1>7. \A k \in DOMAIN new : k \in DOMAIN gwSeen.logged \/ k = Len(gwSeen.logged) + 1
    BY <1>5
  <1>6. ASSUME NEW k \in DOMAIN new PROVE new[k] = e \/ (k \in DOMAIN gwSeen.logged /\ new[k] = gwSeen.logged[k])
    <2>1. CASE k \in DOMAIN gwSeen.logged
      BY <1>5, <2>1
    <2>3. new[Len(gwSeen.logged) + 1] = e
      BY <1>5
    <2>2. CASE k = Len(gwSeen.logged) + 1
      BY <2>2, <2>3, Zenon
    <2> QED
      BY <1>7, <2>1, <2>2
  <1>8. gwSeen'.logged = new
    BY <1>1
  <1>9. \A k \in DOMAIN new : new[k] \in DOMAIN auditEvents
    BY <1>3, <1>6 DEF EventsInv
  <1>10. \A j, k \in DOMAIN new : new[j] = new[k] => j = k
    BY <1>3, <1>5, <1>7 DEF EventsInv
  <1>11. ASSUME NEW d \in RpcCalls, RpcAt(d, "log")'
         PROVE  /\ rpc'[d].event \in DOMAIN auditEvents /\ rpc'[d].event # e
                /\ \A k \in DOMAIN new : new[k] # rpc'[d].event
    <2>1. d # c /\ RpcAt(d, "log") /\ rpc'[d].event = rpc[d].event
      BY <1>11
    <2>2. rpc[d].event # e /\ rpc[d].event \in DOMAIN auditEvents /\ \A k \in DOMAIN gwSeen.logged : gwSeen.logged[k] # rpc[d].event
      BY <1>1, <2>1 DEF EventsInv
    <2> QED
      BY <1>6, <2>1, <2>2
  <1>12. \A b, d \in RpcCalls : RpcAt(b, "log")' /\ RpcAt(d, "log")' /\ rpc'[b].event = rpc'[d].event => b = d
    BY DEF EventsInv
  <1> QED
    BY <1>1, <1>2, <1>4, <1>8, <1>9, <1>10, <1>11, <1>12 DEF EventsInv

-----------------------------------------------------------------------------
(* Lines *)

\* The log only gets new events, and they only get older.
Later == /\ gwDay' \in Nat /\ gwDay' >= gwDay /\ gwSetup' = gwSetup
         /\ \A e \in DOMAIN auditEvents : auditEvents'[e] = auditEvents[e]

\* An event that is too old stays so.
LEMMA ExpiredStays ==
  ASSUME GatewayConstants, gwSetup \in GwSetups, EventsInv, gwDay \in Nat, Later, NEW e \in DOMAIN auditEvents,
         Expired(e)
  PROVE  Expired(e)'
  <1>1. gwSetup.maxAge \in Nat
    BY DEF GatewayConstants
  <1>2. auditEvents[e].day \in Nat
    <2>1. auditEvents[e] \in Events
      BY ElementOfSeq, LenProperties DEF EventsInv
    <2> QED
      BY <2>1 DEF Events
  <1>3. auditEvents'[e] = auditEvents[e] /\ gwSetup' = gwSetup /\ gwDay' \in Nat /\ gwDay' >= gwDay
    BY DEF Later
  <1>4. PICK a, day : a = gwSetup.maxAge /\ day = auditEvents[e].day
    OBVIOUS
  <1>5. gwDay' - a >= gwDay - a
    BY <1>1, <1>3, <1>4
  <1> QED
    BY <1>1, <1>2, <1>3, <1>4, <1>5 DEF Expired

\* The parts of TrailIsKept.
KeptAt(k) ==
    LET e == gwSeen.logged[k] IN
    \/ \E i \in DOMAIN auditFile : auditFile[i].event = e /\ auditFile[i].parses
    \/ e \in gwSeen.spoiled \cup gwSeen.swallowed \/ Expired(e)
    \/ gwSetup.maxSize > 0 /\ Len(gwSeen.logged) - k >= gwSetup.maxSize

\* Every line has its place among the events that were logged, in their order.
Placed(book, logged, where) ==
    /\ where \in [DOMAIN book -> DOMAIN logged]
    /\ \A i \in DOMAIN book : logged[where[i]] = book[i].event /\ \A j \in 1 .. i - 1 : where[j] < where[i]

\* TrailIsKept consists of the two.
LEMMA TrailIs == TrailIsKept <=> (\A k \in DOMAIN gwSeen.logged : KeptAt(k)) /\ \E where : Placed(auditFile, gwSeen.logged, where)
  BY DEF TrailIsKept, KeptAt, Placed

\* What can be read of an event that was logged before can be read, or it is spoiled by now.
LEMMA KeptLater ==
  ASSUME GatewayConstants, gwSetup \in GwSetups, EventsInv, FileInv, Later, NEW k \in DOMAIN gwSeen.logged,
         gwSeen'.logged[k] = gwSeen.logged[k], gwSeen.logged \in Seq(Nat),
         Len(gwSeen'.logged) \in Nat, Len(gwSeen'.logged) >= Len(gwSeen.logged),
         gwSeen.spoiled \subseteq gwSeen'.spoiled, gwSeen.swallowed \subseteq gwSeen'.swallowed,
         \A i \in DOMAIN auditFile : auditFile[i].parses =>
             \/ auditFile[i].event \in gwSeen'.spoiled
             \/ \E j \in DOMAIN auditFile' : auditFile'[j].event = auditFile[i].event /\ auditFile'[j].parses
  PROVE  KeptAt(k)'
  <1>1. PICK e, m, n : e = gwSeen.logged[k] /\ m = Len(gwSeen.logged) /\ n = Len(gwSeen'.logged)
    OBVIOUS
  <1>2. KeptAt(k) /\ e \in DOMAIN auditEvents /\ gwSetup' = gwSetup /\ gwSeen'.logged[k] = e /\ gwSetup.maxSize \in Nat
    BY <1>1, TrailIs DEF FileInv, EventsInv, Later, GatewayConstants
  <1>3. m \in Nat /\ k \in Nat /\ n \in Nat /\ n >= m
    BY <1>1, LenProperties
  <1>4. CASE \E i \in DOMAIN auditFile : auditFile[i].event = e /\ auditFile[i].parses
    BY <1>2, <1>4 DEF KeptAt
  <1>5. CASE e \in gwSeen.spoiled \cup gwSeen.swallowed
    BY <1>2, <1>5 DEF KeptAt
  <1>6. CASE Expired(e)
    <2>1. Expired(e)'
      BY <1>2, <1>6, ExpiredStays DEF FileInv
    <2> QED
      BY <1>2, <2>1 DEF KeptAt, Expired
  <1>7. CASE gwSetup.maxSize > 0 /\ m - k >= gwSetup.maxSize
    <2>1. n - k >= gwSetup.maxSize
      BY <1>2, <1>3, <1>7
    <2> QED
      BY <1>1, <1>2, <1>7, <2>1 DEF KeptAt
  <1> QED
    BY <1>1, <1>2, <1>4, <1>5, <1>6, <1>7 DEF KeptAt

\* Steps that leave the lines alone.
LEMMA FileStays ==
  ASSUME GatewayConstants, gwSetup \in GwSetups, EventsInv, FileInv, Later, gwSeen \in Seen, gwSeen'.logged = gwSeen.logged,
         gwSeen'.spoiled = gwSeen.spoiled /\ gwSeen'.swallowed = gwSeen.swallowed, auditFile' = auditFile
  PROVE  FileInv'
  <1>1. gwSeen.logged \in Seq(Nat) /\ Len(gwSeen.logged) \in Nat
    BY LenProperties DEF Seen
  <1>2. ASSUME NEW k \in DOMAIN gwSeen.logged PROVE KeptAt(k)'
    BY <1>1, KeptLater
  <1>3. PICK where : Placed(auditFile, gwSeen.logged, where)
    BY TrailIs DEF FileInv
  <1>4. TrailIsKept'
    <2>1. \A k \in DOMAIN gwSeen'.logged : KeptAt(k)'
      BY <1>2
    <2>2. Placed(auditFile', gwSeen'.logged, where)
      BY <1>3
    <2> QED
      BY <2>1, <2>2 DEF TrailIsKept, KeptAt, Placed
  <1> QED
    BY <1>4 DEF FileInv, Later

\* A line without its end gets longer, by the line of an event or a part of it.
LEMMA LineExtended ==
  ASSUME GatewayConstants, gwSetup \in GwSetups, EventsInv, FileInv, Later, gwSeen \in Seen, NEW e \in Nat,
         auditFile' \in Seq(Lines), DOMAIN auditFile' = DOMAIN auditFile,
         \A i \in DOMAIN auditFile : /\ auditFile'[i].event = auditFile[i].event
                                     /\ auditFile'[i] = auditFile[i] \/ auditFile[i].event \in gwSeen.spoiled,
         gwSeen'.logged = Append(gwSeen.logged, e), gwSeen.spoiled \subseteq gwSeen'.spoiled,
         gwSeen.swallowed \subseteq gwSeen'.swallowed, e \in gwSeen'.spoiled \cup gwSeen'.swallowed
  PROVE  FileInv'
  <1>1. PICK logged, m : logged = gwSeen'.logged /\ m = Len(gwSeen.logged)
    OBVIOUS
  <1>2. gwSeen.logged \in Seq(Nat)
    BY DEF Seen
  <1>3. /\ m \in Nat /\ DOMAIN gwSeen.logged = 1 .. m /\ DOMAIN logged = 1 .. m + 1 /\ Len(logged) = m + 1 /\ logged[m + 1] = e
        /\ \A k \in 1 .. m : logged[k] = gwSeen.logged[k]
    BY <1>1, <1>2, LenProperties, AppendProperties
  <1>4. ASSUME NEW k \in 1 .. m PROVE KeptAt(k)'
    <2>1. Len(logged) \in Nat /\ Len(logged) >= Len(gwSeen.logged) /\ k \in DOMAIN gwSeen.logged /\ logged[k] = gwSeen.logged[k]
      BY <1>1, <1>3
    <2>2. \A i \in DOMAIN auditFile : auditFile[i].parses =>
             \/ auditFile[i].event \in gwSeen'.spoiled
             \/ \E j \in DOMAIN auditFile' : auditFile'[j].event = auditFile[i].event /\ auditFile'[j].parses
      OBVIOUS
    <2> QED
      BY <1>1, <1>2, <2>1, <2>2, KeptLater
  <1>5. KeptAt(m + 1)'
    BY <1>1, <1>3 DEF KeptAt
  <1>6. PICK where : Placed(auditFile, gwSeen.logged, where)
    BY TrailIs DEF FileInv
  <1>7. Placed(auditFile', logged, where)
    <2>1. where \in [DOMAIN auditFile' -> DOMAIN logged]
      <3>1. 1 .. m \subseteq 1 .. m + 1
        BY <1>3
      <3> QED
        BY <1>3, <1>6, <3>1 DEF Placed
    <2>2. ASSUME NEW i \in DOMAIN auditFile' PROVE logged[where[i]] = auditFile'[i].event
      <3>1. where[i] \in 1 .. m /\ gwSeen.logged[where[i]] = auditFile[i].event
        BY <1>3, <1>6 DEF Placed
      <3> QED
        BY <1>3, <3>1
    <2>3. \A i \in DOMAIN auditFile' : \A j \in 1 .. i - 1 : where[j] < where[i]
      BY <1>6 DEF Placed
    <2> QED
      BY <2>1, <2>2, <2>3 DEF Placed
  <1>8. TrailIsKept'
    <2>1. \A k \in 1 .. m + 1 : k \in 1 .. m \/ k = m + 1
      BY <1>3
    <2>2. \A k \in DOMAIN gwSeen'.logged : KeptAt(k)'
      BY <1>1, <1>3, <1>4, <1>5, <2>1
    <2> QED
      BY <1>1, <1>7, <2>2 DEF TrailIsKept, KeptAt, Placed
  <1>9. \A i \in DOMAIN auditFile' : (auditFile'[i].parses /\ auditFile'[i].ended) \/ auditFile'[i].event \in gwSeen'.spoiled
    BY DEF FileInv
  <1> QED
    BY <1>8, <1>9 DEF FileInv, Later

\* A line is added.
LEMMA LineAdded ==
  ASSUME GatewayConstants, gwSetup \in GwSetups, EventsInv, FileInv, Later, gwSeen \in Seen, NEW e \in Nat,
         NEW p \in BOOLEAN, NEW q \in BOOLEAN,
         auditFile' = Append(auditFile, [event |-> e, parses |-> p, ended |-> q]), gwSeen'.logged = Append(gwSeen.logged, e),
         gwSeen.spoiled \subseteq gwSeen'.spoiled, gwSeen.swallowed \subseteq gwSeen'.swallowed,
         (p /\ q) \/ e \in gwSeen'.spoiled
  PROVE  FileInv'
  <1>1. PICK book, logged, n, m, line : /\ book = auditFile' /\ logged = gwSeen'.logged /\ n = Len(auditFile) /\ m = Len(gwSeen.logged)
                                       /\ line = [event |-> e, parses |-> p, ended |-> q]
    OBVIOUS
  <1>2. line \in Lines /\ line.event = e /\ line.parses = p /\ line.ended = q
    BY <1>1 DEF Lines
  <1>3. auditFile \in Seq(Lines) /\ gwSeen.logged \in Seq(Nat)
    BY DEF FileInv, Seen
  <1>4. /\ n \in Nat /\ DOMAIN auditFile = 1 .. n /\ book \in Seq(Lines) /\ DOMAIN book = 1 .. n + 1 /\ book[n + 1] = line
        /\ \A i \in 1 .. n : book[i] = auditFile[i]
    BY <1>1, <1>2, <1>3, LenProperties, AppendProperties
  <1>5. /\ m \in Nat /\ DOMAIN gwSeen.logged = 1 .. m /\ DOMAIN logged = 1 .. m + 1 /\ Len(logged) = m + 1 /\ logged[m + 1] = e
        /\ \A k \in 1 .. m : logged[k] = gwSeen.logged[k]
    BY <1>1, <1>3, LenProperties, AppendProperties
  <1>6. ASSUME NEW k \in 1 .. m PROVE KeptAt(k)'
    <2>1. Len(logged) \in Nat /\ Len(logged) >= Len(gwSeen.logged) /\ k \in DOMAIN gwSeen.logged /\ logged[k] = gwSeen.logged[k]
      BY <1>1, <1>5
    <2>2. \A i \in DOMAIN auditFile : i \in DOMAIN book /\ book[i] = auditFile[i]
      BY <1>4
    <2> QED
      BY <1>1, <1>3, <2>1, <2>2, KeptLater
  <1>7. KeptAt(m + 1)'
    <2>1. n + 1 \in DOMAIN book
      BY <1>4
    <2>2. (\E i \in DOMAIN book : book[i].event = logged[m + 1] /\ book[i].parses) \/ logged[m + 1] \in gwSeen'.spoiled
      BY <1>2, <1>4, <1>5, <2>1
    <2> QED
      BY <1>1, <2>2 DEF KeptAt
  <1>8. PICK where : Placed(auditFile, gwSeen.logged, where)
    BY TrailIs DEF FileInv
  <1> DEFINE w == [i \in 1 .. n + 1 |-> IF i = n + 1 THEN m + 1 ELSE where[i]]
  <1>9. /\ where \in [1 .. n -> 1 .. m]
        /\ \A i \in 1 .. n : gwSeen.logged[where[i]] = auditFile[i].event /\ \A j \in 1 .. i - 1 : where[j] < where[i]
    BY <1>4, <1>5, <1>8 DEF Placed
  <1>10. w \in [1 .. n + 1 -> 1 .. m + 1]
    BY <1>4, <1>5, <1>9
  <1>11. ASSUME NEW i \in 1 .. n + 1 PROVE logged[w[i]] = book[i].event /\ \A j \in 1 .. i - 1 : w[j] < w[i]
    <2>1. CASE i = n + 1
      <3>1. w[i] = m + 1 /\ book[i].event = e
        BY <1>2, <1>4, <2>1
      <3>2. \A j \in 1 .. i - 1 : w[j] = where[j] /\ where[j] \in 1 .. m
        BY <1>4, <1>9, <2>1
      <3> HIDE DEF w
      <3>3. \A j \in 1 .. i - 1 : w[j] < m + 1
        BY <1>5, <3>2
      <3> QED
        BY <1>5, <3>1, <3>3
    <2>2. CASE i \in 1 .. n
      <3>1. w[i] = where[i] /\ book[i] = auditFile[i] /\ where[i] \in 1 .. m
        BY <1>4, <1>9, <2>2
      <3>2. \A j \in 1 .. i - 1 : w[j] = where[j]
          BY <1>4, <2>2
      <3> HIDE DEF w
      <3>3. logged[w[i]] = book[i].event
        BY <1>5, <1>9, <2>2, <3>1
      <3>4. \A j \in 1 .. i - 1 : w[j] < w[i]
        BY <1>9, <2>2, <3>1, <3>2
      <3> QED
        BY <3>3, <3>4
    <2>3. i = n + 1 \/ i \in 1 .. n
      <3>1. n \in Nat
        BY <1>4
      <3> QED
        BY <3>1
    <2> QED
      BY <2>1, <2>2, <2>3
  <1> HIDE DEF w
  <1>12. Placed(book, logged, w)
    BY <1>4, <1>5, <1>10, <1>11 DEF Placed
  <1>13. \A i \in DOMAIN book : (book[i].parses /\ book[i].ended) \/ book[i].event \in gwSeen'.spoiled
    <2>2. \A i \in 1 .. n + 1 : i = n + 1 \/ i \in 1 .. n
      <3>1. n \in Nat
        BY <1>4
      <3> QED
        BY <3>1
    <2>1. \A i \in DOMAIN book : i = n + 1 \/ (i \in DOMAIN auditFile /\ book[i] = auditFile[i])
      <3>1. DOMAIN book = 1 .. n + 1 /\ DOMAIN auditFile = 1 .. n /\ \A i \in 1 .. n : book[i] = auditFile[i]
        BY <1>4
      <3> QED
        BY <2>2, <3>1, Zenon
    <2> QED
      BY <1>2, <1>4, <2>1 DEF FileInv
  <1>14. TrailIsKept'
    <2>1. \A k \in 1 .. m + 1 : k \in 1 .. m \/ k = m + 1
      BY <1>5
    <2>2. \A k \in DOMAIN gwSeen'.logged : KeptAt(k)'
      BY <1>1, <1>5, <1>6, <1>7, <2>1
    <2> QED
      BY <1>1, <1>12, <2>2 DEF TrailIsKept, KeptAt, Placed
  <1> QED
    BY <1>1, <1>4, <1>13, <1>14 DEF FileInv, Later

\* The places of a set of numbers.
LEMMA NthIs ==
  ASSUME NEW S, S \subseteq Nat, IsFiniteSet(S)
  PROVE  /\ Cardinality(S) \in Nat
         /\ \A n \in 1 .. Cardinality(S) : Nth(S, n) \in S
         /\ \A m, n \in 1 .. Cardinality(S) : m < n => Nth(S, m) < Nth(S, n)
         /\ \A i \in S : \E n \in 1 .. Cardinality(S) : Nth(S, n) = i
  <1> DEFINE g == [i \in S |-> Cardinality({j \in S : j <= i})]
  <1>1. Cardinality(S) \in Nat
    BY FS_CardinalityType
  <1>2. ASSUME NEW i \in S PROVE g[i] \in 1 .. Cardinality(S)
    <2>1. {j \in S : j <= i} \in SUBSET S /\ i \in {j \in S : j <= i}
      OBVIOUS
    <2>2. IsFiniteSet({j \in S : j <= i}) /\ Cardinality({j \in S : j <= i}) <= Cardinality(S)
      BY <2>1, FS_Subset
    <2>3. Cardinality({j \in S : j <= i}) # 0 /\ Cardinality({j \in S : j <= i}) \in Nat
      BY <2>1, <2>2, FS_EmptySet, FS_CardinalityType
    <2> QED
      BY <1>1, <2>2, <2>3
  <1>3. ASSUME NEW i \in S, NEW k \in S, i < k PROVE g[i] < g[k]
    <2>7. ASSUME NEW j \in S, j <= i PROVE j <= k
      <3>1. j \in Nat /\ i \in Nat /\ k \in Nat
        OBVIOUS
      <3> QED
        BY <1>3, <2>7, <3>1
    <2>1. {j \in S : j <= i} \in SUBSET {j \in S : j <= k}
      BY <2>7
    <2>2. k \in {j \in S : j <= k} /\ k \notin {j \in S : j <= i}
      BY <1>3
    <2>3. IsFiniteSet({j \in S : j <= k})
      BY FS_Subset
    <2>4. /\ Cardinality({j \in S : j <= i}) <= Cardinality({j \in S : j <= k})
          /\ Cardinality({j \in S : j <= i}) # Cardinality({j \in S : j <= k})
      BY <2>1, <2>2, <2>3, FS_Subset
    <2>5. g[i] = Cardinality({j \in S : j <= i}) /\ g[k] = Cardinality({j \in S : j <= k})
      OBVIOUS
    <2>6. g[i] \in Nat /\ g[k] \in Nat
      BY <1>1, <1>2
    <2> HIDE DEF g
    <2> QED
      BY <2>4, <2>5, <2>6
  <1>4. \A i \in S : g[i] = Cardinality({j \in S : j <= i})
    OBVIOUS
  <1>5. DOMAIN g = S
    OBVIOUS
  <1>6. g \in [S -> 1 .. Cardinality(S)]
    BY <1>2
  <1> HIDE DEF g
  <1>7. g \in Injection(S, 1 .. Cardinality(S))
    BY <1>1, <1>3, <1>6 DEF Injection, IsInjective
  <1>8. g \in Surjection(S, 1 .. Cardinality(S))
    <2>1. IsFiniteSet(1 .. Cardinality(S)) /\ Cardinality(1 .. Cardinality(S)) = Cardinality(S)
      BY <1>1, FS_Interval
    <2> QED
      BY <1>7, <2>1, FS_Injection
  <1>9. ASSUME NEW n \in 1 .. Cardinality(S) PROVE Nth(S, n) \in S /\ g[Nth(S, n)] = n
    <2>1. \E i \in S : Cardinality({j \in S : j <= i}) = n
      BY <1>4, <1>8 DEF Surjection
    <2> QED
      BY <1>4, <2>1 DEF Nth
  <1>10. ASSUME NEW m \in 1 .. Cardinality(S), NEW n \in 1 .. Cardinality(S), m < n PROVE Nth(S, m) < Nth(S, n)
    <2>1. PICK a, b : a = Nth(S, m) /\ b = Nth(S, n)
      OBVIOUS
    <2>2. a \in S /\ b \in S /\ g[a] = m /\ g[b] = n /\ a \in Nat /\ b \in Nat
      BY <1>9, <2>1
    <2> QED
      BY <1>1, <1>3, <1>10, <2>1, <2>2
  <1>11. ASSUME NEW i \in S PROVE \E n \in 1 .. Cardinality(S) : Nth(S, n) = i
    <2>1. g[i] \in 1 .. Cardinality(S)
      BY <1>2
    <2>2. Nth(S, g[i]) \in S /\ g[Nth(S, g[i])] = g[i]
      BY <1>9, <2>1
    <2>3. Nth(S, g[i]) = i
      BY <1>7, <2>2 DEF Injection, IsInjective
    <2> QED
      BY <2>1, <2>3
  <1> QED
    BY <1>1, <1>9, <1>10, <1>11

\* Lines are in the order in which they were logged, so a line has no more lines behind it
\* than were logged behind it.
LEMMA PlacesRise ==
  ASSUME NEW book \in Seq(Lines), NEW logged \in Seq(Nat), NEW where, Placed(book, logged, where),
         NEW i \in DOMAIN book, NEW k \in DOMAIN book, i < k
  PROVE  where[i] < where[k]
  <1>1. DOMAIN book = 1 .. Len(book) /\ Len(book) \in Nat
    BY LenProperties
  <1>2. i \in 1 .. k - 1
    BY <1>1
  <1> QED
    BY <1>2 DEF Placed

\* As many lines behind a line as events behind its own, or fewer.
LEMMA Behind ==
  ASSUME NEW book \in Seq(Lines), NEW logged \in Seq(Nat), NEW where, Placed(book, logged, where),
         NEW i \in DOMAIN book, NEW places \in SUBSET DOMAIN book
  PROVE  /\ Cardinality({j \in places : j >= i}) \in Nat
         /\ Cardinality({j \in places : j >= i}) <= Len(logged) - where[i] + 1
  <1>1. PICK m, from, behind : m = Len(logged) /\ from = where[i] /\ behind = {j \in places : j >= i}
    OBVIOUS
  <1>2. /\ DOMAIN book = 1 .. Len(book) /\ Len(book) \in Nat /\ DOMAIN logged = 1 .. m /\ m \in Nat
    BY <1>1, LenProperties
  <1>3. where \in [DOMAIN book -> 1 .. m] /\ from \in 1 .. m
    BY <1>1, <1>2 DEF Placed
  <1>4. behind \subseteq DOMAIN book
    BY <1>1
  <1> DEFINE g == [j \in behind |-> where[j]]
  <1>5. ASSUME NEW j \in behind PROVE g[j] \in from .. m
    <2>1. j \in DOMAIN book /\ j >= i /\ where[j] \in 1 .. m
      BY <1>1, <1>3, <1>4
    <2>2. where[j] >= from
      <3>1. CASE j = i
        BY <1>1, <1>3, <3>1
      <3>2. CASE j # i
        <4>1. i < j
          BY <1>2, <2>1, <3>2
        <4>2. where[i] < where[j]
          BY <2>1, <4>1, PlacesRise
        <4> QED
          BY <1>1, <1>3, <2>1, <4>2
      <3> QED
        BY <3>1, <3>2
    <2> QED
      BY <1>3, <2>1, <2>2
  <1>6. ASSUME NEW j \in behind, NEW k \in behind, g[j] = g[k] PROVE j = k
    <2>1. j \in Nat /\ k \in Nat /\ j \in DOMAIN book /\ k \in DOMAIN book
      BY <1>2, <1>4
    <2>2. where[j] = where[k] /\ where[j] \in 1 .. m
      BY <1>3, <1>6, <2>1
    <2>3. where[j] \in Nat /\ where[k] = where[j]
      BY <1>2, <2>2
    <2>4. ASSUME j < k PROVE FALSE
      <3>1. where[j] < where[k]
        BY <2>1, <2>4, PlacesRise
      <3> QED
        BY <2>3, <3>1
    <2>5. ASSUME k < j PROVE FALSE
      <3>1. where[k] < where[j]
        BY <2>1, <2>5, PlacesRise
      <3> QED
        BY <2>3, <3>1
    <2> QED
      BY <2>1, <2>4, <2>5
  <1>7. g \in [behind -> from .. m]
    BY <1>5
  <1> HIDE DEF g
  <1>8. g \in Injection(behind, from .. m)
    BY <1>6, <1>7 DEF Injection, IsInjective
  <1>9. IsFiniteSet(from .. m) /\ Cardinality(from .. m) = m - from + 1
    <2>1. from \in Int /\ m \in Int /\ ~(from > m)
      BY <1>2, <1>3
    <2> QED
      BY <2>1, FS_Interval
  <1>10. IsFiniteSet(behind) /\ Cardinality(behind) <= m - from + 1
    BY <1>8, <1>9, FS_Injection
  <1> QED
    BY <1>1, <1>10, FS_CardinalityType

\* The places that a cleanup keeps.
LEMMA FittingIs ==
  ASSUME FileInv
  PROVE  /\ DOMAIN auditFile = 1 .. Len(auditFile) /\ Len(auditFile) \in Nat
         /\ Young \subseteq DOMAIN auditFile /\ Fitting \subseteq Young /\ Fitting \subseteq Nat /\ IsFiniteSet(Fitting)
  <1>1. DOMAIN auditFile = 1 .. Len(auditFile) /\ Len(auditFile) \in Nat
    BY LenProperties DEF FileInv
  <1>2. Young \subseteq DOMAIN auditFile /\ Fitting \subseteq Young
    BY DEF Young, Fitting
  <1>3. IsFiniteSet(1 .. Len(auditFile))
    BY <1>1, FS_Interval
  <1>4. Fitting \in SUBSET (1 .. Len(auditFile))
    BY <1>1, <1>2
  <1> QED
    BY <1>1, <1>2, <1>3, <1>4, FS_Subset

\* The lines of a copy.
LEMMA CopyIs ==
  ASSUME FileInv, NEW places \in SUBSET Fitting, NEW cut, NEW ended \in BOOLEAN
  PROVE  /\ Cardinality(places) \in Nat /\ IsFiniteSet(places) /\ places \subseteq DOMAIN auditFile /\ places \subseteq Nat
         /\ Copy(places, cut, ended) \in Seq(Lines) /\ Len(Copy(places, cut, ended)) = Cardinality(places)
         /\ DOMAIN Copy(places, cut, ended) = 1 .. Cardinality(places)
         /\ \A n \in 1 .. Cardinality(places) :
               /\ Nth(places, n) \in places
               /\ Copy(places, cut, ended)[n].event = auditFile[Nth(places, n)].event
               /\ Copy(places, cut, ended)[n].parses = (auditFile[Nth(places, n)].parses /\ Nth(places, n) \notin cut)
               /\ Copy(places, cut, ended)[n].ended = (ended \/ n < Cardinality(places))
  <1>1. PICK count, book, at : count = Cardinality(places) /\ book = auditFile /\ at = [n \in 1 .. count |-> Nth(places, n)]
    OBVIOUS
  <1>2. IsFiniteSet(places) /\ places \subseteq DOMAIN book /\ places \subseteq Nat /\ book \in Seq(Lines) /\ DOMAIN book = 1 .. Len(book)
    BY <1>1, FittingIs, FS_Subset DEF FileInv
  <1>3. count \in Nat /\ \A n \in 1 .. count : Nth(places, n) \in places
    BY <1>1, <1>2, NthIs
  <1>4. PICK new : new = Copy(places, cut, ended)
    OBVIOUS
  <1>5. new = [n \in 1 .. count |-> [book[at[n]] EXCEPT !.parses = @ /\ at[n] \notin cut, !.ended = ended \/ n < count]]
    BY <1>1, <1>4 DEF Copy
  <1>6. ASSUME NEW n \in 1 .. count
        PROVE  /\ new[n] \in Lines /\ new[n].event = book[Nth(places, n)].event
               /\ new[n].parses = (book[Nth(places, n)].parses /\ Nth(places, n) \notin cut)
               /\ new[n].ended = (ended \/ n < count)
    <2>1. PICK line, i, p, q : /\ line = book[i] /\ i = Nth(places, n) /\ p = (line.parses /\ i \notin cut)
                               /\ q = (ended \/ n < count)
      OBVIOUS
    <2>2. at[n] = i /\ i \in places
      BY <1>1, <1>3, <2>1
    <2>3. line \in Lines
      BY <1>2, <2>1, <2>2, ElementOfSeq
    <2>4. p \in BOOLEAN /\ q \in BOOLEAN
      BY <2>1
    <2>5. new[n] = [book[at[n]] EXCEPT !.parses = @ /\ at[n] \notin cut, !.ended = ended \/ n < count]
      BY <1>5
    <2>6. new[n] = [line EXCEPT !.parses = p, !.ended = q]
      BY <2>1, <2>2, <2>5
    <2>7. new[n] \in Lines /\ new[n].event = line.event /\ new[n].parses = p /\ new[n].ended = q
      BY <2>3, <2>4, <2>6 DEF Lines
    <2> QED
      BY <2>1, <2>7
  <1>7. new \in [1 .. count -> Lines]
    BY <1>5, <1>6
  <1>8. new \in Seq(Lines)
    BY <1>3, <1>7, SeqDef
  <1>9. DOMAIN new = 1 .. count /\ Len(new) = count
    BY <1>3, <1>7, <1>8, LenProperties
  <1> QED
    BY <1>1, <1>2, <1>3, <1>4, <1>6, <1>8, <1>9

\* A cleanup keeps the lines that fit, and what its copy loses of them is spoiled.
LEMMA FewerLines ==
  ASSUME GatewayConstants, gwSetup \in GwSetups, EventsInv, FileInv, Later, gwSeen \in Seen,
         gwSeen'.logged = gwSeen.logged, gwSeen'.swallowed = gwSeen.swallowed,
         gwSeen.spoiled \subseteq gwSeen'.spoiled,
         NEW places \in SUBSET Fitting, NEW cut \in SUBSET places, NEW ended \in BOOLEAN,
         auditFile' = Copy(places, cut, ended), Lost(auditFile') \subseteq gwSeen'.spoiled
  PROVE  FileInv'
  <1>1. PICK book, new, logged, n : /\ book = auditFile /\ new = auditFile' /\ logged = gwSeen.logged /\ n = Cardinality(places)
    OBVIOUS
  <1>2. PICK at : at = [i \in 1 .. n |-> Nth(places, i)]
    OBVIOUS
  <1>3. /\ book \in Seq(Lines) /\ logged \in Seq(Nat) /\ n \in Nat /\ places \subseteq DOMAIN book /\ places \subseteq Nat
        /\ IsFiniteSet(places) /\ new \in Seq(Lines) /\ DOMAIN new = 1 .. n
    BY <1>1, CopyIs DEF FileInv, Seen
  <1>4. /\ \A i \in 1 .. n : at[i] \in places
        /\ \A i, k \in 1 .. n : i < k => at[i] < at[k]
    BY <1>1, <1>2, <1>3, NthIs
  <1>6. \A i \in 1 .. n : new[i].event = book[at[i]].event
    BY <1>1, <1>2, CopyIs
  <1>7. PICK where : Placed(book, logged, where)
    BY <1>1, TrailIs DEF FileInv
  <1>8. \A j, k \in DOMAIN logged : logged[j] = logged[k] => j = k
    BY <1>1 DEF EventsInv
  <1>9. \A i, k \in DOMAIN book : book[i].event = book[k].event => i = k
    <2>1. SUFFICES ASSUME NEW i \in DOMAIN book, NEW k \in DOMAIN book, book[i].event = book[k].event PROVE i = k
      OBVIOUS
    <2>2. where[i] \in DOMAIN logged /\ where[k] \in DOMAIN logged /\ logged[where[i]] = logged[where[k]]
      BY <1>7, <2>1 DEF Placed
    <2>3. where[i] = where[k] /\ where[i] \in Nat
      BY <1>3, <1>8, <2>2, LenProperties
    <2>4. i \in Nat /\ k \in Nat
      BY <1>3, LenProperties
    <2>5. ~(i < k) /\ ~(k < i)
      BY <1>3, <1>7, <2>3, PlacesRise
    <2> QED
      BY <2>4, <2>5
  <1>18. ASSUME NEW i \in 1 .. n, NEW k \in 1 .. n, new[i].event = new[k].event PROVE i = k
    <2>3. at[i] \in DOMAIN book /\ at[k] \in DOMAIN book /\ at[i] \in Nat
      BY <1>3, <1>4
    <2>4. book[at[i]].event = book[at[k]].event
      BY <1>6, <1>18
    <2>1. at[i] = at[k] /\ at[i] \in Nat
      BY <1>9, <2>3, <2>4
    <2>2. ~(i < k) /\ ~(k < i) /\ i \in Nat /\ k \in Nat
      BY <1>3, <1>4, <2>1
    <2> QED
      BY <2>2
  <1>10. ASSUME NEW k \in DOMAIN logged PROVE KeptAt(k)'
    <2>1. PICK e : e = logged[k]
      OBVIOUS
    <2>2. KeptAt(k) /\ e \in DOMAIN auditEvents /\ gwSetup' = gwSetup /\ gwSetup.maxSize \in Nat /\ gwSeen'.logged[k] = e
      BY <1>1, <2>1, TrailIs DEF FileInv, EventsInv, Later, GatewayConstants
    <2>3. Expired(e) => Expired(e)'
      BY <2>2, ExpiredStays DEF FileInv
    <2>4. ASSUME NEW i \in DOMAIN book, book[i].event = e, book[i].parses
          PROVE  KeptAt(k)'
      <3>1. CASE i \in Fitting
        <4>1. CASE e \in Lost(auditFile')
          BY <2>2, <4>1 DEF KeptAt
        <4>2. CASE e \notin Lost(auditFile')
          BY <1>1, <2>2, <2>4, <3>1, <4>2 DEF KeptAt, Lost
        <4> QED
          BY <4>1, <4>2
      <3>2. CASE i \notin Young
        <4>1. Expired(e)
          BY <1>1, <2>4, <3>2 DEF Young
        <4> QED
          BY <2>2, <2>3, <4>1 DEF KeptAt, Expired
      <3>3. CASE i \in Young /\ i \notin Fitting
        <4>1. gwSetup.maxSize > 0 /\ ~(Cardinality({j \in Young : j >= i}) <= gwSetup.maxSize)
          BY <1>1, <3>3 DEF Fitting
        <4>2. where[i] = k
          BY <1>7, <1>8, <2>1, <2>4 DEF Placed
        <4>3. /\ Cardinality({j \in Young : j >= i}) \in Nat
              /\ Cardinality({j \in Young : j >= i}) <= Len(logged) - where[i] + 1
          <5>1. PICK young : young = Young
            OBVIOUS
          <5>2. young \in SUBSET DOMAIN book
            BY <1>1, <5>1, FittingIs
          <5> QED
            BY <1>3, <1>7, <5>1, <5>2, Behind
        <4>4. Len(logged) - k >= gwSetup.maxSize
          <5>1. Len(logged) \in Nat /\ k \in Nat
            BY <1>3, LenProperties
          <5> QED
            BY <2>2, <4>1, <4>2, <4>3, <5>1
        <4> QED
          BY <1>1, <2>2, <4>1, <4>4 DEF KeptAt
      <3> QED
        BY <3>1, <3>2, <3>3
    <2>5. CASE e \in gwSeen.spoiled \cup gwSeen.swallowed
      BY <2>2, <2>5 DEF KeptAt
    <2>6. CASE Expired(e)
      BY <2>2, <2>3, <2>6 DEF KeptAt, Expired
    <2>7. CASE gwSetup.maxSize > 0 /\ Len(logged) - k >= gwSetup.maxSize
      BY <1>1, <2>2, <2>7 DEF KeptAt
    <2> QED
      BY <1>1, <2>1, <2>2, <2>4, <2>5, <2>6, <2>7 DEF KeptAt
  <1>11. PICK w : w = [i \in 1 .. n |-> where[at[i]]]
    OBVIOUS
  <1>12. \A i \in 1 .. n : at[i] \in DOMAIN book /\ w[i] = where[at[i]]
    BY <1>3, <1>4, <1>11
  <1>13. w \in [1 .. n -> DOMAIN logged]
    BY <1>7, <1>11, <1>12 DEF Placed
  <1>14. ASSUME NEW i \in 1 .. n PROVE logged[w[i]] = new[i].event /\ \A j \in 1 .. i - 1 : w[j] < w[i]
    <2>1. logged[w[i]] = new[i].event
      BY <1>6, <1>7, <1>12 DEF Placed
    <2>2. ASSUME NEW j \in 1 .. i - 1 PROVE w[j] < w[i]
      <3>1. j \in 1 .. n /\ j < i
        BY <1>3
      <3>2. at[j] < at[i]
        BY <1>4, <3>1
      <3>3. where[at[j]] < where[at[i]]
        BY <1>3, <1>7, <1>12, <3>1, <3>2, PlacesRise
      <3> QED
        BY <1>12, <3>1, <3>3
    <2> QED
      BY <2>1, <2>2
  <1>15. Placed(new, logged, w)
    BY <1>1, <1>3, <1>13, <1>14 DEF Placed
  <1>16. ASSUME NEW i \in DOMAIN auditFile', ~(auditFile'[i].parses /\ auditFile'[i].ended)
         PROVE  auditFile'[i].event \in gwSeen'.spoiled
    <2>1. i \in 1 .. n /\ new[i].event = book[at[i]].event /\ at[i] \in Fitting
      BY <1>1, <1>3, <1>4, <1>6
    <2>2. \A k \in DOMAIN new : new[k].parses /\ new[k].ended => new[k].event # new[i].event
      BY <1>1, <1>3, <1>16, <1>18, <2>1
    <2>3. new[i].event \in Lost(auditFile')
      BY <1>1, <2>1, <2>2 DEF Lost
    <2> QED
      BY <1>1, <2>3
  <1>17. TrailIsKept'
    <2>1. \A k \in DOMAIN gwSeen'.logged : KeptAt(k)'
      BY <1>1, <1>10
    <2> QED
      BY <1>1, <1>15, <2>1 DEF TrailIsKept, KeptAt, Placed
  <1> QED
    BY <1>1, <1>3, <1>16, <1>17 DEF FileInv, Later

-----------------------------------------------------------------------------
(* The trail *)

\* The inductive invariant of the gateway.
GatewayInv == CallsInv /\ TenantsInv /\ EventsInv /\ FileInv /\ TearsInv

\* Steps that leave the log alone, and make an event or none.
LEMMA LogStays ==
  ASSUME GatewayConstants, GatewayInv, Later, auditFile' = auditFile, gwSeen'.logged = gwSeen.logged,
         gwSeen'.spoiled = gwSeen.spoiled /\ gwSeen'.swallowed = gwSeen.swallowed
  PROVE  FileInv'
  BY FileStays DEF GatewayInv, CallsInv, TenantsInv

\* No event is made or logged.
LEMMA TrailStays ==
  ASSUME GatewayConstants, GatewayInv, UNCHANGED <<gwSetup, auditFile, auditEvents, gwDay>>,
         gwSeen'.logged = gwSeen.logged, gwSeen'.spoiled = gwSeen.spoiled /\ gwSeen'.swallowed = gwSeen.swallowed,
         \A d \in RpcCalls : RpcAt(d, "log")' => RpcAt(d, "log") /\ rpc'[d].event = rpc[d].event
  PROVE  EventsInv' /\ FileInv'
  <1>1. gwDay \in Nat
    BY DEF GatewayInv, FileInv
  <1>2. Later
    BY <1>1 DEF Later
  <1> QED
    BY <1>2, LogStays, EventsStay DEF GatewayInv

\* A call goes on, perhaps with a new event.
LEMMA AnyGoesTrail ==
  ASSUME GatewayConstants, GatewayInv, UNCHANGED <<gwSetup, auditFile, gwDay>>, NEW c \in RpcCalls,
         rpc[c].pc # "idle",
         gwSeen'.logged = gwSeen.logged, gwSeen'.spoiled = gwSeen.spoiled /\ gwSeen'.swallowed = gwSeen.swallowed,
         \/ (\E pc \in RpcPcs \ {"log"} : RpcGo(c, pc)) /\ UNCHANGED auditEvents
         \/ (\E told : Respond(c, told)) /\ UNCHANGED auditEvents
         \/ \E kind \in {"denied", "gdpr", "create", "delete"} : \E told : Logs(c, kind, told)
  PROVE  EventsInv' /\ FileInv'
  <1>1. CallsInv /\ EventsInv /\ gwDay \in Nat /\ gwSeen \in Seen
    BY DEF GatewayInv, FileInv, TenantsInv
  <1>2. ASSUME UNCHANGED auditEvents, NEW pc, NEW row, NEW event, NEW told, Hops(c, pc, row, event, told),
               pc # "log"
        PROVE  EventsInv' /\ FileInv'
    <2>1. \A d \in RpcCalls : RpcAt(d, "log")' => RpcAt(d, "log") /\ rpc'[d].event = rpc[d].event
      BY <1>2, GoesLog
    <2> QED
      BY <1>2, <2>1, TrailStays
  <1>3. ASSUME NEW pc \in RpcPcs \ {"log"}, RpcGo(c, pc), UNCHANGED auditEvents PROVE EventsInv' /\ FileInv'
    BY <1>1, <1>2, <1>3, GoIs
  <1>4. ASSUME NEW told, Respond(c, told), UNCHANGED auditEvents PROVE EventsInv' /\ FileInv'
    BY <1>1, <1>2, <1>4, RespondIs
  <1>5. ASSUME NEW kind \in {"denied", "gdpr", "create", "delete"}, NEW told, Logs(c, kind, told)
        PROVE  EventsInv' /\ FileInv'
    <2>1. EventsInv' /\ \A e \in 1 .. Len(auditEvents) : auditEvents'[e] = auditEvents[e]
      BY <1>1, <1>5, NewEvent
    <2>2. DOMAIN auditEvents = 1 .. Len(auditEvents)
      BY <1>1, LenProperties DEF EventsInv
    <2>3. Later
      BY <1>1, <2>1, <2>2 DEF Later
    <2> QED
      BY <2>1, <2>3, LogStays
  <1> QED
    BY <1>3, <1>4, <1>5

\* A refusal is an event.
LEMMA GuardTrail == ASSUME GatewayConstants, GatewayInv, NEW c \in RpcCalls, requirePerm(c) PROVE EventsInv' /\ FileInv'
  <1>1. "handle" \in RpcPcs \ {"log"} /\ rpc[c].pc # "idle"
    BY DEF RpcPcs, Serving, requirePerm, RpcAt
  <1> QED
    BY <1>1, AnyGoesTrail DEF requirePerm

\* The look at the payload is none.
LEMMA PayloadTrail == ASSUME GatewayConstants, GatewayInv, NEW c \in RpcCalls, ReadPayload(c) PROVE EventsInv' /\ FileInv'
  <1>1. PICK pc : pc = FirstOfRpc(rpc[c].m.name)
    OBVIOUS
  <1>2. pc \in RpcPcs \ {"log"} /\ rpc[c].pc # "idle"
    BY <1>1 DEF RpcPcs, Serving, FirstOfRpc, ReadPayload, RpcAt
  <1> QED
    BY <1>1, <1>2, AnyGoesTrail DEF ReadPayload, auditVars

\* A call of gdpr.* is one when it was done.
LEMMA PassOnTrail == ASSUME GatewayConstants, GatewayInv, NEW c \in RpcCalls, PassOn(c) PROVE EventsInv' /\ FileInv'
  <1>1. rpc[c].pc # "idle"
    BY DEF PassOn, RpcAt
  <1> QED
    BY <1>1, AnyGoesTrail DEF PassOn

\* The row of a new tenant is none yet,
LEMMA CreateTrail == ASSUME GatewayConstants, GatewayInv, NEW c \in RpcCalls, CreateTenant(c) PROVE EventsInv' /\ FileInv'
  <1>1. rpc[c].pc # "idle" /\ "dirs" \in RpcPcs \ {"log"}
    BY DEF CreateTenant, RpcAt, RpcPcs, Serving
  <1> QED
    BY <1>1, AnyGoesTrail DEF CreateTenant, auditVars

\* its directories are.
LEMMA MakeDirsTrail == ASSUME GatewayConstants, GatewayInv, NEW c \in RpcCalls, MakeDirs(c) PROVE EventsInv' /\ FileInv'
  <1>1. rpc[c].pc # "idle"
    BY DEF MakeDirs, RpcAt
  <1>2. gwSeen'.logged = gwSeen.logged /\ gwSeen'.spoiled = gwSeen.spoiled /\ gwSeen'.swallowed = gwSeen.swallowed
    <2>1. gwSeen \in Seen
      BY DEF GatewayInv, TenantsInv
    <2>2. PICK made : made = gwSeen.made \cup {rpc[c].tenant}
      OBVIOUS
    <2>3. gwSeen' = gwSeen \/ gwSeen' = [gwSeen EXCEPT !.made = made]
      BY <2>2 DEF MakeDirs
    <2>4. CASE gwSeen' = [gwSeen EXCEPT !.made = made]
      BY <2>1, <2>4 DEF Seen
    <2> QED
      BY <2>3, <2>4
  <1> QED
    BY <1>1, <1>2, AnyGoesTrail DEF MakeDirs

\* A row is read.
LEMMA ReadTrail == ASSUME GatewayConstants, GatewayInv, NEW c \in RpcCalls, ReadTenant(c) PROVE EventsInv' /\ FileInv'
  <1>1. rpc[c].pc # "idle" /\ CallsInv
    BY DEF ReadTenant, RpcAt, GatewayInv
  <1>2. PICK row : row = tenantRow[rpc[c].tenant]
    OBVIOUS
  <1>3. CASE row = NoTenant
    BY <1>1, <1>2, <1>3, AnyGoesTrail DEF ReadTenant, auditVars
  <1>4. CASE row # NoTenant
    <2>1. rpc' = [rpc EXCEPT ![c].row = row, ![c].pc = "write"]
      BY <1>2, <1>4 DEF ReadTenant
    <2>2. \A d \in RpcCalls : RpcAt(d, "log")' => RpcAt(d, "log") /\ rpc'[d].event = rpc[d].event
      <3>1. Hops(c, "write", row, rpc[c].event, rpc[c].told)
        BY <1>1, <2>1, ReadsIs
      <3> QED
        BY <3>1, GoesLog
    <2> QED
      BY <2>2, TrailStays DEF ReadTenant, auditVars
  <1> QED
    BY <1>3, <1>4

\* A row is written.
LEMMA UpdateTrail == ASSUME GatewayConstants, GatewayInv, NEW c \in RpcCalls, UpdateTenant(c) PROVE EventsInv' /\ FileInv'
  <1>1. rpc[c].pc # "idle" /\ \E told : Respond(c, told)
    BY DEF UpdateTenant, RpcAt
  <1>2. gwSeen'.logged = gwSeen.logged /\ gwSeen'.spoiled = gwSeen.spoiled /\ gwSeen'.swallowed = gwSeen.swallowed
    <2>1. gwSeen \in Seen
      BY DEF GatewayInv, TenantsInv
    <2>2. PICK said, stale : /\ said = gwSeen.said \cup {<<rpc[c].tenant, rpc[c].field>>}
                            /\ stale = IF tenantRow[rpc[c].tenant] # rpc[c].row THEN gwSeen.stale \cup {rpc[c].tenant} ELSE gwSeen.stale
      OBVIOUS
    <2>3. gwSeen' = gwSeen \/ gwSeen' = [gwSeen EXCEPT !.said = said, !.stale = stale]
      BY <2>2 DEF UpdateTenant
    <2>4. CASE gwSeen' = [gwSeen EXCEPT !.said = said, !.stale = stale]
      BY <2>1, <2>4 DEF Seen
    <2> QED
      BY <2>3, <2>4
  <1> QED
    BY <1>1, <1>2, AnyGoesTrail DEF UpdateTenant, auditVars

\* A deletion is an event.
LEMMA DeleteTrail == ASSUME GatewayConstants, GatewayInv, NEW c \in RpcCalls, DeleteTenant(c) PROVE EventsInv' /\ FileInv'
  <1>1. rpc[c].pc # "idle"
    BY DEF DeleteTenant, RpcAt
  <1>2. gwSeen'.logged = gwSeen.logged /\ gwSeen'.spoiled = gwSeen.spoiled /\ gwSeen'.swallowed = gwSeen.swallowed
    <2>1. gwSeen \in Seen
      BY DEF GatewayInv, TenantsInv
    <2>2. PICK t, made, said : t = rpc[c].tenant /\ made = gwSeen.made \ {t} /\ said = gwSeen.said \ {<<t, "name">>, <<t, "plan">>}
      OBVIOUS
    <2>3. gwSeen' = gwSeen \/ gwSeen' = [gwSeen EXCEPT !.made = made, !.said = said]
      BY <2>2 DEF DeleteTenant
    <2>4. CASE gwSeen' = [gwSeen EXCEPT !.made = made, !.said = said]
      BY <2>1, <2>4 DEF Seen
    <2> QED
      BY <2>3, <2>4
  <1> QED
    BY <1>1, <1>2, AnyGoesTrail DEF DeleteTenant

\* A call ends.
LEMMA ResponseTrail == ASSUME GatewayConstants, GatewayInv, NEW c \in RpcCalls, sendResponse(c) PROVE EventsInv' /\ FileInv'
  <1>1. \A d \in RpcCalls : RpcAt(d, "log")' => RpcAt(d, "log") /\ rpc'[d] = rpc[d]
    BY DEF sendResponse, RpcAt, RpcIdle, GatewayInv, CallsInv
  <1> QED
    BY <1>1, TrailStays DEF sendResponse, auditVars

\* A call begins.
LEMMA DispatchTrail ==
  ASSUME GatewayConstants, GatewayInv, NEW c \in RpcCalls, NEW k, NEW m \in AllMethods, NEW given,
         dispatchRPC(c, k, m, given)
  PROVE  EventsInv' /\ FileInv'
  <1>6. PICK pc, told : /\ pc = IF m \in RegisterDefaultHandlers THEN "guard" ELSE "respond"
                       /\ told = IF m \in RegisterDefaultHandlers THEN "nothing" ELSE "no such method"
    OBVIOUS
  <1>1. PICK t \in IF m.part = "tenants" THEN TenantIds ELSE {"none"},
             f \in IF m.name = "tenant.update" THEN {"name", "plan"} ELSE {"none"} :
          rpc' = [rpc EXCEPT ![c] = [RpcIdle EXCEPT !.token = k, !.m = m, !.given = given, !.tenant = t, !.field = f,
                                                    !.pc = pc, !.told = told]]
    BY <1>6 DEF dispatchRPC
  <1>2. PICK l : l = [RpcIdle EXCEPT !.token = k, !.m = m, !.given = given, !.tenant = t, !.field = f, !.pc = pc, !.told = told]
    OBVIOUS
  <1>3. l = [pc |-> pc, token |-> k, m |-> m, given |-> given, tenant |-> t, field |-> f,
             row |-> NoTenant, event |-> 0, told |-> told]
    BY <1>2 DEF RpcIdle
  <1>4. l.pc = pc
    BY <1>3
  <1>5. \A d \in RpcCalls : RpcAt(d, "log")' => RpcAt(d, "log") /\ rpc'[d] = rpc[d]
    <2>1. rpc' = [rpc EXCEPT ![c] = l]
      BY <1>1, <1>2
    <2>2. l.pc # "log"
      BY <1>4, <1>6
    <2> QED
      BY <2>1, <2>2 DEF RpcAt, GatewayInv, CallsInv
  <1> QED
    BY <1>5, TrailStays DEF dispatchRPC, auditVars

\* The last line of the file becomes another, of the same event.
LEMMA TornIs ==
  ASSUME FileInv, Torn, NEW l \in Lines, l.event = auditFile[Len(auditFile)].event,
         auditFile' = [auditFile EXCEPT ![Len(auditFile)] = l]
  PROVE  /\ auditFile' \in Seq(Lines) /\ DOMAIN auditFile' = DOMAIN auditFile /\ Len(auditFile') = Len(auditFile)
         /\ auditFile' # <<>> /\ auditFile'[Len(auditFile)] = l
         /\ \A i \in DOMAIN auditFile : /\ auditFile'[i].event = auditFile[i].event
                                        /\ auditFile'[i] = auditFile[i] \/ auditFile[i].event \in gwSeen.spoiled
  <1>1. PICK n : n = Len(auditFile)
    OBVIOUS
  <1>2. auditFile \in Seq(Lines) /\ n \in 1 .. n /\ n \in Nat \ {0} /\ DOMAIN auditFile = 1 .. n
    <2>1. auditFile \in Seq(Lines) /\ n \in Nat /\ DOMAIN auditFile = 1 .. n
      BY <1>1, LenProperties DEF FileInv
    <2>2. n # 0
      BY <1>1, <2>1, EmptySeq DEF Torn
    <2> QED
      BY <2>1, <2>2
  <1>3. auditFile' \in Seq(Lines) /\ DOMAIN auditFile' = 1 .. n /\ Len(auditFile') = n
    BY <1>1, <1>2, ExceptSeq, LenProperties
  <1>4. auditFile'[n] = l /\ \A i \in 1 .. n : i # n => auditFile'[i] = auditFile[i]
    BY <1>1, <1>2
  <1>5. auditFile[n].event \in gwSeen.spoiled
    BY <1>1, <1>2 DEF FileInv, Torn
  <1>6. auditFile' # <<>>
    BY <1>2, <1>3, EmptySeq
  <1> QED
    BY <1>1, <1>2, <1>3, <1>4, <1>5, <1>6

\* Every line has its three parts.
LEMMA LastLine ==
  ASSUME FileInv, Torn
  PROVE  /\ auditFile[Len(auditFile)] \in Lines
         /\ \A q \in BOOLEAN : LET l == [auditFile[Len(auditFile)] EXCEPT !.parses = FALSE, !.ended = q]
                               IN  l \in Lines /\ l.event = auditFile[Len(auditFile)].event /\ l.ended = q
         /\ LET l == [auditFile[Len(auditFile)] EXCEPT !.parses = FALSE]
            IN  l \in Lines /\ l.event = auditFile[Len(auditFile)].event /\ ~l.ended
  <1>1. PICK line : line = auditFile[Len(auditFile)]
    OBVIOUS
  <1>2. line \in Lines /\ ~line.ended
    <2>1. auditFile \in Seq(Lines) /\ Len(auditFile) \in Nat /\ auditFile # <<>>
      BY LenProperties DEF FileInv, Torn
    <2>2. Len(auditFile) \in 1 .. Len(auditFile)
      BY <2>1, EmptySeq
    <2> QED
      BY <1>1, <2>1, <2>2, ElementOfSeq DEF Torn
  <1> QED
    BY <1>1, <1>2 DEF Lines

\* A line stops before its end.
LEMMA StopsTrail ==
  ASSUME GatewayConstants, GatewayInv, UNCHANGED <<gwSetup, auditEvents, gwDay>>, NEW c \in RpcCalls, RpcAt(c, "log"),
         WriteStops(rpc[c].event),
         \A d \in RpcCalls : RpcAt(d, "log")' => d # c /\ RpcAt(d, "log") /\ rpc'[d].event = rpc[d].event
  PROVE  EventsInv' /\ FileInv' /\ gwSeen' \in Seen /\ gwSeen'.swallowed = gwSeen.swallowed
  <1>1. gwSeen \in Seen /\ gwDay \in Nat /\ EventsInv /\ FileInv /\ gwSetup \in GwSetups
    BY DEF GatewayInv, TenantsInv, FileInv, CallsInv
  <1>2. Later
    BY <1>1 DEF Later
  <1>3. PICK e, logged, spoiled : e = rpc[c].event /\ logged = Append(gwSeen.logged, e) /\ spoiled = gwSeen.spoiled \cup {e}
    OBVIOUS
  <1>4. gwSeen' = [gwSeen EXCEPT !.logged = logged, !.spoiled = spoiled]
    BY <1>3 DEF WriteStops
  <1>5. gwSeen'.logged = logged /\ gwSeen'.spoiled = spoiled /\ gwSeen'.swallowed = gwSeen.swallowed
    BY <1>1, <1>4 DEF Seen
  <1>6. EventsInv' /\ e \in Nat
    BY <1>1, <1>3, <1>5, LoggedEvent
  <1>7. logged \in Seq(Nat) /\ spoiled \in SUBSET Nat
    BY <1>1, <1>3, <1>6, AppendProperties DEF Seen
  <1>8. gwSeen' \in Seen
    BY <1>1, <1>4, <1>7 DEF Seen
  <1>9. FileInv'
    <2>1. /\ gwSeen'.logged = Append(gwSeen.logged, e) /\ gwSeen.spoiled \subseteq gwSeen'.spoiled
          /\ gwSeen.swallowed \subseteq gwSeen'.swallowed /\ e \in gwSeen'.spoiled
      BY <1>3, <1>5
    <2>2. CASE Torn
      <3>1. PICK l : l = [auditFile[Len(auditFile)] EXCEPT !.parses = FALSE]
        OBVIOUS
      <3>2. auditFile' = [auditFile EXCEPT ![Len(auditFile)] = l]
        BY <2>2, <3>1 DEF WriteStops, PartOf
      <3>3. l \in Lines /\ l.event = auditFile[Len(auditFile)].event
        BY <1>1, <2>2, <3>1, LastLine
      <3> QED
        BY <1>1, <1>2, <1>6, <2>1, <2>2, <3>2, <3>3, TornIs, LineExtended
    <2>3. CASE ~Torn
      <3>1. PICK whole \in BOOLEAN : auditFile' = Append(auditFile, [event |-> e, parses |-> whole, ended |-> FALSE])
        BY <1>3, <2>3 DEF WriteStops, PartOf
      <3> QED
        BY <1>1, <1>2, <1>6, <2>1, <3>1, LineAdded
    <2> QED
      BY <2>2, <2>3
  <1> QED
    BY <1>5, <1>6, <1>8, <1>9

\* Log writes its line, a part of it, or nothing.
LEMMA LogTrail ==
  ASSUME GatewayConstants, GatewayInv, NEW c \in RpcCalls, Log(c)
  PROVE  EventsInv' /\ FileInv' /\ gwSeen' \in Seen
  <1>1. RpcAt(c, "log") /\ RpcGo(c, "respond") /\ UNCHANGED <<gwSetup, auditEvents, gwDay>>
    BY DEF Log
  <1>2. gwSeen \in Seen /\ gwDay \in Nat /\ auditFile \in Seq(Lines) /\ EventsInv /\ FileInv /\ CallsInv /\ gwSetup \in GwSetups
    BY DEF GatewayInv, TenantsInv, FileInv, CallsInv
  <1>3. \A d \in RpcCalls : RpcAt(d, "log")' => d # c /\ RpcAt(d, "log") /\ rpc'[d].event = rpc[d].event
    <2>1. Hops(c, "respond", rpc[c].row, rpc[c].event, rpc[c].told)
      BY <1>1, <1>2, GoIs
    <2> QED
      BY <2>1, GoesLog
  <1>4. Later
    BY <1>1, <1>2 DEF Later
  <1>5. CASE UNCHANGED <<auditFile, gwSeen>>
    BY <1>1, <1>2, <1>3, <1>5, TrailStays
  <1>7. CASE WriteStops(rpc[c].event)
    BY <1>1, <1>3, <1>7, StopsTrail
  <1>6. CASE /\ auditFile' = Appended(rpc[c].event)
             /\ gwSeen' = [gwSeen EXCEPT !.logged = Append(@, rpc[c].event),
                                         !.swallowed = IF Torn THEN @ \cup {rpc[c].event} ELSE @]
    <2>1. PICK e, logged, swallowed : /\ e = rpc[c].event /\ logged = Append(gwSeen.logged, e)
                                      /\ swallowed = IF Torn THEN gwSeen.swallowed \cup {e} ELSE gwSeen.swallowed
      OBVIOUS
    <2>2. gwSeen' = [gwSeen EXCEPT !.logged = logged, !.swallowed = swallowed]
      BY <1>6, <2>1
    <2>3. gwSeen'.logged = logged /\ gwSeen'.spoiled = gwSeen.spoiled /\ gwSeen'.swallowed = swallowed
      BY <1>2, <2>2 DEF Seen
    <2>4. EventsInv' /\ e \in Nat
      BY <1>1, <1>2, <1>3, <2>1, <2>3, LoggedEvent
    <2>5. logged \in Seq(Nat) /\ swallowed \in SUBSET Nat
      BY <1>2, <2>1, <2>4, AppendProperties DEF Seen
    <2>6. gwSeen' \in Seen
      BY <1>2, <2>2, <2>5 DEF Seen
    <2>7. FileInv'
      <3>1. /\ gwSeen'.logged = Append(gwSeen.logged, e) /\ gwSeen.spoiled \subseteq gwSeen'.spoiled
            /\ gwSeen.swallowed \subseteq gwSeen'.swallowed /\ (Torn => e \in gwSeen'.swallowed)
        BY <2>1, <2>3
      <3>2. CASE Torn
        <4>1. PICK l : l = [auditFile[Len(auditFile)] EXCEPT !.parses = FALSE, !.ended = TRUE]
          OBVIOUS
        <4>2. auditFile' = [auditFile EXCEPT ![Len(auditFile)] = l]
          BY <1>6, <3>2, <4>1 DEF Appended
        <4>3. l \in Lines /\ l.event = auditFile[Len(auditFile)].event
          BY <1>2, <3>2, <4>1, LastLine
        <4> QED
          BY <1>2, <1>4, <2>4, <3>1, <3>2, <4>2, <4>3, TornIs, LineExtended
      <3>3. CASE ~Torn
        <4>1. auditFile' = Append(auditFile, [event |-> e, parses |-> TRUE, ended |-> TRUE])
          BY <1>6, <2>1, <3>3 DEF Appended
        <4> QED
          BY <1>2, <1>4, <2>4, <3>1, <4>1, LineAdded
      <3> QED
        BY <3>2, <3>3
    <2> QED
      BY <2>4, <2>6, <2>7
  <1> QED
    BY <1>5, <1>6, <1>7 DEF Log

\* A copy that succeeds loses nothing that could be read.
LEMMA NothingLost == ASSUME FileInv PROVE Lost(Retained) \subseteq gwSeen.spoiled
  <1>1. PICK n, new : n = Cardinality(Fitting) /\ new = Retained
    OBVIOUS
  <1>2. /\ IsFiniteSet(Fitting) /\ Fitting \subseteq Nat /\ Fitting \subseteq DOMAIN auditFile /\ DOMAIN new = 1 .. n
        /\ \A i \in 1 .. n : /\ new[i].event = auditFile[Nth(Fitting, i)].event
                             /\ new[i].parses = auditFile[Nth(Fitting, i)].parses /\ new[i].ended
    <2>1. PICK places, cut, ended, book : places = Fitting /\ cut = {} /\ ended = TRUE /\ book = auditFile
      OBVIOUS
    <2>2. places \in SUBSET Fitting /\ n = Cardinality(places) /\ new = Copy(places, cut, ended) /\ ended \in BOOLEAN
      BY <1>1, <2>1 DEF Retained
    <2>3. IsFiniteSet(places) /\ places \subseteq Nat /\ places \subseteq DOMAIN book /\ DOMAIN new = 1 .. n
      BY <2>1, <2>2, CopyIs
    <2>4. ASSUME NEW i \in 1 .. n
          PROVE  new[i].event = book[Nth(places, i)].event /\ new[i].parses = book[Nth(places, i)].parses /\ new[i].ended
      <3>1. /\ Nth(places, i) \in places /\ new[i].event = book[Nth(places, i)].event
            /\ new[i].parses = (book[Nth(places, i)].parses /\ Nth(places, i) \notin cut)
            /\ new[i].ended = (ended \/ i < n)
        <4>1. i \in 1 .. Cardinality(places)
          BY <2>2
        <4>2. /\ Nth(places, i) \in places
              /\ Copy(places, cut, ended)[i].event = auditFile[Nth(places, i)].event
              /\ Copy(places, cut, ended)[i].parses = (auditFile[Nth(places, i)].parses /\ Nth(places, i) \notin cut)
              /\ Copy(places, cut, ended)[i].ended = (ended \/ i < Cardinality(places))
          BY <2>2, <4>1, CopyIs
        <4> QED
          BY <2>1, <2>2, <4>2
      <3>2. PICK k : k = Nth(places, i)
        OBVIOUS
      <3>3. book \in Seq(Lines) /\ k \in 1 .. Len(book)
        BY <2>1, <2>3, <3>1, <3>2, LenProperties DEF FileInv
      <3>5. book[k] \in Lines
        BY <3>3, ElementOfSeq
      <3>4. book[k].parses \in BOOLEAN
        BY <3>5 DEF Lines
      <3> QED
        BY <2>1, <3>1, <3>2, <3>4
    <2> QED
      BY <2>1, <2>3, <2>4
  <1>3. ASSUME NEW i \in Fitting, auditFile[i].event \notin gwSeen.spoiled
        PROVE  \E k \in DOMAIN new : new[k].parses /\ new[k].ended /\ new[k].event = auditFile[i].event
    <2>1. PICK k \in 1 .. n : Nth(Fitting, k) = i
      BY <1>1, <1>2, NthIs
    <2>2. auditFile[i].parses
      BY <1>2, <1>3 DEF FileInv
    <2>3. new[k].event = auditFile[i].event /\ new[k].parses /\ new[k].ended
      BY <1>2, <2>1, <2>2
    <2> QED
      BY <1>2, <2>3
  <1> QED
    BY <1>1, <1>3 DEF Lost

\* EnforceRetention, and each of the ways in which it fails.
LEMMA RetentionTrail ==
  ASSUME GatewayConstants, GatewayInv, EnforceRetention
  PROVE  EventsInv' /\ FileInv' /\ gwSeen' \in Seen
  <1>1. UNCHANGED <<gwSetup, rpc, auditEvents, gwDay>>
    BY DEF EnforceRetention
  <1>2. gwSeen \in Seen /\ gwDay \in Nat /\ auditFile \in Seq(Lines) /\ EventsInv /\ FileInv /\ gwSetup \in GwSetups
    BY DEF GatewayInv, TenantsInv, FileInv, CallsInv
  <1>3. Later
    BY <1>1, <1>2 DEF Later
  <1>4. \A d \in RpcCalls : RpcAt(d, "log")' => RpcAt(d, "log") /\ rpc'[d].event = rpc[d].event
    BY <1>1 DEF RpcAt
  <1>5. CASE UNCHANGED <<auditFile, gwSeen>>
    BY <1>1, <1>2, <1>4, <1>5, TrailStays
  <1>6. CASE auditFile' = Retained /\ UNCHANGED gwSeen
    <2>1. Fitting \in SUBSET Fitting /\ {} \in SUBSET Fitting
      OBVIOUS
    <2>2. Lost(auditFile') \subseteq gwSeen.spoiled
      BY <1>2, <1>6, NothingLost
    <2>3. FileInv'
      BY <1>2, <1>3, <1>6, <2>1, <2>2, FewerLines DEF Retained
    <2> QED
      BY <1>1, <1>2, <1>4, <1>6, <2>3, EventsStay
  <1>7. ASSUME NEW places \in SUBSET Fitting, NEW cut \in SUBSET places, NEW ended \in BOOLEAN,
               auditFile' = Copy(places, cut, ended), gwSeen' = [gwSeen EXCEPT !.spoiled = @ \cup Lost(auditFile')]
        PROVE  EventsInv' /\ FileInv' /\ gwSeen' \in Seen
    <2>5. PICK spoiled : spoiled = gwSeen.spoiled \cup Lost(auditFile')
      OBVIOUS
    <2>6. gwSeen' = [gwSeen EXCEPT !.spoiled = spoiled]
      BY <1>7, <2>5
    <2>7. Lost(auditFile') \subseteq Nat
      <3>1. \A i \in DOMAIN auditFile : auditFile[i] \in Lines
        BY <1>2, ElementOfSeq, LenProperties
      <3>2. \A i \in Fitting : auditFile[i].event \in Nat
        BY <1>2, <3>1, FittingIs DEF Lines
      <3> QED
        BY <3>2 DEF Lost
    <2>8. gwSeen' \in Seen /\ gwSeen'.logged = gwSeen.logged /\ gwSeen'.spoiled = spoiled /\ gwSeen'.swallowed = gwSeen.swallowed
      BY <1>2, <2>5, <2>6, <2>7 DEF Seen
    <2>10. gwSeen.spoiled \subseteq gwSeen'.spoiled /\ Lost(auditFile') \subseteq gwSeen'.spoiled
      BY <2>5, <2>8
    <2>11. FileInv'
      BY <1>2, <1>3, <1>7, <2>8, <2>10, FewerLines
    <2> QED
      BY <1>1, <1>2, <1>4, <2>8, <2>11, EventsStay
  <1> QED
    BY <1>5, <1>6, <1>7 DEF EnforceRetention

\* A crash, perhaps in the middle of a line.
LEMMA CrashTrail ==
  ASSUME GatewayConstants, GatewayInv, GatewayCrash
  PROVE  EventsInv' /\ FileInv' /\ gwSeen' \in Seen
  <1>1. UNCHANGED <<gwSetup, auditEvents, gwDay>>
    BY DEF GatewayCrash
  <1>2. gwSeen \in Seen /\ gwDay \in Nat /\ auditFile \in Seq(Lines) /\ EventsInv /\ FileInv /\ gwSetup \in GwSetups
    BY DEF GatewayInv, TenantsInv, FileInv, CallsInv
  <1>3. Later
    BY <1>1, <1>2 DEF Later
  <1>4. \A d \in RpcCalls : ~RpcAt(d, "log")'
    BY DEF GatewayCrash, RpcAt, RpcIdle
  <1>5. CASE UNCHANGED <<auditFile, gwSeen>>
    BY <1>1, <1>2, <1>4, <1>5, TrailStays
  <1>6. ASSUME NEW c \in RpcCalls, RpcAt(c, "log"), WriteStops(rpc[c].event)
        PROVE  EventsInv' /\ FileInv' /\ gwSeen' \in Seen
    BY <1>1, <1>4, <1>6, StopsTrail
  <1> QED
    BY <1>5, <1>6 DEF GatewayCrash

-----------------------------------------------------------------------------
(* Failures and crashes, and what they swallow *)

\* The bounds only get smaller, by failures and crashes that were met.
Spends(f, k) == /\ gwLeft' \in Bounds /\ gwLeft.faults - gwLeft'.faults = f /\ gwLeft.crashes - gwLeft'.crashes = k

\* What is left after a step.
LEMMA LeftIs ==
  ASSUME gwLeft \in Bounds
  PROVE  /\ gwLeft' = gwLeft => Spends(0, 0)
         /\ Cleanup => Spends(0, 0)
         /\ Fault => Spends(1, 0)
         /\ CleanupFails => Spends(1, 0)
         /\ gwLeft.calls > 0 /\ gwLeft' = [gwLeft EXCEPT !.calls = @ - 1] => Spends(0, 0)
         /\ gwLeft.days > 0 /\ gwLeft' = [gwLeft EXCEPT !.days = @ - 1] => Spends(0, 0)
         /\ gwLeft.crashes > 0 /\ gwLeft' = [gwLeft EXCEPT !.crashes = @ - 1] => Spends(0, 1)
  <1>1. PICK l, m : l = gwLeft /\ m = gwLeft'
    OBVIOUS
  <1>2. l \in Bounds
    BY <1>1
  <1>3. m = l => Spends(0, 0)
    BY <1>1, <1>2 DEF Bounds, Spends
  <1>4. (l.cleanups > 0 /\ m = [l EXCEPT !.cleanups = @ - 1]) => Spends(0, 0)
    BY <1>1, <1>2 DEF Bounds, Spends
  <1>5. (l.faults > 0 /\ m = [l EXCEPT !.faults = @ - 1]) => Spends(1, 0)
    BY <1>1, <1>2 DEF Bounds, Spends
  <1>6. ASSUME l.cleanups > 0, l.faults > 0, m = [l EXCEPT !.cleanups = @ - 1, !.faults = @ - 1] PROVE Spends(1, 0)
    <2>1. PICK a, b : a = l.cleanups - 1 /\ b = l.faults - 1
      OBVIOUS
    <2>2. m = [l EXCEPT !.cleanups = a, !.faults = b] /\ a \in Nat /\ b \in Nat
      BY <1>2, <1>6, <2>1 DEF Bounds
    <2>3. m \in Bounds /\ m.faults = b /\ m.crashes = l.crashes
      BY <1>2, <2>2 DEF Bounds
    <2> QED
      BY <1>1, <1>2, <2>1, <2>3 DEF Spends, Bounds
  <1>7. (l.calls > 0 /\ m = [l EXCEPT !.calls = @ - 1]) => Spends(0, 0)
    BY <1>1, <1>2 DEF Bounds, Spends
  <1>8. (l.days > 0 /\ m = [l EXCEPT !.days = @ - 1]) => Spends(0, 0)
    BY <1>1, <1>2 DEF Bounds, Spends
  <1>9. (l.crashes > 0 /\ m = [l EXCEPT !.crashes = @ - 1]) => Spends(0, 1)
    BY <1>1, <1>2 DEF Bounds, Spends
  <1> QED
    BY <1>1, <1>3, <1>4, <1>5, <1>6, <1>7, <1>8, <1>9 DEF Cleanup, Fault, CleanupFails

\* The count after a step.
LEMMA TearsCount ==
  ASSUME GatewayConstants, TearsInv, gwSetup \in GwSetups, gwSetup' = gwSetup, NEW f \in Nat, NEW k \in Nat, Spends(f, k),
         IsFiniteSet(gwSeen'.swallowed), NEW t \in {0, 1}, Tears' = t,
         Cardinality(gwSeen'.swallowed) + t <= Cardinality(gwSeen.swallowed) + Tears + f + k
  PROVE  TearsInv'
  <1>1. PICK b, l, l2 : b = gwSetup.bounds /\ l = gwLeft /\ l2 = gwLeft'
    OBVIOUS
  <1>2. b \in Bounds /\ l \in Bounds /\ l2 \in Bounds
    BY <1>1 DEF GatewayConstants, Bounds, TearsInv, Spends
  <1>3. /\ Met = (b.faults - l.faults) + (b.crashes - l.crashes)
        /\ Met' = (b.faults - l2.faults) + (b.crashes - l2.crashes)
    BY <1>1 DEF Met
  <1>4. Met' = Met + f + k /\ Met \in Int
    <2>1. l.faults - l2.faults = f /\ l.crashes - l2.crashes = k
      BY <1>1 DEF Spends
    <2> QED
      BY <1>2, <1>3, <2>1 DEF Bounds
  <1>5. Cardinality(gwSeen'.swallowed) \in Nat /\ Cardinality(gwSeen.swallowed) \in Nat /\ Tears \in {0, 1}
    BY FS_CardinalityType DEF TearsInv, Tears
  <1>6. Cardinality(gwSeen'.swallowed) + Tears' <= Met'
    BY <1>4, <1>5 DEF TearsInv
  <1> QED
    BY <1>6 DEF TearsInv, Spends

\* Steps that leave the log alone, with a failure or none.
LEMMA TearsStay ==
  ASSUME GatewayConstants, TearsInv, gwSetup \in GwSetups, UNCHANGED <<gwSetup, auditFile>>,
         gwSeen'.swallowed = gwSeen.swallowed,
         Spends(0, 0) \/ Spends(1, 0) \/ Spends(0, 1)
  PROVE  TearsInv'
  <1>1. PICK t : t = Tears
    OBVIOUS
  <1>2. Tears' = t /\ t \in {0, 1}
    BY <1>1 DEF Tears, Torn
  <1>3. IsFiniteSet(gwSeen'.swallowed) /\ Cardinality(gwSeen.swallowed) \in Nat
    BY FS_CardinalityType DEF TearsInv
  <1>4. CASE Spends(0, 0)
    BY <1>1, <1>2, <1>3, <1>4, TearsCount
  <1>5. CASE Spends(1, 0)
    BY <1>1, <1>2, <1>3, <1>5, TearsCount
  <1>6. CASE Spends(0, 1)
    BY <1>1, <1>2, <1>3, <1>6, TearsCount
  <1> QED
    BY <1>4, <1>5, <1>6

\* Steps of calls that log nothing.
LEMMA CallTears ==
  ASSUME GatewayConstants, GatewayInv, NEW c \in RpcCalls,
         \/ requirePerm(c) \/ ReadPayload(c) \/ PassOn(c) \/ sendResponse(c) \/ CreateTenant(c) \/ MakeDirs(c)
         \/ ReadTenant(c) \/ UpdateTenant(c) \/ DeleteTenant(c)
  PROVE  TearsInv'
  <1>1. UNCHANGED <<gwSetup, auditFile>> /\ (gwLeft' = gwLeft \/ Fault)
    BY DEF requirePerm, ReadPayload, PassOn, sendResponse, CreateTenant, MakeDirs, ReadTenant, UpdateTenant, DeleteTenant,
           auditVars
  <1>2. gwSeen'.swallowed = gwSeen.swallowed
    <2>1. gwSeen \in Seen
      BY DEF GatewayInv, TenantsInv
    <2>2. CASE requirePerm(c) \/ ReadPayload(c) \/ PassOn(c) \/ sendResponse(c) \/ CreateTenant(c) \/ ReadTenant(c)
      BY <2>2 DEF requirePerm, ReadPayload, PassOn, sendResponse, CreateTenant, ReadTenant
    <2>3. CASE MakeDirs(c)
      BY <2>1, <2>3 DEF MakeDirs, Seen
    <2>4. CASE UpdateTenant(c)
      BY <2>1, <2>4 DEF UpdateTenant, Seen
    <2>5. CASE DeleteTenant(c)
      BY <2>1, <2>5 DEF DeleteTenant, Seen
    <2> QED
      BY <2>2, <2>3, <2>4, <2>5
  <1>3. Spends(0, 0) \/ Spends(1, 0)
    BY <1>1, LeftIs DEF GatewayInv, TearsInv
  <1> QED
    BY <1>1, <1>2, <1>3, TearsStay DEF GatewayInv, CallsInv

\* A call begins, and a day passes.
LEMMA DispatchTears ==
  ASSUME GatewayConstants, GatewayInv, NEW c \in RpcCalls, NEW k, NEW m \in AllMethods, NEW given,
         dispatchRPC(c, k, m, given)
  PROVE  TearsInv'
  <1>1. Spends(0, 0)
    BY LeftIs DEF GatewayInv, TearsInv, dispatchRPC
  <1> QED
    BY <1>1, TearsStay DEF GatewayInv, CallsInv, dispatchRPC, auditVars

LEMMA DayTears == ASSUME GatewayConstants, GatewayInv, DayPasses PROVE TearsInv'
  <1>1. Spends(0, 0)
    BY LeftIs DEF GatewayInv, TearsInv, DayPasses
  <1> QED
    BY <1>1, TearsStay DEF GatewayInv, CallsInv, DayPasses, auditVars

\* A write that stops has its failure or its crash.
LEMMA StopsTears ==
  ASSUME GatewayConstants, GatewayInv, UNCHANGED gwSetup, gwSeen'.swallowed = gwSeen.swallowed,
         Spends(1, 0) \/ Spends(0, 1)
  PROVE  TearsInv'
  <1>1. PICK t : t = Tears'
    OBVIOUS
  <1>2. t \in {0, 1} /\ Tears \in {0, 1}
    BY <1>1 DEF Tears
  <1>3. IsFiniteSet(gwSeen'.swallowed) /\ Cardinality(gwSeen.swallowed) \in Nat /\ TearsInv /\ gwSetup \in GwSetups
    BY FS_CardinalityType DEF TearsInv, GatewayInv, CallsInv
  <1>4. /\ Cardinality(gwSeen'.swallowed) + t <= Cardinality(gwSeen.swallowed) + Tears + 1 + 0
        /\ Cardinality(gwSeen'.swallowed) + t <= Cardinality(gwSeen.swallowed) + Tears + 0 + 1
    BY <1>2, <1>3
  <1>5. CASE Spends(1, 0)
    BY <1>1, <1>2, <1>3, <1>4, <1>5, TearsCount
  <1>6. CASE Spends(0, 1)
    BY <1>1, <1>2, <1>3, <1>4, <1>6, TearsCount
  <1> QED
    BY <1>5, <1>6

\* A line that Log writes to its end swallows or is swallowed no more.
LEMMA LogTears == ASSUME GatewayConstants, GatewayInv, NEW c \in RpcCalls, Log(c) PROVE TearsInv'
  <1>1. gwSeen \in Seen /\ FileInv /\ TearsInv /\ gwSetup \in GwSetups /\ UNCHANGED gwSetup /\ gwLeft \in Bounds
    BY DEF GatewayInv, TenantsInv, CallsInv, TearsInv, Log
  <1>2. CASE UNCHANGED <<auditFile, gwSeen>>
    <2>1. Spends(0, 0) \/ Spends(1, 0)
      BY <1>1, LeftIs DEF Log
    <2> QED
      BY <1>1, <1>2, <2>1, TearsStay
  <1>3. CASE WriteStops(rpc[c].event) /\ Fault
    <2>1. gwSeen'.swallowed = gwSeen.swallowed
      BY <1>1, <1>3 DEF WriteStops, Seen
    <2> QED
      BY <1>1, <1>3, <2>1, LeftIs, StopsTears
  <1>4. CASE /\ auditFile' = Appended(rpc[c].event) /\ UNCHANGED gwLeft
             /\ gwSeen' = [gwSeen EXCEPT !.logged = Append(@, rpc[c].event),
                                         !.swallowed = IF Torn THEN @ \cup {rpc[c].event} ELSE @]
    <2>1. PICK e : e = rpc[c].event
      OBVIOUS
    <2>2. Tears' = 0
      <3>1. CASE Torn
        <4>1. PICK l : l = [auditFile[Len(auditFile)] EXCEPT !.parses = FALSE, !.ended = TRUE]
          OBVIOUS
        <4>2. auditFile' = [auditFile EXCEPT ![Len(auditFile)] = l]
          BY <1>4, <3>1, <4>1 DEF Appended
        <4>3. l \in Lines /\ l.event = auditFile[Len(auditFile)].event /\ l.ended
          BY <1>1, <3>1, <4>1, LastLine
        <4>4. auditFile'[Len(auditFile')].ended
          BY <1>1, <3>1, <4>2, <4>3, TornIs
        <4> QED
          BY <4>4 DEF Tears, Torn
      <3>2. CASE ~Torn
        <4>1. PICK l : l = [event |-> e, parses |-> TRUE, ended |-> TRUE]
          OBVIOUS
        <4>2. l.ended /\ auditFile' = Append(auditFile, l)
          BY <1>4, <2>1, <3>2, <4>1 DEF Appended
        <4>3. e \in Nat
          <5>1. e \in DOMAIN auditEvents /\ auditEvents \in Seq(Events)
            BY <2>1 DEF GatewayInv, EventsInv, Log
          <5> QED
            BY <5>1, LenProperties
        <4>4. l \in Lines /\ auditFile \in Seq(Lines)
          BY <1>1, <4>1, <4>3 DEF Lines, FileInv
        <4>5. auditFile'[Len(auditFile')] = l
          BY <4>2, <4>4, AppendProperties
        <4> QED
          BY <4>2, <4>5 DEF Tears, Torn
      <3> QED
        BY <3>1, <3>2
    <2>3. gwSeen'.swallowed = IF Torn THEN gwSeen.swallowed \cup {e} ELSE gwSeen.swallowed
      BY <1>1, <1>4, <2>1 DEF Seen
    <2>4. IsFiniteSet(gwSeen.swallowed) /\ Cardinality(gwSeen.swallowed) \in Nat
      BY <1>1, FS_CardinalityType DEF TearsInv
    <2>5. /\ IsFiniteSet(gwSeen.swallowed \cup {e})
          /\ Cardinality(gwSeen.swallowed \cup {e}) <= Cardinality(gwSeen.swallowed) + 1
      <3>1. PICK S : S = gwSeen.swallowed
        OBVIOUS
      <3>2. IsFiniteSet(S \cup {e}) /\ (Cardinality(S \cup {e}) = Cardinality(S) \/ Cardinality(S \cup {e}) = Cardinality(S) + 1)
        BY <2>4, <3>1, FS_AddElement
      <3> QED
        BY <2>4, <3>1, <3>2
    <2>6. IsFiniteSet(gwSeen'.swallowed) /\ Cardinality(gwSeen'.swallowed) + 0 <= Cardinality(gwSeen.swallowed) + Tears + 0 + 0
      <3>1. CASE Torn
        <4>1. gwSeen'.swallowed = gwSeen.swallowed \cup {e} /\ Tears = 1
          BY <2>3, <3>1 DEF Tears
        <4>2. Cardinality(gwSeen'.swallowed) \in Nat
          BY <2>5, <4>1, FS_CardinalityType
        <4> QED
          BY <2>4, <2>5, <4>1, <4>2
      <3>2. CASE ~Torn
        BY <2>3, <2>4, <3>2 DEF Tears
      <3> QED
        BY <3>1, <3>2
    <2>7. Spends(0, 0)
      BY <1>1, <1>4, LeftIs
    <2> QED
      BY <1>1, <2>2, <2>6, <2>7, TearsCount
  <1> QED
    BY <1>2, <1>3, <1>4 DEF Log

\* A cleanup ends every line, or has its failure.
LEMMA RetentionTears == ASSUME GatewayConstants, GatewayInv, EnforceRetention PROVE TearsInv'
  <1>1. gwSeen \in Seen /\ FileInv /\ TearsInv /\ gwSetup \in GwSetups /\ UNCHANGED gwSetup /\ gwLeft \in Bounds
    BY DEF GatewayInv, TenantsInv, CallsInv, TearsInv, EnforceRetention
  <1>2. gwSeen'.swallowed = gwSeen.swallowed
    <2>1. gwSeen' = gwSeen \/ \E spoiled : gwSeen' = [gwSeen EXCEPT !.spoiled = spoiled]
      BY DEF EnforceRetention
    <2> QED
      BY <1>1, <2>1 DEF Seen
  <1>3. CASE CleanupFails
    BY <1>1, <1>2, <1>3, LeftIs, StopsTears
  <1>4. CASE Cleanup /\ auditFile' = Retained
    <2>1. /\ auditFile' \in Seq(Lines) /\ Len(auditFile') \in Nat /\ DOMAIN auditFile' = 1 .. Len(auditFile')
          /\ \A n \in DOMAIN auditFile' : auditFile'[n].ended
      <3>1. PICK places, new : places = Fitting /\ new = auditFile'
        OBVIOUS
      <3>2. places \in SUBSET Fitting /\ new = Copy(places, {}, TRUE)
        BY <1>4, <3>1 DEF Retained
      <3>3. /\ Cardinality(places) \in Nat /\ new \in Seq(Lines) /\ Len(new) = Cardinality(places)
            /\ DOMAIN new = 1 .. Cardinality(places)
            /\ \A n \in 1 .. Cardinality(places) : new[n].ended = (TRUE \/ n < Cardinality(places))
        BY <1>1, <3>2, CopyIs
      <3> QED
        BY <3>1, <3>3
    <2>2. auditFile' # <<>> => Len(auditFile') \in DOMAIN auditFile'
      BY <2>1, EmptySeq
    <2>3. Tears' = 0
      BY <2>1, <2>2 DEF Tears, Torn
    <2>4. Spends(0, 0) /\ IsFiniteSet(gwSeen'.swallowed) /\ Cardinality(gwSeen.swallowed) \in Nat /\ Tears \in {0, 1}
      BY <1>1, <1>2, <1>4, LeftIs, FS_CardinalityType DEF TearsInv, Tears
    <2>5. Cardinality(gwSeen'.swallowed) + 0 <= Cardinality(gwSeen.swallowed) + Tears + 0 + 0
      BY <1>2, <2>4
    <2> QED
      BY <1>1, <2>3, <2>4, <2>5, TearsCount
  <1> QED
    BY <1>3, <1>4 DEF EnforceRetention

\* The same of a crash.
LEMMA CrashTears == ASSUME GatewayConstants, GatewayInv, GatewayCrash PROVE TearsInv'
  <1>1. gwSeen \in Seen /\ UNCHANGED gwSetup /\ gwLeft \in Bounds
    BY DEF GatewayInv, TenantsInv, TearsInv, GatewayCrash
  <1>2. gwSeen'.swallowed = gwSeen.swallowed
    BY <1>1 DEF GatewayCrash, WriteStops, Seen
  <1>3. Spends(0, 1)
    BY <1>1, LeftIs DEF GatewayCrash
  <1> QED
    BY <1>1, <1>2, <1>3, StopsTears

\* What TearsInv says of the events that were swallowed.
LEMMA TearsFollow == ASSUME TearsInv, gwSetup \in GwSetups, GatewayConstants PROVE OneIsSwallowed
  <1>1. Cardinality(gwSeen.swallowed) \in Nat /\ Tears \in {0, 1} /\ Met \in Int
    BY FS_CardinalityType DEF TearsInv, Tears, Met, Bounds, GatewayConstants
  <1>2. Cardinality(gwSeen.swallowed) <= Met
    BY <1>1 DEF TearsInv
  <1> QED
    BY <1>2 DEF OneIsSwallowed, Met

\* A day passes.
LEMMA DayKeeps == ASSUME GatewayConstants, GatewayInv, DayPasses PROVE CallsInv' /\ TenantsInv' /\ EventsInv' /\ FileInv'
  <1>1. UNCHANGED <<gwSetup, rpc, tenantVars, auditVars, gwSeen>> /\ gwDay' = gwDay + 1 /\ gwDay \in Nat
    BY DEF DayPasses, GatewayInv, FileInv
  <1>2. Later
    BY <1>1 DEF Later, auditVars
  <1>3. FileInv'
    BY <1>1, <1>2, LogStays DEF auditVars
  <1>4. CallsInv' /\ EventsInv'
    BY <1>1 DEF GatewayInv, CallsInv, EventsInv, CallFits, Guarded, RpcAt, auditVars
  <1>5. TenantsInv'
    BY <1>1 DEF GatewayInv, TenantsInv, TenantsAreTrue, RpcAt, tenantVars
  <1> QED
    BY <1>3, <1>4, <1>5

-----------------------------------------------------------------------------

\* At the start there are no calls, no tenants and no lines.
LEMMA GwInit == ASSUME GatewayConstants, GatewayInit PROVE GatewayInv
  <1>1. CallsInv
    BY IdleFits DEF GatewayInit, CallsInv
  <1>2. /\ gwSeen.made = {} /\ gwSeen.said = {} /\ gwSeen.stale = {} /\ gwSeen.logged = <<>> /\ gwSeen.spoiled = {} /\ gwSeen.swallowed = {}
    BY DEF GatewayInit
  <1>3. gwSeen \in Seen
    BY EmptySeq DEF GatewayInit, Seen
  <1>4. \A c \in RpcCalls : ~RpcAt(c, "dirs") /\ ~RpcAt(c, "log")
    BY DEF GatewayInit, RpcAt, RpcIdle
  <1>5. TenantsInv
    BY <1>2, <1>3, <1>4 DEF GatewayInit, TenantsInv, TenantsAreTrue
  <1>6. EventsInv
    BY <1>2, <1>4, EmptySeq DEF GatewayInit, EventsInv
  <1>7. FileInv
    <2>1. DOMAIN auditFile = {} /\ auditFile \in Seq(Lines) /\ gwDay \in Nat
      BY EmptySeq DEF GatewayInit
    <2>2. DOMAIN gwSeen.logged = {}
      BY <1>2
    <2>3. [i \in {} |-> 0] \in [DOMAIN auditFile -> DOMAIN gwSeen.logged]
      BY <2>1
    <2> QED
      BY <2>1, <2>2, <2>3 DEF FileInv, TrailIsKept
  <1>8. TearsInv
    <2>1. gwLeft = gwSetup.bounds /\ gwSetup.bounds \in Bounds /\ ~Torn
      BY DEF GatewayInit, GatewayConstants, Bounds, Torn
    <2>2. Met = 0
      BY <2>1 DEF Met, Bounds
    <2> QED
      BY <1>2, <2>1, <2>2, FS_EmptySet DEF TearsInv, Tears
  <1> QED
    BY <1>1, <1>5, <1>6, <1>7, <1>8 DEF GatewayInv

\* Every step keeps the invariant.
LEMMA GwStep == ASSUME GatewayConstants, GatewayInv, [GatewayNext]_gatewayVars PROVE GatewayInv'
  <1> USE DEF GatewayInv
  <1>1. ASSUME NEW c \in RpcCalls, NEW k, NEW m \in AllMethods, NEW given, dispatchRPC(c, k, m, given)
        PROVE  GatewayInv'
    BY <1>1, DispatchCalls, DispatchTenants, DispatchTrail, DispatchTears
  <1>2. ASSUME NEW c \in RpcCalls, requirePerm(c) PROVE GatewayInv'
    BY <1>2, GuardCalls, GuardTenants, GuardTrail, CallTears
  <1>3. ASSUME NEW c \in RpcCalls, ReadPayload(c) PROVE GatewayInv'
    BY <1>3, PayloadCalls, PayloadTenants, PayloadTrail, CallTears
  <1>4. ASSUME NEW c \in RpcCalls, PassOn(c) PROVE GatewayInv'
    BY <1>4, PassOnCalls, PassOnTenants, PassOnTrail, CallTears
  <1>5. ASSUME NEW c \in RpcCalls, Log(c) PROVE GatewayInv'
    BY <1>5, LogCalls, LogTenants, LogTrail, LogTears
  <1>6. ASSUME NEW c \in RpcCalls, sendResponse(c) PROVE GatewayInv'
    BY <1>6, ResponseCalls, ResponseTenants, ResponseTrail, CallTears
  <1>7. ASSUME NEW c \in RpcCalls, CreateTenant(c) PROVE GatewayInv'
    BY <1>7, CreateCalls, CreateTenants, CreateTrail, CallTears
  <1>8. ASSUME NEW c \in RpcCalls, MakeDirs(c) PROVE GatewayInv'
    BY <1>8, MakeDirsCalls, MakeDirsTenants, MakeDirsTrail, CallTears
  <1>9. ASSUME NEW c \in RpcCalls, ReadTenant(c) PROVE GatewayInv'
    BY <1>9, ReadCalls, ReadTenants, ReadTrail, CallTears
  <1>10. ASSUME NEW c \in RpcCalls, UpdateTenant(c) PROVE GatewayInv'
    BY <1>10, UpdateCalls, UpdateTenants, UpdateTrail, CallTears
  <1>11. ASSUME NEW c \in RpcCalls, DeleteTenant(c) PROVE GatewayInv'
    BY <1>11, DeleteCalls, DeleteTenants, DeleteTrail, CallTears
  <1>12. CASE EnforceRetention
    <2>1. EventsInv' /\ FileInv' /\ gwSeen' \in Seen
      BY <1>12, RetentionTrail
    <2>2. UNCHANGED <<gwSetup, rpc, tenantVars>> /\ gwSeen'.made = gwSeen.made /\ gwSeen'.said = gwSeen.said
          /\ gwSeen'.stale = gwSeen.stale
      <3>1. UNCHANGED <<gwSetup, rpc, tenantVars>>
        BY <1>12 DEF EnforceRetention
      <3>2. gwSeen' = gwSeen \/ \E spoiled : gwSeen' = [gwSeen EXCEPT !.spoiled = spoiled]
        BY <1>12 DEF EnforceRetention
      <3> QED
        BY <3>1, <3>2 DEF TenantsInv, Seen
    <2>3. CallsInv'
      BY <2>2 DEF CallsInv, CallFits, Guarded
    <2>4. TenantsInv'
      BY <2>1, <2>2, TenantsStay DEF TenantsInv, RpcAt, tenantVars
    <2> QED
      BY <1>12, <2>1, <2>3, <2>4, RetentionTears
  <1>13. CASE DayPasses
    BY <1>13, DayKeeps, DayTears
  <1>14. CASE GatewayCrash
    BY <1>14, CrashCalls, CrashTenants, CrashTrail, CrashTears
  <1>15. CASE UNCHANGED gatewayVars
    <2>1. UNCHANGED <<gwSetup, rpc, tenantVars, auditVars, gwDay, gwSeen>>
      BY <1>15 DEF gatewayVars, tenantVars, auditVars
    <2>2. CallsInv' /\ EventsInv'
      BY <2>1 DEF CallsInv, EventsInv, CallFits, Guarded, RpcAt, auditVars
    <2>3. TenantsInv'
      BY <2>1 DEF TenantsInv, TenantsAreTrue, RpcAt, tenantVars
    <2>4. FileInv'
      BY <2>1 DEF FileInv, TrailIsKept, Expired, auditVars
    <2>5. TearsInv'
      BY <1>15 DEF TearsInv, Tears, Torn, Met, gatewayVars
    <2> QED
      BY <2>2, <2>3, <2>4, <2>5
  <1> QED
    BY <1>1, <1>2, <1>3, <1>4, <1>5, <1>6, <1>7, <1>8, <1>9, <1>10, <1>11, <1>12, <1>13, <1>14, <1>15
    DEF GatewayNext

\* Calls are at the step their method and their roles allow, who makes the directories of a
\* tenant holds the lock, every event is logged at most once and by its call, every line is
\* that of a logged event and whole unless a failure or a crash cut it, and each of these
\* swallows one event at most (dispatchRPC, TenantManager, FileAuditLogger).
THEOREM GatewayInvariant == GatewaySpec => []GatewayInv
  <1>1. GatewayConstants /\ GatewayInit => GatewayInv
    BY GwInit
  <1>2. GatewayConstants /\ GatewayInv /\ [GatewayNext]_gatewayVars => GatewayInv'
    BY GwStep
  <1> QED
    BY <1>1, <1>2, GatewayConstants, PTL DEF GatewaySpec

\* GatewayIsGuarded, for any number of calls, tenants, tokens, days, cleanups, failures and
\* crashes: a handler runs exactly for the roles that may run it (requirePerm), a tenant that
\* was created is there with what its updates said (TenantManager), and an event that was
\* logged can be read until the policy lets it go, unless its line was cut or it was logged
\* behind such a line, of which each swallows one event (FileAuditLogger.Log, EnforceRetention).
THEOREM GatewayIsGuardedHolds == GatewaySpec => []GatewayIsGuarded
  <1>1. GatewayInv => GatewayIsGuarded
    <2>1. SUFFICES ASSUME GatewayInv PROVE GatewayIsGuarded
      OBVIOUS
    <2>2. CallsInv /\ TearsInv /\ TenantsAreTrue /\ TrailIsKept /\ gwSetup \in GwSetups
      BY <2>1 DEF GatewayInv, TenantsInv, FileInv, CallsInv
    <2> QED
      BY <2>2, GuardFollows, TearsFollow, GatewayConstants DEF GatewayIsGuarded
  <1> QED
    BY <1>1, GatewayInvariant, PTL

=============================================================================
