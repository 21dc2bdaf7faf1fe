----------------------------- MODULE VoiceCall ------------------------------
(***************************************************************************)
(* Telephone calls: internal/adapter/tool/voice_call*.go.  The tool's      *)
(* operations, the webhook server and the media streams share a CallStore  *)
(* that appends every change of a record to a file; the provider (Twilio)  *)
(* runs the calls and reports their status by webhooks that arrive late,   *)
(* in any order or never.                                                  *)
(*                                                                         *)
(* A transcript is the sequence of its speakers.  Every operation of the   *)
(* store is one critical section of CallStore.mu and so one step, the      *)
(* append to the file included; AppendTranscript and WaitForTranscript     *)
(* have two each, and the second is under waiterMu.                        *)
(***************************************************************************)
EXTENDS Integers, Sequences, FiniteSets

CONSTANTS Calls,          \* call ids, one per initiate_call: time stamps, so they grow
          VoiceCallers,   \* goroutines that execute the tool
          Handlers,       \* media stream handlers, one per websocket, in their order
          NoCall,         \* no record, no handler
          maxConcurrent,
          VoiceBounds     \* bounds to choose from: calls, operations of the tool, websockets,
                          \* entries of a transcript, crashes

CallStates == {"initiated", "ringing", "answered", "active", "speaking", "listening", "completed", "hangup_user",
               "hangup_bot", "timeout", "error", "failed", "no_answer", "busy"}

\* What the tool knows of a call: its state, whether it has the provider's id, and who spoke.
CallRecords == [state : CallStates, pid : BOOLEAN, said : Seq({"bot", "user"})]

ASSUME VoiceConstants ==
    /\ Calls \cup Handlers \subseteq Nat /\ NoCall \notin Calls \cup Handlers
    /\ IsFiniteSet(Calls) /\ NoCall \notin CallRecords
    /\ maxConcurrent \in Nat \ {0}
    /\ VoiceBounds \subseteq [calls : Nat, ops : Nat, streams : Nat, entries : Nat, crashes : Nat]

VARIABLES calls,      \* CallStore.calls
          callLog,    \* the last line of every call in calls.jsonl
          vc,         \* the locals of every caller
          waiters,    \* CallStore.waiters: who waits for what, whether its channel is closed,
                      \* and whether its entry came before it registered
          media,      \* the media stream handlers
          streams,    \* VoiceCallWebhookServer.streams
          line,       \* external: the provider's state of every call
          webhooks,   \* external: status callbacks on their way
          loose,      \* the calls whose line the tool gave up without ending it
          vcLeft      \* what the bounds still allow

voiceVars == <<calls, callLog, vc, waiters, media, streams, line, webhooks, loose, vcLeft>>
storeOnly == <<calls, callLog>>

VcIdle  == [pc |-> "idle", op |-> "none", call |-> NoCall, after |-> 0, ends |-> {}]
NoMedia == [pc |-> "free", call |-> NoCall, stt |-> "off"]

VoiceInit ==
    /\ calls = [id \in Calls |-> NoCall] /\ callLog = calls
    /\ vc = [c \in VoiceCallers |-> VcIdle]
    /\ waiters = {}
    /\ media = [h \in Handlers |-> NoMedia] /\ streams = [id \in Calls |-> NoCall]
    /\ line = [id \in Calls |-> "none"] /\ webhooks = {} /\ loose = {}
    /\ vcLeft \in VoiceBounds

\* External: the line is open, or being opened.
Live(id) == line[id] \in {"queued", "ringing", "in-progress"}

-----------------------------------------------------------------------------
(* Call states *)

callStateOrder == <<"initiated", "ringing", "answered", "active", "speaking", "listening">>

IsTerminal(s) == s \in {"completed", "hangup_user", "hangup_bot", "timeout", "error", "failed",
                        "no_answer", "busy"}

Order(s) == CHOOSE i \in DOMAIN callStateOrder : callStateOrder[i] = s

CanTransitionTo(s, next) ==
    /\ ~IsTerminal(s)
    /\ \/ IsTerminal(next)
       \/ s = "listening" /\ next = "speaking"
       \/ Order(s) < Order(next)

\* Mutant: an answered call is a status the table does not have.
MutmapTwilioStatus(status) ==
    CASE status \in {"queued", "initiated"} -> "initiated"
      [] status = "ringing"     -> "ringing"
      [] status = "completed"   -> "completed"
      [] OTHER                  -> "error"

mapTwilioStatus(status) ==
    CASE status \in {"queued", "initiated"} -> "initiated"
      [] status = "ringing"     -> "ringing"
      [] status = "in-progress" -> "answered"
      [] status = "completed"   -> "completed"
      [] status = "busy"        -> "busy"
      [] status = "no-answer"   -> "no_answer"
      [] status = "canceled"    -> "hangup_bot"
      [] status = "failed"      -> "failed"
      [] OTHER                  -> "error"

-----------------------------------------------------------------------------
(* CallStore *)

Known(id)     == calls[id] # NoCall
ActiveCalls   == {id \in Calls : Known(id) /\ ~IsTerminal(calls[id].state)}
SaveCall(id, rec) == /\ calls' = [calls EXCEPT ![id] = rec]
                     /\ callLog' = [callLog EXCEPT ![id] = rec]

Create(id) == /\ ~Known(id) /\ (\A k \in Calls : k < id => Known(k))
              /\ Cardinality(ActiveCalls) < maxConcurrent
              /\ SaveCall(id, [state |-> "initiated", pid |-> FALSE, said |-> <<>>])

Transition(id, next) == IF Known(id) /\ CanTransitionTo(calls[id].state, next)
                        THEN SaveCall(id, [calls[id] EXCEPT !.state = next])
                        ELSE UNCHANGED storeOnly

SetProviderCallID(id) == SaveCall(id, [calls[id] EXCEPT !.pid = TRUE])

\* AppendTranscript, first half.
AppendEntry(id, who) == SaveCall(id, [calls[id] EXCEPT !.said = Append(@, who)])

\* Mutant: the index of the last entry for their number.
MutNotifyWaiters(id, len) ==
    waiters' = {IF w.call = id /\ len - 1 > w.after THEN [w EXCEPT !.closed = TRUE] ELSE w : w \in waiters}

\* Second half: closes the channels of those who waited for no more than len entries.
NotifyWaiters(id, len) ==
    waiters' = {IF w.call = id /\ len > w.after THEN [w EXCEPT !.closed = TRUE] ELSE w : w \in waiters}

-----------------------------------------------------------------------------
(* The tool *)

At(c, pc) == vc[c].pc = pc
Go(c, pc) == vc' = [vc EXCEPT ![c].pc = pc]
Begin(c)  == vcLeft.ops > 0 /\ vcLeft' = [vcLeft EXCEPT !.ops = @ - 1] /\ At(c, "idle")
Done(c)   == vc' = [vc EXCEPT ![c] = VcIdle]
Room(id)  == Len(calls[id].said) < vcLeft.entries

\* Nobody can name a call before initiate_call returned its id, and by then the record
\* has the provider's.
Told(id) == calls[id].pid

outside   == <<line, webhooks, loose>>
worldVars == <<outside, vcLeft>>
mediaVars == <<media, streams>>

\* handleInitiateCall: the record first ...
InitiateCreate(c, id) ==
    /\ Begin(c) /\ Create(id)
    /\ Cardinality({k \in Calls : Known(k)}) < vcLeft.calls
    /\ vc' = [vc EXCEPT ![c] = [VcIdle EXCEPT !.pc = "dial", !.call = id]]
    /\ UNCHANGED <<waiters, mediaVars, outside>>

\* ... then InitiateCall of the provider, whose answer may be an error or be lost ...
Dial(c, accepted, answered) ==
    /\ At(c, "dial") /\ (answered => accepted)
    /\ LET id == vc[c].call
       IN  /\ line' = IF accepted THEN [line EXCEPT ![id] = "queued"] ELSE line
           /\ loose' = IF accepted /\ ~answered THEN loose \cup {id} ELSE loose
    /\ Go(c, IF answered THEN "dialed" ELSE "refused")
    /\ UNCHANGED <<storeOnly, waiters, mediaVars, webhooks, vcLeft>>

\* ... and then the provider's id, without which no webhook finds the record.
InitiateEnds(c) ==
    /\ \/ At(c, "dialed") /\ SetProviderCallID(vc[c].call)
       \/ At(c, "refused") /\ Transition(vc[c].call, "failed")
    /\ Done(c)
    /\ UNCHANGED <<waiters, mediaVars, worldVars>>

\* handleContinueCall and handleSpeakToUser look at a copy of a call that has not ended ...
SpeakGet(c, id, op) ==
    /\ Begin(c) /\ id \in ActiveCalls /\ Told(id) /\ Room(id)
    /\ vc' = [vc EXCEPT ![c] = [VcIdle EXCEPT !.pc = "say", !.op = op, !.call = id,
                                              !.after = Len(calls[id].said) + 1]]
    /\ UNCHANGED <<storeOnly, waiters, mediaVars, outside>>

\* ... append what the bot says ...
SpeakAppend(c) ==
    /\ At(c, "say") /\ Room(vc[c].call)
    /\ AppendEntry(vc[c].call, "bot")
    /\ Go(c, "notify")
    /\ UNCHANGED <<waiters, mediaVars, worldVars>>

\* ... tell the waiters, and either play it (PlayTTS) or wait for an answer.
SpeakNotify(c) ==
    /\ At(c, "notify")
    /\ NotifyWaiters(vc[c].call, Len(calls[vc[c].call].said))
    /\ IF vc[c].op = "continue" THEN Go(c, "check") ELSE Done(c)
    /\ UNCHANGED <<storeOnly, mediaVars, worldVars>>

\* WaitForTranscript: new entries, or an ended call, and it returns.
WaitCheck(c) ==
    /\ At(c, "check")
    /\ LET rec == calls[vc[c].call]
       IN  IF Len(rec.said) > vc[c].after \/ IsTerminal(rec.state) THEN Done(c) ELSE Go(c, "register")
    /\ UNCHANGED <<storeOnly, waiters, mediaVars, worldVars>>

WaitRegister(c) ==
    /\ At(c, "register")
    /\ waiters' = waiters \cup {[caller |-> c, call |-> vc[c].call, after |-> vc[c].after, closed |-> FALSE,
                                missed |-> Len(calls[vc[c].call].said) > vc[c].after]}
    /\ Go(c, "wait")
    /\ UNCHANGED <<storeOnly, mediaVars, worldVars>>

\* The channel is closed, or the timeout expires.
WaitReturns(c) ==
    /\ At(c, "wait")
    /\ waiters' = {w \in waiters : w.caller # c}
    /\ Done(c)
    /\ UNCHANGED <<storeOnly, mediaVars, worldVars>>

\* handleEndCall takes one call, HangupActiveCalls at shutdown all of them; both use
\* the provider's id as it was then.
EndGet(c, ids) ==
    /\ Begin(c) /\ ids # {} /\ ids \subseteq ActiveCalls
    /\ ids = ActiveCalls \/ \E id \in ids : ids = {id} /\ Told(id)
    /\ vc' = [vc EXCEPT ![c] = [VcIdle EXCEPT !.pc = "hangup", !.ends = {<<id, calls[id].pid>> : id \in ids}]]
    /\ UNCHANGED <<storeOnly, waiters, mediaVars, outside>>

\* The hang-up is skipped without an id, and its failure is only logged.
EndHangup(c, id, known, ok) ==
    /\ At(c, "hangup") /\ <<id, known>> \in vc[c].ends
    /\ IF known /\ ok
       THEN /\ line' = IF Live(id) THEN [line EXCEPT ![id] = "completed"] ELSE line
            /\ webhooks' = IF Live(id) THEN webhooks \cup {<<id, "completed">>} ELSE webhooks
            /\ UNCHANGED loose
       ELSE loose' = loose \cup {id} /\ UNCHANGED <<line, webhooks>>
    /\ vc' = [vc EXCEPT ![c].pc = "hungup", ![c].call = id, ![c].ends = @ \ {<<id, known>>}]
    /\ UNCHANGED <<storeOnly, waiters, mediaVars, vcLeft>>

EndTransition(c) ==
    /\ At(c, "hungup")
    /\ Transition(vc[c].call, "hangup_bot")
    /\ IF vc[c].ends = {} THEN Done(c) ELSE Go(c, "hangup")
    /\ UNCHANGED <<waiters, mediaVars, worldVars>>

-----------------------------------------------------------------------------
(* The webhook server *)

\* handleWebhook and processCallEvent.  Twilio's callbacks carry no call id of ours, so
\* an event that arrives before SetProviderCallID is for an unknown call and is dropped.
Webhook(id, status) ==
    /\ <<id, status>> \in webhooks
    /\ webhooks' = webhooks \ {<<id, status>>}
    /\ IF Known(id) /\ calls[id].pid THEN Transition(id, mapTwilioStatus(status)) ELSE UNCHANGED storeOnly
    /\ UNCHANGED <<vc, waiters, mediaVars, line, loose, vcLeft>>

\* handleStream: a second stream of a call takes the place of the first in the table.
StreamOpen(h, id) ==
    /\ media[h] = NoMedia /\ (\A g \in Handlers : g < h => media[g] # NoMedia)
    /\ line[id] = "in-progress" /\ id \in ActiveCalls
    /\ vcLeft.streams > 0 /\ vcLeft' = [vcLeft EXCEPT !.streams = @ - 1]
    /\ media' = [media EXCEPT ![h] = [NoMedia EXCEPT !.pc = "open", !.call = id]]
    /\ streams' = [streams EXCEPT ![id] = h]
    /\ UNCHANGED <<storeOnly, vc, waiters, outside>>

\* HandleHTTP: active, then the speech recognition if it starts ...
StreamActive(h, stt) ==
    /\ media[h].pc = "open"
    /\ Transition(media[h].call, "active")
    /\ media' = [media EXCEPT ![h].pc = "active", ![h].stt = stt]
    /\ UNCHANGED <<vc, waiters, streams, worldVars>>

\* ... then listening, and the read loop.
StreamListen(h) ==
    /\ media[h].pc = "active"
    /\ Transition(media[h].call, "listening")
    /\ media' = [media EXCEPT ![h].pc = "reading"]
    /\ UNCHANGED <<vc, waiters, streams, worldVars>>

\* The read loop ends, or the upgrade fails; Close, and the table forgets the call,
\* whichever handler it holds.
StreamEnds(h) ==
    /\ media[h].pc \in {"open", "reading"}
    /\ media' = [media EXCEPT ![h].pc = "closed"]
    /\ streams' = [streams EXCEPT ![media[h].call] = NoCall]
    /\ UNCHANGED <<storeOnly, vc, waiters, worldVars>>

\* sttReadLoop: a final transcript, also one that was ready when the stream closed.
Heard(h) ==
    /\ media[h].stt = "on" /\ Room(media[h].call)
    /\ AppendEntry(media[h].call, "user")
    /\ media' = [media EXCEPT ![h].stt = "notify"]
    /\ UNCHANGED <<vc, waiters, streams, worldVars>>

HeardNotify(h) ==
    /\ media[h].stt = "notify"
    /\ NotifyWaiters(media[h].call, Len(calls[media[h].call].said))
    /\ media' = [media EXCEPT ![h].stt = IF media[h].pc = "closed" THEN "off" ELSE "on"]
    /\ UNCHANGED <<storeOnly, vc, streams, worldVars>>

\* Stop closes the handlers in the table.
ServerStop ==
    /\ \E id \in Calls : streams[id] # NoCall
    /\ media' = [h \in Handlers |-> IF \E id \in Calls : streams[id] = h
                                    THEN [media[h] EXCEPT !.pc = "closed"] ELSE media[h]]
    /\ streams' = [id \in Calls |-> NoCall]
    /\ UNCHANGED <<storeOnly, vc, waiters, worldVars>>

-----------------------------------------------------------------------------
(* External: the provider, and crashes *)

\* What may follow in a call's life, as Twilio reports it.
LineNext(s) == CASE s = "queued"      -> {"ringing", "failed"}
                 [] s = "ringing"     -> {"in-progress", "busy"}
                 [] s = "in-progress" -> {"completed"}
                 [] OTHER             -> {}

LineMoves(id, s) ==
    /\ s \in LineNext(line[id])
    /\ line' = [line EXCEPT ![id] = s]
    /\ webhooks' = webhooks \cup {<<id, s>>}
    /\ UNCHANGED <<storeOnly, vc, waiters, mediaVars, loose, vcLeft>>

\* The process dies and starts again; NewCallStore loads the last line of every call.
VoiceCrash ==
    /\ vcLeft.crashes > 0 /\ vcLeft' = [vcLeft EXCEPT !.crashes = @ - 1]
    /\ calls' = callLog
    /\ vc' = [c \in VoiceCallers |-> VcIdle]
    /\ waiters' = {}
    /\ media' = [h \in Handlers |-> IF media[h] = NoMedia THEN NoMedia ELSE [media[h] EXCEPT !.pc = "closed", !.stt = "off"]]
    /\ streams' = [id \in Calls |-> NoCall]
    /\ UNCHANGED <<callLog, line, webhooks, loose>>

VoiceNext ==
    \/ \E c \in VoiceCallers :
          \/ InitiateEnds(c) \/ SpeakAppend(c) \/ SpeakNotify(c) \/ WaitCheck(c) \/ WaitRegister(c)
          \/ WaitReturns(c) \/ EndTransition(c)
          \/ \E accepted, answered \in BOOLEAN : Dial(c, accepted, answered)
          \/ \E ids \in SUBSET Calls : EndGet(c, ids)
          \/ \E id \in Calls : \/ InitiateCreate(c, id)
                               \/ \E op \in {"continue", "speak"} : SpeakGet(c, id, op)
                               \/ \E known, ok \in BOOLEAN : EndHangup(c, id, known, ok)
    \/ \E h \in Handlers : \/ StreamListen(h) \/ StreamEnds(h) \/ Heard(h) \/ HeardNotify(h)
                           \/ \E id \in Calls : StreamOpen(h, id)
                           \/ \E stt \in {"on", "off"} : StreamActive(h, stt)
    \/ \E id \in Calls : \E s \in LineNext(line[id]) : LineMoves(id, s)
    \/ \E e \in webhooks : Webhook(e[1], e[2])
    \/ ServerStop
    \/ VoiceCrash

VoiceSpec == VoiceInit /\ [][VoiceNext]_voiceVars

-----------------------------------------------------------------------------
\* A line that is still open belongs to a call the store counts as active, or to one
\* the tool gave up knowing no better: the answer to the dialling was lost, the hang-up
\* failed, or the shutdown came before the provider's id.  So the tool keeps no more than
\* maxConcurrent other lines open, with late and reordered webhooks and across restarts.
LinesAreAccounted ==
    /\ \A id \in Calls : Live(id) => id \in ActiveCalls \cup loose
    /\ Cardinality({id \in Calls : Live(id)} \ loose) <= maxConcurrent

\* WaitForTranscript blocks until an entry is added after afterIndex: once nobody is
\* between an append and its notification, a waiter whose entry is there has been told so,
\* except one whose entry came between its check and its registration.
WaiterIsTold ==
    (/\ \A c \in VoiceCallers : ~At(c, "notify")
     /\ \A h \in Handlers : media[h].stt # "notify")
    => \A w \in waiters : Len(calls[w.call].said) > w.after => w.closed \/ w.missed

\* The lines and the waiters of the call store (voice_call_state.go).
CallsAreAccounted == LinesAreAccounted /\ WaiterIsTold
=============================================================================
