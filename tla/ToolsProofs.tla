----------------------------- MODULE ToolsProofs -----------------------------
(***************************************************************************)
(* Proofs about the tools, and about the model providers that ask for      *)
(* them. Two of the tools share one thing among their users: the browser   *)
(* its one active tab, and the telephone calls a store that is told of the *)
(* world by late webhooks. All of them share what stands in front of the   *)
(* services: the rate limiters, whose argument is that the call Limit      *)
(* places later is a window later; and the calendar, which one call at a   *)
(* time changes until two of them overlap.                                 *)
(*                                                                         *)
(* The providers: an answer that arrived whole comes back to the model as  *)
(* it was said, since what the accumulator of a stream has is, after every *)
(* delta, what the deltas before it say.                                   *)
(***************************************************************************)
EXTENDS Browser, VoiceCall, Tools, Providers, FiniteSetTheorems, SequenceTheorems, TLAPS

-----------------------------------------------------------------------------
(* The browser *)

Pages == {"unborn", "gone", "blank", "popup"} \cup Urls

BrowserTypeOK ==
    /\ page \in [Targets -> Pages]
    /\ tabs \subseteq Targets /\ activeID \in Targets \cup {NoTarget}
    /\ connected \in BOOLEAN /\ panicked \in BOOLEAN /\ lost \in BOOLEAN
    /\ mine \in [Users -> Pages \cup {"none"}]
    /\ disturbed \in [Users -> BOOLEAN]
    /\ selfClosed \subseteq Targets

\* A session that nobody disturbed sees in the active tab what it was told of, as long as
\* that tab's page is there.
FrontIsTold ==
    activeID \in tabs /\ Alive(activeID) => \A s \in Users : mine[s] \in {"none", page[activeID]} \/ disturbed[s]

BrowserInv == BrowserTypeOK /\ BrowserIsWhole /\ FrontIsTold

\* A call that ran in the active tab, or that had no tab to run in.
LEMMA RanKeeps ==
    ASSUME BrowserInv, NEW s \in Users, NEW shown \in Pages \ {"unborn", "gone"}, Ran(s, shown)
    PROVE  BrowserInv'
BY BrowserConstants
DEF Ran, withTimeout, Show, InFront, BrowserInv, BrowserTypeOK, BrowserIsWhole, FrontIsTold, Alive

\* A call without an active tab panics and changes nothing of the browser.
LEMMA PanicsKeeps ==
    ASSUME BrowserInv, connected, Panics
    PROVE  BrowserInv'
BY DEF Panics, withTimeout, BrowserInv, BrowserTypeOK, BrowserIsWhole, FrontIsTold, Alive

\* A call that changes nothing but its bookkeeping.
LEMMA NothingKeeps ==
    ASSUME BrowserInv, UNCHANGED browserVars
    PROVE  BrowserInv'
BY DEF browserVars, BrowserInv, BrowserTypeOK, BrowserIsWhole, FrontIsTold, Alive

\* What an active tab shows whose page is alive.
LEMMA FrontIsAlive ==
    ASSUME BrowserInv, withTimeout, Alive(activeID)
    PROVE  page[activeID] \in Pages \ {"unborn", "gone"}
BY DEF BrowserInv, BrowserTypeOK, Alive, withTimeout

\* A page closes its window, or crashes: it has closed by itself.
LEMMA WindowClosesKeeps ==
    ASSUME BrowserInv, NEW t \in Targets, WindowCloses(t)
    PROVE  BrowserInv'
BY DEF WindowCloses, Show, BrowserInv, BrowserTypeOK, BrowserIsWhole, FrontIsTold, Alive, Pages

\* handleNavigate keeps the invariant.
LEMMA NavigateKeeps ==
    ASSUME BrowserInv, connected, NEW s \in Users, NEW u \in Urls, navigate(s, u)
    PROVE  BrowserInv'
<1>1. u \in Pages \ {"unborn", "gone"}
  BY BrowserConstants DEF Pages
<1>2. CASE Ran(s, u)
  BY <1>1, <1>2, RanKeeps
<1>3. CASE Ran(s, page[activeID])
  BY <1>3, FrontIsAlive, RanKeeps DEF Ran
<1>4. CASE Panics
  BY <1>4, PanicsKeeps
<1>5. CASE Unheeded
  BY <1>5, NothingKeeps DEF Unheeded
<1> QED
  BY <1>2, <1>3, <1>4, <1>5 DEF navigate, Navigate

\* handleGetContent keeps the invariant.
LEMMA GetContentKeeps ==
    ASSUME BrowserInv, connected, NEW s \in Users, getContent(s)
    PROVE  BrowserInv'
<1>1. CASE Panics
  BY <1>1, PanicsKeeps
<1>2. CASE Unheeded
  BY <1>2, NothingKeeps DEF Unheeded
<1>3. CASE ~Panics /\ ~Unheeded
  <2>1. /\ withTimeout /\ Alive(activeID)
        /\ UNCHANGED <<page, tabs, activeID, connected, panicked, lost, mine, disturbed, selfClosed>>
    BY <1>3 DEF getContent, GetContent
  <2>2. mine[s] \in {"none", page[activeID]} \/ disturbed[s]
    BY <2>1 DEF withTimeout, BrowserInv, FrontIsTold
  <2>3. UNCHANGED browserVars
    BY <1>3, <2>1, <2>2 DEF getContent, GetContent, browserVars
  <2> QED
    BY <2>3, NothingKeeps
<1> QED
  BY <1>1, <1>2, <1>3

\* A click, a form or a script keeps the invariant.
LEMMA ScriptedKeeps ==
    ASSUME BrowserInv, connected, NEW s \in Users, Scripted(s)
    PROVE  BrowserInv'
<1>1. CASE \E u \in ValidUrls : Ran(s, u)
  BY <1>1, BrowserConstants, RanKeeps DEF Pages
<1>2. CASE /\ withTimeout /\ Alive(activeID)
           /\ \E t \in Unborn : Show(t, "popup")
           /\ InFront(s, page[activeID])
           /\ UNCHANGED <<tabs, activeID, connected, panicked, lost, misled, selfClosed>>
  BY <1>2, FrontIsAlive
  DEF Unborn, withTimeout, Show, InFront, BrowserInv, BrowserTypeOK, BrowserIsWhole, FrontIsTold, Alive, Pages
<1>3. CASE Unheeded
  BY <1>3, NothingKeeps DEF Unheeded
<1>4. CASE Panics
  BY <1>4, PanicsKeeps
<1>5. CASE withTimeout /\ WindowCloses(activeID)
  BY <1>5, WindowClosesKeeps DEF withTimeout, BrowserInv, BrowserTypeOK
<1> QED
  BY <1>1, <1>2, <1>3, <1>4, <1>5 DEF Scripted

\* handleTabOpen keeps the invariant: the new tab comes to the front.
LEMMA TabOpenKeeps ==
    ASSUME BrowserInv, connected, ~panicked, NEW s \in Users, NEW u \in Urls \cup {"blank"}, tabOpen(s, u)
    PROVE  BrowserInv'
<1> SUFFICES ASSUME \E t \in Unborn : TabOpen(s, u, t)
             PROVE  BrowserInv'
  BY NothingKeeps DEF tabOpen
<1>1. PICK t \in Unborn : TabOpen(s, u, t)
  OBVIOUS
<1> HIDE DEF Unborn
<1>2. t \in Targets /\ t \notin tabs /\ page[t] = "unborn"
  BY DEF Unborn, BrowserInv, BrowserIsWhole, Alive
<1>3. u \in Pages \ {"unborn", "gone"}
  BY BrowserConstants DEF Pages
<1>4. CASE tabs' = tabs \cup {t}
  <2>1. /\ page' = [page EXCEPT ![t] = u] /\ activeID' = t /\ lost' = FALSE /\ InFront(s, u)
        /\ UNCHANGED <<connected, panicked, misled, selfClosed>>
    BY <1>1, <1>2, <1>4 DEF TabOpen, Show
  <2>2. BrowserTypeOK'
    BY <1>2, <1>3, <1>4, <2>1 DEF InFront, BrowserInv, BrowserTypeOK
  <2>3. page'[t] = u /\ \A x \in tabs : page'[x] = page[x]
    BY <1>2, <2>1 DEF BrowserInv, BrowserTypeOK
  <2>4. FrontIsTold'
    BY <2>1, <2>3 DEF InFront, FrontIsTold, BrowserInv, BrowserTypeOK
  <2>5. ~panicked /\ misled = {}
    BY DEF BrowserInv, BrowserIsWhole
  <2> QED
    BY <1>3, <1>4, <2>1, <2>2, <2>3, <2>4, <2>5 DEF BrowserInv, BrowserIsWhole, Alive
<1>5. CASE tabs' = tabs
  <2>1. /\ page' = [page EXCEPT ![t] = u]
        /\ UNCHANGED <<tabs, activeID, connected, panicked, lost, mine, disturbed, misled, selfClosed>>
    BY <1>1, <1>2, <1>5 DEF TabOpen, Show
  <2>2. \A x \in tabs : page'[x] = page[x]
    BY <1>2, <2>1 DEF BrowserInv, BrowserTypeOK
  <2> QED
    BY <1>3, <2>1, <2>2 DEF BrowserInv, BrowserTypeOK, BrowserIsWhole, FrontIsTold, Alive
<1> QED
  BY <1>1, <1>4, <1>5 DEF TabOpen

\* handleTabClose keeps the invariant: another tab comes to the front, or none is left.
LEMMA TabCloseKeeps ==
    ASSUME BrowserInv, connected, NEW s \in Users, NEW t \in Targets, tabClose(s, t)
    PROVE  BrowserInv'
<1> USE DEF tabClose, TabClose, Show, InFront, BrowserInv, BrowserTypeOK, BrowserIsWhole, FrontIsTold, Alive
<1>1. CASE t # activeID
  BY <1>1 DEF Pages
<1>2. ASSUME NEW other \in tabs \ {t}, t = activeID, tabs' = tabs \ {t}, Show(t, "gone"), activeID' = other
      PROVE  BrowserInv'
  BY <1>2 DEF Pages
<1>3. ASSUME NEW new \in Unborn \cup {x \in Targets \ {t} : page[x] = "blank"}, tabs = {t}, t = activeID,
             tabs' = {new}, activeID' = new, page' = [page EXCEPT ![t] = "gone", ![new] = "blank"],
             lost' = lost, InFront(s, "blank")
      PROVE  BrowserInv'
  <2>1. new \in Targets /\ new # t
    BY <1>3 DEF Unborn
  <2> QED
    BY <1>3, <2>1 DEF Pages
<1>4. CASE tabs = {t} /\ tabs' = {} /\ activeID' = NoTarget /\ lost' = TRUE /\ Show(t, "gone")
  BY <1>4, BrowserConstants DEF Pages
<1> QED
  BY <1>1, <1>2, <1>3, <1>4

\* handleTabFocus keeps the invariant.
LEMMA TabFocusKeeps ==
    ASSUME BrowserInv, connected, NEW s \in Users, NEW t \in Targets, tabFocus(s, t)
    PROVE  BrowserInv'
BY DEF tabFocus, TabFocus, InFront, BrowserInv, BrowserTypeOK, BrowserIsWhole, FrontIsTold, Alive

\* The handlers that only look, or that run a script.
LEMMA OthersKeep ==
    ASSUME BrowserInv, connected, NEW s \in Users,
           \/ \E sizes \in {<<1, 1, 1, 1>>, <<3, 2, 1, 1>>, <<4, 4, 3, 3>>} : screenshot(sizes, 2)
           \/ \E sel \in {"", "button"} : click(s, sel)
           \/ \E sel \in {"", "field"}, text \in {"", "text"} : typeText(s, sel, text)
           \/ \E js \in Scripts : evaluate(s, js)
           \/ \E sel \in {"", "field"} : waitVisible(sel)
           \/ status
    PROVE  BrowserInv'
<1>1. Scripted(s) \/ Unheeded \/ Panics
  BY DEF screenshot, click, Click, typeText, Type, evaluate, Evaluate, waitVisible, WaitVisible, status, Status
<1> QED
  BY <1>1, ScriptedKeeps, PanicsKeeps, NothingKeeps DEF Unheeded

\* The browser's invariant holds at the start and is kept by every call, by Chrome and by
\* a restart after a panic.
THEOREM BrowserInvariant == BrowserSpec => []BrowserInv
<1>1. BrowserInit => BrowserInv
  BY BrowserConstants
  DEF BrowserInit, NewChromeDPBackend, BrowserInv, BrowserTypeOK, BrowserIsWhole, FrontIsTold, Alive, Pages
<1>2. BrowserInv /\ [BrowserNext]_browserVars => BrowserInv'
  <2> SUFFICES ASSUME BrowserInv, [BrowserNext]_browserVars PROVE BrowserInv'
    OBVIOUS
  <2>1. ASSUME NEW s \in Users, connected, ~panicked, Execute(s) PROVE BrowserInv'
    BY <2>1, NavigateKeeps, GetContentKeeps, TabOpenKeeps, TabCloseKeeps, TabFocusKeeps, OthersKeep DEF Execute
  <2>2. ASSUME NEW t \in Targets, WindowCloses(t) PROVE BrowserInv'
    BY <2>2, WindowClosesKeeps
  <2>3. CASE PanicRestarts
    BY <2>3 DEF PanicRestarts, BrowserInv, BrowserTypeOK, BrowserIsWhole, FrontIsTold, Alive, Pages
  <2> QED
    BY <2>1, <2>2, <2>3, NothingKeeps DEF BrowserNext
<1> QED
  BY <1>1, <1>2, PTL DEF BrowserSpec

\* BrowserIsWhole, for any number of sessions, pages and addresses, and for pages that close
\* or crash in Chrome: the backend knows its active tab, never works in one that it closed
\* itself, and what get_content returns is what the session was told of (TabClose, TabOpen).
THEOREM BrowserIsWholeHolds == BrowserSpec => []BrowserIsWhole
<1>1. BrowserInv => BrowserIsWhole
  BY DEF BrowserInv
<1> QED
  BY <1>1, BrowserInvariant, PTL

-----------------------------------------------------------------------------
(* Telephone calls *)

Over(id)    == line[id] \in {"completed", "busy", "failed"}
LineStates  == {"none", "queued", "ringing", "in-progress", "completed", "busy", "failed"}

Initiating == {"dial", "dialed", "refused"}
Speaking   == {"say", "notify", "check", "register", "wait"}

Locals  == [pc : {"idle", "hangup", "hungup"} \cup Initiating \cup Speaking, op : {"none", "continue", "speak"},
            call : Calls \cup {NoCall}, after : Nat, ends : SUBSET (Calls \X BOOLEAN)]
Waiters == [caller : VoiceCallers, call : Calls, after : Nat, closed : BOOLEAN, missed : BOOLEAN]
Medias  == [pc : {"free", "open", "active", "reading", "closed"}, call : Calls \cup {NoCall},
            stt : {"off", "on", "notify"}]

VoiceTypeOK ==
    /\ calls \in [Calls -> CallRecords \cup {NoCall}] /\ callLog = calls
    /\ vc \in [VoiceCallers -> Locals]
    /\ waiters \subseteq Waiters
    /\ media \in [Handlers -> Medias]
    /\ line \in [Calls -> LineStates]
    /\ webhooks \subseteq Calls \X LineStates /\ loose \subseteq Calls

\* Whoever works on a call works on a record of the store.
CallersKnow == \A c \in VoiceCallers : vc[c].pc \in Initiating \cup Speaking \cup {"hungup"}
                                            => vc[c].call \in Calls /\ Known(vc[c].call)
EndsKnow    == \A c \in VoiceCallers : \A e \in vc[c].ends : e[1] \in Calls /\ Known(e[1])
MediaKnow   == \A h \in Handlers : /\ media[h].pc # "free" => media[h].call \in Calls /\ Known(media[h].call)
                                   /\ media[h].pc \in {"free", "open"} => media[h].stt = "off"
                                   /\ media[h].pc = "free" => media[h] = NoMedia
StreamsKnow == /\ streams \in [Calls -> Handlers \cup {NoCall}]
               /\ \A id \in Calls : streams[id] # NoCall => media[streams[id]].pc # "free"
WaitersKnow == \A w \in waiters : Known(w.call)

\* A call is dialled once, by the one caller that made its record.
DialledOnce ==
    \A c, d \in VoiceCallers :
        vc[c].pc \in Initiating /\ vc[d].pc \in Initiating /\ vc[c].call = vc[d].call => c = d

\* Whoever is about to end the record of a call has ended its line or given it up.
CallersLines ==
    \A c \in VoiceCallers :
        /\ At(c, "dial") => /\ line[vc[c].call] = "none" /\ ~calls[vc[c].call].pid
                            /\ vc[c].call \in ActiveCalls \cup loose
        /\ At(c, "dialed") => line[vc[c].call] # "none"
        /\ At(c, "refused") => line[vc[c].call] = "none" \/ vc[c].call \in loose
        /\ At(c, "hungup") => Over(vc[c].call) \/ vc[c].call \in loose

EndsLines == \A c \in VoiceCallers : \A e \in vc[c].ends : e[2] => line[e[1]] # "none"

\* No line without a record, and no provider's id without a line.
RecordsLines ==
    \A id \in Calls : /\ Known(id) /\ calls[id].pid => line[id] # "none"
                      /\ ~Known(id) => line[id] = "none"

\* A callback that ends the record comes from a line that is over.
CallbacksTrue ==
    \A e \in webhooks : e[2] # "none" /\ (e[2] \in {"completed", "busy", "failed"} => Over(e[1]))

OpenIsActive    == \A id \in Calls : Live(id) => id \in ActiveCalls \cup loose
ActiveIsBounded == Cardinality(ActiveCalls) <= maxConcurrent

\* A waiter whose entry is there has been told so, missed it, or is about to be told.
WaitersAreServed ==
    \A w \in waiters : Len(calls[w.call].said) > w.after =>
        \/ w.closed \/ w.missed
        \/ \E c \in VoiceCallers : At(c, "notify") /\ vc[c].call = w.call
        \/ \E h \in Handlers : media[h].stt = "notify" /\ media[h].call = w.call

VoiceInv == /\ VoiceTypeOK
            /\ CallersKnow /\ EndsKnow /\ MediaKnow /\ StreamsKnow /\ WaitersKnow
            /\ DialledOnce /\ CallersLines /\ EndsLines /\ RecordsLines /\ CallbacksTrue
            /\ OpenIsActive /\ ActiveIsBounded /\ WaitersAreServed

\* What an operation of the store does to the records.
StoreKeeps(id) ==
    /\ calls' \in [Calls -> CallRecords \cup {NoCall}] /\ callLog' = calls'
    /\ \A k \in Calls : Known(k)' <=> Known(k)
    /\ \A k \in Calls : k # id => calls'[k] = calls[k]

\* Of the callers, or of the media streams, only one moves.
CallerMoves(c)  == vc' \in [VoiceCallers -> Locals] /\ \A d \in VoiceCallers : d # c => vc'[d] = vc[d]
HandlerMoves(h) == media' \in [Handlers -> Medias] /\ \A g \in Handlers : g # h => media'[g] = media[g]

\* Transition changes at most the state of one record, and never makes a call active again.
LEMMA TransitionDoes ==
    ASSUME VoiceTypeOK, NEW id \in Calls, NEW next \in CallStates, Transition(id, next)
    PROVE  /\ StoreKeeps(id)
           /\ \A k \in Calls : calls'[k].pid = calls[k].pid /\ calls'[k].said = calls[k].said
           /\ ActiveCalls' \subseteq ActiveCalls
           /\ ActiveCalls \ {id} \subseteq ActiveCalls'
           /\ ~IsTerminal(next) => ActiveCalls' = ActiveCalls
<1> USE DEF VoiceTypeOK
<1>1. CASE Known(id) /\ CanTransitionTo(calls[id].state, next)
  <2>1. calls' = [calls EXCEPT ![id] = [calls[id] EXCEPT !.state = next]] /\ callLog' = calls'
    BY <1>1 DEF Transition, SaveCall
  <2>2. calls[id] \in CallRecords
    BY <1>1 DEF Known
  <2> DEFINE r == [calls[id] EXCEPT !.state = next]
  <2>3. r \in CallRecords /\ r.pid = calls[id].pid /\ r.said = calls[id].said /\ r.state = next /\ r # NoCall
    BY <2>2, VoiceConstants DEF CallRecords
  <2>4. calls' = [calls EXCEPT ![id] = r]
    BY <2>1
  <2> HIDE DEF r
  <2>5. StoreKeeps(id)
    BY <1>1, <2>1, <2>3, <2>4 DEF StoreKeeps, Known
  <2>6. \A k \in Calls : calls'[k].pid = calls[k].pid /\ calls'[k].said = calls[k].said
    BY <2>3, <2>4
  <2>7. ~IsTerminal(calls[id].state)
    BY <1>1 DEF CanTransitionTo
  <2>8. calls'[id].state = next /\ calls'[id] # NoCall /\ \A k \in Calls : k # id => calls'[k] = calls[k]
    BY <2>3, <2>4
  <2> QED
    BY <1>1, <2>5, <2>6, <2>7, <2>8 DEF ActiveCalls, Known
<1>2. CASE ~(Known(id) /\ CanTransitionTo(calls[id].state, next))
  BY <1>2 DEF Transition, storeOnly, StoreKeeps, ActiveCalls, Known
<1> QED
  BY <1>1, <1>2

\* SetProviderCallID gives one record the provider's id.
LEMMA SetIDDoes ==
    ASSUME VoiceTypeOK, NEW id \in Calls, Known(id), SetProviderCallID(id)
    PROVE  /\ StoreKeeps(id)
           /\ calls'[id].pid
           /\ \A k \in Calls : calls'[k].said = calls[k].said
           /\ ActiveCalls' = ActiveCalls
<1> USE DEF VoiceTypeOK
<1>1. calls[id] \in CallRecords
  BY DEF Known
<1> DEFINE r == [calls[id] EXCEPT !.pid = TRUE]
<1>2. r \in CallRecords /\ r.pid /\ r.said = calls[id].said /\ r.state = calls[id].state /\ r # NoCall
  BY <1>1, VoiceConstants DEF CallRecords
<1>3. calls' = [calls EXCEPT ![id] = r] /\ callLog' = calls'
  BY DEF SetProviderCallID, SaveCall
<1> HIDE DEF r
<1> QED
  BY <1>2, <1>3 DEF StoreKeeps, ActiveCalls, Known

\* AppendTranscript, first half, adds an entry to one record.
LEMMA AppendDoes ==
    ASSUME VoiceTypeOK, NEW id \in Calls, Known(id), NEW who \in {"bot", "user"}, AppendEntry(id, who)
    PROVE  /\ StoreKeeps(id)
           /\ \A k \in Calls : calls'[k].pid = calls[k].pid
           /\ ActiveCalls' = ActiveCalls
<1> USE DEF VoiceTypeOK
<1>1. calls[id] \in CallRecords
  BY DEF Known
<1> DEFINE said == Append(calls[id].said, who)
           r    == [calls[id] EXCEPT !.said = said]
<1>0. said \in Seq({"bot", "user"})
  BY <1>1 DEF CallRecords
<1> HIDE DEF said
<1>2. r \in CallRecords /\ r.pid = calls[id].pid /\ r.state = calls[id].state /\ r # NoCall
  BY <1>0, <1>1, VoiceConstants DEF CallRecords
<1>3. calls' = [calls EXCEPT ![id] = r] /\ callLog' = calls'
  BY DEF AppendEntry, SaveCall, said
<1> HIDE DEF r
<1> QED
  BY <1>2, <1>3 DEF StoreKeeps, ActiveCalls, Known

\* Create adds one record, of an active call without the provider's id.
LEMMA CreateDoes ==
    ASSUME VoiceTypeOK, NEW id \in Calls, Create(id)
    PROVE  /\ ~Known(id) /\ Cardinality(ActiveCalls) < maxConcurrent
           /\ calls' \in [Calls -> CallRecords \cup {NoCall}] /\ callLog' = calls'
           /\ \A k \in Calls : k # id => calls'[k] = calls[k]
           /\ calls'[id] # NoCall /\ calls'[id].pid = FALSE
           /\ ActiveCalls' = ActiveCalls \cup {id}
<1> USE DEF VoiceTypeOK
<1> DEFINE r == [state |-> "initiated", pid |-> FALSE, said |-> <<>>]
<1>0. <<>> \in Seq({"bot", "user"})
  OBVIOUS
<1>1. r \in CallRecords /\ r.pid = FALSE /\ r.state = "initiated" /\ r # NoCall
  <2> DEFINE e == <<>>
  <2>1. e \in Seq({"bot", "user"})
    BY <1>0
  <2> HIDE DEF e
  <2>2. [state |-> "initiated", pid |-> FALSE, said |-> e] \in CallRecords
    BY <2>1 DEF CallRecords, CallStates
  <2>3. r \in CallRecords
    BY <2>2 DEF e
  <2> QED
    BY <2>3, VoiceConstants DEF CallRecords
<1>2. calls' = [calls EXCEPT ![id] = r] /\ callLog' = calls' /\ ~Known(id) /\ Cardinality(ActiveCalls) < maxConcurrent
  BY DEF Create, SaveCall
<1> HIDE DEF r
<1> QED
  BY <1>1, <1>2 DEF ActiveCalls, Known, IsTerminal

\* What the answers of the provider are taken for.
LEMMA StatusIsString ==
    ASSUME NEW report \in LineStates \ {"none"}
    PROVE  /\ mapTwilioStatus(report) \in CallStates
           /\ IsTerminal(mapTwilioStatus(report)) => report \in {"completed", "busy", "failed"}
<1>1. CASE report = "queued"
  BY <1>1 DEF mapTwilioStatus, IsTerminal, CallStates
<1>2. CASE report = "ringing"
  BY <1>2 DEF mapTwilioStatus, IsTerminal, CallStates
<1>3. CASE report = "in-progress"
  BY <1>3 DEF mapTwilioStatus, IsTerminal, CallStates
<1>4. CASE report = "completed"
  BY <1>4 DEF mapTwilioStatus, CallStates
<1>5. CASE report = "busy"
  BY <1>5 DEF mapTwilioStatus, CallStates
<1>6. CASE report = "failed"
  BY <1>6 DEF mapTwilioStatus, CallStates
<1> QED
  BY <1>1, <1>2, <1>3, <1>4, <1>5, <1>6 DEF LineStates

-----------------------------------------------------------------------------
(* What the locals become *)

\* A caller that goes on in its call.
LEMMA Goes ==
    ASSUME VoiceTypeOK, NEW c \in VoiceCallers,
           NEW to \in {"dialed", "refused", "notify", "check", "register", "wait", "hangup"},
           Go(c, to)
    PROVE  /\ CallerMoves(c) /\ vc'[c].pc = to /\ vc'[c].call = vc[c].call
           /\ vc'[c].ends = vc[c].ends /\ vc'[c].after = vc[c].after
<1> DEFINE r == [vc[c] EXCEPT !.pc = to]
<1>1. vc[c] \in Locals
  BY DEF VoiceTypeOK
<1>2. r \in Locals /\ r.pc = to /\ r.call = vc[c].call /\ r.ends = vc[c].ends /\ r.after = vc[c].after
  BY <1>1 DEF Locals, Initiating, Speaking
<1>3. vc' = [vc EXCEPT ![c] = r]
  BY DEF Go
<1> HIDE DEF r
<1> QED
  BY <1>2, <1>3 DEF CallerMoves, VoiceTypeOK

\* The locals of an idle caller.
LEMMA IdleIsLocal == VcIdle \in Locals /\ VcIdle.pc = "idle" /\ VcIdle.ends = {}
BY DEF VcIdle, Locals

\* A caller that returns.
LEMMA DoneGoes ==
    ASSUME VoiceTypeOK, NEW c \in VoiceCallers, Done(c)
    PROVE  CallerMoves(c) /\ vc'[c].pc = "idle" /\ vc'[c].ends = {}
BY IdleIsLocal DEF Done, CallerMoves, VoiceTypeOK

\* A caller that begins an operation.
LEMMA BeginGoes ==
    ASSUME VoiceTypeOK, NEW c \in VoiceCallers, NEW r \in Locals, vc' = [vc EXCEPT ![c] = r]
    PROVE  CallerMoves(c) /\ vc'[c] = r
BY DEF CallerMoves, VoiceTypeOK

\* A media stream that goes on.
LEMMA MediaGoes ==
    ASSUME VoiceTypeOK, NEW h \in Handlers, NEW r \in Medias, media' = [media EXCEPT ![h] = r]
    PROVE  HandlerMoves(h) /\ media'[h] = r
BY DEF HandlerMoves, VoiceTypeOK

\* Telling the waiters of a call: those whose entry is there know, and nobody else changes.
LEMMA NotifyDoes ==
    ASSUME VoiceTypeOK, NEW id \in Calls, NotifyWaiters(id, Len(calls[id].said))
    PROVE  /\ waiters' \subseteq Waiters
           /\ \A v \in waiters' : \E w \in waiters :
                 /\ v.call = w.call /\ v.after = w.after /\ v.missed = w.missed /\ (w.closed => v.closed)
                 /\ v.call = id /\ Len(calls[id].said) > v.after => v.closed
<1> SUFFICES ASSUME NEW v \in waiters'
             PROVE  /\ v \in Waiters
                    /\ \E w \in waiters :
                          /\ v.call = w.call /\ v.after = w.after /\ v.missed = w.missed /\ (w.closed => v.closed)
                          /\ v.call = id /\ Len(calls[id].said) > v.after => v.closed
  OBVIOUS
<1> DEFINE n == Len(calls[id].said)
<1>1. PICK w \in waiters : v = IF w.call = id /\ n > w.after THEN [w EXCEPT !.closed = TRUE] ELSE w
  BY DEF NotifyWaiters
<1> HIDE DEF n
<1>2. w \in Waiters
  BY DEF VoiceTypeOK
<1>3. CASE w.call = id /\ n > w.after
  BY <1>1, <1>2, <1>3 DEF Waiters
<1>4. CASE ~(w.call = id /\ n > w.after)
  BY <1>1, <1>2, <1>4 DEF n
<1> QED
  BY <1>3, <1>4

\* The callbacks on their way name a call and a status.
LEMMA WebhooksArePairs ==
    ASSUME VoiceTypeOK, NEW e \in webhooks
    PROVE  e[1] \in Calls /\ e[2] \in LineStates /\ <<e[1], e[2]>> = e
BY DEF VoiceTypeOK


\* A stop of the server, and a crash, close the streams.
LEMMA CloseIsMedia ==
    ASSUME NEW m \in Medias
    PROVE  /\ [m EXCEPT !.pc = "closed"] \in Medias /\ [m EXCEPT !.pc = "closed"].pc = "closed"
           /\ [m EXCEPT !.pc = "closed"].call = m.call /\ [m EXCEPT !.pc = "closed"].stt = m.stt
           /\ [m EXCEPT !.pc = "closed", !.stt = "off"] \in Medias /\ [m EXCEPT !.pc = "closed", !.stt = "off"].pc = "closed"
           /\ [m EXCEPT !.pc = "closed", !.stt = "off"].call = m.call /\ [m EXCEPT !.pc = "closed", !.stt = "off"].stt = "off"
BY DEF Medias

Prepared(c, id) ==
    /\ At(c, "idle") /\ ~Known(id) /\ Cardinality(ActiveCalls) < maxConcurrent
    /\ calls' \in [Calls -> CallRecords \cup {NoCall}] /\ callLog' = calls'
    /\ \A k \in Calls : k # id => calls'[k] = calls[k]
    /\ calls'[id] # NoCall /\ calls'[id].pid = FALSE /\ ActiveCalls' = ActiveCalls \cup {id}
    /\ CallerMoves(c) /\ vc'[c].pc = "dial" /\ vc'[c].call = id /\ vc'[c].ends = {}
    /\ waiters' = waiters
    /\ media' = media
    /\ line' = line /\ webhooks' = webhooks /\ loose' = loose

\* handleInitiateCall, the record.
LEMMA InitiateCreateDoes ==
    ASSUME VoiceInv, NEW c \in VoiceCallers, NEW id \in Calls, InitiateCreate(c, id)
    PROVE  /\ Prepared(c, id)
<1> DEFINE r == [VcIdle EXCEPT !.pc = "dial", !.call = id]
<1>1. r \in Locals /\ r.pc = "dial" /\ r.call = id /\ r.ends = {}
  BY DEF VcIdle, Locals, Initiating
<1>2. vc' = [vc EXCEPT ![c] = r] /\ Create(id)
  BY DEF InitiateCreate
<1> HIDE DEF r
<1>3. CallerMoves(c) /\ vc'[c] = r
  BY <1>1, <1>2, BeginGoes DEF VoiceInv
<1>4. UNCHANGED <<waiters, media, line, webhooks, loose>> /\ At(c, "idle")
  BY DEF InitiateCreate, Begin, mediaVars, outside
<1> QED
  BY <1>1, <1>2, <1>3, <1>4, CreateDoes DEF VoiceInv, Prepared

\* handleInitiateCall, the provider: the line may be dialled though the answer is lost.
LEMMA DialDoes ==
    ASSUME VoiceInv, NEW c \in VoiceCallers, NEW accepted \in BOOLEAN, NEW answered \in BOOLEAN,
           Dial(c, accepted, answered)
    PROVE  /\ At(c, "dial") /\ vc[c].call \in Calls /\ Known(vc[c].call)
           /\ calls' = calls /\ callLog' = callLog
           /\ CallerMoves(c) /\ vc'[c].call = vc[c].call /\ vc'[c].ends = vc[c].ends
           /\ \/ vc'[c].pc = "dialed" /\ line' = [line EXCEPT ![vc[c].call] = "queued"] /\ loose' = loose
              \/ vc'[c].pc = "refused" /\ line' = [line EXCEPT ![vc[c].call] = "queued"] /\ loose' = loose \cup {vc[c].call}
              \/ vc'[c].pc = "refused" /\ line' = line /\ loose' = loose
           /\ waiters' = waiters
           /\ media' = media
           /\ webhooks' = webhooks
<1>1. vc[c].call \in Calls /\ Known(vc[c].call)
  BY DEF Dial, At, VoiceInv, CallersKnow, EndsKnow, MediaKnow, WaitersKnow, Initiating, Speaking
<1>2. CallerMoves(c) /\ vc'[c].pc = (IF answered THEN "dialed" ELSE "refused") /\ vc'[c].call = vc[c].call
      /\ vc'[c].ends = vc[c].ends
  BY Goes DEF Dial, VoiceInv
<1>3. /\ line' = IF accepted THEN [line EXCEPT ![vc[c].call] = "queued"] ELSE line
      /\ loose' = IF accepted /\ ~answered THEN loose \cup {vc[c].call} ELSE loose
      /\ answered => accepted
      /\ At(c, "dial") /\ UNCHANGED <<calls, callLog, waiters, media, webhooks>>
  BY DEF Dial, storeOnly, mediaVars
<1> QED
  BY <1>1, <1>2, <1>3

\* handleInitiateCall, the provider's id or the failure.
LEMMA InitiateEndsDoes ==
    ASSUME VoiceInv, NEW c \in VoiceCallers, InitiateEnds(c)
    PROVE  /\ vc[c].call \in Calls /\ Known(vc[c].call) /\ StoreKeeps(vc[c].call)
           /\ \A k \in Calls : calls'[k].said = calls[k].said
           /\ ActiveCalls' \subseteq ActiveCalls /\ ActiveCalls \ {vc[c].call} \subseteq ActiveCalls'
           /\ \/ At(c, "dialed") /\ ActiveCalls' = ActiveCalls /\ calls'[vc[c].call].pid
              \/ At(c, "refused") /\ \A k \in Calls : calls'[k].pid = calls[k].pid
           /\ CallerMoves(c) /\ vc'[c].pc = "idle" /\ vc'[c].ends = {}
           /\ waiters' = waiters
           /\ media' = media
           /\ line' = line /\ webhooks' = webhooks /\ loose' = loose
<1>1. vc[c].call \in Calls /\ Known(vc[c].call)
  BY DEF InitiateEnds, At, VoiceInv, CallersKnow, EndsKnow, MediaKnow, WaitersKnow, Initiating, Speaking
<1>2. CallerMoves(c) /\ vc'[c].pc = "idle" /\ vc'[c].ends = {}
  BY DoneGoes DEF InitiateEnds, VoiceInv
<1>3. UNCHANGED <<waiters, media, line, webhooks, loose>>
  BY DEF InitiateEnds, mediaVars, worldVars, outside
<1>4. CASE At(c, "dialed") /\ SetProviderCallID(vc[c].call)
  <2>1. /\ StoreKeeps(vc[c].call) /\ calls'[vc[c].call].pid
        /\ \A k \in Calls : calls'[k].said = calls[k].said
        /\ ActiveCalls' = ActiveCalls
    BY <1>1, <1>4, SetIDDoes DEF VoiceInv
  <2> QED
    BY <1>1, <1>2, <1>3, <1>4, <2>1
<1>5. CASE At(c, "refused") /\ Transition(vc[c].call, "failed")
  <2>1. "failed" \in CallStates
    BY DEF CallStates
  <2>2. /\ StoreKeeps(vc[c].call)
        /\ \A k \in Calls : calls'[k].pid = calls[k].pid /\ calls'[k].said = calls[k].said
        /\ ActiveCalls' \subseteq ActiveCalls /\ ActiveCalls \ {vc[c].call} \subseteq ActiveCalls'
    BY <1>1, <1>5, <2>1, TransitionDoes DEF VoiceInv
  <2> QED
    BY <1>1, <1>2, <1>3, <1>5, <2>2
<1> QED
  BY <1>4, <1>5 DEF InitiateEnds

\* handleContinueCall and handleSpeakToUser, the copy of the record.
LEMMA SpeakGetDoes ==
    ASSUME VoiceInv, NEW c \in VoiceCallers, NEW id \in Calls, NEW op \in {"continue", "speak"},
           SpeakGet(c, id, op)
    PROVE  /\ At(c, "idle") /\ Known(id)
           /\ calls' = calls /\ callLog' = callLog
           /\ CallerMoves(c) /\ vc'[c].pc = "say" /\ vc'[c].call = id /\ vc'[c].ends = {}
           /\ waiters' = waiters
           /\ media' = media
           /\ line' = line /\ webhooks' = webhooks /\ loose' = loose
<1> DEFINE n == Len(calls[id].said) + 1
           r == [VcIdle EXCEPT !.pc = "say", !.op = op, !.call = id, !.after = n]
<1>1. Known(id) /\ At(c, "idle")
  BY DEF SpeakGet, ActiveCalls, Begin
<1>2. n \in Nat
  BY <1>1 DEF Known, VoiceInv, VoiceTypeOK, CallRecords
<1>3. vc' = [vc EXCEPT ![c] = r]
  BY DEF SpeakGet
<1> HIDE DEF n
<1>4. r \in Locals /\ r.pc = "say" /\ r.call = id /\ r.ends = {}
  BY <1>2 DEF VcIdle, Locals, Speaking
<1> HIDE DEF r
<1>5. CallerMoves(c) /\ vc'[c] = r
  BY <1>3, <1>4, BeginGoes DEF VoiceInv
<1> QED
  BY <1>1, <1>4, <1>5 DEF SpeakGet, storeOnly, mediaVars, outside

\* They append what the bot says.
LEMMA SpeakAppendDoes ==
    ASSUME VoiceInv, NEW c \in VoiceCallers, SpeakAppend(c)
    PROVE  /\ vc[c].call \in Calls /\ Known(vc[c].call) /\ StoreKeeps(vc[c].call) /\ At(c, "say")
           /\ \A k \in Calls : calls'[k].pid = calls[k].pid
           /\ ActiveCalls' = ActiveCalls
           /\ CallerMoves(c) /\ vc'[c].pc = "notify" /\ vc'[c].call = vc[c].call /\ vc'[c].ends = vc[c].ends
           /\ waiters' = waiters
           /\ media' = media
           /\ line' = line /\ webhooks' = webhooks /\ loose' = loose
<1>1. vc[c].call \in Calls /\ Known(vc[c].call)
  BY DEF SpeakAppend, At, VoiceInv, CallersKnow, EndsKnow, MediaKnow, WaitersKnow, Initiating, Speaking
<1>2. StoreKeeps(vc[c].call) /\ ActiveCalls' = ActiveCalls /\ \A k \in Calls : calls'[k].pid = calls[k].pid
  BY <1>1, AppendDoes DEF SpeakAppend, VoiceInv
<1>3. CallerMoves(c) /\ vc'[c].pc = "notify" /\ vc'[c].call = vc[c].call /\ vc'[c].ends = vc[c].ends
  BY Goes DEF SpeakAppend, VoiceInv
<1> QED
  BY <1>1, <1>2, <1>3 DEF SpeakAppend, mediaVars, worldVars, outside

\* They tell the waiters.
LEMMA SpeakNotifyDoes ==
    ASSUME VoiceInv, NEW c \in VoiceCallers, SpeakNotify(c)
    PROVE  /\ vc[c].call \in Calls /\ Known(vc[c].call) /\ At(c, "notify")
           /\ calls' = calls /\ callLog' = callLog
           /\ NotifyWaiters(vc[c].call, Len(calls[vc[c].call].said))
           /\ \/ CallerMoves(c) /\ vc'[c].pc = "check" /\ vc'[c].call = vc[c].call /\ vc'[c].ends = vc[c].ends
              \/ CallerMoves(c) /\ vc'[c].pc = "idle" /\ vc'[c].ends = {}
           /\ media' = media
           /\ line' = line /\ webhooks' = webhooks /\ loose' = loose
<1>1. vc[c].call \in Calls /\ Known(vc[c].call)
  BY DEF SpeakNotify, At, VoiceInv, CallersKnow, EndsKnow, MediaKnow, WaitersKnow, Initiating, Speaking
<1>2. CASE Go(c, "check")
  BY <1>1, <1>2, Goes DEF SpeakNotify, VoiceInv, storeOnly, mediaVars, worldVars, outside
<1>3. CASE Done(c)
  BY <1>1, <1>3, DoneGoes DEF SpeakNotify, VoiceInv, storeOnly, mediaVars, worldVars, outside
<1> QED
  BY <1>2, <1>3 DEF SpeakNotify

\* WaitForTranscript, the check.
LEMMA WaitCheckDoes ==
    ASSUME VoiceInv, NEW c \in VoiceCallers, WaitCheck(c)
    PROVE  /\ vc[c].call \in Calls /\ Known(vc[c].call) /\ At(c, "check")
           /\ calls' = calls /\ callLog' = callLog
           /\ \/ CallerMoves(c) /\ vc'[c].pc = "register" /\ vc'[c].call = vc[c].call /\ vc'[c].ends = vc[c].ends
              \/ CallerMoves(c) /\ vc'[c].pc = "idle" /\ vc'[c].ends = {}
           /\ waiters' = waiters
           /\ media' = media
           /\ line' = line /\ webhooks' = webhooks /\ loose' = loose
<1>1. vc[c].call \in Calls /\ Known(vc[c].call)
  BY DEF WaitCheck, At, VoiceInv, CallersKnow, EndsKnow, MediaKnow, WaitersKnow, Initiating, Speaking
<1>2. Go(c, "register") \/ Done(c)
  BY DEF WaitCheck
<1>3. /\ \/ CallerMoves(c) /\ vc'[c].pc = "register" /\ vc'[c].call = vc[c].call /\ vc'[c].ends = vc[c].ends
         \/ CallerMoves(c) /\ vc'[c].pc = "idle" /\ vc'[c].ends = {}
  BY <1>2, Goes, DoneGoes DEF VoiceInv
<1> QED
  BY <1>1, <1>3 DEF WaitCheck, storeOnly, mediaVars, worldVars, outside

\* The entry of the caller, which knows whether it came too late.
Enrolled(c) ==
    \E w \in Waiters : /\ waiters' = waiters \cup {w} /\ w.call = vc[c].call
                       /\ Len(calls[w.call].said) > w.after => w.missed

\* WaitForTranscript, the registration.
LEMMA WaitRegisterDoes ==
    ASSUME VoiceInv, NEW c \in VoiceCallers, WaitRegister(c)
    PROVE  /\ vc[c].call \in Calls /\ Known(vc[c].call) /\ At(c, "register")
           /\ calls' = calls /\ callLog' = callLog
           /\ Enrolled(c)
           /\ CallerMoves(c) /\ vc'[c].pc = "wait" /\ vc'[c].call = vc[c].call /\ vc'[c].ends = vc[c].ends
           /\ media' = media
           /\ line' = line /\ webhooks' = webhooks /\ loose' = loose
<1>1. vc[c].call \in Calls /\ Known(vc[c].call)
  BY DEF WaitRegister, At, VoiceInv, CallersKnow, EndsKnow, MediaKnow, WaitersKnow, Initiating, Speaking
<1>2. CallerMoves(c) /\ vc'[c].pc = "wait" /\ vc'[c].call = vc[c].call /\ vc'[c].ends = vc[c].ends
  BY Goes DEF WaitRegister, VoiceInv
<1> DEFINE m == Len(calls[vc[c].call].said) > vc[c].after
           w == [caller |-> c, call |-> vc[c].call, after |-> vc[c].after, closed |-> FALSE, missed |-> m]
<1>3. waiters' = waiters \cup {w}
  BY DEF WaitRegister
<1>4. m \in BOOLEAN /\ vc[c].after \in Nat
  <2>1. vc[c] \in Locals
    BY DEF VoiceInv, VoiceTypeOK
  <2> QED
    BY <2>1 DEF Locals
<1>5. w \in Waiters /\ w.call = vc[c].call /\ w.after = vc[c].after /\ w.missed = m
  <2> HIDE DEF m
  <2> QED
    BY <1>1, <1>4 DEF Waiters
<1>6. Len(calls[w.call].said) > w.after => w.missed
  BY <1>5
<1> HIDE DEF w
<1> QED
  BY <1>1, <1>2, <1>3, <1>5, <1>6 DEF Enrolled, WaitRegister, storeOnly, mediaVars, worldVars, outside

\* WaitForTranscript, the return.
LEMMA WaitReturnsDoes ==
    ASSUME VoiceInv, NEW c \in VoiceCallers, WaitReturns(c)
    PROVE  /\ At(c, "wait")
           /\ calls' = calls /\ callLog' = callLog
           /\ waiters' \subseteq waiters
           /\ CallerMoves(c) /\ vc'[c].pc = "idle" /\ vc'[c].ends = {}
           /\ media' = media
           /\ line' = line /\ webhooks' = webhooks /\ loose' = loose
<1>1. CallerMoves(c) /\ vc'[c].pc = "idle" /\ vc'[c].ends = {}
  BY DoneGoes DEF WaitReturns, VoiceInv
<1> QED
  BY <1>1 DEF WaitReturns, storeOnly, mediaVars, worldVars, outside

\* handleEndCall and HangupActiveCalls, the calls and the provider's ids as they are.
LEMMA EndGetDoes ==
    ASSUME VoiceInv, NEW c \in VoiceCallers, NEW ids \in SUBSET Calls, EndGet(c, ids)
    PROVE  /\ At(c, "idle")
           /\ calls' = calls /\ callLog' = callLog
           /\ CallerMoves(c) /\ vc'[c].pc = "hangup"
           /\ \A e \in vc'[c].ends : e[1] \in Calls /\ Known(e[1]) /\ (e[2] => calls[e[1]].pid)
           /\ waiters' = waiters
           /\ media' = media
           /\ line' = line /\ webhooks' = webhooks /\ loose' = loose
<1> DEFINE ends == {<<id, calls[id].pid>> : id \in ids}
           r    == [VcIdle EXCEPT !.pc = "hangup", !.ends = ends]
<1>1. \A id \in ids : id \in Calls /\ Known(id) /\ calls[id].pid \in BOOLEAN
  BY DEF EndGet, ActiveCalls, Known, VoiceInv, VoiceTypeOK, CallRecords
<1>2. ends \in SUBSET (Calls \X BOOLEAN) /\ \A e \in ends : e[1] \in Calls /\ Known(e[1]) /\ (e[2] => calls[e[1]].pid)
  BY <1>1
<1>3. vc' = [vc EXCEPT ![c] = r] /\ At(c, "idle")
  BY DEF EndGet, Begin
<1> HIDE DEF ends
<1>4. r \in Locals /\ r.pc = "hangup" /\ r.ends = ends
  BY <1>2 DEF VcIdle, Locals
<1> HIDE DEF r
<1>5. CallerMoves(c) /\ vc'[c] = r
  BY <1>3, <1>4, BeginGoes DEF VoiceInv
<1> QED
  BY <1>2, <1>3, <1>4, <1>5 DEF EndGet, storeOnly, mediaVars, outside

HungUp(c, id, known) ==
    /\ At(c, "hangup") /\ Known(id) /\ <<id, known>> \in vc[c].ends
    /\ calls' = calls /\ callLog' = callLog
    /\ CallerMoves(c) /\ vc'[c].pc = "hungup" /\ vc'[c].call = id /\ vc'[c].ends \subseteq vc[c].ends
    /\ \/ known /\ Live(id) /\ line' = [line EXCEPT ![id] = "completed"] /\ webhooks' = webhooks \cup {<<id, "completed">>} /\ loose' = loose
       \/ known /\ ~Live(id) /\ line' = line /\ webhooks' = webhooks /\ loose' = loose
       \/ line' = line /\ webhooks' = webhooks /\ loose' = loose \cup {id}
    /\ waiters' = waiters
    /\ media' = media

\* They hang up one call: its line is over, or it is given up.
LEMMA EndHangupDoes ==
    ASSUME VoiceInv, NEW c \in VoiceCallers, NEW id \in Calls, NEW known \in BOOLEAN, NEW ok \in BOOLEAN,
           EndHangup(c, id, known, ok)
    PROVE  /\ HungUp(c, id, known)
<1> DEFINE r == [vc[c] EXCEPT !.pc = "hungup", !.call = id, !.ends = @ \ {<<id, known>>}]
<1>1. vc[c] \in Locals /\ <<id, known>> \in vc[c].ends /\ At(c, "hangup")
  BY DEF EndHangup, VoiceInv, VoiceTypeOK
<1>2. Known(id)
  BY <1>1 DEF VoiceInv, CallersKnow, EndsKnow, MediaKnow, WaitersKnow
<1>3. r \in Locals /\ r.pc = "hungup" /\ r.call = id /\ r.ends \subseteq vc[c].ends
  BY <1>1 DEF Locals
<1>4. vc' = [vc EXCEPT ![c] = r]
  BY DEF EndHangup
<1> HIDE DEF r
<1>5. CallerMoves(c) /\ vc'[c] = r
  BY <1>3, <1>4, BeginGoes DEF VoiceInv
<1>6. UNCHANGED <<calls, callLog, waiters, media>>
  BY DEF EndHangup, storeOnly, mediaVars
<1>7. \/ known /\ Live(id) /\ line' = [line EXCEPT ![id] = "completed"] /\ webhooks' = webhooks \cup {<<id, "completed">>} /\ loose' = loose
      \/ known /\ ~Live(id) /\ line' = line /\ webhooks' = webhooks /\ loose' = loose
      \/ line' = line /\ webhooks' = webhooks /\ loose' = loose \cup {id}
  BY DEF EndHangup
<1> QED
  BY <1>1, <1>2, <1>3, <1>5, <1>6, <1>7 DEF HungUp

\* They end its record.
LEMMA EndTransitionDoes ==
    ASSUME VoiceInv, NEW c \in VoiceCallers, EndTransition(c)
    PROVE  /\ vc[c].call \in Calls /\ Known(vc[c].call) /\ StoreKeeps(vc[c].call) /\ At(c, "hungup")
           /\ \A k \in Calls : calls'[k].pid = calls[k].pid /\ calls'[k].said = calls[k].said
           /\ ActiveCalls' \subseteq ActiveCalls /\ ActiveCalls \ {vc[c].call} \subseteq ActiveCalls'
           /\ \/ CallerMoves(c) /\ vc'[c].pc = "hangup" /\ vc'[c].ends = vc[c].ends
              \/ CallerMoves(c) /\ vc'[c].pc = "idle" /\ vc'[c].ends = {}
           /\ waiters' = waiters
           /\ media' = media
           /\ line' = line /\ webhooks' = webhooks /\ loose' = loose
<1>1. vc[c].call \in Calls /\ Known(vc[c].call)
  BY DEF EndTransition, At, VoiceInv, CallersKnow, EndsKnow, MediaKnow, WaitersKnow, Initiating, Speaking
<1>2. "hangup_bot" \in CallStates
  BY DEF CallStates
<1>3. /\ StoreKeeps(vc[c].call) /\ ActiveCalls' \subseteq ActiveCalls /\ ActiveCalls \ {vc[c].call} \subseteq ActiveCalls'
      /\ \A k \in Calls : calls'[k].pid = calls[k].pid /\ calls'[k].said = calls[k].said
  BY <1>1, <1>2, TransitionDoes DEF EndTransition, VoiceInv
<1>4. Go(c, "hangup") \/ Done(c)
  BY DEF EndTransition
<1>5. \/ CallerMoves(c) /\ vc'[c].pc = "hangup" /\ vc'[c].ends = vc[c].ends
      \/ CallerMoves(c) /\ vc'[c].pc = "idle" /\ vc'[c].ends = {}
  BY <1>4, Goes, DoneGoes DEF VoiceInv
<1> QED
  BY <1>1, <1>3, <1>5 DEF EndTransition, mediaVars, worldVars, outside

\* processCallEvent: a record ends only by a callback whose line is over.
LEMMA WebhookDoes ==
    ASSUME VoiceInv, NEW id \in Calls, NEW report \in LineStates, Webhook(id, report)
    PROVE  /\ <<id, report>> \in webhooks /\ webhooks' = webhooks \ {<<id, report>>}
           /\ StoreKeeps(id)
           /\ \A k \in Calls : calls'[k].pid = calls[k].pid /\ calls'[k].said = calls[k].said
           /\ ActiveCalls' \subseteq ActiveCalls /\ ActiveCalls \ {id} \subseteq ActiveCalls'
           /\ (Over(id) /\ Known(id) /\ calls[id].pid) \/ ActiveCalls' = ActiveCalls
           /\ vc' = vc
           /\ waiters' = waiters
           /\ media' = media
           /\ line' = line /\ loose' = loose
<1>1. <<id, report>> \in webhooks /\ webhooks' = webhooks \ {<<id, report>>}
  BY DEF Webhook
<1>2. UNCHANGED <<vc, waiters, media, line, loose>>
  BY DEF Webhook, mediaVars
<1>3. report # "none" /\ (report \in {"completed", "busy", "failed"} => Over(id))
  BY <1>1 DEF VoiceInv, DialledOnce, CallersLines, EndsLines, RecordsLines, CallbacksTrue
<1>4. CASE Known(id) /\ calls[id].pid
  <2>1. Transition(id, mapTwilioStatus(report))
    BY <1>4 DEF Webhook
  <2>2. mapTwilioStatus(report) \in CallStates /\ (IsTerminal(mapTwilioStatus(report)) => Over(id))
    BY <1>3, StatusIsString
  <2> QED
    BY <1>1, <1>2, <1>4, <2>1, <2>2, TransitionDoes DEF VoiceInv
<1>5. CASE ~(Known(id) /\ calls[id].pid)
  <2>1. calls' = calls /\ callLog' = callLog
    BY <1>5 DEF Webhook, storeOnly
  <2> QED
    BY <1>1, <1>2, <2>1 DEF StoreKeeps, ActiveCalls, Known, VoiceInv, VoiceTypeOK
<1> QED
  BY <1>4, <1>5

\* handleStream: a new stream.
LEMMA StreamOpenDoes ==
    ASSUME VoiceInv, NEW h \in Handlers, NEW id \in Calls, StreamOpen(h, id)
    PROVE  /\ media[h].stt = "off" /\ Known(id)
           /\ calls' = calls /\ callLog' = callLog
           /\ vc' = vc
           /\ waiters' = waiters
           /\ HandlerMoves(h) /\ media'[h].pc = "open" /\ media'[h].call = id /\ media'[h].stt = "off"
           /\ line' = line /\ webhooks' = webhooks /\ loose' = loose
<1> DEFINE r == [NoMedia EXCEPT !.pc = "open", !.call = id]
<1>1. media[h].stt = "off" /\ Known(id)
  BY DEF StreamOpen, NoMedia, ActiveCalls
<1>2. r \in Medias /\ r.pc = "open" /\ r.call = id /\ r.stt = "off"
  BY DEF NoMedia, Medias
<1>3. media' = [media EXCEPT ![h] = r]
  BY DEF StreamOpen
<1> HIDE DEF r
<1>4. HandlerMoves(h) /\ media'[h] = r
  BY <1>2, <1>3, MediaGoes DEF VoiceInv
<1> QED
  BY <1>1, <1>2, <1>4 DEF StreamOpen, storeOnly, outside

\* HandleHTTP: the call is active.
LEMMA StreamActiveDoes ==
    ASSUME VoiceInv, NEW h \in Handlers, NEW stt \in {"on", "off"}, StreamActive(h, stt)
    PROVE  /\ media[h].call \in Calls /\ Known(media[h].call) /\ StoreKeeps(media[h].call) /\ media[h].stt = "off"
           /\ \A k \in Calls : calls'[k].pid = calls[k].pid /\ calls'[k].said = calls[k].said
           /\ ActiveCalls' = ActiveCalls
           /\ vc' = vc
           /\ waiters' = waiters
           /\ HandlerMoves(h) /\ media'[h].pc = "active" /\ media'[h].call = media[h].call
           /\ line' = line /\ webhooks' = webhooks /\ loose' = loose
<1>1. media[h].call \in Calls /\ Known(media[h].call) /\ media[h].stt = "off"
  BY DEF StreamActive, VoiceInv, CallersKnow, EndsKnow, MediaKnow, WaitersKnow
<1>2. "active" \in CallStates /\ "listening" \in CallStates /\ ~IsTerminal("active") /\ ~IsTerminal("listening")
  BY DEF IsTerminal, CallStates
<1>3. /\ StoreKeeps(media[h].call) /\ ActiveCalls' = ActiveCalls
      /\ \A k \in Calls : calls'[k].pid = calls[k].pid /\ calls'[k].said = calls[k].said
  BY <1>1, <1>2, TransitionDoes DEF StreamActive, VoiceInv
<1> DEFINE r == [media[h] EXCEPT !.pc = "active", !.stt = stt]
<1>4. media[h] \in Medias
  BY DEF VoiceInv, VoiceTypeOK
<1>5. r \in Medias /\ r.pc = "active" /\ r.call = media[h].call
  BY <1>4 DEF Medias
<1>6. media' = [media EXCEPT ![h] = r]
  BY DEF StreamActive
<1> HIDE DEF r
<1>7. HandlerMoves(h) /\ media'[h] = r
  BY <1>5, <1>6, MediaGoes DEF VoiceInv
<1> QED
  BY <1>1, <1>3, <1>5, <1>7 DEF StreamActive, worldVars, outside

\* HandleHTTP: the call is listened to.
LEMMA StreamListenDoes ==
    ASSUME VoiceInv, NEW h \in Handlers, StreamListen(h)
    PROVE  /\ media[h].call \in Calls /\ Known(media[h].call) /\ StoreKeeps(media[h].call)
           /\ \A k \in Calls : calls'[k].pid = calls[k].pid /\ calls'[k].said = calls[k].said
           /\ ActiveCalls' = ActiveCalls
           /\ vc' = vc
           /\ waiters' = waiters
           /\ HandlerMoves(h) /\ media'[h].pc = "reading" /\ media'[h].call = media[h].call /\ media'[h].stt = media[h].stt
           /\ line' = line /\ webhooks' = webhooks /\ loose' = loose
<1>1. media[h].call \in Calls /\ Known(media[h].call)
  BY DEF StreamListen, VoiceInv, CallersKnow, EndsKnow, MediaKnow, WaitersKnow
<1>2. "active" \in CallStates /\ "listening" \in CallStates /\ ~IsTerminal("active") /\ ~IsTerminal("listening")
  BY DEF IsTerminal, CallStates
<1>3. /\ StoreKeeps(media[h].call) /\ ActiveCalls' = ActiveCalls
      /\ \A k \in Calls : calls'[k].pid = calls[k].pid /\ calls'[k].said = calls[k].said
  BY <1>1, <1>2, TransitionDoes DEF StreamListen, VoiceInv
<1> DEFINE r == [media[h] EXCEPT !.pc = "reading"]
<1>4. media[h] \in Medias
  BY DEF VoiceInv, VoiceTypeOK
<1>5. r \in Medias /\ r.pc = "reading" /\ r.call = media[h].call /\ r.stt = media[h].stt
  BY <1>4 DEF Medias
<1>6. media' = [media EXCEPT ![h] = r]
  BY DEF StreamListen
<1> HIDE DEF r
<1>7. HandlerMoves(h) /\ media'[h] = r
  BY <1>5, <1>6, MediaGoes DEF VoiceInv
<1> QED
  BY <1>1, <1>3, <1>5, <1>7 DEF StreamListen, worldVars, outside

\* HandleHTTP: the stream ends.
LEMMA StreamEndsDoes ==
    ASSUME VoiceInv, NEW h \in Handlers, StreamEnds(h)
    PROVE  /\ media[h].pc \in {"open", "reading"}
           /\ calls' = calls /\ callLog' = callLog
           /\ vc' = vc
           /\ waiters' = waiters
           /\ HandlerMoves(h) /\ media'[h].pc = "closed" /\ media'[h].call = media[h].call /\ media'[h].stt = media[h].stt
           /\ line' = line /\ webhooks' = webhooks /\ loose' = loose
<1> DEFINE r == [media[h] EXCEPT !.pc = "closed"]
<1>4. media[h] \in Medias
  BY DEF VoiceInv, VoiceTypeOK
<1>5. r \in Medias /\ r.pc = "closed" /\ r.call = media[h].call /\ r.stt = media[h].stt
  BY <1>4 DEF Medias
<1>6. media' = [media EXCEPT ![h] = r]
  BY DEF StreamEnds
<1> HIDE DEF r
<1>7. HandlerMoves(h) /\ media'[h] = r
  BY <1>5, <1>6, MediaGoes DEF VoiceInv
<1> QED
  BY <1>5, <1>7 DEF StreamEnds, storeOnly, worldVars, outside

\* sttReadLoop: a final transcript.
LEMMA HeardDoes ==
    ASSUME VoiceInv, NEW h \in Handlers, Heard(h)
    PROVE  /\ media[h].call \in Calls /\ Known(media[h].call) /\ StoreKeeps(media[h].call) /\ media[h].pc \notin {"free", "open"}
           /\ \A k \in Calls : calls'[k].pid = calls[k].pid
           /\ ActiveCalls' = ActiveCalls
           /\ vc' = vc
           /\ waiters' = waiters
           /\ HandlerMoves(h) /\ media'[h].pc = media[h].pc /\ media'[h].call = media[h].call /\ media'[h].stt = "notify"
           /\ line' = line /\ webhooks' = webhooks /\ loose' = loose
<1>1. media[h].call \in Calls /\ Known(media[h].call) /\ media[h].pc \notin {"free", "open"}
  BY DEF Heard, VoiceInv, CallersKnow, EndsKnow, MediaKnow, WaitersKnow
<1>2. StoreKeeps(media[h].call) /\ ActiveCalls' = ActiveCalls /\ \A k \in Calls : calls'[k].pid = calls[k].pid
  BY <1>1, AppendDoes DEF Heard, VoiceInv
<1> DEFINE r == [media[h] EXCEPT !.stt = "notify"]
<1>4. media[h] \in Medias
  BY DEF VoiceInv, VoiceTypeOK
<1>5. r \in Medias /\ r.pc = media[h].pc /\ r.call = media[h].call /\ r.stt = "notify"
  BY <1>4 DEF Medias
<1>6. media' = [media EXCEPT ![h] = r]
  BY DEF Heard
<1> HIDE DEF r
<1>7. HandlerMoves(h) /\ media'[h] = r
  BY <1>5, <1>6, MediaGoes DEF VoiceInv
<1> QED
  BY <1>1, <1>2, <1>5, <1>7 DEF Heard, storeOnly, worldVars, outside

\* sttReadLoop: its waiters are told.
LEMMA HeardNotifyDoes ==
    ASSUME VoiceInv, NEW h \in Handlers, HeardNotify(h)
    PROVE  /\ media[h].call \in Calls /\ Known(media[h].call) /\ media[h].pc \notin {"free", "open"}
           /\ calls' = calls /\ callLog' = callLog
           /\ vc' = vc
           /\ NotifyWaiters(media[h].call, Len(calls[media[h].call].said))
           /\ HandlerMoves(h) /\ media'[h].pc = media[h].pc /\ media'[h].call = media[h].call
           /\ line' = line /\ webhooks' = webhooks /\ loose' = loose
<1>1. media[h].call \in Calls /\ Known(media[h].call) /\ media[h].pc \notin {"free", "open"}
  BY DEF HeardNotify, VoiceInv, CallersKnow, EndsKnow, MediaKnow, WaitersKnow
<1>2. NotifyWaiters(media[h].call, Len(calls[media[h].call].said))
  BY DEF HeardNotify
<1> DEFINE r == [media[h] EXCEPT !.stt = IF media[h].pc = "closed" THEN "off" ELSE "on"]
<1>4. media[h] \in Medias
  BY DEF VoiceInv, VoiceTypeOK
<1>5. r \in Medias /\ r.pc = media[h].pc /\ r.call = media[h].call
  BY <1>4 DEF Medias
<1>6. media' = [media EXCEPT ![h] = r]
  BY DEF HeardNotify
<1> HIDE DEF r
<1>7. HandlerMoves(h) /\ media'[h] = r
  BY <1>5, <1>6, MediaGoes DEF VoiceInv
<1> QED
  BY <1>1, <1>2, <1>5, <1>7 DEF HeardNotify, storeOnly, worldVars, outside

\* Stop closes the streams in the table, and those are open ones.
LEMMA ServerStopDoes ==
    ASSUME VoiceInv, ServerStop
    PROVE  /\ calls' = calls /\ callLog' = callLog
           /\ vc' = vc
           /\ waiters' = waiters
           /\ media' \in [Handlers -> Medias]
           /\ \A h \in Handlers : \/ media'[h] = media[h]
                                  \/ /\ media[h].pc # "free" /\ media'[h].pc = "closed"
                                     /\ media'[h].call = media[h].call /\ media'[h].stt = media[h].stt
           /\ line' = line /\ webhooks' = webhooks /\ loose' = loose
<1>1. \A h \in Handlers : media[h] \in Medias
  BY DEF VoiceInv, VoiceTypeOK
<1>2. media' = [h \in Handlers |-> IF \E id \in Calls : streams[id] = h THEN [media[h] EXCEPT !.pc = "closed"] ELSE media[h]]
  BY DEF ServerStop
<1>3. ASSUME NEW h \in Handlers
      PROVE  /\ media'[h] \in Medias
             /\ \/ media'[h] = media[h]
                \/ /\ media[h].pc # "free" /\ media'[h].pc = "closed"
                   /\ media'[h].call = media[h].call /\ media'[h].stt = media[h].stt
  <2>1. CASE \E id \in Calls : streams[id] = h
    <3>1. media[h].pc # "free"
      BY <2>1, VoiceConstants DEF VoiceInv, StreamsKnow
    <3>2. media'[h] = [media[h] EXCEPT !.pc = "closed"]
      BY <1>2, <2>1
    <3>3. media[h] \in Medias
      BY <1>1
    <3> QED
      BY <3>1, <3>2, <3>3, CloseIsMedia
  <2>2. CASE ~\E id \in Calls : streams[id] = h
    BY <1>1, <1>2, <2>2
  <2> QED
    BY <2>1, <2>2
<1> QED
  BY <1>2, <1>3 DEF ServerStop, storeOnly, worldVars, outside

\* The provider's line goes on, and reports it.
LEMMA LineMovesDoes ==
    ASSUME VoiceInv, NEW id \in Calls, NEW s \in LineNext(line[id]), LineMoves(id, s)
    PROVE  /\ calls' = calls /\ callLog' = callLog
           /\ vc' = vc
           /\ waiters' = waiters
           /\ media' = media
           /\ loose' = loose
           /\ line' = [line EXCEPT ![id] = s] /\ webhooks' = webhooks \cup {<<id, s>>}
           /\ ~Over(id) /\ line[id] # "none" /\ s \in LineStates \ {"none"}
           /\ Live(id)
<1>1. line[id] \in {"queued", "ringing", "in-progress"} /\ s \in {"ringing", "failed", "in-progress", "busy", "completed"}
  BY DEF LineNext
<1> QED
  BY <1>1 DEF LineMoves, storeOnly, mediaVars, Live, Over, LineStates

\* A crash forgets everything but the log, which is all of the records.
LEMMA VoiceCrashDoes ==
    ASSUME VoiceInv, VoiceCrash
    PROVE  /\ calls' = calls /\ callLog' = callLog
           /\ vc' \in [VoiceCallers -> Locals] /\ \A c \in VoiceCallers : vc'[c].pc = "idle" /\ vc'[c].ends = {}
           /\ waiters' = {}
           /\ media' \in [Handlers -> Medias]
           /\ \A h \in Handlers : /\ media'[h].call = media[h].call /\ media'[h].stt = "off"
                                  /\ media'[h].pc = "free" <=> media[h].pc = "free"
                                  /\ media'[h].pc = "free" => media'[h] = NoMedia
           /\ line' = line /\ webhooks' = webhooks /\ loose' = loose
<1>1. \A h \in Handlers : media[h] \in Medias
  BY DEF VoiceInv, VoiceTypeOK
<1>2. media' = [h \in Handlers |-> IF media[h] = NoMedia THEN NoMedia ELSE [media[h] EXCEPT !.pc = "closed", !.stt = "off"]]
  BY DEF VoiceCrash
<1>3. ASSUME NEW h \in Handlers
      PROVE  media'[h] \in Medias /\ media'[h].call = media[h].call /\ media'[h].stt = "off"
             /\ (media'[h].pc = "free" <=> media[h].pc = "free") /\ (media'[h].pc = "free" => media'[h] = NoMedia)
  <2>1. NoMedia \in Medias /\ NoMedia.stt = "off" /\ NoMedia.pc = "free"
    BY DEF NoMedia, Medias
  <2>2. media[h].pc = "free" => media[h] = NoMedia
    BY DEF VoiceInv, CallersKnow, EndsKnow, MediaKnow, WaitersKnow
  <2> QED
    BY <1>1, <1>2, <2>1, <2>2, CloseIsMedia
<1> QED
  BY <1>2, <1>3, IdleIsLocal DEF VoiceCrash, VoiceInv, VoiceTypeOK

\* The active calls are finitely many, and as long as none is added they stay bounded.
LEMMA ActiveStays ==
    ASSUME VoiceInv, ActiveCalls' \subseteq ActiveCalls
    PROVE  ActiveIsBounded'
<1>1. IsFiniteSet(ActiveCalls)
  BY VoiceConstants, FS_Subset DEF ActiveCalls
<1>2. Cardinality(ActiveCalls') <= Cardinality(ActiveCalls) /\ Cardinality(ActiveCalls') \in Nat /\ Cardinality(ActiveCalls) \in Nat
  BY <1>1, FS_Subset, FS_CardinalityType
<1> QED
  BY <1>2, VoiceConstants DEF ActiveIsBounded, VoiceInv

\* Waiters stay served as long as no entry is added without somebody about to tell of it.
LEMMA ServedStays ==
    ASSUME VoiceInv, waiters' \subseteq waiters,
           \A c \in VoiceCallers : At(c, "notify") => vc'[c].pc = "notify" /\ vc'[c].call = vc[c].call,
           \A h \in Handlers : media[h].stt = "notify" => media'[h].stt = "notify" /\ media'[h].call = media[h].call,
           \A k \in Calls : Known(k) =>
               \/ calls'[k].said = calls[k].said
               \/ \E c \in VoiceCallers : vc'[c].pc = "notify" /\ vc'[c].call = k
               \/ \E h \in Handlers : media'[h].stt = "notify" /\ media'[h].call = k
    PROVE  WaitersAreServed'
<1> SUFFICES ASSUME NEW w \in waiters', Len(calls'[w.call].said) > w.after, ~w.closed, ~w.missed
             PROVE  \/ \E c \in VoiceCallers : vc'[c].pc = "notify" /\ vc'[c].call = w.call
                    \/ \E h \in Handlers : media'[h].stt = "notify" /\ media'[h].call = w.call
  BY DEF WaitersAreServed, At
<1>1. w \in waiters /\ w.call \in Calls /\ Known(w.call)
  BY DEF VoiceInv, VoiceTypeOK, Waiters, WaitersKnow
<1>2. CASE calls'[w.call].said = calls[w.call].said
  <2>1. \/ \E c \in VoiceCallers : At(c, "notify") /\ vc[c].call = w.call
        \/ \E h \in Handlers : media[h].stt = "notify" /\ media[h].call = w.call
    BY <1>1, <1>2 DEF VoiceInv, WaitersAreServed
  <2> QED
    BY <2>1
<1>3. CASE calls'[w.call].said # calls[w.call].said
  BY <1>1, <1>3
<1> QED
  BY <1>2, <1>3

\* After the waiters of a call were told, nobody else has to tell them.
LEMMA ServedAfterNotify ==
    ASSUME VoiceInv, NEW id \in Calls, NotifyWaiters(id, Len(calls[id].said)), calls' = calls,
           \A c \in VoiceCallers : At(c, "notify") /\ vc[c].call # id => vc'[c].pc = "notify" /\ vc'[c].call = vc[c].call,
           \A h \in Handlers : media[h].stt = "notify" /\ media[h].call # id
                                   => media'[h].stt = "notify" /\ media'[h].call = media[h].call
    PROVE  WaitersAreServed'
<1> SUFFICES ASSUME NEW v \in waiters', Len(calls'[v.call].said) > v.after, ~v.closed, ~v.missed
             PROVE  \/ \E c \in VoiceCallers : vc'[c].pc = "notify" /\ vc'[c].call = v.call
                    \/ \E h \in Handlers : media'[h].stt = "notify" /\ media'[h].call = v.call
  BY DEF WaitersAreServed, At
<1>1. PICK w \in waiters : /\ v.call = w.call /\ v.after = w.after /\ v.missed = w.missed /\ (w.closed => v.closed)
                           /\ v.call = id /\ Len(calls[id].said) > v.after => v.closed
  BY NotifyDoes DEF VoiceInv
<1>2. v.call # id
  BY <1>1
<1>3. \/ \E c \in VoiceCallers : At(c, "notify") /\ vc[c].call = w.call
      \/ \E h \in Handlers : media[h].stt = "notify" /\ media[h].call = w.call
  BY <1>1 DEF VoiceInv, WaitersAreServed
<1> QED
  BY <1>1, <1>2, <1>3

\* The steps, by whose they are.
CallersMove ==
    \E c \in VoiceCallers :
       \/ InitiateEnds(c) \/ SpeakAppend(c) \/ SpeakNotify(c) \/ WaitCheck(c) \/ WaitRegister(c)
       \/ WaitReturns(c) \/ EndTransition(c)
       \/ \E accepted, answered \in BOOLEAN : Dial(c, accepted, answered)
       \/ \E ids \in SUBSET Calls : EndGet(c, ids)
       \/ \E id \in Calls : InitiateCreate(c, id)
       \/ \E id \in Calls, op \in {"continue", "speak"} : SpeakGet(c, id, op)
       \/ \E id \in Calls, known, ok \in BOOLEAN : EndHangup(c, id, known, ok)

StreamsMove ==
    \E h \in Handlers : \/ StreamListen(h) \/ StreamEnds(h) \/ Heard(h) \/ HeardNotify(h)
                        \/ \E id \in Calls : StreamOpen(h, id)
                        \/ \E stt \in {"on", "off"} : StreamActive(h, stt)

OthersMove ==
    \/ \E id \in Calls : \E s \in LineNext(line[id]) : LineMoves(id, s)
    \/ \E id \in Calls, report \in LineStates : Webhook(id, report)
    \/ ServerStop
    \/ VoiceCrash

\* Every step is one of a caller, a media stream, or of what is around them.
LEMMA VoiceSteps ==
    ASSUME VoiceInv, [VoiceNext]_voiceVars
    PROVE  CallersMove \/ StreamsMove \/ OthersMove \/ UNCHANGED voiceVars
<1>1. CASE \E e \in webhooks : Webhook(e[1], e[2])
  <2>1. PICK e \in webhooks : Webhook(e[1], e[2])
    BY <1>1
  <2>2. e[1] \in Calls /\ e[2] \in LineStates
    BY WebhooksArePairs DEF VoiceInv
  <2> QED
    BY <2>1, <2>2 DEF OthersMove
<1>2. CASE VoiceNext /\ ~(\E e \in webhooks : Webhook(e[1], e[2]))
  <2>1. \/ CallersMove \/ StreamsMove
        \/ \E id \in Calls : \E s \in LineNext(line[id]) : LineMoves(id, s)
        \/ ServerStop \/ VoiceCrash
    BY <1>2 DEF VoiceNext, CallersMove, StreamsMove
  <2> QED
    BY <2>1 DEF OthersMove
<1> QED
  BY <1>1, <1>2

\* The steps and VoiceTypeOK.
LEMMA VoiceTypeOKStep ==
    ASSUME VoiceInv, [VoiceNext]_voiceVars
    PROVE  VoiceTypeOK'
<1> USE DEF VoiceInv, VoiceTypeOK, CallerMoves, HandlerMoves, StoreKeeps, LineStates
<1>1. ASSUME NEW c \in VoiceCallers, NEW id \in Calls, InitiateCreate(c, id) PROVE VoiceTypeOK'
  <2>1. Prepared(c, id)
    BY <1>1, InitiateCreateDoes
  <2> QED
    BY <2>1 DEF Prepared
<1>2. ASSUME NEW c \in VoiceCallers, NEW accepted \in BOOLEAN, NEW answered \in BOOLEAN,
             Dial(c, accepted, answered)
      PROVE  VoiceTypeOK'
  BY <1>2, DialDoes
<1>3. ASSUME NEW c \in VoiceCallers, InitiateEnds(c) PROVE VoiceTypeOK'
  BY <1>3, InitiateEndsDoes
<1>4. ASSUME NEW c \in VoiceCallers, NEW id \in Calls, NEW op \in {"continue", "speak"}, SpeakGet(c, id, op)
      PROVE  VoiceTypeOK'
  BY <1>4, SpeakGetDoes
<1>5. ASSUME NEW c \in VoiceCallers, SpeakAppend(c) PROVE VoiceTypeOK'
  BY <1>5, SpeakAppendDoes
<1>6. ASSUME NEW c \in VoiceCallers, SpeakNotify(c) PROVE VoiceTypeOK'
  <2>1. waiters' \subseteq Waiters
    BY <1>6, SpeakNotifyDoes, NotifyDoes
  <2> QED
    BY <1>6, <2>1, SpeakNotifyDoes DEF VoiceTypeOK, CallerMoves, HandlerMoves
<1>7. ASSUME NEW c \in VoiceCallers, WaitCheck(c) PROVE VoiceTypeOK'
  BY <1>7, WaitCheckDoes
<1>8. ASSUME NEW c \in VoiceCallers, WaitRegister(c) PROVE VoiceTypeOK'
  <2>0. Enrolled(c)
    BY <1>8, WaitRegisterDoes
  <2>1. PICK w \in Waiters : waiters' = waiters \cup {w}
    BY <2>0 DEF Enrolled
  <2> QED
    BY <1>8, <2>1, WaitRegisterDoes DEF VoiceTypeOK, CallerMoves
<1>9. ASSUME NEW c \in VoiceCallers, WaitReturns(c) PROVE VoiceTypeOK'
  BY <1>9, WaitReturnsDoes
<1>10. ASSUME NEW c \in VoiceCallers, NEW ids \in SUBSET Calls, EndGet(c, ids) PROVE VoiceTypeOK'
  BY <1>10, EndGetDoes
<1>11. ASSUME NEW c \in VoiceCallers, NEW id \in Calls, NEW known \in BOOLEAN, NEW ok \in BOOLEAN,
              EndHangup(c, id, known, ok)
       PROVE  VoiceTypeOK'
  <2>1. HungUp(c, id, known)
    BY <1>11, EndHangupDoes
  <2> QED
    BY <2>1 DEF HungUp
<1>12. ASSUME NEW c \in VoiceCallers, EndTransition(c) PROVE VoiceTypeOK'
  BY <1>12, EndTransitionDoes
<1>13. ASSUME NEW id \in Calls, NEW report \in LineStates, Webhook(id, report) PROVE VoiceTypeOK'
  BY <1>13, WebhookDoes, ZenonT(30)
<1>14. ASSUME NEW h \in Handlers, NEW id \in Calls, StreamOpen(h, id) PROVE VoiceTypeOK'
  BY <1>14, StreamOpenDoes
<1>15. ASSUME NEW h \in Handlers, NEW stt \in {"on", "off"}, StreamActive(h, stt) PROVE VoiceTypeOK'
  BY <1>15, StreamActiveDoes
<1>16. ASSUME NEW h \in Handlers, StreamListen(h) PROVE VoiceTypeOK'
  BY <1>16, StreamListenDoes
<1>17. ASSUME NEW h \in Handlers, StreamEnds(h) PROVE VoiceTypeOK'
  BY <1>17, StreamEndsDoes
<1>18. ASSUME NEW h \in Handlers, Heard(h) PROVE VoiceTypeOK'
  BY <1>18, HeardDoes
<1>19. ASSUME NEW h \in Handlers, HeardNotify(h) PROVE VoiceTypeOK'
  <2>1. waiters' \subseteq Waiters
    BY <1>19, HeardNotifyDoes, NotifyDoes
  <2> QED
    BY <1>19, <2>1, HeardNotifyDoes DEF VoiceTypeOK, CallerMoves, HandlerMoves
<1>20. CASE ServerStop
  BY <1>20, ServerStopDoes
<1>21. ASSUME NEW id \in Calls, NEW s \in LineNext(line[id]), LineMoves(id, s) PROVE VoiceTypeOK'
  BY <1>21, LineMovesDoes
<1>22. CASE VoiceCrash
  BY <1>22, VoiceCrashDoes
<1>23. CASE UNCHANGED voiceVars
  BY <1>23 DEF voiceVars, ActiveCalls, Known
<1> HIDE DEF VoiceInv, VoiceTypeOK, CallerMoves, HandlerMoves, StoreKeeps, LineStates
<1> QED
  <2>1. CASE CallersMove
    BY <2>1, <1>1, <1>2, <1>3, <1>4, <1>5, <1>6, <1>7, <1>8, <1>9, <1>10, <1>11, <1>12 DEF CallersMove
  <2>2. CASE StreamsMove
    BY <2>2, <1>14, <1>15, <1>16, <1>17, <1>18, <1>19 DEF StreamsMove
  <2>3. CASE OthersMove
    <3>1. CASE \E id \in Calls, report \in LineStates : Webhook(id, report)
      BY <3>1, <1>13
    <3>2. CASE \E id \in Calls : \E s \in LineNext(line[id]) : LineMoves(id, s)
      BY <3>2, <1>21
    <3> QED
      BY <2>3, <3>1, <3>2, <1>20, <1>22 DEF OthersMove
  <2> QED
    BY <1>23, <2>1, <2>2, <2>3, VoiceSteps

\* The steps and CallersKnow.
LEMMA CallersKnowStep ==
    ASSUME VoiceInv, [VoiceNext]_voiceVars
    PROVE  CallersKnow'
<1> USE DEF VoiceInv, CallersKnow, VoiceTypeOK, CallerMoves, StoreKeeps, Known, At, Initiating, Speaking
<1>1. ASSUME NEW c \in VoiceCallers, NEW id \in Calls, InitiateCreate(c, id) PROVE CallersKnow'
  <2>1. Prepared(c, id)
    BY <1>1, InitiateCreateDoes
  <2> QED
    BY <2>1 DEF Prepared
<1>2. ASSUME NEW c \in VoiceCallers, NEW accepted \in BOOLEAN, NEW answered \in BOOLEAN,
             Dial(c, accepted, answered)
      PROVE  CallersKnow'
  BY <1>2, DialDoes
<1>3. ASSUME NEW c \in VoiceCallers, InitiateEnds(c) PROVE CallersKnow'
  BY <1>3, InitiateEndsDoes
<1>4. ASSUME NEW c \in VoiceCallers, NEW id \in Calls, NEW op \in {"continue", "speak"}, SpeakGet(c, id, op)
      PROVE  CallersKnow'
  BY <1>4, SpeakGetDoes
<1>5. ASSUME NEW c \in VoiceCallers, SpeakAppend(c) PROVE CallersKnow'
  BY <1>5, SpeakAppendDoes
<1>6. ASSUME NEW c \in VoiceCallers, SpeakNotify(c) PROVE CallersKnow'
  BY <1>6, SpeakNotifyDoes
<1>7. ASSUME NEW c \in VoiceCallers, WaitCheck(c) PROVE CallersKnow'
  BY <1>7, WaitCheckDoes
<1>8. ASSUME NEW c \in VoiceCallers, WaitRegister(c) PROVE CallersKnow'
  BY <1>8, WaitRegisterDoes
<1>9. ASSUME NEW c \in VoiceCallers, WaitReturns(c) PROVE CallersKnow'
  BY <1>9, WaitReturnsDoes
<1>10. ASSUME NEW c \in VoiceCallers, NEW ids \in SUBSET Calls, EndGet(c, ids) PROVE CallersKnow'
  BY <1>10, EndGetDoes
<1>11. ASSUME NEW c \in VoiceCallers, NEW id \in Calls, NEW known \in BOOLEAN, NEW ok \in BOOLEAN,
              EndHangup(c, id, known, ok)
       PROVE  CallersKnow'
  <2>1. HungUp(c, id, known)
    BY <1>11, EndHangupDoes
  <2> QED
    BY <2>1 DEF HungUp
<1>12. ASSUME NEW c \in VoiceCallers, EndTransition(c) PROVE CallersKnow'
  BY <1>12, EndTransitionDoes
<1>13. ASSUME NEW id \in Calls, NEW report \in LineStates, Webhook(id, report) PROVE CallersKnow'
  BY <1>13, WebhookDoes
<1>14. ASSUME NEW h \in Handlers, NEW id \in Calls, StreamOpen(h, id) PROVE CallersKnow'
  BY <1>14, StreamOpenDoes
<1>15. ASSUME NEW h \in Handlers, NEW stt \in {"on", "off"}, StreamActive(h, stt) PROVE CallersKnow'
  BY <1>15, StreamActiveDoes
<1>16. ASSUME NEW h \in Handlers, StreamListen(h) PROVE CallersKnow'
  BY <1>16, StreamListenDoes
<1>17. ASSUME NEW h \in Handlers, StreamEnds(h) PROVE CallersKnow'
  BY <1>17, StreamEndsDoes
<1>18. ASSUME NEW h \in Handlers, Heard(h) PROVE CallersKnow'
  BY <1>18, HeardDoes
<1>19. ASSUME NEW h \in Handlers, HeardNotify(h) PROVE CallersKnow'
  BY <1>19, HeardNotifyDoes
<1>20. CASE ServerStop
  BY <1>20, ServerStopDoes
<1>21. ASSUME NEW id \in Calls, NEW s \in LineNext(line[id]), LineMoves(id, s) PROVE CallersKnow'
  BY <1>21, LineMovesDoes
<1>22. CASE VoiceCrash
  BY <1>22, VoiceCrashDoes
<1>23. CASE UNCHANGED voiceVars
  BY <1>23 DEF voiceVars, ActiveCalls
<1> HIDE DEF VoiceInv, CallersKnow, VoiceTypeOK, CallerMoves, StoreKeeps, Known, At, Initiating, Speaking
<1> QED
  <2>1. CASE CallersMove
    BY <2>1, <1>1, <1>2, <1>3, <1>4, <1>5, <1>6, <1>7, <1>8, <1>9, <1>10, <1>11, <1>12 DEF CallersMove
  <2>2. CASE StreamsMove
    BY <2>2, <1>14, <1>15, <1>16, <1>17, <1>18, <1>19 DEF StreamsMove
  <2>3. CASE OthersMove
    BY <2>3, <1>13, <1>20, <1>21, <1>22 DEF OthersMove
  <2> QED
    BY <1>23, <2>1, <2>2, <2>3, VoiceSteps

\* The steps and EndsKnow.
LEMMA EndsKnowStep ==
    ASSUME VoiceInv, [VoiceNext]_voiceVars
    PROVE  EndsKnow'
<1> USE DEF VoiceInv, EndsKnow, VoiceTypeOK, CallerMoves, StoreKeeps, Known, At
<1>1. ASSUME NEW c \in VoiceCallers, NEW id \in Calls, InitiateCreate(c, id) PROVE EndsKnow'
  <2>1. Prepared(c, id)
    BY <1>1, InitiateCreateDoes
  <2> QED
    BY <2>1 DEF Prepared
<1>2. ASSUME NEW c \in VoiceCallers, NEW accepted \in BOOLEAN, NEW answered \in BOOLEAN,
             Dial(c, accepted, answered)
      PROVE  EndsKnow'
  BY <1>2, DialDoes
<1>3. ASSUME NEW c \in VoiceCallers, InitiateEnds(c) PROVE EndsKnow'
  BY <1>3, InitiateEndsDoes
<1>4. ASSUME NEW c \in VoiceCallers, NEW id \in Calls, NEW op \in {"continue", "speak"}, SpeakGet(c, id, op)
      PROVE  EndsKnow'
  BY <1>4, SpeakGetDoes
<1>5. ASSUME NEW c \in VoiceCallers, SpeakAppend(c) PROVE EndsKnow'
  BY <1>5, SpeakAppendDoes
<1>6. ASSUME NEW c \in VoiceCallers, SpeakNotify(c) PROVE EndsKnow'
  BY <1>6, SpeakNotifyDoes
<1>7. ASSUME NEW c \in VoiceCallers, WaitCheck(c) PROVE EndsKnow'
  BY <1>7, WaitCheckDoes
<1>8. ASSUME NEW c \in VoiceCallers, WaitRegister(c) PROVE EndsKnow'
  BY <1>8, WaitRegisterDoes
<1>9. ASSUME NEW c \in VoiceCallers, WaitReturns(c) PROVE EndsKnow'
  BY <1>9, WaitReturnsDoes
<1>10. ASSUME NEW c \in VoiceCallers, NEW ids \in SUBSET Calls, EndGet(c, ids) PROVE EndsKnow'
  BY <1>10, EndGetDoes
<1>11. ASSUME NEW c \in VoiceCallers, NEW id \in Calls, NEW known \in BOOLEAN, NEW ok \in BOOLEAN,
              EndHangup(c, id, known, ok)
       PROVE  EndsKnow'
  <2>1. HungUp(c, id, known)
    BY <1>11, EndHangupDoes
  <2> QED
    BY <2>1 DEF HungUp
<1>12. ASSUME NEW c \in VoiceCallers, EndTransition(c) PROVE EndsKnow'
  BY <1>12, EndTransitionDoes
<1>13. ASSUME NEW id \in Calls, NEW report \in LineStates, Webhook(id, report) PROVE EndsKnow'
  BY <1>13, WebhookDoes
<1>14. ASSUME NEW h \in Handlers, NEW id \in Calls, StreamOpen(h, id) PROVE EndsKnow'
  BY <1>14, StreamOpenDoes
<1>15. ASSUME NEW h \in Handlers, NEW stt \in {"on", "off"}, StreamActive(h, stt) PROVE EndsKnow'
  BY <1>15, StreamActiveDoes
<1>16. ASSUME NEW h \in Handlers, StreamListen(h) PROVE EndsKnow'
  BY <1>16, StreamListenDoes
<1>17. ASSUME NEW h \in Handlers, StreamEnds(h) PROVE EndsKnow'
  BY <1>17, StreamEndsDoes
<1>18. ASSUME NEW h \in Handlers, Heard(h) PROVE EndsKnow'
  BY <1>18, HeardDoes
<1>19. ASSUME NEW h \in Handlers, HeardNotify(h) PROVE EndsKnow'
  BY <1>19, HeardNotifyDoes
<1>20. CASE ServerStop
  BY <1>20, ServerStopDoes
<1>21. ASSUME NEW id \in Calls, NEW s \in LineNext(line[id]), LineMoves(id, s) PROVE EndsKnow'
  BY <1>21, LineMovesDoes
<1>22. CASE VoiceCrash
  BY <1>22, VoiceCrashDoes
<1>23. CASE UNCHANGED voiceVars
  BY <1>23 DEF voiceVars, ActiveCalls
<1> HIDE DEF VoiceInv, EndsKnow, VoiceTypeOK, CallerMoves, StoreKeeps, Known, At
<1> QED
  <2>1. CASE CallersMove
    BY <2>1, <1>1, <1>2, <1>3, <1>4, <1>5, <1>6, <1>7, <1>8, <1>9, <1>10, <1>11, <1>12 DEF CallersMove
  <2>2. CASE StreamsMove
    BY <2>2, <1>14, <1>15, <1>16, <1>17, <1>18, <1>19 DEF StreamsMove
  <2>3. CASE OthersMove
    BY <2>3, <1>13, <1>20, <1>21, <1>22 DEF OthersMove
  <2> QED
    BY <1>23, <2>1, <2>2, <2>3, VoiceSteps

\* The steps and MediaKnow.
LEMMA MediaKnowStep ==
    ASSUME VoiceInv, [VoiceNext]_voiceVars
    PROVE  MediaKnow'
<1> USE DEF VoiceInv, MediaKnow, VoiceTypeOK, HandlerMoves, StoreKeeps, Known, At, NoMedia
<1>1. ASSUME NEW c \in VoiceCallers, NEW id \in Calls, InitiateCreate(c, id) PROVE MediaKnow'
  <2>1. Prepared(c, id)
    BY <1>1, InitiateCreateDoes
  <2> QED
    BY <2>1 DEF Prepared
<1>2. ASSUME NEW c \in VoiceCallers, NEW accepted \in BOOLEAN, NEW answered \in BOOLEAN,
             Dial(c, accepted, answered)
      PROVE  MediaKnow'
  BY <1>2, DialDoes
<1>3. ASSUME NEW c \in VoiceCallers, InitiateEnds(c) PROVE MediaKnow'
  BY <1>3, InitiateEndsDoes
<1>4. ASSUME NEW c \in VoiceCallers, NEW id \in Calls, NEW op \in {"continue", "speak"}, SpeakGet(c, id, op)
      PROVE  MediaKnow'
  BY <1>4, SpeakGetDoes
<1>5. ASSUME NEW c \in VoiceCallers, SpeakAppend(c) PROVE MediaKnow'
  BY <1>5, SpeakAppendDoes
<1>6. ASSUME NEW c \in VoiceCallers, SpeakNotify(c) PROVE MediaKnow'
  BY <1>6, SpeakNotifyDoes
<1>7. ASSUME NEW c \in VoiceCallers, WaitCheck(c) PROVE MediaKnow'
  BY <1>7, WaitCheckDoes
<1>8. ASSUME NEW c \in VoiceCallers, WaitRegister(c) PROVE MediaKnow'
  BY <1>8, WaitRegisterDoes
<1>9. ASSUME NEW c \in VoiceCallers, WaitReturns(c) PROVE MediaKnow'
  BY <1>9, WaitReturnsDoes
<1>10. ASSUME NEW c \in VoiceCallers, NEW ids \in SUBSET Calls, EndGet(c, ids) PROVE MediaKnow'
  BY <1>10, EndGetDoes
<1>11. ASSUME NEW c \in VoiceCallers, NEW id \in Calls, NEW known \in BOOLEAN, NEW ok \in BOOLEAN,
              EndHangup(c, id, known, ok)
       PROVE  MediaKnow'
  <2>1. HungUp(c, id, known)
    BY <1>11, EndHangupDoes
  <2> QED
    BY <2>1 DEF HungUp
<1>12. ASSUME NEW c \in VoiceCallers, EndTransition(c) PROVE MediaKnow'
  BY <1>12, EndTransitionDoes
<1>13. ASSUME NEW id \in Calls, NEW report \in LineStates, Webhook(id, report) PROVE MediaKnow'
  BY <1>13, WebhookDoes, ZenonT(30)
<1>14. ASSUME NEW h \in Handlers, NEW id \in Calls, StreamOpen(h, id) PROVE MediaKnow'
  BY <1>14, StreamOpenDoes
<1>15. ASSUME NEW h \in Handlers, NEW stt \in {"on", "off"}, StreamActive(h, stt) PROVE MediaKnow'
  BY <1>15, StreamActiveDoes
<1>16. ASSUME NEW h \in Handlers, StreamListen(h) PROVE MediaKnow'
  BY <1>16, StreamListenDoes
<1>17. ASSUME NEW h \in Handlers, StreamEnds(h) PROVE MediaKnow'
  BY <1>17, StreamEndsDoes
<1>18. ASSUME NEW h \in Handlers, Heard(h) PROVE MediaKnow'
  BY <1>18, HeardDoes
<1>19. ASSUME NEW h \in Handlers, HeardNotify(h) PROVE MediaKnow'
  BY <1>19, HeardNotifyDoes
<1>20. CASE ServerStop
  <2>1. \A h \in Handlers : \/ media'[h] = media[h]
                            \/ /\ media[h].pc # "free" /\ media'[h].pc = "closed"
                               /\ media'[h].call = media[h].call /\ media'[h].stt = media[h].stt
    BY <1>20, ServerStopDoes
  <2>2. \A id \in Calls : Known(id)' <=> Known(id)
    BY <1>20, ServerStopDoes DEF Known
  <2> QED
    BY <2>1, <2>2 DEF MediaKnow
<1>21. ASSUME NEW id \in Calls, NEW s \in LineNext(line[id]), LineMoves(id, s) PROVE MediaKnow'
  BY <1>21, LineMovesDoes
<1>22. CASE VoiceCrash
  <2>1. \A h \in Handlers : /\ media'[h].call = media[h].call /\ media'[h].stt = "off"
                            /\ media'[h].pc = "free" <=> media[h].pc = "free"
                            /\ media'[h].pc = "free" => media'[h] = NoMedia
    BY <1>22, VoiceCrashDoes
  <2>2. \A id \in Calls : Known(id)' <=> Known(id)
    BY <1>22, VoiceCrashDoes DEF Known
  <2> QED
    BY <2>1, <2>2 DEF MediaKnow
<1>23. CASE UNCHANGED voiceVars
  BY <1>23 DEF voiceVars, ActiveCalls
<1> HIDE DEF VoiceInv, MediaKnow, VoiceTypeOK, HandlerMoves, StoreKeeps, Known, At, NoMedia
<1> QED
  <2>1. CASE CallersMove
    BY <2>1, <1>1, <1>2, <1>3, <1>4, <1>5, <1>6, <1>7, <1>8, <1>9, <1>10, <1>11, <1>12 DEF CallersMove
  <2>2. CASE StreamsMove
    BY <2>2, <1>14, <1>15, <1>16, <1>17, <1>18, <1>19 DEF StreamsMove
  <2>3. CASE OthersMove
    BY <2>3, <1>13, <1>20, <1>21, <1>22 DEF OthersMove
  <2> QED
    BY <1>23, <2>1, <2>2, <2>3, VoiceSteps

\* The steps and StreamsKnow.
LEMMA StreamsKnowStep ==
    ASSUME VoiceInv, [VoiceNext]_voiceVars
    PROVE  StreamsKnow'
<1> USE DEF VoiceInv
<1>1. CASE UNCHANGED mediaVars
  BY <1>1 DEF StreamsKnow, mediaVars
<1>2. ASSUME NEW h \in Handlers, streams' = streams, HandlerMoves(h), media'[h].pc # "free"
      PROVE  StreamsKnow'
  BY <1>2 DEF StreamsKnow, HandlerMoves
<1>3. ASSUME NEW h \in Handlers, NEW id \in Calls, StreamOpen(h, id) PROVE StreamsKnow'
  <2>1. HandlerMoves(h) /\ media'[h].pc = "open" /\ streams' = [streams EXCEPT ![id] = h]
    BY <1>3, StreamOpenDoes DEF StreamOpen
  <2> QED
    BY <2>1 DEF StreamsKnow, HandlerMoves
<1>4. ASSUME NEW h \in Handlers, StreamEnds(h) PROVE StreamsKnow'
  <2>1. HandlerMoves(h) /\ media'[h].pc = "closed" /\ streams' = [streams EXCEPT ![media[h].call] = NoCall]
    BY <1>4, StreamEndsDoes DEF StreamEnds
  <2> QED
    BY <2>1 DEF StreamsKnow, HandlerMoves
<1>5. CASE ServerStop \/ VoiceCrash
  BY <1>5 DEF StreamsKnow, ServerStop, VoiceCrash
<1>6. ASSUME NEW h \in Handlers, NEW stt \in {"on", "off"}, StreamActive(h, stt) PROVE StreamsKnow'
  BY <1>2, <1>6, StreamActiveDoes DEF StreamActive
<1>7. ASSUME NEW h \in Handlers, StreamListen(h) PROVE StreamsKnow'
  BY <1>2, <1>7, StreamListenDoes DEF StreamListen
<1>8. ASSUME NEW h \in Handlers, Heard(h) PROVE StreamsKnow'
  BY <1>2, <1>8, HeardDoes DEF Heard
<1>9. ASSUME NEW h \in Handlers, HeardNotify(h) PROVE StreamsKnow'
  BY <1>2, <1>9, HeardNotifyDoes DEF HeardNotify
<1>10. ASSUME NEW c \in VoiceCallers,
              \/ InitiateEnds(c) \/ SpeakAppend(c) \/ SpeakNotify(c) \/ WaitCheck(c) \/ WaitRegister(c)
              \/ WaitReturns(c) \/ EndTransition(c)
              \/ \E accepted, answered \in BOOLEAN : Dial(c, accepted, answered)
              \/ \E ids \in SUBSET Calls : EndGet(c, ids)
              \/ \E id \in Calls : \/ InitiateCreate(c, id)
                                   \/ \E op \in {"continue", "speak"} : SpeakGet(c, id, op)
                                   \/ \E known, ok \in BOOLEAN : EndHangup(c, id, known, ok)
       PROVE  UNCHANGED mediaVars
  BY <1>10
  DEF InitiateEnds, SpeakAppend, SpeakNotify, WaitCheck, WaitRegister, WaitReturns, EndTransition, Dial,
      EndGet,
               InitiateCreate, SpeakGet, EndHangup
<1>11. ASSUME NEW id \in Calls, NEW s \in LineNext(line[id]), LineMoves(id, s) PROVE UNCHANGED mediaVars
  BY <1>11 DEF LineMoves
<1>12. ASSUME NEW e \in webhooks, Webhook(e[1], e[2]) PROVE UNCHANGED mediaVars
  BY <1>12 DEF Webhook
<1>13. CASE UNCHANGED voiceVars
  BY <1>1, <1>13 DEF voiceVars, mediaVars
<1> QED
  BY <1>1, <1>3, <1>4, <1>5, <1>6, <1>7, <1>8, <1>9, <1>10, <1>11, <1>12, <1>13 DEF VoiceNext

\* The steps and WaitersKnow.
LEMMA WaitersKnowStep ==
    ASSUME VoiceInv, [VoiceNext]_voiceVars
    PROVE  WaitersKnow'
<1> USE DEF VoiceInv, WaitersKnow, VoiceTypeOK, Waiters, StoreKeeps, Known, At
<1>1. ASSUME NEW c \in VoiceCallers, NEW id \in Calls, InitiateCreate(c, id) PROVE WaitersKnow'
  <2>1. Prepared(c, id)
    BY <1>1, InitiateCreateDoes
  <2> QED
    BY <2>1 DEF Prepared
<1>2. ASSUME NEW c \in VoiceCallers, NEW accepted \in BOOLEAN, NEW answered \in BOOLEAN,
             Dial(c, accepted, answered)
      PROVE  WaitersKnow'
  BY <1>2, DialDoes
<1>3. ASSUME NEW c \in VoiceCallers, InitiateEnds(c) PROVE WaitersKnow'
  BY <1>3, InitiateEndsDoes
<1>4. ASSUME NEW c \in VoiceCallers, NEW id \in Calls, NEW op \in {"continue", "speak"}, SpeakGet(c, id, op)
      PROVE  WaitersKnow'
  BY <1>4, SpeakGetDoes
<1>5. ASSUME NEW c \in VoiceCallers, SpeakAppend(c) PROVE WaitersKnow'
  BY <1>5, SpeakAppendDoes
<1>6. ASSUME NEW c \in VoiceCallers, SpeakNotify(c) PROVE WaitersKnow'
  <2>1. \A v \in waiters' : \E w \in waiters : v.call = w.call
    BY <1>6, SpeakNotifyDoes, NotifyDoes
  <2>2. calls' = calls
    BY <1>6, SpeakNotifyDoes
  <2> QED
    BY <2>1, <2>2 DEF WaitersKnow, Known
<1>7. ASSUME NEW c \in VoiceCallers, WaitCheck(c) PROVE WaitersKnow'
  BY <1>7, WaitCheckDoes
<1>8. ASSUME NEW c \in VoiceCallers, WaitRegister(c) PROVE WaitersKnow'
  <2>0. Enrolled(c)
    BY <1>8, WaitRegisterDoes
  <2>1. PICK w \in Waiters : waiters' = waiters \cup {w} /\ w.call = vc[c].call
    BY <2>0 DEF Enrolled
  <2>2. Known(vc[c].call) /\ calls' = calls
    BY <1>8, WaitRegisterDoes
  <2> QED
    BY <2>1, <2>2 DEF WaitersKnow, Known
<1>9. ASSUME NEW c \in VoiceCallers, WaitReturns(c) PROVE WaitersKnow'
  BY <1>9, WaitReturnsDoes
<1>10. ASSUME NEW c \in VoiceCallers, NEW ids \in SUBSET Calls, EndGet(c, ids) PROVE WaitersKnow'
  BY <1>10, EndGetDoes
<1>11. ASSUME NEW c \in VoiceCallers, NEW id \in Calls, NEW known \in BOOLEAN, NEW ok \in BOOLEAN,
              EndHangup(c, id, known, ok)
       PROVE  WaitersKnow'
  <2>1. HungUp(c, id, known)
    BY <1>11, EndHangupDoes
  <2> QED
    BY <2>1 DEF HungUp
<1>12. ASSUME NEW c \in VoiceCallers, EndTransition(c) PROVE WaitersKnow'
  BY <1>12, EndTransitionDoes
<1>13. ASSUME NEW id \in Calls, NEW report \in LineStates, Webhook(id, report) PROVE WaitersKnow'
  <2>1. StoreKeeps(id) /\ waiters' = waiters
    BY <1>13, WebhookDoes
  <2> QED
    BY <2>1 DEF WaitersKnow, VoiceTypeOK, Waiters, StoreKeeps
<1>14. ASSUME NEW h \in Handlers, NEW id \in Calls, StreamOpen(h, id) PROVE WaitersKnow'
  BY <1>14, StreamOpenDoes
<1>15. ASSUME NEW h \in Handlers, NEW stt \in {"on", "off"}, StreamActive(h, stt) PROVE WaitersKnow'
  BY <1>15, StreamActiveDoes
<1>16. ASSUME NEW h \in Handlers, StreamListen(h) PROVE WaitersKnow'
  BY <1>16, StreamListenDoes
<1>17. ASSUME NEW h \in Handlers, StreamEnds(h) PROVE WaitersKnow'
  BY <1>17, StreamEndsDoes
<1>18. ASSUME NEW h \in Handlers, Heard(h) PROVE WaitersKnow'
  BY <1>18, HeardDoes
<1>19. ASSUME NEW h \in Handlers, HeardNotify(h) PROVE WaitersKnow'
  <2>1. \A v \in waiters' : \E w \in waiters : v.call = w.call
    BY <1>19, HeardNotifyDoes, NotifyDoes
  <2>2. calls' = calls
    BY <1>19, HeardNotifyDoes
  <2> QED
    BY <2>1, <2>2 DEF WaitersKnow, Known
<1>20. CASE ServerStop
  BY <1>20, ServerStopDoes
<1>21. ASSUME NEW id \in Calls, NEW s \in LineNext(line[id]), LineMoves(id, s) PROVE WaitersKnow'
  BY <1>21, LineMovesDoes
<1>22. CASE VoiceCrash
  BY <1>22, VoiceCrashDoes
<1>23. CASE UNCHANGED voiceVars
  BY <1>23 DEF voiceVars, ActiveCalls
<1> HIDE DEF VoiceInv, WaitersKnow, VoiceTypeOK, Waiters, StoreKeeps, Known, At
<1> QED
  <2>1. CASE CallersMove
    BY <2>1, <1>1, <1>2, <1>3, <1>4, <1>5, <1>6, <1>7, <1>8, <1>9, <1>10, <1>11, <1>12 DEF CallersMove
  <2>2. CASE StreamsMove
    BY <2>2, <1>14, <1>15, <1>16, <1>17, <1>18, <1>19 DEF StreamsMove
  <2>3. CASE OthersMove
    BY <2>3, <1>13, <1>20, <1>21, <1>22 DEF OthersMove
  <2> QED
    BY <1>23, <2>1, <2>2, <2>3, VoiceSteps

\* The steps and DialledOnce.
LEMMA DialledOnceStep ==
    ASSUME VoiceInv, [VoiceNext]_voiceVars
    PROVE  DialledOnce'
<1> USE DEF VoiceInv, DialledOnce, CallersKnow, VoiceTypeOK, CallerMoves, Known, At, Initiating
<1>1. ASSUME NEW c \in VoiceCallers, NEW id \in Calls, InitiateCreate(c, id) PROVE DialledOnce'
  <2>1. Prepared(c, id)
    BY <1>1, InitiateCreateDoes
  <2> QED
    BY <2>1 DEF Prepared
<1>2. ASSUME NEW c \in VoiceCallers, NEW accepted \in BOOLEAN, NEW answered \in BOOLEAN,
             Dial(c, accepted, answered)
      PROVE  DialledOnce'
  BY <1>2, DialDoes
<1>3. ASSUME NEW c \in VoiceCallers, InitiateEnds(c) PROVE DialledOnce'
  BY <1>3, InitiateEndsDoes
<1>4. ASSUME NEW c \in VoiceCallers, NEW id \in Calls, NEW op \in {"continue", "speak"}, SpeakGet(c, id, op)
      PROVE  DialledOnce'
  BY <1>4, SpeakGetDoes
<1>5. ASSUME NEW c \in VoiceCallers, SpeakAppend(c) PROVE DialledOnce'
  BY <1>5, SpeakAppendDoes
<1>6. ASSUME NEW c \in VoiceCallers, SpeakNotify(c) PROVE DialledOnce'
  BY <1>6, SpeakNotifyDoes
<1>7. ASSUME NEW c \in VoiceCallers, WaitCheck(c) PROVE DialledOnce'
  BY <1>7, WaitCheckDoes
<1>8. ASSUME NEW c \in VoiceCallers, WaitRegister(c) PROVE DialledOnce'
  BY <1>8, WaitRegisterDoes
<1>9. ASSUME NEW c \in VoiceCallers, WaitReturns(c) PROVE DialledOnce'
  BY <1>9, WaitReturnsDoes
<1>10. ASSUME NEW c \in VoiceCallers, NEW ids \in SUBSET Calls, EndGet(c, ids) PROVE DialledOnce'
  BY <1>10, EndGetDoes
<1>11. ASSUME NEW c \in VoiceCallers, NEW id \in Calls, NEW known \in BOOLEAN, NEW ok \in BOOLEAN,
              EndHangup(c, id, known, ok)
       PROVE  DialledOnce'
  <2>1. HungUp(c, id, known)
    BY <1>11, EndHangupDoes
  <2> QED
    BY <2>1 DEF HungUp
<1>12. ASSUME NEW c \in VoiceCallers, EndTransition(c) PROVE DialledOnce'
  BY <1>12, EndTransitionDoes
<1>13. ASSUME NEW id \in Calls, NEW report \in LineStates, Webhook(id, report) PROVE DialledOnce'
  BY <1>13, WebhookDoes
<1>14. ASSUME NEW h \in Handlers, NEW id \in Calls, StreamOpen(h, id) PROVE DialledOnce'
  BY <1>14, StreamOpenDoes
<1>15. ASSUME NEW h \in Handlers, NEW stt \in {"on", "off"}, StreamActive(h, stt) PROVE DialledOnce'
  BY <1>15, StreamActiveDoes
<1>16. ASSUME NEW h \in Handlers, StreamListen(h) PROVE DialledOnce'
  BY <1>16, StreamListenDoes
<1>17. ASSUME NEW h \in Handlers, StreamEnds(h) PROVE DialledOnce'
  BY <1>17, StreamEndsDoes
<1>18. ASSUME NEW h \in Handlers, Heard(h) PROVE DialledOnce'
  BY <1>18, HeardDoes
<1>19. ASSUME NEW h \in Handlers, HeardNotify(h) PROVE DialledOnce'
  BY <1>19, HeardNotifyDoes
<1>20. CASE ServerStop
  BY <1>20, ServerStopDoes
<1>21. ASSUME NEW id \in Calls, NEW s \in LineNext(line[id]), LineMoves(id, s) PROVE DialledOnce'
  BY <1>21, LineMovesDoes
<1>22. CASE VoiceCrash
  BY <1>22, VoiceCrashDoes
<1>23. CASE UNCHANGED voiceVars
  BY <1>23 DEF voiceVars, ActiveCalls
<1> HIDE DEF VoiceInv, DialledOnce, CallersKnow, VoiceTypeOK, CallerMoves, Known, At, Initiating
<1> QED
  <2>1. CASE CallersMove
    BY <2>1, <1>1, <1>2, <1>3, <1>4, <1>5, <1>6, <1>7, <1>8, <1>9, <1>10, <1>11, <1>12 DEF CallersMove
  <2>2. CASE StreamsMove
    BY <2>2, <1>14, <1>15, <1>16, <1>17, <1>18, <1>19 DEF StreamsMove
  <2>3. CASE OthersMove
    BY <2>3, <1>13, <1>20, <1>21, <1>22 DEF OthersMove
  <2> QED
    BY <1>23, <2>1, <2>2, <2>3, VoiceSteps

\* The steps and CallersLines.
LEMMA CallersLinesStep ==
    ASSUME VoiceInv, [VoiceNext]_voiceVars
    PROVE  CallersLines'
<1> USE DEF VoiceInv, CallersLines, CallersKnow, DialledOnce, VoiceTypeOK, CallerMoves, StoreKeeps, Known, At,
            Over, Live, Initiating
<1>1. ASSUME NEW c \in VoiceCallers, NEW id \in Calls, InitiateCreate(c, id) PROVE CallersLines'
  <2>1. Prepared(c, id)
    BY <1>1, InitiateCreateDoes
  <2> SUFFICES ASSUME NEW d \in VoiceCallers
               PROVE  /\ At(d, "dial")' => /\ line[vc'[d].call] = "none" /\ ~calls'[vc'[d].call].pid
                                           /\ vc'[d].call \in ActiveCalls' \cup loose
                      /\ At(d, "dialed")' => line[vc'[d].call] # "none"
                      /\ At(d, "refused")' => line[vc'[d].call] = "none" \/ vc'[d].call \in loose
                      /\ At(d, "hungup")' => Over(vc'[d].call) \/ vc'[d].call \in loose
    BY <2>1 DEF Prepared, CallersLines, Over
  <2>2. CASE d = c
    BY <2>1, <2>2 DEF Prepared, At, RecordsLines
  <2>3. CASE d # c
    <3>1. vc'[d] = vc[d] /\ (At(d, "dial") => vc[d].call # id)
      BY <2>1, <2>3 DEF Prepared, CallerMoves, CallersKnow, Initiating, At
    <3> QED
      BY <2>1, <3>1 DEF Prepared, CallersLines, CallersKnow, Initiating, At
  <2> QED
    BY <2>2, <2>3
<1>2. ASSUME NEW c \in VoiceCallers, NEW accepted \in BOOLEAN, NEW answered \in BOOLEAN,
             Dial(c, accepted, answered)
      PROVE  CallersLines'
  BY <1>2, DialDoes DEF ActiveCalls
<1>3. ASSUME NEW c \in VoiceCallers, InitiateEnds(c) PROVE CallersLines'
  BY <1>3, InitiateEndsDoes
<1>4. ASSUME NEW c \in VoiceCallers, NEW id \in Calls, NEW op \in {"continue", "speak"}, SpeakGet(c, id, op)
      PROVE  CallersLines'
  BY <1>4, SpeakGetDoes DEF ActiveCalls
<1>5. ASSUME NEW c \in VoiceCallers, SpeakAppend(c) PROVE CallersLines'
  BY <1>5, SpeakAppendDoes
<1>6. ASSUME NEW c \in VoiceCallers, SpeakNotify(c) PROVE CallersLines'
  BY <1>6, SpeakNotifyDoes DEF ActiveCalls
<1>7. ASSUME NEW c \in VoiceCallers, WaitCheck(c) PROVE CallersLines'
  BY <1>7, WaitCheckDoes DEF ActiveCalls
<1>8. ASSUME NEW c \in VoiceCallers, WaitRegister(c) PROVE CallersLines'
  BY <1>8, WaitRegisterDoes DEF ActiveCalls
<1>9. ASSUME NEW c \in VoiceCallers, WaitReturns(c) PROVE CallersLines'
  BY <1>9, WaitReturnsDoes DEF ActiveCalls
<1>10. ASSUME NEW c \in VoiceCallers, NEW ids \in SUBSET Calls, EndGet(c, ids) PROVE CallersLines'
  BY <1>10, EndGetDoes DEF ActiveCalls
<1>11. ASSUME NEW c \in VoiceCallers, NEW id \in Calls, NEW known \in BOOLEAN, NEW ok \in BOOLEAN,
              EndHangup(c, id, known, ok)
       PROVE  CallersLines'
  <2>1. HungUp(c, id, known)
    BY <1>11, EndHangupDoes
  <2>2. \A k \in Calls : Over(k) => Over(k)'
    BY <2>1 DEF HungUp, Over, Live, VoiceTypeOK
  <2>3. \A k \in Calls : /\ line'[k] = "none" <=> line[k] = "none"
                         /\ k \in loose => k \in loose'
    BY <2>1 DEF HungUp, Live, VoiceTypeOK
  <2>4. ActiveCalls' = ActiveCalls /\ calls' = calls
    BY <2>1 DEF HungUp, ActiveCalls, Known
  <2>5. Over(id)' \/ id \in loose'
    <3>1. known => line[id] # "none"
      BY <2>1 DEF HungUp, EndsLines
    <3> QED
      BY <2>1, <3>1 DEF HungUp, Over, Live, VoiceTypeOK, LineStates
  <2>6. ASSUME NEW d \in VoiceCallers, d # c PROVE vc'[d] = vc[d]
    BY <2>1, <2>6 DEF HungUp, CallerMoves
  <2> SUFFICES ASSUME NEW d \in VoiceCallers
               PROVE  /\ At(d, "dial")' => /\ line'[vc'[d].call] = "none" /\ ~calls'[vc'[d].call].pid
                                           /\ vc'[d].call \in ActiveCalls' \cup loose'
                      /\ At(d, "dialed")' => line'[vc'[d].call] # "none"
                      /\ At(d, "refused")' => line'[vc'[d].call] = "none" \/ vc'[d].call \in loose'
                      /\ At(d, "hungup")' => line'[vc'[d].call] \in {"completed", "busy", "failed"} \/ vc'[d].call \in loose'
    BY DEF CallersLines, Over
  <2>7. CASE d = c
    BY <2>1, <2>5, <2>7 DEF HungUp, At, Over
  <2>8. CASE d # c
    BY <2>2, <2>3, <2>4, <2>6, <2>8 DEF CallersLines, CallersKnow, Initiating, At, Over
  <2> QED
    BY <2>7, <2>8
<1>12. ASSUME NEW c \in VoiceCallers, EndTransition(c) PROVE CallersLines'
  BY <1>12, EndTransitionDoes
<1>13. ASSUME NEW id \in Calls, NEW report \in LineStates, Webhook(id, report) PROVE CallersLines'
  BY <1>13, WebhookDoes, ZenonT(60)
<1>14. ASSUME NEW h \in Handlers, NEW id \in Calls, StreamOpen(h, id) PROVE CallersLines'
  BY <1>14, StreamOpenDoes DEF ActiveCalls
<1>15. ASSUME NEW h \in Handlers, NEW stt \in {"on", "off"}, StreamActive(h, stt) PROVE CallersLines'
  BY <1>15, StreamActiveDoes
<1>16. ASSUME NEW h \in Handlers, StreamListen(h) PROVE CallersLines'
  BY <1>16, StreamListenDoes
<1>17. ASSUME NEW h \in Handlers, StreamEnds(h) PROVE CallersLines'
  BY <1>17, StreamEndsDoes DEF ActiveCalls
<1>18. ASSUME NEW h \in Handlers, Heard(h) PROVE CallersLines'
  BY <1>18, HeardDoes
<1>19. ASSUME NEW h \in Handlers, HeardNotify(h) PROVE CallersLines'
  BY <1>19, HeardNotifyDoes DEF ActiveCalls
<1>20. CASE ServerStop
  BY <1>20, ServerStopDoes DEF ActiveCalls
<1>21. ASSUME NEW id \in Calls, NEW s \in LineNext(line[id]), LineMoves(id, s) PROVE CallersLines'
  BY <1>21, LineMovesDoes DEF ActiveCalls
<1>22. CASE VoiceCrash
  BY <1>22, VoiceCrashDoes DEF ActiveCalls
<1>23. CASE UNCHANGED voiceVars
  BY <1>23 DEF voiceVars, ActiveCalls
<1> HIDE DEF VoiceInv, CallersLines, CallersKnow, DialledOnce, VoiceTypeOK, CallerMoves, StoreKeeps, Known, At,
            Over, Live, Initiating
<1> QED
  <2>1. CASE CallersMove
    BY <2>1, <1>1, <1>2, <1>3, <1>4, <1>5, <1>6, <1>7, <1>8, <1>9, <1>10, <1>11, <1>12 DEF CallersMove
  <2>2. CASE StreamsMove
    BY <2>2, <1>14, <1>15, <1>16, <1>17, <1>18, <1>19 DEF StreamsMove
  <2>3. CASE OthersMove
    BY <2>3, <1>13, <1>20, <1>21, <1>22 DEF OthersMove
  <2> QED
    BY <1>23, <2>1, <2>2, <2>3, VoiceSteps

\* The steps and EndsLines.
LEMMA EndsLinesStep ==
    ASSUME VoiceInv, [VoiceNext]_voiceVars
    PROVE  EndsLines'
<1> USE DEF VoiceInv, EndsLines, EndsKnow, RecordsLines, VoiceTypeOK, CallerMoves, At, Known
<1>1. ASSUME NEW c \in VoiceCallers, NEW id \in Calls, InitiateCreate(c, id) PROVE EndsLines'
  <2>1. Prepared(c, id)
    BY <1>1, InitiateCreateDoes
  <2> QED
    BY <2>1 DEF Prepared
<1>2. ASSUME NEW c \in VoiceCallers, NEW accepted \in BOOLEAN, NEW answered \in BOOLEAN,
             Dial(c, accepted, answered)
      PROVE  EndsLines'
  BY <1>2, DialDoes
<1>3. ASSUME NEW c \in VoiceCallers, InitiateEnds(c) PROVE EndsLines'
  BY <1>3, InitiateEndsDoes
<1>4. ASSUME NEW c \in VoiceCallers, NEW id \in Calls, NEW op \in {"continue", "speak"}, SpeakGet(c, id, op)
      PROVE  EndsLines'
  BY <1>4, SpeakGetDoes
<1>5. ASSUME NEW c \in VoiceCallers, SpeakAppend(c) PROVE EndsLines'
  BY <1>5, SpeakAppendDoes
<1>6. ASSUME NEW c \in VoiceCallers, SpeakNotify(c) PROVE EndsLines'
  BY <1>6, SpeakNotifyDoes
<1>7. ASSUME NEW c \in VoiceCallers, WaitCheck(c) PROVE EndsLines'
  BY <1>7, WaitCheckDoes
<1>8. ASSUME NEW c \in VoiceCallers, WaitRegister(c) PROVE EndsLines'
  BY <1>8, WaitRegisterDoes
<1>9. ASSUME NEW c \in VoiceCallers, WaitReturns(c) PROVE EndsLines'
  BY <1>9, WaitReturnsDoes
<1>10. ASSUME NEW c \in VoiceCallers, NEW ids \in SUBSET Calls, EndGet(c, ids) PROVE EndsLines'
  BY <1>10, EndGetDoes
<1>11. ASSUME NEW c \in VoiceCallers, NEW id \in Calls, NEW known \in BOOLEAN, NEW ok \in BOOLEAN,
              EndHangup(c, id, known, ok)
       PROVE  EndsLines'
  <2>1. HungUp(c, id, known)
    BY <1>11, EndHangupDoes
  <2> QED
    BY <2>1 DEF HungUp
<1>12. ASSUME NEW c \in VoiceCallers, EndTransition(c) PROVE EndsLines'
  BY <1>12, EndTransitionDoes
<1>13. ASSUME NEW id \in Calls, NEW report \in LineStates, Webhook(id, report) PROVE EndsLines'
  BY <1>13, WebhookDoes
<1>14. ASSUME NEW h \in Handlers, NEW id \in Calls, StreamOpen(h, id) PROVE EndsLines'
  BY <1>14, StreamOpenDoes
<1>15. ASSUME NEW h \in Handlers, NEW stt \in {"on", "off"}, StreamActive(h, stt) PROVE EndsLines'
  BY <1>15, StreamActiveDoes
<1>16. ASSUME NEW h \in Handlers, StreamListen(h) PROVE EndsLines'
  BY <1>16, StreamListenDoes
<1>17. ASSUME NEW h \in Handlers, StreamEnds(h) PROVE EndsLines'
  BY <1>17, StreamEndsDoes
<1>18. ASSUME NEW h \in Handlers, Heard(h) PROVE EndsLines'
  BY <1>18, HeardDoes
<1>19. ASSUME NEW h \in Handlers, HeardNotify(h) PROVE EndsLines'
  BY <1>19, HeardNotifyDoes
<1>20. CASE ServerStop
  BY <1>20, ServerStopDoes
<1>21. ASSUME NEW id \in Calls, NEW s \in LineNext(line[id]), LineMoves(id, s) PROVE EndsLines'
  BY <1>21, LineMovesDoes
<1>22. CASE VoiceCrash
  BY <1>22, VoiceCrashDoes
<1>23. CASE UNCHANGED voiceVars
  BY <1>23 DEF voiceVars, ActiveCalls
<1> HIDE DEF VoiceInv, EndsLines, EndsKnow, RecordsLines, VoiceTypeOK, CallerMoves, At, Known
<1> QED
  <2>1. CASE CallersMove
    BY <2>1, <1>1, <1>2, <1>3, <1>4, <1>5, <1>6, <1>7, <1>8, <1>9, <1>10, <1>11, <1>12 DEF CallersMove
  <2>2. CASE StreamsMove
    BY <2>2, <1>14, <1>15, <1>16, <1>17, <1>18, <1>19 DEF StreamsMove
  <2>3. CASE OthersMove
    BY <2>3, <1>13, <1>20, <1>21, <1>22 DEF OthersMove
  <2> QED
    BY <1>23, <2>1, <2>2, <2>3, VoiceSteps

\* The steps and RecordsLines.
LEMMA RecordsLinesStep ==
    ASSUME VoiceInv, [VoiceNext]_voiceVars
    PROVE  RecordsLines'
<1> USE DEF VoiceInv, RecordsLines, CallersLines, VoiceTypeOK, StoreKeeps, Known, At, Live
<1>1. ASSUME NEW c \in VoiceCallers, NEW id \in Calls, InitiateCreate(c, id) PROVE RecordsLines'
  <2>1. Prepared(c, id)
    BY <1>1, InitiateCreateDoes
  <2> QED
    BY <2>1 DEF Prepared
<1>2. ASSUME NEW c \in VoiceCallers, NEW accepted \in BOOLEAN, NEW answered \in BOOLEAN,
             Dial(c, accepted, answered)
      PROVE  RecordsLines'
  BY <1>2, DialDoes
<1>3. ASSUME NEW c \in VoiceCallers, InitiateEnds(c) PROVE RecordsLines'
  BY <1>3, InitiateEndsDoes
<1>4. ASSUME NEW c \in VoiceCallers, NEW id \in Calls, NEW op \in {"continue", "speak"}, SpeakGet(c, id, op)
      PROVE  RecordsLines'
  BY <1>4, SpeakGetDoes
<1>5. ASSUME NEW c \in VoiceCallers, SpeakAppend(c) PROVE RecordsLines'
  BY <1>5, SpeakAppendDoes
<1>6. ASSUME NEW c \in VoiceCallers, SpeakNotify(c) PROVE RecordsLines'
  BY <1>6, SpeakNotifyDoes
<1>7. ASSUME NEW c \in VoiceCallers, WaitCheck(c) PROVE RecordsLines'
  BY <1>7, WaitCheckDoes
<1>8. ASSUME NEW c \in VoiceCallers, WaitRegister(c) PROVE RecordsLines'
  BY <1>8, WaitRegisterDoes
<1>9. ASSUME NEW c \in VoiceCallers, WaitReturns(c) PROVE RecordsLines'
  BY <1>9, WaitReturnsDoes
<1>10. ASSUME NEW c \in VoiceCallers, NEW ids \in SUBSET Calls, EndGet(c, ids) PROVE RecordsLines'
  BY <1>10, EndGetDoes
<1>11. ASSUME NEW c \in VoiceCallers, NEW id \in Calls, NEW known \in BOOLEAN, NEW ok \in BOOLEAN,
              EndHangup(c, id, known, ok)
       PROVE  RecordsLines'
  <2>1. HungUp(c, id, known)
    BY <1>11, EndHangupDoes
  <2> QED
    BY <2>1 DEF HungUp
<1>12. ASSUME NEW c \in VoiceCallers, EndTransition(c) PROVE RecordsLines'
  BY <1>12, EndTransitionDoes
<1>13. ASSUME NEW id \in Calls, NEW report \in LineStates, Webhook(id, report) PROVE RecordsLines'
  BY <1>13, WebhookDoes
<1>14. ASSUME NEW h \in Handlers, NEW id \in Calls, StreamOpen(h, id) PROVE RecordsLines'
  BY <1>14, StreamOpenDoes
<1>15. ASSUME NEW h \in Handlers, NEW stt \in {"on", "off"}, StreamActive(h, stt) PROVE RecordsLines'
  BY <1>15, StreamActiveDoes
<1>16. ASSUME NEW h \in Handlers, StreamListen(h) PROVE RecordsLines'
  BY <1>16, StreamListenDoes
<1>17. ASSUME NEW h \in Handlers, StreamEnds(h) PROVE RecordsLines'
  BY <1>17, StreamEndsDoes
<1>18. ASSUME NEW h \in Handlers, Heard(h) PROVE RecordsLines'
  BY <1>18, HeardDoes
<1>19. ASSUME NEW h \in Handlers, HeardNotify(h) PROVE RecordsLines'
  BY <1>19, HeardNotifyDoes
<1>20. CASE ServerStop
  BY <1>20, ServerStopDoes
<1>21. ASSUME NEW id \in Calls, NEW s \in LineNext(line[id]), LineMoves(id, s) PROVE RecordsLines'
  BY <1>21, LineMovesDoes
<1>22. CASE VoiceCrash
  BY <1>22, VoiceCrashDoes
<1>23. CASE UNCHANGED voiceVars
  BY <1>23 DEF voiceVars, ActiveCalls
<1> HIDE DEF VoiceInv, RecordsLines, CallersLines, VoiceTypeOK, StoreKeeps, Known, At, Live
<1> QED
  <2>1. CASE CallersMove
    BY <2>1, <1>1, <1>2, <1>3, <1>4, <1>5, <1>6, <1>7, <1>8, <1>9, <1>10, <1>11, <1>12 DEF CallersMove
  <2>2. CASE StreamsMove
    BY <2>2, <1>14, <1>15, <1>16, <1>17, <1>18, <1>19 DEF StreamsMove
  <2>3. CASE OthersMove
    BY <2>3, <1>13, <1>20, <1>21, <1>22 DEF OthersMove
  <2> QED
    BY <1>23, <2>1, <2>2, <2>3, VoiceSteps

\* The steps and CallbacksTrue.
LEMMA CallbacksTrueStep ==
    ASSUME VoiceInv, [VoiceNext]_voiceVars
    PROVE  CallbacksTrue'
<1> USE DEF VoiceInv, CallbacksTrue, CallersLines, VoiceTypeOK, Over, Live, At, LineStates
<1>1. ASSUME NEW c \in VoiceCallers, NEW id \in Calls, InitiateCreate(c, id) PROVE CallbacksTrue'
  <2>1. Prepared(c, id)
    BY <1>1, InitiateCreateDoes
  <2> QED
    BY <2>1 DEF Prepared
<1>2. ASSUME NEW c \in VoiceCallers, NEW accepted \in BOOLEAN, NEW answered \in BOOLEAN,
             Dial(c, accepted, answered)
      PROVE  CallbacksTrue'
  BY <1>2, DialDoes
<1>3. ASSUME NEW c \in VoiceCallers, InitiateEnds(c) PROVE CallbacksTrue'
  BY <1>3, InitiateEndsDoes
<1>4. ASSUME NEW c \in VoiceCallers, NEW id \in Calls, NEW op \in {"continue", "speak"}, SpeakGet(c, id, op)
      PROVE  CallbacksTrue'
  BY <1>4, SpeakGetDoes
<1>5. ASSUME NEW c \in VoiceCallers, SpeakAppend(c) PROVE CallbacksTrue'
  BY <1>5, SpeakAppendDoes
<1>6. ASSUME NEW c \in VoiceCallers, SpeakNotify(c) PROVE CallbacksTrue'
  BY <1>6, SpeakNotifyDoes
<1>7. ASSUME NEW c \in VoiceCallers, WaitCheck(c) PROVE CallbacksTrue'
  BY <1>7, WaitCheckDoes
<1>8. ASSUME NEW c \in VoiceCallers, WaitRegister(c) PROVE CallbacksTrue'
  BY <1>8, WaitRegisterDoes
<1>9. ASSUME NEW c \in VoiceCallers, WaitReturns(c) PROVE CallbacksTrue'
  BY <1>9, WaitReturnsDoes
<1>10. ASSUME NEW c \in VoiceCallers, NEW ids \in SUBSET Calls, EndGet(c, ids) PROVE CallbacksTrue'
  BY <1>10, EndGetDoes
<1>11. ASSUME NEW c \in VoiceCallers, NEW id \in Calls, NEW known \in BOOLEAN, NEW ok \in BOOLEAN,
              EndHangup(c, id, known, ok)
       PROVE  CallbacksTrue'
  <2>1. HungUp(c, id, known)
    BY <1>11, EndHangupDoes
  <2> QED
    BY <2>1 DEF HungUp
<1>12. ASSUME NEW c \in VoiceCallers, EndTransition(c) PROVE CallbacksTrue'
  BY <1>12, EndTransitionDoes
<1>13. ASSUME NEW id \in Calls, NEW report \in LineStates, Webhook(id, report) PROVE CallbacksTrue'
  BY <1>13, WebhookDoes
<1>14. ASSUME NEW h \in Handlers, NEW id \in Calls, StreamOpen(h, id) PROVE CallbacksTrue'
  BY <1>14, StreamOpenDoes
<1>15. ASSUME NEW h \in Handlers, NEW stt \in {"on", "off"}, StreamActive(h, stt) PROVE CallbacksTrue'
  BY <1>15, StreamActiveDoes
<1>16. ASSUME NEW h \in Handlers, StreamListen(h) PROVE CallbacksTrue'
  BY <1>16, StreamListenDoes
<1>17. ASSUME NEW h \in Handlers, StreamEnds(h) PROVE CallbacksTrue'
  BY <1>17, StreamEndsDoes
<1>18. ASSUME NEW h \in Handlers, Heard(h) PROVE CallbacksTrue'
  BY <1>18, HeardDoes
<1>19. ASSUME NEW h \in Handlers, HeardNotify(h) PROVE CallbacksTrue'
  BY <1>19, HeardNotifyDoes
<1>20. CASE ServerStop
  BY <1>20, ServerStopDoes
<1>21. ASSUME NEW id \in Calls, NEW s \in LineNext(line[id]), LineMoves(id, s) PROVE CallbacksTrue'
  BY <1>21, LineMovesDoes
<1>22. CASE VoiceCrash
  BY <1>22, VoiceCrashDoes
<1>23. CASE UNCHANGED voiceVars
  BY <1>23 DEF voiceVars, ActiveCalls, Known
<1> HIDE DEF VoiceInv, CallbacksTrue, CallersLines, VoiceTypeOK, Over, Live, At, LineStates
<1> QED
  <2>1. CASE CallersMove
    BY <2>1, <1>1, <1>2, <1>3, <1>4, <1>5, <1>6, <1>7, <1>8, <1>9, <1>10, <1>11, <1>12 DEF CallersMove
  <2>2. CASE StreamsMove
    BY <2>2, <1>14, <1>15, <1>16, <1>17, <1>18, <1>19 DEF StreamsMove
  <2>3. CASE OthersMove
    BY <2>3, <1>13, <1>20, <1>21, <1>22 DEF OthersMove
  <2> QED
    BY <1>23, <2>1, <2>2, <2>3, VoiceSteps

\* The steps and OpenIsActive.
LEMMA OpenIsActiveStep ==
    ASSUME VoiceInv, [VoiceNext]_voiceVars
    PROVE  OpenIsActive'
<1> USE DEF VoiceInv, OpenIsActive, CallersLines, CallersKnow, VoiceTypeOK, Live, Over, At, Initiating
<1>1. ASSUME NEW c \in VoiceCallers, NEW id \in Calls, InitiateCreate(c, id) PROVE OpenIsActive'
  <2>1. Prepared(c, id)
    BY <1>1, InitiateCreateDoes
  <2> QED
    BY <2>1 DEF Prepared
<1>2. ASSUME NEW c \in VoiceCallers, NEW accepted \in BOOLEAN, NEW answered \in BOOLEAN,
             Dial(c, accepted, answered)
      PROVE  OpenIsActive'
  BY <1>2, DialDoes DEF ActiveCalls, Known
<1>3. ASSUME NEW c \in VoiceCallers, InitiateEnds(c) PROVE OpenIsActive'
  BY <1>3, InitiateEndsDoes
<1>4. ASSUME NEW c \in VoiceCallers, NEW id \in Calls, NEW op \in {"continue", "speak"}, SpeakGet(c, id, op)
      PROVE  OpenIsActive'
  BY <1>4, SpeakGetDoes DEF ActiveCalls, Known
<1>5. ASSUME NEW c \in VoiceCallers, SpeakAppend(c) PROVE OpenIsActive'
  BY <1>5, SpeakAppendDoes
<1>6. ASSUME NEW c \in VoiceCallers, SpeakNotify(c) PROVE OpenIsActive'
  BY <1>6, SpeakNotifyDoes DEF ActiveCalls, Known
<1>7. ASSUME NEW c \in VoiceCallers, WaitCheck(c) PROVE OpenIsActive'
  BY <1>7, WaitCheckDoes DEF ActiveCalls, Known
<1>8. ASSUME NEW c \in VoiceCallers, WaitRegister(c) PROVE OpenIsActive'
  BY <1>8, WaitRegisterDoes DEF ActiveCalls, Known
<1>9. ASSUME NEW c \in VoiceCallers, WaitReturns(c) PROVE OpenIsActive'
  BY <1>9, WaitReturnsDoes DEF ActiveCalls, Known
<1>10. ASSUME NEW c \in VoiceCallers, NEW ids \in SUBSET Calls, EndGet(c, ids) PROVE OpenIsActive'
  BY <1>10, EndGetDoes DEF ActiveCalls, Known
<1>11. ASSUME NEW c \in VoiceCallers, NEW id \in Calls, NEW known \in BOOLEAN, NEW ok \in BOOLEAN,
              EndHangup(c, id, known, ok)
       PROVE  OpenIsActive'
  <2>1. HungUp(c, id, known)
    BY <1>11, EndHangupDoes
  <2> QED
    BY <2>1 DEF HungUp, ActiveCalls, Known
<1>12. ASSUME NEW c \in VoiceCallers, EndTransition(c) PROVE OpenIsActive'
  BY <1>12, EndTransitionDoes
<1>13. ASSUME NEW id \in Calls, NEW report \in LineStates, Webhook(id, report) PROVE OpenIsActive'
  BY <1>13, WebhookDoes
<1>14. ASSUME NEW h \in Handlers, NEW id \in Calls, StreamOpen(h, id) PROVE OpenIsActive'
  BY <1>14, StreamOpenDoes DEF ActiveCalls, Known
<1>15. ASSUME NEW h \in Handlers, NEW stt \in {"on", "off"}, StreamActive(h, stt) PROVE OpenIsActive'
  BY <1>15, StreamActiveDoes
<1>16. ASSUME NEW h \in Handlers, StreamListen(h) PROVE OpenIsActive'
  BY <1>16, StreamListenDoes
<1>17. ASSUME NEW h \in Handlers, StreamEnds(h) PROVE OpenIsActive'
  BY <1>17, StreamEndsDoes DEF ActiveCalls, Known
<1>18. ASSUME NEW h \in Handlers, Heard(h) PROVE OpenIsActive'
  BY <1>18, HeardDoes
<1>19. ASSUME NEW h \in Handlers, HeardNotify(h) PROVE OpenIsActive'
  BY <1>19, HeardNotifyDoes DEF ActiveCalls, Known
<1>20. CASE ServerStop
  BY <1>20, ServerStopDoes DEF ActiveCalls, Known
<1>21. ASSUME NEW id \in Calls, NEW s \in LineNext(line[id]), LineMoves(id, s) PROVE OpenIsActive'
  BY <1>21, LineMovesDoes DEF ActiveCalls, Known
<1>22. CASE VoiceCrash
  BY <1>22, VoiceCrashDoes DEF ActiveCalls, Known
<1>23. CASE UNCHANGED voiceVars
  BY <1>23 DEF voiceVars, ActiveCalls, Known
<1> HIDE DEF VoiceInv, OpenIsActive, CallersLines, CallersKnow, VoiceTypeOK, Live, Over, At, Initiating
<1> QED
  <2>1. CASE CallersMove
    BY <2>1, <1>1, <1>2, <1>3, <1>4, <1>5, <1>6, <1>7, <1>8, <1>9, <1>10, <1>11, <1>12 DEF CallersMove
  <2>2. CASE StreamsMove
    BY <2>2, <1>14, <1>15, <1>16, <1>17, <1>18, <1>19 DEF StreamsMove
  <2>3. CASE OthersMove
    BY <2>3, <1>13, <1>20, <1>21, <1>22 DEF OthersMove
  <2> QED
    BY <1>23, <2>1, <2>2, <2>3, VoiceSteps

\* The steps and ActiveIsBounded.
LEMMA ActiveIsBoundedStep ==
    ASSUME VoiceInv, [VoiceNext]_voiceVars
    PROVE  ActiveIsBounded'
<1> USE DEF VoiceInv
<1>1. ASSUME NEW c \in VoiceCallers, NEW id \in Calls, InitiateCreate(c, id) PROVE ActiveIsBounded'
  <2>1. ActiveCalls' = ActiveCalls \cup {id} /\ Cardinality(ActiveCalls) < maxConcurrent
    BY <1>1, InitiateCreateDoes DEF Prepared
  <2>2. IsFiniteSet(ActiveCalls)
    BY VoiceConstants, FS_Subset DEF ActiveCalls
  <2>3. Cardinality(ActiveCalls \cup {id}) <= Cardinality(ActiveCalls) + 1 /\ Cardinality(ActiveCalls) \in Nat
        /\ Cardinality(ActiveCalls \cup {id}) \in Nat
    <3>1. Cardinality(ActiveCalls) \in Nat
      BY <2>2, FS_CardinalityType
    <3>2. CASE id \in ActiveCalls
      <4>1. ActiveCalls \cup {id} = ActiveCalls
        BY <3>2
      <4>2. Cardinality(ActiveCalls \cup {id}) = Cardinality(ActiveCalls)
        BY <4>1, Zenon
      <4> QED
        BY <3>1, <4>2
    <3>3. CASE id \notin ActiveCalls
      <4>1. Cardinality(ActiveCalls \cup {id}) = Cardinality(ActiveCalls) + 1
        BY <2>2, <3>3, FS_AddElement
      <4> QED
        BY <3>1, <4>1
    <3> QED
      BY <3>2, <3>3
  <2> QED
    BY <2>1, <2>3, VoiceConstants DEF ActiveIsBounded
<1>2. ASSUME NEW c \in VoiceCallers, NEW accepted \in BOOLEAN, NEW answered \in BOOLEAN,
             Dial(c, accepted, answered)
      PROVE  ActiveIsBounded'
  BY <1>2, DialDoes, ActiveStays DEF ActiveCalls, Known
<1>3. ASSUME NEW c \in VoiceCallers, InitiateEnds(c) PROVE ActiveIsBounded'
  BY <1>3, InitiateEndsDoes, ActiveStays
<1>4. ASSUME NEW c \in VoiceCallers, NEW id \in Calls, NEW op \in {"continue", "speak"}, SpeakGet(c, id, op)
      PROVE  ActiveIsBounded'
  BY <1>4, SpeakGetDoes, ActiveStays DEF ActiveCalls, Known
<1>5. ASSUME NEW c \in VoiceCallers, SpeakAppend(c) PROVE ActiveIsBounded'
  BY <1>5, SpeakAppendDoes, ActiveStays
<1>6. ASSUME NEW c \in VoiceCallers, SpeakNotify(c) PROVE ActiveIsBounded'
  BY <1>6, SpeakNotifyDoes, ActiveStays DEF ActiveCalls, Known
<1>7. ASSUME NEW c \in VoiceCallers, WaitCheck(c) PROVE ActiveIsBounded'
  BY <1>7, WaitCheckDoes, ActiveStays DEF ActiveCalls, Known
<1>8. ASSUME NEW c \in VoiceCallers, WaitRegister(c) PROVE ActiveIsBounded'
  BY <1>8, WaitRegisterDoes, ActiveStays DEF ActiveCalls, Known
<1>9. ASSUME NEW c \in VoiceCallers, WaitReturns(c) PROVE ActiveIsBounded'
  BY <1>9, WaitReturnsDoes, ActiveStays DEF ActiveCalls, Known
<1>10. ASSUME NEW c \in VoiceCallers, NEW ids \in SUBSET Calls, EndGet(c, ids) PROVE ActiveIsBounded'
  BY <1>10, EndGetDoes, ActiveStays DEF ActiveCalls, Known
<1>11. ASSUME NEW c \in VoiceCallers, NEW id \in Calls, NEW known \in BOOLEAN, NEW ok \in BOOLEAN,
              EndHangup(c, id, known, ok)
       PROVE  ActiveIsBounded'
  BY <1>11, EndHangupDoes, ActiveStays DEF HungUp, ActiveCalls, Known
<1>12. ASSUME NEW c \in VoiceCallers, EndTransition(c) PROVE ActiveIsBounded'
  BY <1>12, EndTransitionDoes, ActiveStays
<1>13. ASSUME NEW id \in Calls, NEW report \in LineStates, Webhook(id, report) PROVE ActiveIsBounded'
  BY <1>13, WebhookDoes, ActiveStays
<1>14. ASSUME NEW h \in Handlers, NEW id \in Calls, StreamOpen(h, id) PROVE ActiveIsBounded'
  BY <1>14, StreamOpenDoes, ActiveStays DEF ActiveCalls, Known
<1>15. ASSUME NEW h \in Handlers, NEW stt \in {"on", "off"}, StreamActive(h, stt) PROVE ActiveIsBounded'
  BY <1>15, StreamActiveDoes, ActiveStays
<1>16. ASSUME NEW h \in Handlers, StreamListen(h) PROVE ActiveIsBounded'
  BY <1>16, StreamListenDoes, ActiveStays
<1>17. ASSUME NEW h \in Handlers, StreamEnds(h) PROVE ActiveIsBounded'
  BY <1>17, StreamEndsDoes, ActiveStays DEF ActiveCalls, Known
<1>18. ASSUME NEW h \in Handlers, Heard(h) PROVE ActiveIsBounded'
  BY <1>18, HeardDoes, ActiveStays
<1>19. ASSUME NEW h \in Handlers, HeardNotify(h) PROVE ActiveIsBounded'
  BY <1>19, HeardNotifyDoes, ActiveStays DEF ActiveCalls, Known
<1>20. CASE ServerStop
  BY <1>20, ServerStopDoes, ActiveStays DEF ActiveCalls, Known
<1>21. ASSUME NEW id \in Calls, NEW s \in LineNext(line[id]), LineMoves(id, s) PROVE ActiveIsBounded'
  BY <1>21, LineMovesDoes, ActiveStays DEF ActiveCalls, Known
<1>22. CASE VoiceCrash
  BY <1>22, VoiceCrashDoes, ActiveStays DEF ActiveCalls, Known
<1>23. CASE UNCHANGED voiceVars
  BY <1>23 DEF ActiveIsBounded, voiceVars, ActiveCalls, Known
<1> HIDE DEF VoiceInv
<1> QED
  <2>1. CASE CallersMove
    BY <2>1, <1>1, <1>2, <1>3, <1>4, <1>5, <1>6, <1>7, <1>8, <1>9, <1>10, <1>11, <1>12 DEF CallersMove
  <2>2. CASE StreamsMove
    BY <2>2, <1>14, <1>15, <1>16, <1>17, <1>18, <1>19 DEF StreamsMove
  <2>3. CASE OthersMove
    BY <2>3, <1>13, <1>20, <1>21, <1>22 DEF OthersMove
  <2> QED
    BY <1>23, <2>1, <2>2, <2>3, VoiceSteps

\* The steps and WaitersAreServed.
LEMMA WaitersAreServedStep ==
    ASSUME VoiceInv, [VoiceNext]_voiceVars
    PROVE  WaitersAreServed'
<1> USE DEF VoiceInv, VoiceTypeOK, CallersKnow, MediaKnow, WaitersKnow, CallerMoves, HandlerMoves, StoreKeeps, At
<1>1. ASSUME NEW c \in VoiceCallers, NEW id \in Calls, InitiateCreate(c, id) PROVE WaitersAreServed'
  <2>1. Prepared(c, id)
    BY <1>1, InitiateCreateDoes
  <2>2. \A d \in VoiceCallers : At(d, "notify") => vc'[d].pc = "notify" /\ vc'[d].call = vc[d].call
    BY <2>1 DEF Prepared, CallerMoves, At
  <2>3. \A k \in Calls : Known(k) => calls'[k].said = calls[k].said
    BY <2>1 DEF Prepared
  <2>4. waiters' = waiters /\ media' = media
    BY <2>1 DEF Prepared
  <2> QED
    BY <2>2, <2>3, <2>4, ServedStays
<1>2. ASSUME NEW c \in VoiceCallers, NEW accepted \in BOOLEAN, NEW answered \in BOOLEAN,
             Dial(c, accepted, answered)
      PROVE  WaitersAreServed'
  BY <1>2, DialDoes, ServedStays
<1>3. ASSUME NEW c \in VoiceCallers, InitiateEnds(c) PROVE WaitersAreServed'
  BY <1>3, InitiateEndsDoes, ServedStays
<1>4. ASSUME NEW c \in VoiceCallers, NEW id \in Calls, NEW op \in {"continue", "speak"}, SpeakGet(c, id, op)
      PROVE  WaitersAreServed'
  BY <1>4, SpeakGetDoes, ServedStays
<1>5. ASSUME NEW c \in VoiceCallers, SpeakAppend(c) PROVE WaitersAreServed'
  BY <1>5, SpeakAppendDoes, ServedStays
<1>6. ASSUME NEW c \in VoiceCallers, SpeakNotify(c) PROVE WaitersAreServed'
  <2>1. vc[c].call \in Calls /\ NotifyWaiters(vc[c].call, Len(calls[vc[c].call].said)) /\ calls' = calls
    BY <1>6, SpeakNotifyDoes
  <2>2. \A d \in VoiceCallers : At(d, "notify") /\ vc[d].call # vc[c].call => vc'[d].pc = "notify" /\ vc'[d].call = vc[d].call
    BY <1>6, SpeakNotifyDoes DEF CallerMoves, At
  <2>3. \A g \in Handlers : media[g].stt = "notify" /\ media[g].call # vc[c].call
                                => media'[g].stt = "notify" /\ media'[g].call = media[g].call
    BY <1>6, SpeakNotifyDoes DEF HandlerMoves
  <2> QED
    BY <2>1, <2>2, <2>3, ServedAfterNotify
<1>7. ASSUME NEW c \in VoiceCallers, WaitCheck(c) PROVE WaitersAreServed'
  BY <1>7, WaitCheckDoes, ServedStays
<1>8. ASSUME NEW c \in VoiceCallers, WaitRegister(c) PROVE WaitersAreServed'
  <2>0. Enrolled(c)
    BY <1>8, WaitRegisterDoes
  <2>1. PICK w \in Waiters : waiters' = waiters \cup {w} /\ w.call = vc[c].call /\ (Len(calls[w.call].said) > w.after => w.missed)
    BY <2>0 DEF Enrolled
  <2>2. calls' = calls /\ media' = media
    BY <1>8, WaitRegisterDoes
  <2>3. \A d \in VoiceCallers : At(d, "notify") => vc'[d].pc = "notify" /\ vc'[d].call = vc[d].call
    BY <1>8, WaitRegisterDoes DEF CallerMoves, At
  <2> QED
    BY <2>1, <2>2, <2>3 DEF WaitersAreServed, At
<1>9. ASSUME NEW c \in VoiceCallers, WaitReturns(c) PROVE WaitersAreServed'
  BY <1>9, WaitReturnsDoes, ServedStays
<1>10. ASSUME NEW c \in VoiceCallers, NEW ids \in SUBSET Calls, EndGet(c, ids) PROVE WaitersAreServed'
  BY <1>10, EndGetDoes, ServedStays
<1>11. ASSUME NEW c \in VoiceCallers, NEW id \in Calls, NEW known \in BOOLEAN, NEW ok \in BOOLEAN,
              EndHangup(c, id, known, ok)
       PROVE  WaitersAreServed'
  <2>1. HungUp(c, id, known)
    BY <1>11, EndHangupDoes
  <2> QED
    BY <2>1
    DEF HungUp, WaitersAreServed, CallersKnow, MediaKnow, WaitersKnow, VoiceTypeOK, CallerMoves, HandlerMoves,
        StoreKeeps, Known, At
<1>12. ASSUME NEW c \in VoiceCallers, EndTransition(c) PROVE WaitersAreServed'
  BY <1>12, EndTransitionDoes, ServedStays
<1>13. ASSUME NEW id \in Calls, NEW report \in LineStates, Webhook(id, report) PROVE WaitersAreServed'
  BY <1>13, WebhookDoes, ServedStays
<1>14. ASSUME NEW h \in Handlers, NEW id \in Calls, StreamOpen(h, id) PROVE WaitersAreServed'
  BY <1>14, StreamOpenDoes, ServedStays
<1>15. ASSUME NEW h \in Handlers, NEW stt \in {"on", "off"}, StreamActive(h, stt) PROVE WaitersAreServed'
  BY <1>15, StreamActiveDoes, ServedStays
<1>16. ASSUME NEW h \in Handlers, StreamListen(h) PROVE WaitersAreServed'
  BY <1>16, StreamListenDoes, ServedStays
<1>17. ASSUME NEW h \in Handlers, StreamEnds(h) PROVE WaitersAreServed'
  BY <1>17, StreamEndsDoes, ServedStays
<1>18. ASSUME NEW h \in Handlers, Heard(h) PROVE WaitersAreServed'
  BY <1>18, HeardDoes, ServedStays
<1>19. ASSUME NEW h \in Handlers, HeardNotify(h) PROVE WaitersAreServed'
  <2>1. media[h].call \in Calls /\ NotifyWaiters(media[h].call, Len(calls[media[h].call].said)) /\ calls' = calls
    BY <1>19, HeardNotifyDoes
  <2>2. \A d \in VoiceCallers : At(d, "notify") /\ vc[d].call # media[h].call => vc'[d].pc = "notify" /\ vc'[d].call = vc[d].call
    BY <1>19, HeardNotifyDoes DEF CallerMoves, At
  <2>3. \A g \in Handlers : media[g].stt = "notify" /\ media[g].call # media[h].call
                                => media'[g].stt = "notify" /\ media'[g].call = media[g].call
    BY <1>19, HeardNotifyDoes DEF HandlerMoves
  <2> QED
    BY <2>1, <2>2, <2>3, ServedAfterNotify
<1>20. CASE ServerStop
  BY <1>20, ServerStopDoes, ServedStays
<1>21. ASSUME NEW id \in Calls, NEW s \in LineNext(line[id]), LineMoves(id, s) PROVE WaitersAreServed'
  BY <1>21, LineMovesDoes, ServedStays
<1>22. CASE VoiceCrash
  BY <1>22, VoiceCrashDoes DEF WaitersAreServed
<1>23. CASE UNCHANGED voiceVars
  BY <1>23
  DEF WaitersAreServed, CallersKnow, MediaKnow, WaitersKnow, VoiceTypeOK, CallerMoves, HandlerMoves,
      StoreKeeps, Known, At, voiceVars, ActiveCalls
<1> HIDE DEF VoiceInv, VoiceTypeOK, CallersKnow, MediaKnow, WaitersKnow, CallerMoves, HandlerMoves, StoreKeeps, At
<1> QED
  <2>1. CASE CallersMove
    BY <2>1, <1>1, <1>2, <1>3, <1>4, <1>5, <1>6, <1>7, <1>8, <1>9, <1>10, <1>11, <1>12 DEF CallersMove
  <2>2. CASE StreamsMove
    BY <2>2, <1>14, <1>15, <1>16, <1>17, <1>18, <1>19 DEF StreamsMove
  <2>3. CASE OthersMove
    BY <2>3, <1>13, <1>20, <1>21, <1>22 DEF OthersMove
  <2> QED
    BY <1>23, <2>1, <2>2, <2>3, VoiceSteps

\* The initial states.
LEMMA VoiceStarts == VoiceInit => VoiceInv
<1> SUFFICES ASSUME VoiceInit PROVE VoiceInv
  OBVIOUS
<1> USE DEF VoiceInit
<1>1. VoiceTypeOK
  <2>1. NoMedia \in Medias
    BY DEF NoMedia, Medias
  <2> QED
    BY <2>1, IdleIsLocal DEF VoiceTypeOK, LineStates
<1>2. CallersKnow /\ EndsKnow /\ MediaKnow /\ StreamsKnow /\ WaitersKnow
  BY IdleIsLocal DEF CallersKnow, EndsKnow, MediaKnow, StreamsKnow, WaitersKnow, NoMedia, Initiating, Speaking
<1>3. DialledOnce /\ CallersLines /\ EndsLines /\ RecordsLines /\ CallbacksTrue
  BY IdleIsLocal DEF DialledOnce, CallersLines, EndsLines, RecordsLines, CallbacksTrue, At, Initiating, Known
<1>4. OpenIsActive /\ WaitersAreServed
  BY DEF OpenIsActive, WaitersAreServed, Live
<1>5. ActiveCalls = {}
  BY DEF ActiveCalls, Known
<1>6. ActiveIsBounded
  BY <1>5, FS_EmptySet, VoiceConstants DEF ActiveIsBounded
<1> QED
  BY <1>1, <1>2, <1>3, <1>4, <1>6 DEF VoiceInv

\* The inductive invariant of the telephone calls.
THEOREM VoiceInvariant == VoiceSpec => []VoiceInv
<1>1. VoiceInv /\ [VoiceNext]_voiceVars => VoiceInv'
  <2> SUFFICES ASSUME VoiceInv, [VoiceNext]_voiceVars PROVE VoiceInv'
    OBVIOUS
  <2>1. VoiceTypeOK' /\ CallersKnow' /\ EndsKnow' /\ MediaKnow' /\ StreamsKnow' /\ WaitersKnow'
    BY VoiceTypeOKStep, CallersKnowStep, EndsKnowStep, MediaKnowStep, StreamsKnowStep, WaitersKnowStep
  <2>2. DialledOnce' /\ CallersLines' /\ EndsLines' /\ RecordsLines' /\ CallbacksTrue'
    BY DialledOnceStep, CallersLinesStep, EndsLinesStep, RecordsLinesStep, CallbacksTrueStep
  <2>3. OpenIsActive' /\ ActiveIsBounded' /\ WaitersAreServed'
    BY OpenIsActiveStep, ActiveIsBoundedStep, WaitersAreServedStep
  <2> QED
    BY <2>1, <2>2, <2>3 DEF VoiceInv
<1> QED
  BY <1>1, VoiceStarts, PTL DEF VoiceSpec

\* CallsAreAccounted: an open line belongs to a record that counts as active, or was given up,
\* and a waiter whose entry is there has been told (voice_call_state.go).
THEOREM CallsAreAccountedHolds == VoiceSpec => []CallsAreAccounted
<1>1. VoiceInv => CallsAreAccounted
  <2> SUFFICES ASSUME VoiceInv PROVE CallsAreAccounted
    OBVIOUS
  <2>1. \A id \in Calls : Live(id) => id \in ActiveCalls \cup loose
    BY DEF VoiceInv, OpenIsActive
  <2>2. {id \in Calls : Live(id)} \ loose \subseteq ActiveCalls
    BY <2>1
  <2>3. IsFiniteSet(ActiveCalls) /\ Cardinality(ActiveCalls) <= maxConcurrent
    BY VoiceConstants, FS_Subset DEF ActiveCalls, VoiceInv, ActiveIsBounded
  <2> DEFINE open == {id \in Calls : Live(id)} \ loose
  <2>4. Cardinality(open) <= Cardinality(ActiveCalls) /\ Cardinality(open) \in Nat /\ Cardinality(ActiveCalls) \in Nat
    BY <2>2, <2>3, FS_Subset, FS_CardinalityType
  <2>5. Cardinality(open) <= maxConcurrent
    <3> HIDE DEF open
    <3> QED
      BY <2>3, <2>4, VoiceConstants
  <2>6. WaiterIsTold
    BY DEF VoiceInv, WaitersAreServed, WaiterIsTold
  <2> QED
    BY <2>1, <2>5, <2>6 DEF CallsAreAccounted, LinesAreAccounted
<1> QED
  BY <1>1, VoiceInvariant, PTL

-----------------------------------------------------------------------------
(* The calls of the tools *)

\* The places of a call, and the events of the calendar.
CallPlaces == {"idle", "cache", "backend", "store", "calendar", "create", "update", "delete", "broadcast"}
CalEvents  == [id : Nat, rev : Nat]

\* A call has its fields and no other, and the event it changes is in the list it has read.
CallSound(r) ==
    /\ r = [pc |-> r.pc, kind |-> r.kind, key |-> r.key, id |-> r.id, at |-> r.at, base |-> r.base, pending |-> r.pending]
    /\ r.pc \in CallPlaces /\ r.id \in Nat /\ r.base \in Seq(CalEvents)
    /\ r.pc \in {"update", "delete"} => r.at \in DOMAIN r.base

\* The types of the calls.
CallsTyped == DOMAIN toolCall = ToolCallers /\ \A c \in ToolCallers : CallSound(toolCall[c])

\* The types of what the tools share and of the calls.
ToolsTypeOK ==
    /\ clock \in Nat /\ limiter \in [Limiters -> Seq(Nat)] /\ admitted \in [Limiters -> Seq(Nat)]
    /\ events \in Seq(CalEvents) /\ nextID \in Nat /\ toolRaced \in BOOLEAN
    /\ CallsTyped

\* What a limiter ever let through, in order, ends with what it remembers; whatever it forgot
\* is past the window; and the call that is Limit calls later is a window later.
RateKept(past, left, now) ==
    /\ \A i, j \in DOMAIN past : i < j => past[i] <= past[j]
    /\ \A i \in DOMAIN past : past[i] <= now
    /\ Len(left) <= Len(past)
    /\ \A i \in DOMAIN left : left[i] = past[Len(past) - Len(left) + i]
    /\ \A i \in 1 .. Len(past) - Len(left) : past[i] <= now - RateWindow
    /\ \A i \in DOMAIN past : i + Limit \in DOMAIN past => past[i] + RateWindow <= past[i + Limit]

\* Every limiter keeps its rate.
RatesAreKept == \A l \in Limiters : RateKept(admitted[l], limiter[l], clock)

\* The calendar holds what was created and not deleted, as it was last updated, and every
\* event has a number of its own below the next one.
CalendarHolds(evs, next, there) ==
    /\ there = {evs[i] : i \in DOMAIN evs}
    /\ \A i, j \in DOMAIN evs : evs[i].id = evs[j].id => i = j
    /\ \A i \in DOMAIN evs : evs[i].id < next

\* Until two changes overlap, at most one call is changing the calendar, and it has read
\* what is there.
CalendarIsWhole ==
    ~toolRaced =>
       /\ \A c, d \in ToolCallers : Changing(c) /\ Changing(d) => c = d
       /\ \A c \in ToolCallers : Changing(c) => toolCall[c].base = events
       /\ \A c \in ToolCallers : ToolAt(c, "create") => toolCall[c].id = nextID
       /\ CalendarHolds(events, nextID, made)

\* The inductive invariant of the tools.
ToolsInv == ToolsTypeOK /\ RatesAreKept /\ CalendarIsWhole

-----------------------------------------------------------------------------
(* Rate limits *)

\* How many numbers an interval has.
LEMMA IntervalHas ==
    ASSUME NEW a \in Nat, NEW b \in Nat, a <= b + 1
    PROVE  IsFiniteSet(a .. b) /\ Cardinality(a .. b) = b - a + 1
<1>1. IsFiniteSet(a .. b) /\ Cardinality(a .. b) = IF a > b THEN 0 ELSE b - a + 1
  BY FS_Interval
<1> QED  BY <1>1

\* Places with every later one are the last ones.
LEMMA LastOnes ==
    ASSUME NEW n \in Nat, NEW U \in SUBSET (1 .. n),
           \A i \in U : \A j \in 1 .. n : i <= j => j \in U
    PROVE  /\ Cardinality(U) \in Nat /\ Cardinality(U) <= n
           /\ U = (n - Cardinality(U) + 1) .. n
<1>1. IsFiniteSet(1 .. n) /\ Cardinality(1 .. n) = n
  BY IntervalHas
<1>2. PICK c : c = Cardinality(U)
  OBVIOUS
<1>3. IsFiniteSet(U) /\ c \in Nat /\ c <= n
  BY <1>1, <1>2, FS_Subset, FS_CardinalityType
<1>4. PICK a : a = n - c + 1
  OBVIOUS
<1>5. a \in Nat /\ a <= n + 1 /\ n - a + 1 = c /\ a \in 1 .. (n + 1)
  BY <1>3, <1>4
<1>6. IsFiniteSet(a .. n) /\ Cardinality(a .. n) = c
  BY <1>5, IntervalHas
<1>7. ASSUME NEW i \in U PROVE i \in a .. n
  <2>1. i \in 1 .. n /\ i .. n \subseteq U
    OBVIOUS
  <2>2. Cardinality(i .. n) = n - i + 1
    BY <2>1, IntervalHas
  <2>3. Cardinality(i .. n) <= c
    BY <2>1, <1>2, <1>3, FS_Subset
  <2> QED  BY <2>1, <2>2, <2>3, <1>3, <1>4
<1>8. U \in SUBSET (a .. n)
  BY <1>7
<1>9. U = a .. n
  BY <1>2, <1>6, <1>8, FS_Subset
<1> QED  BY <1>2, <1>3, <1>4, <1>9

\* The k-th of some places, and of the last c.
PlaceIn(U, k) == CHOOSE i \in U : Cardinality({j \in U : j <= i}) = k

\* The k-th of the last c places.
LEMMA PlaceOfLast ==
    ASSUME NEW n \in Nat, NEW c \in Nat, c <= n, NEW U, U = (n - c + 1) .. n, NEW k \in 1 .. c
    PROVE  PlaceIn(U, k) = n - c + k
<1>1. PICK a : a = n - c + 1
  OBVIOUS
<1>2. a \in 1 .. (n + 1) /\ U = a .. n
  BY <1>1
<1>3. ASSUME NEW i \in U PROVE Cardinality({j \in U : j <= i}) = i - a + 1
  <2>1. {j \in U : j <= i} = a .. i
    BY <1>2
  <2>2. a \in Nat /\ i \in Nat /\ a <= i + 1
    BY <1>2
  <2> QED  BY <2>1, <2>2, IntervalHas
<1>4. n - c + k \in U
  BY <1>1, <1>2
<1>5. \A i \in U : Cardinality({j \in U : j <= i}) = k <=> i = n - c + k
  <2> SUFFICES ASSUME NEW i \in U PROVE Cardinality({j \in U : j <= i}) = k <=> i = n - c + k
    OBVIOUS
  <2>1. i \in Nat
    BY <1>2
  <2> QED  BY <2>1, <1>1, <1>3
<1> QED  BY <1>4, <1>5 DEF PlaceIn

\* A memory in the order of time, and the last c entries of one, the others being past since.
Ascends(left) == \A i, j \in DOMAIN left : i < j => left[i] <= left[j]

LastOf(rest, left, c, since) ==
    /\ c \in Nat /\ c <= Len(left) /\ rest \in Seq(Nat) /\ Len(rest) = c
    /\ \A k \in 1 .. c : rest[k] = left[Len(left) - c + k]
    /\ \A i \in 1 .. (Len(left) - c) : left[i] <= since

\* Trimming a limiter keeps the end of what it remembers.
LEMMA TrimmedIs ==
    ASSUME ToolConstants, ToolsTypeOK, NEW l \in Limiters, NEW left, left = limiter[l], NEW c,
           c = Cardinality(Unexpired(l)),
           NEW rest, rest = Trimmed(l), Ascends(left)
    PROVE  LastOf(rest, left, c, clock - RateWindow)
<1>0. \A i, j \in DOMAIN left : i < j => left[i] <= left[j]
  BY DEF Ascends
<1>1. left \in Seq(Nat) /\ clock \in Nat /\ RateWindow \in Nat
  BY DEF ToolsTypeOK, ToolConstants
<1>2. PICK n : n = Len(left)
  OBVIOUS
<1>3. n \in Nat /\ DOMAIN left = 1 .. n /\ \A i \in 1 .. n : left[i] \in Nat
  BY <1>1, <1>2
<1>4. PICK U : U = Unexpired(l)
  OBVIOUS
<1>5. U = {i \in 1 .. n : left[i] > clock - RateWindow}
  BY <1>3, <1>4 DEF Unexpired
<1>6. ASSUME NEW i \in U, NEW j \in 1 .. n, i <= j PROVE j \in U
  <2>3. i \in 1 .. n /\ (i = j \/ i < j)
    BY <1>5, <1>6
  <2>1. left[i] <= left[j] /\ left[i] \in Nat /\ left[j] \in Nat /\ left[i] > clock - RateWindow
    <3>1. left[i] \in Nat /\ left[j] \in Nat /\ left[i] > clock - RateWindow
      BY <2>3, <1>3, <1>5
    <3>2. CASE i = j
      BY <3>1, <3>2
    <3>3. CASE i < j
      BY <3>1, <3>3, <2>3, <1>0, <1>3
    <3> QED  BY <3>1, <3>2, <3>3, <2>3
  <2>2. left[j] > clock - RateWindow
    BY <2>1, <1>1
  <2> QED  BY <2>2, <1>5
<1>7. c \in Nat /\ c <= n /\ U = (n - c + 1) .. n
  <2>1. U \in SUBSET (1 .. n)
    BY <1>5
  <2>2. c = Cardinality(U)
    BY <1>4
  <2> QED  BY <2>1, <2>2, <1>3, <1>6, LastOnes
<1>8. \A k \in 1 .. c : PlaceIn(U, k) = n - c + k
  <2>1. c \in Nat /\ n \in Nat /\ c <= n /\ U = (n - c + 1) .. n
    BY <1>3, <1>7
  <2> QED  BY ONLY <2>1, PlaceOfLast
<1>9. Trimmed(l) = [k \in 1 .. c |-> left[n - c + k]]
  <2>1. Trimmed(l) = [k \in 1 .. c |-> left[PlaceIn(U, k)]]
    BY <1>4 DEF Trimmed, PlaceIn
  <2> QED  BY <2>1, <1>8
<1>10. \A k \in 1 .. c : n - c + k \in 1 .. n
  BY <1>3, <1>7
<1>11. PICK t : t = Trimmed(l)
  OBVIOUS
<1>12. t \in [1 .. c -> Nat] /\ \A k \in 1 .. c : t[k] = left[n - c + k]
  BY <1>3, <1>9, <1>10, <1>11
<1>13. t \in Seq(Nat) /\ Len(t) = c
  BY <1>7, <1>12, SeqDef
<1>14. ASSUME NEW i \in 1 .. (n - c) PROVE left[i] <= clock - RateWindow
  <2>1. i \in 1 .. n /\ i \notin U
    BY <1>3, <1>7
  <2>2. ~(left[i] > clock - RateWindow) /\ left[i] \in Nat
    BY <2>1, <1>3, <1>5
  <2> QED  BY <2>2, <1>1
<1> QED  BY <1>2, <1>7, <1>11, <1>12, <1>13, <1>14 DEF LastOf

\* RateKept by numbers of places.
KeptAt(past, left, now, n, m) ==
    /\ n \in Nat /\ m \in Nat /\ m <= n
    /\ DOMAIN past = 1 .. n /\ DOMAIN left = 1 .. m /\ (\A i \in 1 .. n : past[i] \in Nat)
    /\ \A i, j \in 1 .. n : i < j => past[i] <= past[j]
    /\ \A i \in 1 .. n : past[i] <= now
    /\ \A i \in 1 .. m : left[i] = past[n - m + i]
    /\ \A i \in 1 .. (n - m) : past[i] <= now - RateWindow
    /\ \A i \in 1 .. n : i + Limit \in 1 .. n => past[i] + RateWindow <= past[i + Limit]

\* It is the same.
LEMMA KeptSays ==
    ASSUME NEW past \in Seq(Nat), NEW left \in Seq(Nat), NEW now, RateKept(past, left, now),
           NEW n, n = Len(past), NEW m, m = Len(left)
    PROVE  KeptAt(past, left, now, n, m)
<1>1. n \in Nat /\ m \in Nat /\ DOMAIN past = 1 .. n /\ DOMAIN left = 1 .. m /\ (\A i \in 1 .. n : past[i] \in Nat)
  OBVIOUS
<1>2. m <= n
  BY DEF RateKept
<1>3. \A i, j \in 1 .. n : i < j => past[i] <= past[j]
  BY <1>1 DEF RateKept
<1>4. \A i \in 1 .. n : past[i] <= now
  BY <1>1 DEF RateKept
<1>5. \A i \in 1 .. m : left[i] = past[n - m + i]
  BY <1>1 DEF RateKept
<1>6. \A i \in 1 .. (n - m) : past[i] <= now - RateWindow
  BY DEF RateKept
<1>7. \A i \in 1 .. n : i + Limit \in 1 .. n => past[i] + RateWindow <= past[i + Limit]
  BY <1>1 DEF RateKept
<1> QED  BY <1>1, <1>2, <1>3, <1>4, <1>5, <1>6, <1>7 DEF KeptAt

\* What is left of a limiter's memory is in order.
LEMMA LeftAscends ==
    ASSUME NEW past \in Seq(Nat), NEW left \in Seq(Nat), NEW now, RateKept(past, left, now)
    PROVE  Ascends(left)
<1>1. PICK n, m : n = Len(past) /\ m = Len(left)
  OBVIOUS
<1>0. /\ n \in Nat /\ m \in Nat /\ m <= n
      /\ DOMAIN past = 1 .. n /\ DOMAIN left = 1 .. m /\ (\A i \in 1 .. n : past[i] \in Nat)
      /\ \A i, j \in 1 .. n : i < j => past[i] <= past[j]
      /\ \A i \in 1 .. n : past[i] <= now
      /\ \A i \in 1 .. m : left[i] = past[n - m + i]
      /\ \A i \in 1 .. (n - m) : past[i] <= now - RateWindow
      /\ \A i \in 1 .. n : i + Limit \in 1 .. n => past[i] + RateWindow <= past[i + Limit]
  <2>1. KeptAt(past, left, now, n, m)
    BY <1>1, KeptSays
  <2> QED  BY <2>1 DEF KeptAt
<1>2. \A i \in 1 .. m : n - m + i \in 1 .. n
  BY <1>0
<1>3. \A i \in 1 .. m : left[i] = past[n - m + i] /\ n - m + i \in 1 .. n
  BY <1>0, <1>2
<1> SUFFICES ASSUME NEW i \in 1 .. m, NEW j \in 1 .. m, i < j PROVE left[i] <= left[j]
  BY <1>0 DEF Ascends
<1>4. n - m + i < n - m + j
  BY <1>0
<1>5. past[n - m + i] <= past[n - m + j]
  BY <1>0, <1>2, <1>4
<1> QED  BY <1>3, <1>5

\* A limiter forgets what is past the window.
LEMMA ForgetKeeps ==
    ASSUME NEW past \in Seq(Nat), NEW left \in Seq(Nat), NEW now, RateKept(past, left, now),
           NEW c \in Nat, c <= Len(left), NEW rest \in Seq(Nat), Len(rest) = c,
           \A k \in 1 .. c : rest[k] = left[Len(left) - c + k],
           \A i \in 1 .. (Len(left) - c) : left[i] <= now - RateWindow
    PROVE  RateKept(past, rest, now)
<1>1. PICK n, m : n = Len(past) /\ m = Len(left)
  OBVIOUS
<1>0. /\ n \in Nat /\ m \in Nat /\ m <= n
      /\ DOMAIN past = 1 .. n /\ DOMAIN left = 1 .. m /\ (\A i \in 1 .. n : past[i] \in Nat)
      /\ \A i, j \in 1 .. n : i < j => past[i] <= past[j]
      /\ \A i \in 1 .. n : past[i] <= now
      /\ \A i \in 1 .. m : left[i] = past[n - m + i]
      /\ \A i \in 1 .. (n - m) : past[i] <= now - RateWindow
      /\ \A i \in 1 .. n : i + Limit \in 1 .. n => past[i] + RateWindow <= past[i + Limit]
  <2>1. KeptAt(past, left, now, n, m)
    BY <1>1, KeptSays
  <2> QED  BY <2>1 DEF KeptAt
<1>2. DOMAIN rest = 1 .. c /\ c <= m /\ n \in Nat /\ m \in Nat /\ m <= n
  BY <1>0, <1>1
<1>7. \A i \in 1 .. m : n - m + i \in 1 .. n
  BY <1>0
<1>3. \A i \in 1 .. m : left[i] = past[n - m + i] /\ n - m + i \in 1 .. n
  BY <1>0, <1>7
<1>4. ASSUME NEW k \in 1 .. c PROVE rest[k] = past[n - c + k]
  <2>1. m - c + k \in 1 .. m /\ n - m + (m - c + k) = n - c + k
    BY <1>2
  <2>2. left[m - c + k] = past[n - m + (m - c + k)]
    BY <2>1, <1>3
  <2> QED  BY <2>1, <2>2, <1>1
<1>5. ASSUME NEW i \in 1 .. (n - c) PROVE past[i] <= now - RateWindow
  <2>1. CASE i <= n - m
    <3>1. i \in 1 .. (n - m)
      BY <2>1, <1>2
    <3> QED  BY <3>1, <1>0
  <2>2. CASE i > n - m
    <3>1. PICK k : k = i - (n - m)
      OBVIOUS
    <3>2. k \in 1 .. (m - c) /\ k \in 1 .. m /\ n - m + k = i
      BY <2>2, <3>1, <1>2
    <3> QED  BY <3>2, <1>1, <1>3
  <2> QED  BY <2>1, <2>2, <1>2
<1>6. Len(rest) <= Len(past)
  BY <1>0, <1>1, <1>2
<1>8. \A i \in DOMAIN rest : rest[i] = past[Len(past) - Len(rest) + i]
  BY <1>1, <1>2, <1>4
<1>9. \A i \in 1 .. Len(past) - Len(rest) : past[i] <= now - RateWindow
  BY <1>1, <1>5
<1> QED  BY <1>6, <1>8, <1>9 DEF RateKept

\* A call is let through while the limiter remembers fewer than Limit.
LEMMA AdmitKeeps ==
    ASSUME ToolConstants, NEW past \in Seq(Nat), NEW left \in Seq(Nat), NEW now \in Nat, RateKept(past, left, now),
           Len(left) < Limit
    PROVE  RateKept(Append(past, now), Append(left, now), now)
<1>1. PICK n, m, p, q : n = Len(past) /\ m = Len(left) /\ p = Append(past, now) /\ q = Append(left, now)
  OBVIOUS
<1>0. /\ n \in Nat /\ m \in Nat /\ m <= n
      /\ DOMAIN past = 1 .. n /\ DOMAIN left = 1 .. m /\ (\A i \in 1 .. n : past[i] \in Nat)
      /\ \A i, j \in 1 .. n : i < j => past[i] <= past[j]
      /\ \A i \in 1 .. n : past[i] <= now
      /\ \A i \in 1 .. m : left[i] = past[n - m + i]
      /\ \A i \in 1 .. (n - m) : past[i] <= now - RateWindow
      /\ \A i \in 1 .. n : i + Limit \in 1 .. n => past[i] + RateWindow <= past[i + Limit]
  <2>1. KeptAt(past, left, now, n, m)
    BY <1>1, KeptSays
  <2> QED  BY <2>1 DEF KeptAt
<1>2. n \in Nat /\ m \in Nat /\ m <= n /\ m < Limit /\ Limit \in Nat /\ RateWindow \in Nat
  BY <1>0, <1>1 DEF ToolConstants
<1>3. /\ Len(p) = n + 1 /\ DOMAIN p = 1 .. (n + 1) /\ p[n + 1] = now /\ \A i \in 1 .. n : p[i] = past[i]
  BY <1>0, <1>1
<1>4. /\ Len(q) = m + 1 /\ DOMAIN q = 1 .. (m + 1) /\ q[m + 1] = now /\ \A i \in 1 .. m : q[i] = left[i]
  BY <1>0, <1>1
<1>5. \A i \in 1 .. (n + 1) : i \in 1 .. n \/ i = n + 1
  BY <1>2
<1>6. \A i \in 1 .. n : past[i] <= now /\ past[i] \in Nat
  BY <1>0
<1>7. \A i \in 1 .. (n + 1) : p[i] <= now
  BY <1>3, <1>5, <1>6
<1>8. ASSUME NEW i \in 1 .. (n + 1), NEW j \in 1 .. (n + 1), i < j PROVE p[i] <= p[j]
  <2>1. CASE j = n + 1
    BY <2>1, <1>3, <1>7
  <2>2. CASE j \in 1 .. n
    <3>1. i \in Nat /\ j \in Nat /\ 1 <= i /\ j <= n
      BY <2>2, <1>2
    <3>3. i \in 1 .. n
      BY <3>1, <1>8, <1>2
    <3>2. past[i] <= past[j]
      BY <1>0, <1>8, <2>2, <3>3
    <3> QED  BY <3>3, <3>2, <2>2, <1>3
  <2> QED  BY <2>1, <2>2, <1>5
<1>9. ASSUME NEW i \in 1 .. (m + 1) PROVE q[i] = p[(n + 1) - (m + 1) + i]
  <2>1. CASE i = m + 1
    <3>1. (n + 1) - (m + 1) + i = n + 1
      BY <2>1, <1>2
    <3> QED  BY <2>1, <3>1, <1>3, <1>4
  <2>2. CASE i # m + 1
    <3>1. i \in 1 .. m /\ n - m + i \in 1 .. n /\ (n + 1) - (m + 1) + i = n - m + i
      BY <2>2, <1>2
    <3>2. left[i] = past[n - m + i]
      BY <3>1, <1>0
    <3> QED  BY <3>1, <3>2, <1>3, <1>4
  <2> QED  BY <2>1, <2>2
<1>10. \A i \in 1 .. (n - m) : past[i] <= now - RateWindow
  BY <1>0
<1>11. ASSUME NEW i \in 1 .. ((n + 1) - (m + 1)) PROVE p[i] <= now - RateWindow
  <2>1. i \in 1 .. (n - m) /\ i \in 1 .. n
    BY <1>2
  <2> QED  BY <2>1, <1>3, <1>10
<1>12. ASSUME NEW i \in 1 .. (n + 1), i + Limit \in 1 .. (n + 1) PROVE p[i] + RateWindow <= p[i + Limit]
  <2>1. CASE i + Limit = n + 1
    <3>1. i \in 1 .. (n - m) /\ i \in 1 .. n
      BY <2>1, <1>2
    <3>2. past[i] <= now - RateWindow /\ past[i] \in Nat
      BY <3>1, <1>6, <1>10
    <3>3. p[i] = past[i] /\ p[i + Limit] = now
      BY <2>1, <3>1, <1>3
    <3>4. past[i] + RateWindow <= now
      BY <3>2, <1>2
    <3> QED  BY <3>3, <3>4
  <2>2. CASE i + Limit # n + 1
    <3>1. i + Limit \in 1 .. n /\ i \in 1 .. n
      BY <2>2, <1>12, <1>2
    <3>2. past[i] + RateWindow <= past[i + Limit]
      BY <3>1, <1>0
    <3> QED  BY <3>1, <3>2, <1>3
  <2> QED  BY <2>1, <2>2
<1>13. RateKept(p, q, now)
  <2>1. Len(q) <= Len(p) /\ Len(p) = n + 1 /\ Len(q) = m + 1
    BY <1>2, <1>3, <1>4
  <2> QED  BY <2>1, <1>3, <1>4, <1>7, <1>8, <1>9, <1>11, <1>12 DEF RateKept
<1> QED  BY <1>1, <1>13

\* Time passes.
LEMMA LaterIsKept ==
    ASSUME ToolConstants, NEW past \in Seq(Nat), NEW left \in Seq(Nat), NEW now \in Nat, RateKept(past, left, now)
    PROVE  RateKept(past, left, now + 1)
<1>1. PICK n, m : n = Len(past) /\ m = Len(left)
  OBVIOUS
<1>0. /\ n \in Nat /\ m \in Nat /\ m <= n
      /\ DOMAIN past = 1 .. n /\ DOMAIN left = 1 .. m /\ (\A i \in 1 .. n : past[i] \in Nat)
      /\ \A i, j \in 1 .. n : i < j => past[i] <= past[j]
      /\ \A i \in 1 .. n : past[i] <= now
      /\ \A i \in 1 .. m : left[i] = past[n - m + i]
      /\ \A i \in 1 .. (n - m) : past[i] <= now - RateWindow
      /\ \A i \in 1 .. n : i + Limit \in 1 .. n => past[i] + RateWindow <= past[i + Limit]
  <2>1. KeptAt(past, left, now, n, m)
    BY <1>1, KeptSays
  <2> QED  BY <2>1 DEF KeptAt
<1>2. n \in Nat /\ m \in Nat /\ m <= n /\ RateWindow \in Nat
  BY <1>0 DEF ToolConstants
<1>3. ASSUME NEW i \in DOMAIN past PROVE past[i] <= now + 1
  <2>1. past[i] \in Nat /\ past[i] <= now
    BY <1>0
  <2> QED  BY <2>1
<1>4. ASSUME NEW i \in 1 .. (n - m) PROVE past[i] <= (now + 1) - RateWindow
  <2>1. i \in 1 .. n /\ past[i] <= now - RateWindow
    BY <1>0
  <2>2. past[i] \in Nat
    BY <2>1, <1>0
  <2> QED  BY <2>1, <2>2, <1>2
<1> QED  BY <1>1, <1>3, <1>4 DEF RateKept

\* No window of time holds more than Limit of the calls that were let through.
LEMMA WindowHolds ==
    ASSUME ToolConstants, NEW past \in Seq(Nat), NEW left \in Seq(Nat), NEW now, RateKept(past, left, now),
           NEW t \in Nat
    PROVE  Cardinality({i \in DOMAIN past : past[i] \in t - RateWindow + 1 .. t}) <= Limit
<1>1. PICK n, m : n = Len(past) /\ m = Len(left)
  OBVIOUS
<1>0. /\ n \in Nat /\ m \in Nat /\ m <= n
      /\ DOMAIN past = 1 .. n /\ DOMAIN left = 1 .. m /\ (\A i \in 1 .. n : past[i] \in Nat)
      /\ \A i, j \in 1 .. n : i < j => past[i] <= past[j]
      /\ \A i \in 1 .. n : past[i] <= now
      /\ \A i \in 1 .. m : left[i] = past[n - m + i]
      /\ \A i \in 1 .. (n - m) : past[i] <= now - RateWindow
      /\ \A i \in 1 .. n : i + Limit \in 1 .. n => past[i] + RateWindow <= past[i + Limit]
  <2>1. KeptAt(past, left, now, n, m)
    BY <1>1, KeptSays
  <2> QED  BY <2>1 DEF KeptAt
<1>2. n \in Nat /\ DOMAIN past = 1 .. n /\ (\A i \in 1 .. n : past[i] \in Nat) /\ Limit \in Nat /\ RateWindow \in Nat
  BY <1>0 DEF ToolConstants
<1>3. PICK U : U = {i \in 1 .. n : past[i] >= t - RateWindow + 1}
  OBVIOUS
<1>4. PICK W : W = {i \in DOMAIN past : past[i] \in t - RateWindow + 1 .. t}
  OBVIOUS
<1>5. ASSUME NEW i \in U, NEW j \in 1 .. n, i <= j PROVE j \in U
  <2>1. i \in 1 .. n /\ (i = j \/ i < j)
    BY <1>3, <1>5
  <2>3. CASE i = j
    BY <2>3, <1>5
  <2>2. CASE i < j
    <3>1. past[i] <= past[j] /\ past[i] \in Nat /\ past[j] \in Nat /\ past[i] >= t - RateWindow + 1
      BY <2>1, <2>2, <1>0, <1>3
    <3>2. past[j] >= t - RateWindow + 1
      BY <3>1, <1>2
    <3> QED  BY <3>2, <1>3
  <2> QED  BY <2>1, <2>2, <2>3
<1>6. PICK a : a = n - Cardinality(U) + 1
  OBVIOUS
<1>7. a \in 1 .. (n + 1) /\ U = a .. n
  <2>1. U \in SUBSET (1 .. n)
    BY <1>3
  <2>2. Cardinality(U) \in Nat /\ Cardinality(U) <= n /\ U = (n - Cardinality(U) + 1) .. n
    BY <2>1, <1>2, <1>5, LastOnes
  <2> QED  BY <2>2, <1>2, <1>6
<1>8. ASSUME NEW i \in W PROVE i \in a .. (a + Limit - 1)
  <2>1. i \in 1 .. n /\ past[i] >= t - RateWindow + 1 /\ past[i] <= t
    BY <1>2, <1>4, <1>8
  <2>2. i \in a .. n /\ a \in 1 .. n /\ past[a] >= t - RateWindow + 1 /\ past[a] \in Nat /\ past[i] \in Nat
    <3>1. i \in U
      BY <2>1, <1>3
    <3>2. a \in U
      <4>1. i \in a .. n
        BY <3>1, <1>7
      <4>2. a \in a .. n
        BY <4>1, <1>2, <1>7
      <4> QED  BY <4>2, <1>7
    <3>3. i \in a .. n /\ a \in 1 .. n
      BY <3>1, <3>2, <1>3, <1>7
    <3> QED  BY <3>2, <3>3, <2>1, <1>2, <1>3
  <2>3. CASE i >= a + Limit
    <3>1. a + Limit \in 1 .. n
      BY <2>2, <2>3, <1>2
    <3>2. past[a] + RateWindow <= past[a + Limit] /\ past[a + Limit] \in Nat
      BY <3>1, <2>2, <1>0
    <3>3. past[a + Limit] <= past[i]
      <4>1. a + Limit = i \/ a + Limit < i
        BY <3>1, <2>1, <2>3, <1>2, <1>7
      <4>2. CASE a + Limit = i
        BY <4>2, <3>2
      <4>3. CASE a + Limit < i
        BY <4>3, <3>1, <2>1, <1>0
      <4> QED  BY <4>1, <4>2, <4>3
    <3> QED  BY <3>2, <3>3, <2>1, <2>2, <1>2
  <2>4. CASE ~(i >= a + Limit)
    BY <2>2, <2>4, <1>2
  <2> QED  BY <2>3, <2>4
<1>9. PICK b : b = a + Limit - 1
  OBVIOUS
<1>10. a \in Nat /\ b \in Nat /\ a <= b + 1 /\ b - a + 1 = Limit
  BY <1>2, <1>7, <1>9
<1>11. IsFiniteSet(a .. b) /\ Cardinality(a .. b) = Limit
  BY <1>10, IntervalHas
<1>12. W \in SUBSET (a .. b)
  BY <1>8, <1>9
<1> QED  BY <1>4, <1>11, <1>12, FS_Subset

\* A limiter is asked.
LEMMA CheckRateLimitKeeps ==
    ASSUME ToolConstants, ToolsTypeOK, RatesAreKept, NEW l \in Limiters, CheckRateLimit(l), UNCHANGED clock
    PROVE  /\ limiter' \in [Limiters -> Seq(Nat)] /\ admitted' \in [Limiters -> Seq(Nat)]
           /\ RatesAreKept'
<1>1. PICK past, left, c, rest : past = admitted[l] /\ left = limiter[l] /\ c = Cardinality(Unexpired(l)) /\ rest = Trimmed(l)
  OBVIOUS
<1>2. past \in Seq(Nat) /\ left \in Seq(Nat) /\ clock \in Nat /\ RateKept(past, left, clock)
  BY <1>1 DEF ToolsTypeOK, RatesAreKept
<1>3. Ascends(left)
  BY <1>2, LeftAscends
<1>4. /\ c \in Nat /\ c <= Len(left) /\ rest \in Seq(Nat) /\ Len(rest) = c
      /\ \A k \in 1 .. c : rest[k] = left[Len(left) - c + k]
      /\ \A i \in 1 .. (Len(left) - c) : left[i] <= clock - RateWindow
  <2>1. left = limiter[l] /\ c = Cardinality(Unexpired(l)) /\ rest = Trimmed(l)
    BY <1>1
  <2>2. LastOf(rest, left, c, clock - RateWindow)
    BY <2>1, <1>3, TrimmedIs
  <2> QED  BY <2>2 DEF LastOf
<1>5. RateKept(past, rest, clock)
  BY <1>2, <1>4, ForgetKeeps
<1>6. CASE Allow(l)
  <2>1. c < Limit
    BY <1>1, <1>4, <1>6 DEF Allow
  <2>2. RateKept(Append(past, clock), Append(rest, clock), clock)
    BY <2>1, <1>2, <1>4, <1>5, AdmitKeeps
  <2>3. Append(past, clock) \in Seq(Nat) /\ Append(rest, clock) \in Seq(Nat)
    BY <1>2, <1>4
  <2>4. /\ limiter' = [limiter EXCEPT ![l] = Append(rest, clock)]
        /\ admitted' = [admitted EXCEPT ![l] = Append(past, clock)]
    BY <1>1, <1>6 DEF CheckRateLimit
  <2>5. limiter' \in [Limiters -> Seq(Nat)] /\ admitted' \in [Limiters -> Seq(Nat)]
    BY <2>3, <2>4 DEF ToolsTypeOK
  <2>6. ASSUME NEW k \in Limiters PROVE RateKept(admitted'[k], limiter'[k], clock')
    <3>1. CASE k = l
      <4>1. admitted'[k] = Append(past, clock) /\ limiter'[k] = Append(rest, clock)
        BY <3>1, <2>4 DEF ToolsTypeOK
      <4> QED  BY <4>1, <2>2
    <3>2. CASE k # l
      <4>1. admitted'[k] = admitted[k] /\ limiter'[k] = limiter[k]
        BY <3>2, <2>4 DEF ToolsTypeOK
      <4> QED  BY <4>1 DEF RatesAreKept
    <3> QED  BY <3>1, <3>2
  <2> QED  BY <2>5, <2>6 DEF RatesAreKept
<1>7. CASE ~Allow(l)
  <2>4. limiter' = [limiter EXCEPT ![l] = rest] /\ admitted' = [admitted EXCEPT ![l] = admitted[l]]
    BY <1>1, <1>7 DEF CheckRateLimit
  <2>5. limiter' \in [Limiters -> Seq(Nat)] /\ admitted' \in [Limiters -> Seq(Nat)]
    BY <1>4, <2>4 DEF ToolsTypeOK
  <2>6. ASSUME NEW k \in Limiters PROVE RateKept(admitted'[k], limiter'[k], clock')
    <3>1. CASE k = l
      <4>1. admitted'[k] = past /\ limiter'[k] = rest
        BY <3>1, <2>4, <1>1 DEF ToolsTypeOK
      <4> QED  BY <4>1, <1>5
    <3>2. CASE k # l
      <4>1. admitted'[k] = admitted[k] /\ limiter'[k] = limiter[k]
        BY <3>2, <2>4 DEF ToolsTypeOK
      <4> QED  BY <4>1 DEF RatesAreKept
    <3> QED  BY <3>1, <3>2
  <2> QED  BY <2>5, <2>6 DEF RatesAreKept
<1> QED  BY <1>6, <1>7

-----------------------------------------------------------------------------
(* Calls *)

\* A call goes on, comes or ends, without changing the calendar.
LEMMA CallGoesOn ==
    ASSUME ToolsInv, NEW c \in ToolCallers, NEW r, toolCall' = [toolCall EXCEPT ![c] = r], CallSound(r),
           r.pc \in CallPlaces \ {"create", "update", "delete"},
           UNCHANGED <<toolRaced, events, nextID, made>>
    PROVE  CallsTyped' /\ CalendarIsWhole'
<1>1. DOMAIN toolCall' = ToolCallers /\ toolCall'[c] = r /\ \A d \in ToolCallers : d # c => toolCall'[d] = toolCall[d]
  BY DEF ToolsInv, ToolsTypeOK, CallsTyped
<1>2. CallsTyped'
  <2>1. ASSUME NEW d \in ToolCallers PROVE CallSound(toolCall'[d])
    BY <1>1 DEF ToolsInv, ToolsTypeOK, CallsTyped
  <2> QED  BY <2>1, <1>1 DEF CallsTyped, CallSound
<1>3. \A d \in ToolCallers : Changing(d)' => Changing(d) /\ toolCall'[d] = toolCall[d]
  BY <1>1 DEF Changing
<1>4. \A d \in ToolCallers : ToolAt(d, "create")' => ToolAt(d, "create") /\ toolCall'[d] = toolCall[d]
  BY <1>1 DEF ToolAt
<1>5. CalendarIsWhole'
  BY <1>3, <1>4 DEF ToolsInv, CalendarIsWhole
<1> QED  BY <1>2, <1>5

\* The rest of the types.
LEMMA TypedIs ==
    ASSUME ToolsInv, UNCHANGED <<clock, limiter, admitted, events, nextID, toolRaced>>, CallsTyped'
    PROVE  ToolsTypeOK' /\ RatesAreKept'
BY DEF ToolsInv, ToolsTypeOK, RatesAreKept

\* A call that is over.
LEMMA NoCallSound == CallSound(NoToolCall) /\ NoToolCall.pc = "idle"
<1>1. <<>> \in Seq(CalEvents)
  OBVIOUS
<1> QED  BY <1>1 DEF NoToolCall, CallSound, CallPlaces

\* A call ends.
LEMMA CallEnds ==
    ASSUME ToolsInv, NEW c \in ToolCallers, ToolEnds(c), UNCHANGED <<toolRaced, events, nextID, made>>
    PROVE  CallsTyped' /\ CalendarIsWhole'
BY NoCallSound, CallGoesOn DEF ToolEnds, CallPlaces

\* Where a call comes to.
LEMMA FirstStepIs ==
    ASSUME NEW p
    PROVE  FirstStep(Kind(p)) \in {"cache", "calendar", "broadcast", "backend"}
<1>1. PICK k : k = Kind(p)
  OBVIOUS
<1>2. k \in {"list", "search", "create_event", "update_event", "delete_event", "one event", "broadcast", "plain"}
  BY <1>1 DEF Kind
<1> QED  BY <1>1, <1>2 DEF FirstStep

\* What Start makes of a call.
LEMMA StartIs ==
    ASSUME ToolsInv, NEW c \in ToolCallers, NEW p,
           NEW pc \in {"idle", "cache", "calendar", "broadcast", "backend"},
           Start(c, p, pc), UNCHANGED <<toolRaced, events, nextID, made>>
    PROVE  CallsTyped' /\ CalendarIsWhole'
<1>1. PICK kind, key, chs : kind = Kind(p) /\ key = CacheKey(p) /\ chs = IF pc = "broadcast" THEN ConnectedChannels ELSE {}
  OBVIOUS
<1>2. PICK r : r = [NoToolCall EXCEPT !.pc = pc, !.kind = kind, !.key = key, !.pending = chs]
  OBVIOUS
<1>3. CallSound(r) /\ r.pc = pc
  <2>1. <<>> \in Seq(CalEvents)
    OBVIOUS
  <2> QED  BY <2>1, <1>2 DEF NoToolCall, CallSound, CallPlaces
<1>4. toolCall' = [toolCall EXCEPT ![c] = NoToolCall] \/ toolCall' = [toolCall EXCEPT ![c] = r]
  BY <1>1, <1>2 DEF Start
<1>5. pc \in CallPlaces \ {"create", "update", "delete"} /\ "idle" \in CallPlaces
  BY DEF CallPlaces
<1> QED  BY <1>3, <1>4, <1>5, NoCallSound, CallGoesOn

\* A call comes in, past its limiter or not.
LEMMA CallToolKeeps ==
    ASSUME ToolConstants, ToolsInv, NEW c \in ToolCallers, NEW p, CallTool(c, p)
    PROVE  ToolsInv'
<1>1. UNCHANGED <<clock, toolCache, events, nextID, made, toolRaced>>
  BY DEF CallTool
<1>2. \E pc \in {"idle", "cache", "calendar", "broadcast", "backend"} : Start(c, p, pc)
  BY FirstStepIs DEF CallTool
<1>3. CallsTyped' /\ CalendarIsWhole'
  BY <1>1, <1>2, StartIs
<1>4. (\E l \in Limiters : CheckRateLimit(l)) \/ UNCHANGED <<limiter, admitted>>
  BY DEF CallTool, LimitedFirst, Limiters
<1>5. /\ limiter' \in [Limiters -> Seq(Nat)] /\ admitted' \in [Limiters -> Seq(Nat)]
      /\ RatesAreKept'
  <2>1. CASE \E l \in Limiters : CheckRateLimit(l)
    BY <2>1, <1>1, CheckRateLimitKeeps DEF ToolsInv
  <2>2. CASE UNCHANGED <<limiter, admitted>>
    BY <2>2, <1>1 DEF ToolsInv, ToolsTypeOK, RatesAreKept
  <2> QED  BY <2>1, <2>2, <1>4
<1>6. ToolsTypeOK'
  BY <1>1, <1>3, <1>5 DEF ToolsInv, ToolsTypeOK
<1> QED  BY <1>3, <1>5, <1>6 DEF ToolsInv

\* A call that moves on and changes nothing.
LEMMA MovedGoesOn ==
    ASSUME ToolsInv, NEW c \in ToolCallers, NEW pc \in {"backend", "store"}, ToolMoved(c, pc),
           UNCHANGED <<toolRaced, events, nextID, made>>
    PROVE  CallsTyped' /\ CalendarIsWhole'
<1>1. PICK q, r : q = toolCall[c] /\ r = [q EXCEPT !.pc = pc]
  OBVIOUS
<1>2. CallSound(q)
  BY <1>1 DEF ToolsInv, ToolsTypeOK, CallsTyped
<1>3. CallSound(r) /\ r.pc = pc
  BY ONLY <1>1, <1>2, pc \in {"backend", "store"} DEF CallSound, CallPlaces
<1>4. toolCall' = [toolCall EXCEPT ![c] = r]
  BY <1>1 DEF ToolMoved
<1> QED  BY <1>3, <1>4, CallGoesOn DEF CallPlaces

\* The answer that is kept, or the way to the service.
LEMMA getCachedKeeps ==
    ASSUME ToolsInv, NEW c \in ToolCallers, getCached(c)
    PROVE  ToolsInv'
<1>1. UNCHANGED <<clock, limiter, admitted, events, nextID, made, toolRaced>> /\ (ToolEnds(c) \/ ToolMoved(c, "backend"))
  BY DEF getCached
<1> QED  BY <1>1, CallEnds, MovedGoesOn, TypedIs DEF ToolsInv

\* The service answers or is not heard.
LEMMA ToolBackendKeeps ==
    ASSUME ToolsInv, NEW c \in ToolCallers, ToolBackend(c)
    PROVE  ToolsInv'
<1>1. UNCHANGED <<clock, limiter, admitted, events, nextID, made, toolRaced>> /\ (ToolEnds(c) \/ ToolMoved(c, "store"))
  BY DEF ToolBackend
<1> QED  BY <1>1, CallEnds, MovedGoesOn, TypedIs DEF ToolsInv

\* The answer is kept.
LEMMA putCacheKeeps ==
    ASSUME ToolsInv, NEW c \in ToolCallers, putCache(c)
    PROVE  ToolsInv'
<1>1. UNCHANGED <<clock, limiter, admitted, events, nextID, made, toolRaced>> /\ ToolEnds(c)
  BY DEF putCache
<1> QED  BY <1>1, CallEnds, TypedIs DEF ToolsInv

-----------------------------------------------------------------------------
(* The calendar *)

\* A call reads the calendar before it changes it.
LEMMA ReadsToChange ==
    ASSUME ToolsInv, NEW c \in ToolCallers, NEW r, toolCall' = [toolCall EXCEPT ![c] = r], CallSound(r),
           r.base = events, r.pc = "create" => r.id = nextID,
           toolRaced' = (toolRaced \/ OtherChanging(c)), UNCHANGED <<events, nextID, made>>
    PROVE  CallsTyped' /\ CalendarIsWhole'
<1>1. DOMAIN toolCall' = ToolCallers /\ toolCall'[c] = r /\ \A d \in ToolCallers : d # c => toolCall'[d] = toolCall[d]
  BY DEF ToolsInv, ToolsTypeOK, CallsTyped
<1>2. CallsTyped'
  <2>1. ASSUME NEW d \in ToolCallers PROVE CallSound(toolCall'[d])
    BY <1>1 DEF ToolsInv, ToolsTypeOK, CallsTyped
  <2> QED  BY <2>1, <1>1 DEF CallsTyped, CallSound
<1>3. CalendarIsWhole'
  <2> SUFFICES ASSUME ~toolRaced' PROVE CalendarIsWhole'
    BY DEF CalendarIsWhole
  <2>0. ~toolRaced /\ ~OtherChanging(c)
    BY DEF ToolsInv, ToolsTypeOK
  <2>1. \A d \in ToolCallers : d # c => ~Changing(d)
    BY <2>0 DEF OtherChanging
  <2>2. \A d \in ToolCallers : Changing(d)' => d = c
    BY <2>1, <1>1 DEF Changing
  <2>3. \A d \in ToolCallers : ToolAt(d, "create")' => d = c
    BY <2>2 DEF Changing, ToolAt
  <2>4. toolCall'[c].base = events' /\ (ToolAt(c, "create")' => toolCall'[c].id = nextID')
    BY <1>1 DEF ToolAt
  <2> QED  BY <2>0, <2>2, <2>3, <2>4 DEF ToolsInv, CalendarIsWhole
<1> QED  BY <1>2, <1>3

\* A call reads the calendar: the first to change it, or the race is on.
LEMMA CalendarReadsKeeps ==
    ASSUME ToolsInv, NEW c \in ToolCallers, CalendarReads(c)
    PROVE  ToolsInv'
<1>1. UNCHANGED <<clock, limiter, admitted, events, nextID, made>>
  BY DEF CalendarReads
<1>2. toolRaced \in BOOLEAN /\ nextID \in Nat /\ events \in Seq(CalEvents)
  BY DEF ToolsInv, ToolsTypeOK
<1>3. PICK q : q = toolCall[c]
  OBVIOUS
<1>4. CallSound(q)
  BY <1>3 DEF ToolsInv, ToolsTypeOK, CallsTyped
<1>5. CASE /\ toolCall' = [toolCall EXCEPT ![c].pc = "create", ![c].id = nextID, ![c].base = events]
           /\ toolRaced' = (toolRaced \/ OtherChanging(c))
  <2>1. PICK r : r = [q EXCEPT !.pc = "create", !.id = nextID, !.base = events]
    OBVIOUS
  <2>2. CallSound(r) /\ r.base = events /\ r.id = nextID
    BY ONLY <2>1, <1>2, <1>4 DEF CallSound, CallPlaces
  <2>3. toolCall' = [toolCall EXCEPT ![c] = r]
    BY <2>1, <1>3, <1>5
  <2>4. CallsTyped' /\ CalendarIsWhole' /\ toolRaced' \in BOOLEAN
    BY <2>2, <2>3, <1>1, <1>2, <1>5, ReadsToChange DEF OtherChanging
  <2> QED  BY <2>4, <1>1 DEF ToolsInv, ToolsTypeOK, RatesAreKept
<1>6. ASSUME NEW pc \in {"update", "delete"}, NEW i \in DOMAIN events,
             toolCall' = [toolCall EXCEPT ![c].pc = pc, ![c].at = i, ![c].base = events],
             toolRaced' = (toolRaced \/ OtherChanging(c))
      PROVE  ToolsInv'
  <2>1. PICK r : r = [q EXCEPT !.pc = pc, !.at = i, !.base = events]
    OBVIOUS
  <2>2. CallSound(r) /\ r.base = events /\ r.pc # "create"
    BY ONLY <2>1, <1>2, <1>4, pc \in {"update", "delete"}, i \in DOMAIN events DEF CallSound, CallPlaces
  <2>3. toolCall' = [toolCall EXCEPT ![c] = r]
    BY <2>1, <1>3, <1>6
  <2>4. CallsTyped' /\ CalendarIsWhole' /\ toolRaced' \in BOOLEAN
    BY <2>2, <2>3, <1>1, <1>2, <1>6, ReadsToChange DEF OtherChanging
  <2> QED  BY <2>4, <1>1 DEF ToolsInv, ToolsTypeOK, RatesAreKept
<1>7. CASE ToolEnds(c) /\ UNCHANGED toolRaced
  BY <1>1, <1>7, CallEnds, TypedIs DEF ToolsInv
<1> QED  BY <1>5, <1>6, <1>7 DEF CalendarReads

\* A list that was loaded: as long as it was, and what the calendar is if that is what it was.
LEMMA ListsAre ==
    ASSUME NEW base \in Seq(CalEvents), events \in Seq(CalEvents), NEW list \in ListsOf(base)
    PROVE  list \in Seq(CalEvents) /\ DOMAIN list = DOMAIN base /\ (base = events => list = events)
<1>1. CASE list = base
  BY <1>1
<1>2. CASE list = [j \in DOMAIN base |-> IF j \in DOMAIN events THEN events[j] ELSE base[j]]
  <2>1. PICK n \in Nat : base \in [1 .. n -> CalEvents]
    BY SeqDef
  <2>2. list \in [1 .. n -> CalEvents]
    BY <2>1, <1>2
  <2>3. list \in Seq(CalEvents)
    BY <2>1, <2>2, SeqDef
  <2>4. ASSUME base = events PROVE list = events
    <3>1. list = [j \in DOMAIN events |-> events[j]]
      BY <1>2, <2>4
    <3>2. events = [j \in DOMAIN events |-> events[j]]
      BY <2>1, <2>4
    <3> QED  BY <3>1, <3>2
  <2> QED  BY <1>2, <2>3, <2>4
<1> QED  BY <1>1, <1>2 DEF ListsOf

\* A change of the calendar is over.
LEMMA ChangeIsOver ==
    ASSUME ToolsInv, NEW c \in ToolCallers, ToolEnds(c), UNCHANGED toolRaced, Changing(c)
    PROVE  /\ CallsTyped'
           /\ ~toolRaced => \A d \in ToolCallers : ~Changing(d)' /\ ~ToolAt(d, "create")'
<1>1. /\ DOMAIN toolCall' = ToolCallers /\ toolCall'[c] = NoToolCall
      /\ \A d \in ToolCallers : d # c => toolCall'[d] = toolCall[d]
  BY DEF ToolEnds, ToolsInv, ToolsTypeOK, CallsTyped
<1>2. CallsTyped'
  <2>1. ASSUME NEW d \in ToolCallers PROVE CallSound(toolCall'[d])
    BY <1>1, NoCallSound DEF ToolsInv, ToolsTypeOK, CallsTyped
  <2> QED  BY <2>1, <1>1 DEF CallsTyped, CallSound
<1>3. ASSUME ~toolRaced, NEW d \in ToolCallers PROVE ~Changing(d)' /\ ~ToolAt(d, "create")'
  <2>1. CASE d = c
    BY <2>1, <1>1, NoCallSound DEF Changing, ToolAt
  <2>2. CASE d # c
    <3>1. ~Changing(d)
      BY <1>3, <2>2 DEF ToolsInv, CalendarIsWhole
    <3> QED  BY <3>1, <2>2, <1>1 DEF Changing, ToolAt
  <2> QED  BY <2>1, <2>2
<1> QED  BY <1>2, <1>3

\* A change is over, and the calendar is whole if it was.
LEMMA ChangeKeeps ==
    ASSUME ToolsInv, NEW c \in ToolCallers, ToolEnds(c), Changing(c),
           UNCHANGED <<clock, limiter, admitted, toolRaced>>,
           nextID' \in Nat, events' \in Seq(CalEvents),
           ~toolRaced => CalendarHolds(events', nextID', made')
    PROVE  ToolsInv'
<1>1. CallsTyped' /\ (~toolRaced => \A d \in ToolCallers : ~Changing(d)' /\ ~ToolAt(d, "create")')
  BY ChangeIsOver
<1>2. ToolsTypeOK' /\ RatesAreKept'
  BY <1>1 DEF ToolsInv, ToolsTypeOK, RatesAreKept
<1>3. CalendarIsWhole'
  BY <1>1 DEF CalendarIsWhole, CalendarHolds
<1> QED  BY <1>2, <1>3 DEF ToolsInv

\* An event under the next number.
LEMMA OneMoreEvent ==
    ASSUME NEW evs \in Seq(CalEvents), NEW next \in Nat, NEW there, CalendarHolds(evs, next, there)
    PROVE  CalendarHolds(Append(evs, NewEvent(next)), next + 1, there \cup {NewEvent(next)})
<1>1. PICK n, new, e : n = Len(evs) /\ new = NewEvent(next) /\ e = Append(evs, new)
  OBVIOUS
<1>2. n \in Nat /\ DOMAIN evs = 1 .. n /\ (\A i \in 1 .. n : evs[i].id \in Nat) /\ new.id = next
  <2>1. n \in Nat /\ DOMAIN evs = 1 .. n /\ \A i \in 1 .. n : evs[i] \in CalEvents
    BY <1>1
  <2>2. \A x \in CalEvents : x.id \in Nat
    BY DEF CalEvents
  <2>3. new.id = next
    BY <1>1 DEF NewEvent
  <2> QED  BY <2>1, <2>2, <2>3
<1>3. DOMAIN e = 1 .. (n + 1) /\ e[n + 1] = new /\ \A i \in 1 .. n : e[i] = evs[i]
  BY <1>1, <1>2
<1>4. /\ there = {evs[i] : i \in 1 .. n}
      /\ \A i, j \in 1 .. n : evs[i].id = evs[j].id => i = j
      /\ \A i \in 1 .. n : evs[i].id < next
  BY <1>2 DEF CalendarHolds
<1>5. /\ \A i \in 1 .. (n + 1) : i \in 1 .. n \/ i = n + 1
      /\ \A i \in 1 .. n : i \in 1 .. (n + 1) /\ n + 1 \in 1 .. (n + 1)
      /\ n + 1 \in 1 .. (n + 1)
  BY <1>2
<1>6. there \cup {new} = {e[i] : i \in DOMAIN e}
  BY <1>3, <1>4, <1>5
<1>7. \A i \in 1 .. n : evs[i].id # next
  BY <1>2, <1>4
<1>8. ASSUME NEW i \in DOMAIN e, NEW j \in DOMAIN e, e[i].id = e[j].id PROVE i = j
  BY <1>2, <1>3, <1>4, <1>5, <1>7, <1>8
<1>9. ASSUME NEW i \in DOMAIN e PROVE e[i].id < next + 1
  <2>1. CASE i = n + 1
    BY <2>1, <1>2, <1>3
  <2>2. CASE i \in 1 .. n
    <3>1. e[i].id \in Nat /\ e[i].id < next
      BY <2>2, <1>2, <1>3, <1>4
    <3> QED  BY <3>1
  <2> QED  BY <2>1, <2>2, <1>3, <1>5
<1> QED  BY <1>1, <1>6, <1>8, <1>9 DEF CalendarHolds

\* An event is revised in its place.
LEMMA OneEventRevised ==
    ASSUME NEW evs \in Seq(CalEvents), NEW next, NEW there, CalendarHolds(evs, next, there), NEW i \in DOMAIN evs
    PROVE  CalendarHolds([evs EXCEPT ![i] = Revised(@)], next,
                         {IF x.id = evs[i].id THEN Revised(x) ELSE x : x \in there})
<1>1. PICK e : e = [evs EXCEPT ![i] = Revised(evs[i])]
  OBVIOUS
<1>2. /\ DOMAIN e = DOMAIN evs /\ e[i] = Revised(evs[i]) /\ \A j \in DOMAIN evs : j # i => e[j] = evs[j]
      /\ \A j \in DOMAIN evs : evs[j] \in CalEvents
  BY <1>1
<1>3. \A j \in DOMAIN evs : Revised(evs[j]).id = evs[j].id
  BY <1>2 DEF Revised, CalEvents
<1>4. \A j \in DOMAIN evs : e[j].id = evs[j].id
  BY <1>2, <1>3
<1>5. \A j \in DOMAIN evs : e[j] = IF evs[j].id = evs[i].id THEN Revised(evs[j]) ELSE evs[j]
  BY <1>2 DEF CalendarHolds
<1>6. {IF x.id = evs[i].id THEN Revised(x) ELSE x : x \in there} = {e[j] : j \in DOMAIN e}
  <2>1. ASSUME NEW x \in there PROVE \E j \in DOMAIN e : e[j] = IF x.id = evs[i].id THEN Revised(x) ELSE x
    <3>1. PICK j \in DOMAIN evs : x = evs[j]
      BY DEF CalendarHolds
    <3> QED  BY <3>1, <1>2, <1>5
  <2>2. ASSUME NEW j \in DOMAIN e PROVE \E x \in there : e[j] = IF x.id = evs[i].id THEN Revised(x) ELSE x
    <3>1. evs[j] \in there
      BY <1>2 DEF CalendarHolds
    <3> QED  BY <3>1, <1>2, <1>5
  <2> QED  BY <2>1, <2>2
<1> QED  BY <1>1, <1>2, <1>4, <1>6 DEF CalendarHolds

\* A sequence without its member at i.
OneOut(b, i) == SubSeq(b, 1, i - 1) \o SubSeq(b, i + 1, Len(b))

\* It has every other member, in order.
LEMMA OneLess ==
    ASSUME NEW S, NEW b \in Seq(S), NEW i \in 1 .. Len(b)
    PROVE  /\ OneOut(b, i) \in Seq(S) /\ DOMAIN OneOut(b, i) = 1 .. (Len(b) - 1)
           /\ \A j \in 1 .. (Len(b) - 1) : OneOut(b, i)[j] = IF j < i THEN b[j] ELSE b[j + 1]
<1>0. PICK r : r = OneOut(b, i)
  OBVIOUS
<1>1. PICK n, p, q, x, y : n = Len(b) /\ p = i - 1 /\ q = i + 1 /\ x = SubSeq(b, 1, p) /\ y = SubSeq(b, q, n)
  OBVIOUS
<1>2. n \in Nat /\ i \in 1 .. n /\ \A k \in 1 .. n : b[k] \in S
  BY <1>1, LenProperties, ElementOfSeq
<1>3. p \in Int /\ q \in Int /\ n \in Int /\ 1 \in Int
  BY <1>1, <1>2
<1>4. (\A k \in 1 .. p : b[k] \in S) /\ (\A k \in q .. n : b[k] \in S)
  BY <1>1, <1>2
<1>5. /\ x \in Seq(S) /\ Len(x) = IF 1 <= p THEN p - 1 + 1 ELSE 0
      /\ \A j \in 1 .. p - 1 + 1 : x[j] = b[1 + j - 1]
  BY <1>1, <1>3, <1>4, SubSeqProperties
<1>6. /\ y \in Seq(S) /\ Len(y) = IF q <= n THEN n - q + 1 ELSE 0
      /\ \A j \in 1 .. n - q + 1 : y[j] = b[q + j - 1]
  BY <1>1, <1>3, <1>4, SubSeqProperties
<1>7. PICK lx, ly, w : lx = Len(x) /\ ly = Len(y) /\ w = x \o y
  OBVIOUS
<1>8. lx = i - 1 /\ ly = n - i
  BY <1>1, <1>2, <1>5, <1>6, <1>7
<1>9. /\ w \in Seq(S) /\ Len(w) = lx + ly
      /\ \A j \in 1 .. lx + ly : w[j] = IF j <= lx THEN x[j] ELSE y[j - lx]
  <2>1. x \in Seq(S) /\ y \in Seq(S)
    BY ONLY <1>5, <1>6
  <2> QED BY ONLY <2>1, <1>7, ConcatProperties
<1>10. r = w /\ lx + ly = n - 1 /\ DOMAIN r = 1 .. (n - 1)
  <2>1. r = w
    BY <1>0, <1>1, <1>7 DEF OneOut
  <2>2. lx + ly = n - 1
    BY <1>2, <1>8
  <2>3. DOMAIN w = 1 .. Len(w)
    BY <1>9, LenProperties
  <2> QED BY <2>1, <2>2, <2>3, <1>9
<1>11. ASSUME NEW j \in DOMAIN r
       PROVE  r[j] = IF j < i THEN b[j] ELSE b[j + 1]
  <2>1. j \in 1 .. (n - 1) /\ j \in 1 .. lx + ly
    BY <1>10
  <2>2. CASE j < i
    <3>1. j \in 1 .. p - 1 + 1 /\ 1 + j - 1 = j
      BY <2>1, <2>2, <1>1, <1>2
    <3>2. x[j] = b[j]
      BY <3>1, <1>5
    <3>3. j <= lx
      BY <2>1, <2>2, <1>2, <1>8
    <3>4. r[j] = x[j]
      BY <2>1, <3>3, <1>9, <1>10
    <3> QED BY <2>2, <3>2, <3>4
  <2>3. CASE ~(j < i)
    <3>1. PICK k : k = j - lx
      OBVIOUS
    <3>2. k \in 1 .. n - q + 1 /\ q + k - 1 = j + 1
      BY <2>1, <2>3, <3>1, <1>1, <1>2, <1>8
    <3>3. y[k] = b[j + 1]
      BY <3>2, <1>6
    <3>4. ~(j <= lx)
      BY <2>1, <2>3, <1>2, <1>8
    <3>5. r[j] = y[k]
      BY <2>1, <3>1, <3>4, <1>9, <1>10
    <3> QED BY <2>3, <3>3, <3>5
  <2> QED BY <2>2, <2>3
<1> QED BY <1>0, <1>1, <1>9, <1>10, <1>11

\* An event less.
LEMMA OneLessEvent ==
    ASSUME NEW evs \in Seq(CalEvents), NEW next, NEW there, CalendarHolds(evs, next, there), NEW i \in DOMAIN evs
    PROVE  CalendarHolds(OneOut(evs, i), next, {x \in there : x.id # evs[i].id})
<1>1. PICK n, e : n = Len(evs) /\ e = OneOut(evs, i)
  OBVIOUS
<1>2. n \in Nat /\ DOMAIN evs = 1 .. n /\ i \in 1 .. n
  BY <1>1
<1>3. /\ DOMAIN e = 1 .. (n - 1)
      /\ \A j \in 1 .. (n - 1) : e[j] = IF j < i THEN evs[j] ELSE evs[j + 1]
  BY <1>1, <1>2, OneLess
<1>4. /\ there = {evs[k] : k \in 1 .. n}
      /\ \A k, j \in 1 .. n : evs[k].id = evs[j].id => k = j
      /\ \A k \in 1 .. n : evs[k].id < next
  BY <1>2 DEF CalendarHolds
<1>7. \A j \in 1 .. (n - 1) : j \in 1 .. n /\ j + 1 \in 1 .. n
  BY <1>2
<1>8. ASSUME NEW j \in 1 .. (n - 1)
      PROVE  \E k \in 1 .. n : k # i /\ e[j] = evs[k] /\ (j < i => k = j) /\ (~(j < i) => k = j + 1)
  <2>1. CASE j < i
    <3>1. j # i /\ j \in 1 .. n /\ e[j] = evs[j]
      BY <2>1, <1>2, <1>3, <1>7
    <3> QED  BY <3>1, <2>1
  <2>2. CASE ~(j < i)
    <3>1. j + 1 # i /\ j + 1 \in 1 .. n /\ e[j] = evs[j + 1]
      BY <2>2, <1>2, <1>3, <1>7
    <3> QED  BY <3>1, <2>2
  <2> QED  BY <2>1, <2>2
<1>9. ASSUME NEW x PROVE (x \in there /\ x.id # evs[i].id) <=> x \in {e[j] : j \in 1 .. (n - 1)}
  <2>1. ASSUME NEW j \in 1 .. (n - 1), e[j] = x PROVE x \in there /\ x.id # evs[i].id
    <3>1. PICK k \in 1 .. n : k # i /\ e[j] = evs[k]
      BY <1>8
    <3> QED  BY <2>1, <3>1, <1>2, <1>4
  <2>2. ASSUME x \in there, x.id # evs[i].id PROVE \E j \in 1 .. (n - 1) : e[j] = x
    <3>1. PICK k \in 1 .. n : evs[k] = x /\ k # i
      BY <2>2, <1>4
    <3>2. CASE k < i
      <4>1. k \in 1 .. (n - 1)
        BY <3>2, <1>2
      <4> QED  BY <4>1, <3>1, <3>2, <1>3
    <3>3. CASE ~(k < i)
      <4>1. k - 1 \in 1 .. (n - 1) /\ ~(k - 1 < i) /\ (k - 1) + 1 = k
        BY <3>1, <3>3, <1>2
      <4>2. e[k - 1] = evs[k]
        BY <4>1, <1>3
      <4> QED  BY <4>1, <4>2, <3>1
    <3> QED  BY <3>2, <3>3
  <2> QED  BY <2>1, <2>2
<1>10. {x \in there : x.id # evs[i].id} = {e[j] : j \in DOMAIN e}
  BY <1>3, <1>9
<1>11. ASSUME NEW j \in 1 .. (n - 1), NEW k \in 1 .. (n - 1), e[j].id = e[k].id PROVE j = k
  <2>1. PICK p \in 1 .. n : p # i /\ e[j] = evs[p] /\ (j < i => p = j) /\ (~(j < i) => p = j + 1)
    BY <1>8
  <2>2. PICK q \in 1 .. n : q # i /\ e[k] = evs[q] /\ (k < i => q = k) /\ (~(k < i) => q = k + 1)
    BY <1>8
  <2>3. p = q
    BY <2>1, <2>2, <1>4, <1>11
  <2>4. j \in Nat /\ k \in Nat /\ i \in Nat /\ p \in Nat
    BY <1>2
  <2> QED  BY ONLY <2>1, <2>2, <2>3, <2>4
<1>12. \A j \in 1 .. (n - 1) : e[j].id < next
  BY <1>4, <1>8
<1>13. CalendarHolds(e, next, {x \in there : x.id # evs[i].id})
  BY <1>3, <1>10, <1>11, <1>12 DEF CalendarHolds
<1> QED  BY <1>1, <1>13

\* What a call that changes the calendar has at hand.
LEMMA ChangerHas ==
    ASSUME ToolsInv, NEW c \in ToolCallers, Changing(c)
    PROVE  /\ toolCall[c].base \in Seq(CalEvents) /\ toolCall[c].id \in Nat
           /\ events \in Seq(CalEvents) /\ nextID \in Nat
           /\ toolCall[c].pc \in {"update", "delete"} => toolCall[c].at \in DOMAIN toolCall[c].base
           /\ ~toolRaced => toolCall[c].base = events /\ CalendarHolds(events, nextID, made)
BY DEF ToolsInv, ToolsTypeOK, CallsTyped, CallSound, CalendarIsWhole

\* An event is created.
LEMMA CreateEventKeeps ==
    ASSUME ToolsInv, NEW c \in ToolCallers, CreateEvent(c)
    PROVE  ToolsInv'
<1>1. UNCHANGED <<clock, limiter, admitted, toolRaced>> /\ ToolAt(c, "create") /\ Changing(c) /\ ToolEnds(c)
  BY DEF CreateEvent, ToolAt, Changing
<1>2. PICK id, base : id = toolCall[c].id /\ base = toolCall[c].base
  OBVIOUS
<1>3. /\ base \in Seq(CalEvents) /\ id \in Nat /\ events \in Seq(CalEvents) /\ nextID \in Nat
      /\ ~toolRaced => base = events /\ CalendarHolds(events, nextID, made)
  BY <1>1, <1>2, ChangerHas
<1>4. ~toolRaced => id = nextID
  BY <1>1, <1>2 DEF ToolsInv, CalendarIsWhole
<1>5. nextID' \in {nextID + 1, id + 1} /\ made' = made \cup {NewEvent(id)}
  BY <1>2 DEF CreateEvent
<1>6. PICK list \in {events} \cup ListsOf(base) : events' = Append(list, NewEvent(id))
  BY <1>2 DEF CreateEvent
<1>7. list \in Seq(CalEvents) /\ (base = events => list = events)
  BY <1>3, ListsAre
<1>8. nextID' \in Nat /\ events' \in Seq(CalEvents)
  <2>1. NewEvent(id) \in CalEvents
    BY <1>3 DEF NewEvent, CalEvents
  <2> QED  BY <2>1, <1>3, <1>5, <1>6, <1>7
<1>9. ASSUME ~toolRaced PROVE CalendarHolds(events', nextID', made')
  <2>1. events' = Append(events, NewEvent(nextID)) /\ nextID' = nextID + 1 /\ made' = made \cup {NewEvent(nextID)}
    BY <1>3, <1>4, <1>5, <1>6, <1>7, <1>9
  <2> QED  BY <2>1, <1>3, <1>9, OneMoreEvent
<1> QED  BY <1>1, <1>8, <1>9, ChangeKeeps

\* An event is updated.
LEMMA UpdateEventKeeps ==
    ASSUME ToolsInv, NEW c \in ToolCallers, UpdateEvent(c)
    PROVE  ToolsInv'
<1>1. UNCHANGED <<clock, limiter, admitted, nextID, toolRaced>> /\ ToolAt(c, "update") /\ Changing(c) /\ ToolEnds(c)
  BY DEF UpdateEvent, ToolAt, Changing
<1>2. PICK i, base : i = toolCall[c].at /\ base = toolCall[c].base
  OBVIOUS
<1>3. /\ base \in Seq(CalEvents) /\ events \in Seq(CalEvents) /\ nextID \in Nat /\ i \in DOMAIN base
      /\ ~toolRaced => base = events /\ CalendarHolds(events, nextID, made)
  BY <1>1, <1>2, ChangerHas DEF ToolAt
<1>4. made' = {IF e.id = base[i].id THEN Revised(e) ELSE e : e \in made}
  BY <1>2 DEF UpdateEvent
<1>5. PICK list \in ListsOf(base) : events' = [list EXCEPT ![i] = Revised(@)]
  BY <1>2 DEF UpdateEvent
<1>6. list \in Seq(CalEvents) /\ DOMAIN list = DOMAIN base /\ (base = events => list = events)
  BY <1>3, ListsAre
<1>7. events' \in Seq(CalEvents)
  <2>1. \A x \in CalEvents : Revised(x) \in CalEvents
    BY DEF Revised, CalEvents
  <2>2. PICK n \in Nat : list \in [1 .. n -> CalEvents]
    BY <1>6, SeqDef
  <2>3. i \in 1 .. n /\ list[i] \in CalEvents
    BY <1>3, <1>6, <2>2
  <2>4. PICK y \in CalEvents : y = Revised(list[i])
    BY <2>1, <2>3
  <2>5. events' = [list EXCEPT ![i] = y]
    BY <1>5, <2>4
  <2>6. events' \in [1 .. n -> CalEvents]
    BY <2>2, <2>5
  <2> QED  BY <2>6, SeqDef
<1>8. ASSUME ~toolRaced PROVE CalendarHolds(events', nextID', made')
  <2>1. /\ events' = [events EXCEPT ![i] = Revised(@)] /\ i \in DOMAIN events /\ nextID' = nextID
        /\ made' = {IF e.id = events[i].id THEN Revised(e) ELSE e : e \in made}
    BY <1>1, <1>3, <1>4, <1>5, <1>6, <1>8
  <2>2. CalendarHolds([events EXCEPT ![i] = Revised(@)], nextID,
                      {IF e.id = events[i].id THEN Revised(e) ELSE e : e \in made})
    BY <2>1, <1>3, <1>8, OneEventRevised
  <2> QED  BY <2>1, <2>2
<1> QED  BY <1>1, <1>3, <1>7, <1>8, ChangeKeeps

\* An event is deleted.
LEMMA DeleteEventKeeps ==
    ASSUME ToolsInv, NEW c \in ToolCallers, DeleteEvent(c)
    PROVE  ToolsInv'
<1>1. UNCHANGED <<clock, limiter, admitted, nextID, toolRaced>> /\ ToolAt(c, "delete") /\ Changing(c) /\ ToolEnds(c)
  BY DEF DeleteEvent, ToolAt, Changing
<1>2. PICK i, base : i = toolCall[c].at /\ base = toolCall[c].base
  OBVIOUS
<1>3. /\ base \in Seq(CalEvents) /\ events \in Seq(CalEvents) /\ nextID \in Nat /\ i \in DOMAIN base
      /\ ~toolRaced => base = events /\ CalendarHolds(events, nextID, made)
  BY <1>1, <1>2, ChangerHas DEF ToolAt
<1>4. made' = {e \in made : e.id # base[i].id}
  BY <1>2 DEF DeleteEvent
<1>5. PICK list \in ListsOf(base) : events' = OneOut(list, i)
  BY <1>2 DEF DeleteEvent, OneOut
<1>6. list \in Seq(CalEvents) /\ DOMAIN list = DOMAIN base /\ (base = events => list = events)
  BY <1>3, ListsAre
<1>7. events' \in Seq(CalEvents)
  <2>1. i \in 1 .. Len(list)
    BY <1>3, <1>6
  <2> QED  BY <2>1, <1>5, <1>6, OneLess
<1>8. ASSUME ~toolRaced PROVE CalendarHolds(events', nextID', made')
  <2>1. events' = OneOut(events, i) /\ i \in DOMAIN events /\ nextID' = nextID /\ made' = {e \in made : e.id # events[i].id}
    BY <1>1, <1>3, <1>4, <1>5, <1>6, <1>8
  <2>2. CalendarHolds(OneOut(events, i), nextID, {e \in made : e.id # events[i].id})
    BY <2>1, <1>3, <1>8, OneLessEvent
  <2> QED  BY <2>1, <2>2
<1> QED  BY <1>1, <1>3, <1>7, <1>8, ChangeKeeps

-----------------------------------------------------------------------------
(* The broadcast *)

\* A goroutine of the broadcast is done.
LEMMA sendToChannelKeeps ==
    ASSUME ToolsInv, NEW c \in ToolCallers, NEW ch, sendToChannel(c, ch)
    PROVE  ToolsInv'
<1>1. UNCHANGED <<clock, limiter, admitted, events, nextID, made, toolRaced>> /\ ToolAt(c, "broadcast")
      /\ toolCall' = [toolCall EXCEPT ![c].pending = @ \ {ch}]
  BY DEF sendToChannel
<1>2. PICK q, r : q = toolCall[c] /\ r = [q EXCEPT !.pending = @ \ {ch}]
  OBVIOUS
<1>3. CallSound(q) /\ q.pc = "broadcast"
  BY <1>1, <1>2 DEF ToolsInv, ToolsTypeOK, CallsTyped, ToolAt
<1>4. CallSound(r) /\ r.pc = "broadcast"
  BY ONLY <1>2, <1>3 DEF CallSound, CallPlaces
<1>5. toolCall' = [toolCall EXCEPT ![c] = r]
  BY <1>1, <1>2
<1>6. CallsTyped' /\ CalendarIsWhole'
  BY <1>1, <1>4, <1>5, CallGoesOn DEF CallPlaces
<1> QED  BY <1>1, <1>6, TypedIs DEF ToolsInv

\* A broadcast is over.
LEMMA BroadcastEndsKeeps ==
    ASSUME ToolsInv, NEW c \in ToolCallers, BroadcastEnds(c)
    PROVE  ToolsInv'
<1>1. UNCHANGED <<clock, limiter, admitted, events, nextID, made, toolRaced>> /\ ToolEnds(c)
  BY DEF BroadcastEnds
<1> QED  BY <1>1, CallEnds, TypedIs DEF ToolsInv

\* Time passes, and nothing else.
LEMMA TickKeeps ==
    ASSUME ToolConstants, ToolsInv, Tick
    PROVE  ToolsInv'
<1>1. clock' = clock + 1 /\ UNCHANGED <<limiter, admitted, toolCache, events, nextID, made, toolRaced, toolCall>>
  BY DEF Tick
<1>2. ToolsTypeOK'
  BY <1>1 DEF ToolsInv, ToolsTypeOK, CallsTyped
<1>3. RatesAreKept'
  <2> SUFFICES ASSUME NEW l \in Limiters PROVE RateKept(admitted[l], limiter[l], clock + 1)
    BY <1>1 DEF RatesAreKept
  <2> QED  BY LaterIsKept DEF ToolsInv, ToolsTypeOK, RatesAreKept
<1>4. CalendarIsWhole'
  BY <1>1 DEF ToolsInv, CalendarIsWhole, Changing, ToolAt
<1> QED  BY <1>2, <1>3, <1>4 DEF ToolsInv

\* Nothing happens.
LEMMA ToolsStand ==
    ASSUME ToolsInv, UNCHANGED toolVars
    PROVE  ToolsInv'
<1>1. UNCHANGED <<clock, limiter, admitted, toolCache, events, nextID, made, toolRaced, toolCall>>
  BY DEF toolVars
<1> QED  BY <1>1 DEF ToolsInv, ToolsTypeOK, CallsTyped, RatesAreKept, CalendarIsWhole, Changing, ToolAt

\* At the start nothing was called.
LEMMA ToolsStart ==
    ASSUME ToolConstants, ToolsInit
    PROVE  ToolsInv
<1>1. <<>> \in Seq(CalEvents) /\ <<>> \in Seq(Nat) /\ DOMAIN <<>> = {}
  OBVIOUS
<1>2. /\ clock = 0 /\ limiter = [l \in Limiters |-> <<>>] /\ admitted = [l \in Limiters |-> <<>>]
      /\ events = <<>> /\ nextID = 1 /\ made = {} /\ toolRaced = FALSE /\ toolCall = [c \in ToolCallers |-> NoToolCall]
  BY DEF ToolsInit
<1>3. ToolsTypeOK
  <2>1. CallsTyped
    BY <1>2, NoCallSound DEF CallsTyped
  <2>2. limiter \in [Limiters -> Seq(Nat)] /\ admitted \in [Limiters -> Seq(Nat)]
    BY <1>1, <1>2
  <2> QED  BY <2>1, <2>2, <1>1, <1>2 DEF ToolsTypeOK
<1>4. RatesAreKept
  <2>1. RateKept(<<>>, <<>>, 0)
    BY DEF RateKept
  <2> QED  BY <2>1, <1>2 DEF RatesAreKept
<1>5. CalendarIsWhole
  BY <1>1, <1>2, NoCallSound DEF CalendarIsWhole, CalendarHolds, Changing, ToolAt
<1> QED  BY <1>3, <1>4, <1>5 DEF ToolsInv

\* The inductive invariant of the tools, for every number of callers and every limit.
THEOREM ToolsInvariant == ToolsSpec => []ToolsInv
<1>1. ToolsInit => ToolsInv
  BY ToolConstants, ToolsStart
<1>2. ToolsInv /\ [ToolsNext]_toolVars => ToolsInv'
  BY ToolConstants, CallToolKeeps, getCachedKeeps, ToolBackendKeeps, putCacheKeeps, CalendarReadsKeeps,
     CreateEventKeeps, UpdateEventKeeps, DeleteEventKeeps, sendToChannelKeeps, BroadcastEndsKeeps, TickKeeps,
     ToolsStand DEF ToolsNext
<1> QED  BY <1>1, <1>2, PTL DEF ToolsSpec

\* ToolsAreGoverned, for every number of callers, every limit and every window: no window of
\* time holds more calls than a limiter allows (RateLimiter.Allow), and the calendar holds
\* what was created and not deleted, as it was last updated, until two changes of it overlap
\* (MockCalendarBackend).
THEOREM ToolsAreGovernedHolds == ToolsSpec => []ToolsAreGoverned
<1>1. ToolsInv => ToolsAreGoverned
  <2> SUFFICES ASSUME ToolsInv
               PROVE  ToolsAreGoverned
    OBVIOUS
  <2>1. ASSUME NEW l \in Limiters, NEW t \in 0 .. clock
        PROVE  Cardinality({i \in DOMAIN admitted[l] : admitted[l][i] \in t - RateWindow + 1 .. t}) <= Limit
    <3>1. PICK past, left : past = admitted[l] /\ left = limiter[l]
      OBVIOUS
    <3>2. past \in Seq(Nat) /\ left \in Seq(Nat) /\ RateKept(past, left, clock) /\ t \in Nat
      BY <3>1 DEF ToolsInv, ToolsTypeOK, RatesAreKept
    <3>3. Cardinality({i \in DOMAIN past : past[i] \in t - RateWindow + 1 .. t}) <= Limit
      BY <3>2, ToolConstants, WindowHolds
    <3> QED  BY <3>1, <3>3
  <2>2. ~toolRaced => /\ {events[i] : i \in DOMAIN events} = made
                     /\ \A i, j \in DOMAIN events : events[i].id = events[j].id => i = j
    BY DEF ToolsInv, CalendarIsWhole, CalendarHolds
  <2> QED  BY <2>1, <2>2 DEF ToolsAreGoverned
<1> QED  BY <1>1, ToolsInvariant, PTL


-----------------------------------------------------------------------------
(* The model providers *)

\* The wire formats, and what a reply consists of.
Formats   == OpenAIKinds \cup {"anthropic", "gemini", "bedrock"}
\* What a reply consists of.
PartKinds == {"text", "call", "bare"}

\* Where a streamed reply suffers.
StreamLosesCalls(kind, r) ==
    Len(ToolCalls(r)) > 1 \/ (kind \in {"anthropic", "bedrock"} /\ \E k \in DOMAIN r : r[k] = "call")
\* And where its texts do.
StreamLosesText(kind, r) == kind \in {"anthropic", "bedrock"} /\ \E k \in DOMAIN r : r[k] = "call"

\* The texts before the j-th part.
TextsBefore(r, j) == Ascending({k \in 1 .. (j - 1) : r[k] = "text"})

\* What the accumulator has of the only call of a reply, when the d-th delta of the j-th part
\* is the next.
SeenCalls(seen, r, j, d) ==
    /\ \A k \in 1 .. (j - 1) : r[k] # "text" => seen = <<[id |-> k, args |-> Args(r, k)]>>
    /\ (\A k \in 1 .. (j - 1) : r[k] = "text") =>
          seen = CASE d = 1 -> <<>>
                    [] d = 2 -> <<[id |-> j, args |-> <<>>]>>
                    [] d = 3 -> <<[id |-> j, args |-> << <<j, 1>> >>]>>

\* A stream that has brought j - 1 parts and d - 1 deltas of the j-th.
SoFar(kind, r, j, d, acc) ==
    /\ j \in 1 .. (Len(r) + 1) /\ d \in 1 .. 3
    /\ IF j <= Len(r) THEN d <= Len(Deltas(kind, r, j)) ELSE d = 1
    /\ acc = [text |-> acc.text, calls |-> acc.calls]
    /\ ~StreamLosesText(kind, r) => acc.text = TextsBefore(r, j)
    /\ ~StreamLosesCalls(kind, r) => SeenCalls(acc.calls, r, j, d)

\* A call has its fields and no other.
WholeAsk(call) ==
    call = [pc |-> call.pc, mode |-> call.mode, reply |-> call.reply, i |-> call.i, gen |-> call.gen,
            cancelled |-> call.cancelled, part |-> call.part, delta |-> call.delta, acc |-> call.acc,
            broken |-> call.broken]

\* A message that is what the model said, apart from the known losses.
WholeReply(kind, call) ==
    /\ call.acc = [text |-> call.acc.text, calls |-> call.acc.calls]
    /\ ~CallsSuffer(kind, call) => call.acc.calls = ToolCalls(call.reply)
    /\ ~TextSuffers(kind, call) => call.acc.text = Texts(call.reply)

\* What is true of a call, wherever it is.
AskIsSound(ch, call) ==
    /\ WholeAsk(call) /\ call.pc \in {"idle", "try", "sent", "reading", "done", "failed"}
    /\ call.mode \in {"chat", "stream"} /\ call.reply \in Seq(PartKinds) /\ call.i \in DOMAIN ch
    /\ call.pc \in {"try", "sent"} => call.acc = NoMessage /\ call.part = 1 /\ call.delta = 1
    /\ call.pc = "reading" =>
          call.mode = "stream" /\ SoFar(ch[call.i], call.reply, call.part, call.delta, call.acc)
    /\ call.pc = "done" /\ ~call.broken => WholeReply(ch[call.i], call)

\* The inductive invariant of the providers.
ProvidersInv ==
    /\ chain \in Seq(Formats) \ {<<>>}
    /\ DOMAIN asking = LlmCallers
    /\ \A c \in LlmCallers : AskIsSound(chain, asking[c])

-----------------------------------------------------------------------------
(* Places in order *)

\* The k-th place of a set, in order.
PlaceAt(S, k) == CHOOSE i \in S : Cardinality({j \in S : j < i}) = k - 1

\* A new last place comes last.
LEMMA AscendingAdds ==
    ASSUME NEW m \in Nat, NEW S \in SUBSET (1 .. m)
    PROVE  Ascending(S \cup {m + 1}) = Append(Ascending(S), m + 1)
<1>1. IsFiniteSet(S) /\ Cardinality(S) \in Nat
  <2>1. IsFiniteSet(1 .. m)
    BY FS_Interval
  <2> QED  BY <2>1, FS_Subset, FS_CardinalityType
<1>2. PICK n, U : n = m + 1 /\ U = S \cup {n}
  OBVIOUS
<1>3. n \in Nat /\ n \notin S /\ \A i \in S : i \in Nat /\ i < n
  BY <1>2
<1>4. PICK c : c = Cardinality(S)
  OBVIOUS
<1>5. c \in Nat /\ Cardinality(U) = c + 1
  BY <1>1, <1>2, <1>3, <1>4, FS_AddElement
<1>6. ASSUME NEW i \in S PROVE {j \in U : j < i} = {j \in S : j < i} /\ Cardinality({j \in S : j < i}) < c
  <2>1. {j \in U : j < i} = {j \in S : j < i}
    BY <1>2, <1>3
  <2>2. PICK B : B = {j \in S : j < i}
    OBVIOUS
  <2>3. B \in SUBSET S /\ B # S
    <3>1. i \in Nat /\ i \notin B
      BY <2>2, <1>3
    <3> QED  BY <2>2, <3>1
  <2>4. Cardinality(B) < Cardinality(S)
    <3>1. PICK p, q : p = Cardinality(B) /\ q = Cardinality(S)
      OBVIOUS
    <3>2. p <= q /\ (p = q => B = S)
      BY <2>3, <3>1, <1>1, FS_Subset
    <3>3. p \in Nat /\ q \in Nat
      BY <2>3, <3>1, <1>1, FS_Subset, FS_CardinalityType
    <3> QED  BY <3>1, <3>2, <3>3, <2>3
  <2> QED  BY <2>1, <2>2, <2>4, <1>4
<1>7. {j \in U : j < n} = S
  <2>1. \A j \in U : j < n <=> j \in S
    <3>1. ~(n < n)
      BY <1>3
    <3> QED  BY <3>1, <1>2, <1>3
  <2> QED  BY <2>1, <1>2
<1>8. \A i \in S : Cardinality({j \in S : j < i}) \in Nat
  <2> SUFFICES ASSUME NEW i \in S PROVE Cardinality({j \in S : j < i}) \in Nat
    OBVIOUS
  <2>1. {j \in S : j < i} \in SUBSET S
    OBVIOUS
  <2> QED  BY <2>1, <1>1, FS_Subset, FS_CardinalityType
<1>9. ASSUME NEW k \in 1 .. c
      PROVE (CHOOSE i \in U : Cardinality({j \in U : j < i}) = k - 1) = (CHOOSE i \in S : Cardinality({j \in S : j < i}) = k - 1)
  <2>1. ASSUME NEW x
        PROVE (x \in U /\ Cardinality({j \in U : j < x}) = k - 1) <=> (x \in S /\ Cardinality({j \in S : j < x}) = k - 1)
    <3>1. CASE x \in S
      BY <3>1, <1>2, <1>6
    <3>2. CASE x \notin S
      <4>1. x = n => Cardinality({j \in U : j < x}) = c
        BY <1>4, <1>7
      <4>2. c # k - 1
        BY <1>5
      <4> QED  BY <3>2, <4>1, <4>2, <1>2
    <3> QED  BY <3>1, <3>2
  <2> QED  BY ONLY <2>1
<1>10. (CHOOSE i \in U : Cardinality({j \in U : j < i}) = (c + 1) - 1) = n
  <2>1. ASSUME NEW x PROVE (x \in U /\ Cardinality({j \in U : j < x}) = (c + 1) - 1) <=> x = n
    <3>1. (c + 1) - 1 = c
      BY <1>5
    <3>2. CASE x \in S
      <4>1. Cardinality({j \in U : j < x}) \in Nat /\ Cardinality({j \in U : j < x}) < c
        BY <3>2, <1>6, <1>8
      <4> QED  BY <3>1, <3>2, <4>1, <1>3, <1>5
    <3>3. CASE x \notin S
      BY <3>1, <3>3, <1>2, <1>4, <1>7
    <3> QED  BY <3>2, <3>3
  <2> QED  BY ONLY <2>1
<1>11. PICK a, b : a = Ascending(S) /\ b = Ascending(U)
  OBVIOUS
<1>12. b = [k \in 1 .. (c + 1) |-> PlaceAt(U, k)] /\ a = [k \in 1 .. c |-> PlaceAt(S, k)]
  BY <1>4, <1>5, <1>11 DEF Ascending, PlaceAt
<1>13. /\ DOMAIN b = 1 .. (c + 1) /\ DOMAIN a = 1 .. c
       /\ b = [k \in DOMAIN b |-> b[k]] /\ a = [k \in DOMAIN a |-> a[k]]
       /\ b[c + 1] = n /\ \A k \in 1 .. c : b[k] = a[k]
  <2>1. c + 1 \in 1 .. (c + 1) /\ \A k \in 1 .. c : k \in 1 .. (c + 1)
    BY <1>5
  <2>2. DOMAIN b = 1 .. (c + 1) /\ b = [k \in DOMAIN b |-> b[k]]
    BY ONLY <1>12
  <2>3. DOMAIN a = 1 .. c /\ a = [k \in DOMAIN a |-> a[k]]
    BY ONLY <1>12
  <2>4. b[c + 1] = n
    <3>1. b[c + 1] = PlaceAt(U, c + 1)
      BY ONLY <1>12, <2>1
    <3> QED  BY <3>1, <1>10 DEF PlaceAt
  <2>5. ASSUME NEW k \in 1 .. c PROVE b[k] = a[k]
    <3>1. b[k] = PlaceAt(U, k) /\ a[k] = PlaceAt(S, k)
      BY ONLY <1>12, <2>1
    <3> QED  BY <3>1, <1>9 DEF PlaceAt
  <2> QED  BY <2>2, <2>3, <2>4, <2>5
<1>14. b = Append(a, n)
  <2>1. PICK T : T = {a[k] : k \in 1 .. c} \cup {n}
    OBVIOUS
  <2>2. a \in [1 .. c -> T] /\ n \in T
    BY <2>1, <1>13
  <2>3. a \in Seq(T) /\ Len(a) = c
    BY <2>2, <1>5, SeqDef
  <2>4. PICK e : e = Append(a, n)
    OBVIOUS
  <2>5. DOMAIN e = 1 .. (c + 1) /\ e[c + 1] = n /\ (\A k \in 1 .. c : e[k] = a[k]) /\ e = [k \in DOMAIN e |-> e[k]]
    <3>1. Len(e) = c + 1 /\ e \in Seq(T) /\ e[c + 1] = n
      BY <2>2, <2>3, <2>4, <1>5
    <3>2. \A k \in 1 .. c : e[k] = a[k]
      BY <2>2, <2>3, <2>4, <1>5
    <3> QED  BY <3>1, <3>2
  <2>6. \A k \in 1 .. (c + 1) : k \in 1 .. c \/ k = c + 1
    BY <1>5
  <2>7. \A k \in 1 .. (c + 1) : b[k] = e[k]
    BY <2>5, <2>6, <1>13
  <2> QED  BY <2>4, <2>5, <2>7, <1>13
<1> QED  BY <1>2, <1>11, <1>14

\* No place, and one.
LEMMA AscendingNone == Ascending({}) = <<>>
<1>1. Cardinality({}) = 0
  BY FS_EmptySet
<1>2. \A n \in 1 .. 0 : FALSE
  OBVIOUS
<1> QED  BY <1>1, <1>2 DEF Ascending

\* One place.
LEMMA AscendingOne ==
    ASSUME NEW k \in Nat
    PROVE  Ascending({k}) = <<k>>
<1>1. {j \in {k} : j < k} = {} /\ Cardinality({}) = 0 /\ Cardinality({k}) = 1
  BY FS_EmptySet, FS_Singleton
<1>2. (CHOOSE i \in {k} : Cardinality({j \in {k} : j < i}) = 1 - 1) = k
  <2>1. \A x : (x \in {k} /\ Cardinality({j \in {k} : j < x}) = 1 - 1) <=> x = k
    BY <1>1
  <2> QED  BY ONLY <2>1
<1>3. \A n \in 1 .. 1 : n = 1
  OBVIOUS
<1>4. PICK a : a = Ascending({k})
  OBVIOUS
<1>5. a = [n \in 1 .. 1 |-> PlaceAt({k}, n)]
  BY <1>1, <1>4 DEF Ascending, PlaceAt
<1>6. a[1] = k
  <2>1. 1 \in 1 .. 1
    OBVIOUS
  <2>2. a[1] = PlaceAt({k}, 1)
    BY ONLY <1>5, <2>1
  <2> QED  BY <2>2, <1>2 DEF PlaceAt
<1>7. DOMAIN a = 1 .. 1 /\ a = [n \in DOMAIN a |-> a[n]]
  BY ONLY <1>5
<1> QED  BY <1>3, <1>4, <1>6, <1>7

\* Sorted places are a sequence of something.
LEMMA AscendingIsSeq ==
    ASSUME NEW m \in Nat, NEW S \in SUBSET (1 .. m)
    PROVE  \E T : Ascending(S) \in Seq(T)
<1>1. IsFiniteSet(S) /\ Cardinality(S) \in Nat
  <2>1. IsFiniteSet(1 .. m)
    BY FS_Interval
  <2> QED  BY <2>1, FS_Subset, FS_CardinalityType
<1>2. PICK a, c : a = Ascending(S) /\ c = Cardinality(S)
  OBVIOUS
<1>3. DOMAIN a = 1 .. c /\ a = [k \in DOMAIN a |-> a[k]]
  <2>1. a = [k \in 1 .. c |-> PlaceAt(S, k)]
    BY <1>2 DEF Ascending, PlaceAt
  <2> QED  BY ONLY <2>1
<1>4. a \in [1 .. c -> {a[k] : k \in 1 .. c}]
  BY <1>3
<1>5. a \in Seq({a[k] : k \in 1 .. c})
  BY <1>1, <1>2, <1>4, SeqDef
<1> QED  BY <1>2, <1>5

-----------------------------------------------------------------------------
(* What a reply says *)

\* Before the end come all the texts.
LEMMA TextsAre ==
    ASSUME NEW r \in Seq(PartKinds)
    PROVE  Texts(r) = TextsBefore(r, Len(r) + 1)
<1>1. DOMAIN r = 1 .. Len(r) /\ (Len(r) + 1) - 1 = Len(r)
  OBVIOUS
<1> QED  BY <1>1 DEF Texts, TextsBefore

\* One part more.
LEMMA TextsGrow ==
    ASSUME NEW r, NEW j \in Nat \ {0}
    PROVE  /\ TextsBefore(r, 1) = <<>>
           /\ r[j] = "text" => TextsBefore(r, j + 1) = Append(TextsBefore(r, j), j)
           /\ r[j] # "text" => TextsBefore(r, j + 1) = TextsBefore(r, j)
<1>1. PICK m : m = j - 1
  OBVIOUS
<1>2. m \in Nat /\ m + 1 = j /\ (j + 1) - 1 = j
  BY <1>1
<1>3. PICK S, U : S = {k \in 1 .. m : r[k] = "text"} /\ U = {k \in 1 .. j : r[k] = "text"}
  OBVIOUS
<1>4. TextsBefore(r, j) = Ascending(S) /\ TextsBefore(r, j + 1) = Ascending(U)
  BY <1>1, <1>2, <1>3 DEF TextsBefore
<1>5. \A k : k \in 1 .. j <=> k \in 1 .. m \/ k = j
  BY <1>2
<1>6. ASSUME r[j] = "text" PROVE Ascending(U) = Append(Ascending(S), j)
  <2>1. U = S \cup {m + 1}
    BY <1>2, <1>3, <1>5, <1>6
  <2>2. S \in SUBSET (1 .. m)
    BY <1>3
  <2>3. Ascending(S \cup {m + 1}) = Append(Ascending(S), m + 1)
    BY <2>2, <1>2, AscendingAdds
  <2> QED  BY <2>1, <2>3, <1>2
<1>7. ASSUME r[j] # "text" PROVE U = S
  BY <1>3, <1>5, <1>7
<1>8. TextsBefore(r, 1) = <<>>
  <2>1. {k \in 1 .. (1 - 1) : r[k] = "text"} = {}
    OBVIOUS
  <2> QED  BY <2>1, AscendingNone DEF TextsBefore
<1> QED  BY <1>4, <1>6, <1>7, <1>8

\* A reply with at most one call.
LEMMA OneCallAtMost ==
    ASSUME NEW r \in Seq(PartKinds), ~(Len(ToolCalls(r)) > 1)
    PROVE  /\ (\A k \in DOMAIN r : r[k] = "text") => ToolCalls(r) = <<>>
           /\ \A k \in DOMAIN r : r[k] # "text" =>
                 /\ ToolCalls(r) = <<[id |-> k, args |-> Args(r, k)]>>
                 /\ \A i \in DOMAIN r : r[i] # "text" => i = k
<1>1. PICK n, S : n = Len(r) /\ S = {k \in DOMAIN r : r[k] # "text"}
  OBVIOUS
<1>2. n \in Nat /\ DOMAIN r = 1 .. n /\ S \in SUBSET (1 .. n)
  BY <1>1
<1>3. IsFiniteSet(S) /\ Cardinality(S) \in Nat
  <2>1. IsFiniteSet(1 .. n)
    BY <1>2, FS_Interval
  <2> QED  BY <2>1, <1>2, FS_Subset, FS_CardinalityType
<1>4. PICK a, t, c : a = Requested(r) /\ t = ToolCalls(r) /\ c = Cardinality(S)
  OBVIOUS
<1>5. a = Ascending(S) /\ t = [m \in DOMAIN a |-> [id |-> a[m], args |-> Args(r, a[m])]]
  BY <1>1, <1>4 DEF Requested, ToolCalls
<1>6. DOMAIN a = 1 .. c
  <2>1. a = [k \in 1 .. c |-> PlaceAt(S, k)]
    BY <1>4, <1>5 DEF Ascending, PlaceAt
  <2> QED  BY ONLY <2>1
<1>7. c <= 1 /\ c \in Nat
  <2>1. t \in [1 .. c -> {t[m] : m \in 1 .. c}]
    BY <1>5, <1>6
  <2>2. t \in Seq({t[m] : m \in 1 .. c}) /\ Len(t) = c
    BY <2>1, <1>3, <1>4, SeqDef
  <2> QED  BY <2>2, <1>3, <1>4
<1>8. ASSUME \A k \in DOMAIN r : r[k] = "text" PROVE t = <<>>
  <2>1. S = {}
    BY <1>1, <1>8
  <2>2. a = <<>>
    BY <2>1, <1>5, AscendingNone
  <2>3. DOMAIN a = {}
    BY <2>2
  <2> QED  BY <2>3, <1>5
<1>9. ASSUME NEW k \in DOMAIN r, r[k] # "text"
      PROVE  t = <<[id |-> k, args |-> Args(r, k)]>> /\ \A i \in DOMAIN r : r[i] # "text" => i = k
  <2>1. PICK T : T = {k}
    OBVIOUS
  <2>2. T \in SUBSET S /\ Cardinality(T) = 1
    BY <2>1, <1>1, <1>9, FS_Singleton
  <2>3. Cardinality(T) <= Cardinality(S) /\ (Cardinality(S) = Cardinality(T) => S = T)
    BY <2>2, <1>3, FS_Subset
  <2>4. S = T
    BY <2>2, <2>3, <1>4, <1>7
  <2>5. a = <<k>>
    BY <2>1, <2>4, <1>2, <1>5, AscendingOne
  <2>6. DOMAIN a = 1 .. 1 /\ a[1] = k
    BY <2>5
  <2>7. t = [m \in 1 .. 1 |-> [id |-> k, args |-> Args(r, k)]]
    <3>1. \A m \in 1 .. 1 : a[m] = k
      BY <2>6
    <3> QED  BY <3>1, <2>6, <1>5
  <2>8. t = <<[id |-> k, args |-> Args(r, k)]>>
    BY <2>7
  <2> QED  BY <2>1, <2>4, <2>8, <1>1
<1> QED  BY <1>4, <1>8, <1>9

-----------------------------------------------------------------------------
(* Streams *)

\* What the providers make of the j-th part.
AreDeltas(ds, kind, r, j) ==
    /\ r[j] = "text" => ds = <<Content(<<j>>)>>
    /\ r[j] = "bare" \/ (r[j] = "call" /\ kind = "gemini") => ds = <<CallDelta(j, Args(r, j))>>
    /\ r[j] = "call" /\ kind \in OpenAIKinds =>
          ds = <<CallDelta(j, <<>>), CallDelta(NoCallID, << <<j, 1>> >>), CallDelta(NoCallID, << <<j, 2>> >>)>>
    /\ r[j] = "call" /\ kind \in {"anthropic", "bedrock"} =>
          ds = <<CallDelta(j, <<>>), Content(<< <<j, 1>> >>), Content(<< <<j, 2>> >>)>>

\* It is what Deltas says.
LEMMA DeltasAre ==
    ASSUME NEW kind \in Formats, NEW r, NEW j, r[j] \in PartKinds, NEW ds, ds = Deltas(kind, r, j)
    PROVE  AreDeltas(ds, kind, r, j)
BY DEF AreDeltas, Formats, PartKinds, OpenAIKinds, Deltas, openaiDeltas, anthropicDeltas, geminiDeltas,
       processBedrockStreamEvent, Args

\* Text is appended.
LEMMA AddedText ==
    ASSUME NEW acc, NEW d
    PROVE  /\ addDelta(acc, d).text = acc.text \o d.content
           /\ addDelta(acc, d) = [text |-> addDelta(acc, d).text, calls |-> addDelta(acc, d).calls]
BY DEF addDelta

\* Content leaves the calls alone.
LEMMA AddedContent ==
    ASSUME NEW acc, NEW s, NEW x, acc.calls \in {<<>>, <<x>>}, NEW d, d = Content(s), NEW b, b = addDelta(acc, d)
    PROVE  b.calls = acc.calls
<1>1. d.calls = <<>> /\ Len(<<>>) = 0
  BY DEF Content
<1>2. CASE acc.calls = <<>>
  BY <1>1, <1>2, ProviderConstants DEF addDelta
<1>3. CASE acc.calls = <<x>>
  BY <1>1, <1>3, ProviderConstants DEF addDelta
<1> QED  BY <1>2, <1>3

\* A first call begins.
LEMMA AddedFirst ==
    ASSUME NEW acc, NEW k \in Nat \ {0}, NEW T, NEW a \in Seq(T), acc.calls = <<>>,
           NEW d, d = CallDelta(k, a), NEW b, b = addDelta(acc, d)
    PROVE  b.calls = <<[id |-> k, args |-> a]>>
<1>1. maxToolCallsPerDelta \in Nat \ {0}
  BY ProviderConstants
<1>2. d.calls = <<[id |-> k, args |-> a]>> /\ Len(d.calls) = 1 /\ d.calls[1] = [id |-> k, args |-> a]
  BY DEF CallDelta
<1>3. b.calls = [i \in 1 .. 1 |-> Merged([id |-> NoCallID, args |-> <<>>], d.calls[i])]
  BY <1>1, <1>2 DEF addDelta
<1>4. Merged([id |-> NoCallID, args |-> <<>>], [id |-> k, args |-> a]) = [id |-> k, args |-> a]
  <2>1. <<>> \o a = a
    OBVIOUS
  <2> QED  BY <2>1 DEF Merged, NoCallID
<1>5. \A i \in 1 .. 1 : d.calls[i] = [id |-> k, args |-> a]
  BY <1>2
<1>6. b.calls = [i \in 1 .. 1 |-> [id |-> k, args |-> a]]
  BY <1>3, <1>4, <1>5
<1> QED  BY <1>6

\* One call, with what has come of its arguments.
OneCall(acc, k, args) == acc.calls = <<[id |-> k, args |-> args]>>

\* The arguments of a call go on.
LEMMA AddedMore ==
    ASSUME NEW acc, NEW k \in Nat \ {0}, NEW a, NEW old, OneCall(acc, k, old),
           NEW d, d = CallDelta(NoCallID, a), NEW b, b = addDelta(acc, d)
    PROVE  OneCall(b, k, old \o a)
<1>0. PICK both : both = old \o a
  OBVIOUS
<1>1. maxToolCallsPerDelta \in Nat \ {0}
  BY ProviderConstants
<1>2. PICK o, x, m : /\ o = [id |-> k, args |-> old] /\ x = [id |-> NoCallID, args |-> a]
                     /\ m = [id |-> k, args |-> both]
  OBVIOUS
<1>3. d.calls = <<x>> /\ Len(d.calls) = 1 /\ acc.calls = <<o>> /\ Len(acc.calls) = 1
  BY <1>2 DEF CallDelta, OneCall
<1>4. b.calls = [i \in 1 .. 1 |-> Merged(acc.calls[i], d.calls[i])]
  BY <1>1, <1>3 DEF addDelta
<1>5. Merged(o, x) = m
  BY <1>0, <1>2 DEF Merged, NoCallID
<1>6. \A i \in 1 .. 1 : Merged(acc.calls[i], d.calls[i]) = m
  <2> SUFFICES ASSUME NEW i \in 1 .. 1 PROVE Merged(acc.calls[i], d.calls[i]) = m
    OBVIOUS
  <2>1. acc.calls[i] = o /\ d.calls[i] = x
    BY <1>3
  <2> QED  BY <2>1, <1>5
<1>7. b.calls = [i \in 1 .. 1 |-> m]
  BY ONLY <1>4, <1>6
<1>8. b.calls = <<m>>
  BY <1>7
<1> QED  BY <1>0, <1>2, <1>8 DEF OneCall

\* What the next delta adds to the texts.
LEMMA TextKeeps ==
    ASSUME NEW kind \in Formats, NEW r \in Seq(PartKinds), NEW j \in 1 .. Len(r), NEW d, NEW acc,
           SoFar(kind, r, j, d, acc), ~StreamLosesText(kind, r), NEW ds, ds = Deltas(kind, r, j),
           NEW b, b = addDelta(acc, ds[d])
    PROVE  b.text = IF d = Len(ds) THEN TextsBefore(r, j + 1) ELSE TextsBefore(r, j)
<1>1. /\ j \in Nat \ {0} /\ r[j] \in PartKinds /\ j <= Len(r) /\ DOMAIN r = 1 .. Len(r) /\ j \in DOMAIN r
      /\ d \in 1 .. 3 /\ d <= Len(ds)
  BY DEF SoFar
<1>2. PICK t, m : t = TextsBefore(r, j) /\ m = j - 1
  OBVIOUS
<1>3. acc.text = t
  BY <1>2 DEF SoFar
<1>4. PICK T : t \in Seq(T)
  <2>1. m \in Nat
    BY <1>1, <1>2
  <2>2. {k \in 1 .. m : r[k] = "text"} \in SUBSET (1 .. m)
    OBVIOUS
  <2> QED  BY <2>1, <2>2, <1>2, AscendingIsSeq DEF TextsBefore
<1>5. b.text = t \o ds[d].content
  BY <1>3, AddedText
<1>0. AreDeltas(ds, kind, r, j)
  BY <1>1, DeltasAre
<1>6. CASE r[j] = "text"
  <2>1. ds = <<Content(<<j>>)>>
    BY <1>0, <1>6 DEF AreDeltas
  <2>2. Len(ds) = 1 /\ d = 1 /\ ds[1].content = <<j>>
    BY <2>1, <1>1 DEF Content
  <2>3. t \o <<j>> = Append(t, j)
    <3>1. t \in Seq(T \cup {j}) /\ j \in T \cup {j}
      BY <1>4
    <3> QED  BY <3>1
  <2> QED  BY <2>2, <2>3, <1>1, <1>2, <1>5, <1>6, TextsGrow
<1>7. CASE r[j] # "text"
  <2>1. kind \in OpenAIKinds \/ kind = "gemini" \/ r[j] = "bare"
    BY <1>1, <1>7 DEF StreamLosesText, PartKinds, Formats
  <2>2. \A n \in 1 .. Len(ds) : ds[n].content = <<>>
    <3>1. CASE r[j] = "bare" \/ kind = "gemini"
      <4>1. ds = <<CallDelta(j, Args(r, j))>>
        BY <3>1, <1>0, <1>1, <1>7 DEF AreDeltas, PartKinds
      <4>2. \A n \in 1 .. Len(ds) : n = 1
        BY <4>1
      <4> QED  BY <4>1, <4>2 DEF CallDelta
    <3>2. CASE r[j] = "call" /\ kind \in OpenAIKinds
      <4>1. ds = <<CallDelta(j, <<>>), CallDelta(NoCallID, << <<j, 1>> >>), CallDelta(NoCallID, << <<j, 2>> >>)>>
        BY <3>2, <1>0 DEF AreDeltas
      <4>2. \A n \in 1 .. Len(ds) : n \in {1, 2, 3}
        BY <4>1
      <4> QED  BY <4>1, <4>2 DEF CallDelta
    <3> QED  BY <3>1, <3>2, <2>1, <1>1, <1>7 DEF PartKinds
  <2>3. t \o <<>> = t
    BY <1>4
  <2>4. TextsBefore(r, j + 1) = t
    BY <1>1, <1>2, <1>7, TextsGrow
  <2>5. ds[d].content = <<>>
    BY <2>2, <1>1
  <2> QED  BY <2>3, <2>4, <2>5, <1>2, <1>5
<1> QED  BY <1>6, <1>7

\* What the next delta adds to the calls.
LEMMA CallsKeep ==
    ASSUME NEW kind \in Formats, NEW r \in Seq(PartKinds), NEW j \in 1 .. Len(r), NEW d, NEW acc,
           SoFar(kind, r, j, d, acc), ~StreamLosesCalls(kind, r), NEW ds, ds = Deltas(kind, r, j),
           NEW b, b = addDelta(acc, ds[d])
    PROVE  IF d = Len(ds) THEN SeenCalls(b.calls, r, j + 1, 1) ELSE SeenCalls(b.calls, r, j, d + 1)
<1>1. /\ j \in Nat \ {0} /\ r[j] \in PartKinds /\ j <= Len(r) /\ DOMAIN r = 1 .. Len(r) /\ j \in DOMAIN r
      /\ d \in 1 .. 3 /\ d <= Len(ds)
  BY DEF SoFar
<1>2. /\ \A k \in 1 .. (j - 1) : r[k] # "text" => acc.calls = <<[id |-> k, args |-> Args(r, k)]>>
      /\ (\A k \in 1 .. (j - 1) : r[k] = "text") =>
            acc.calls = CASE d = 1 -> <<>>
                          [] d = 2 -> <<[id |-> j, args |-> <<>>]>>
                          [] d = 3 -> <<[id |-> j, args |-> << <<j, 1>> >>]>>
  BY DEF SoFar, SeenCalls
<1>3. /\ (j + 1) - 1 = j /\ \A k : k \in 1 .. j <=> k \in 1 .. (j - 1) \/ k = j
      /\ \A k \in 1 .. (j - 1) : k \in DOMAIN r /\ k # j
  BY <1>1
<1>0. AreDeltas(ds, kind, r, j)
  BY <1>1, DeltasAre
<1>4. CASE r[j] = "text"
  <2>1. ds = <<Content(<<j>>)>>
    BY <1>0, <1>4 DEF AreDeltas
  <2>2. Len(ds) = 1 /\ d = 1 /\ ds[1] = Content(<<j>>)
    BY <2>1, <1>1
  <2>3. ASSUME NEW k \in 1 .. (j - 1), r[k] # "text" PROVE b.calls = <<[id |-> k, args |-> Args(r, k)]>>
    <3>1. PICK x : x = [id |-> k, args |-> Args(r, k)]
      OBVIOUS
    <3>2. acc.calls = <<x>>
      BY <2>3, <3>1, <1>2
    <3>3. PICK d1, s : d1 = ds[d] /\ s = <<j>>
      OBVIOUS
    <3>5. acc.calls \in {<<>>, <<x>>} /\ d1 = Content(s) /\ b = addDelta(acc, d1)
      BY <3>2, <3>3, <2>2
    <3>4. b.calls = acc.calls
      BY <3>5, AddedContent
    <3> QED  BY <3>1, <3>2, <3>4
  <2>4. ASSUME \A k \in 1 .. (j - 1) : r[k] = "text" PROVE b.calls = <<>>
    <3>1. acc.calls = <<>>
      BY <2>2, <2>4, <1>2
    <3>2. PICK d1, s : d1 = ds[d] /\ s = <<j>>
      OBVIOUS
    <3>4. acc.calls \in {<<>>, <<s>>} /\ d1 = Content(s) /\ b = addDelta(acc, d1)
      BY <3>1, <3>2, <2>2
    <3>3. b.calls = acc.calls
      BY <3>4, AddedContent
    <3> QED  BY <3>1, <3>3
  <2> QED  BY <2>2, <2>3, <2>4, <1>3, <1>4 DEF SeenCalls
<1>5. CASE r[j] # "text"
  <2>1. ~(Len(ToolCalls(r)) > 1)
    BY DEF StreamLosesCalls
  <2>2. \A k \in 1 .. (j - 1) : r[k] = "text"
    BY <2>1, <1>1, <1>3, <1>5, OneCallAtMost
  <2>3. acc.calls = CASE d = 1 -> <<>>
                      [] d = 2 -> <<[id |-> j, args |-> <<>>]>>
                      [] d = 3 -> <<[id |-> j, args |-> << <<j, 1>> >>]>>
    BY <2>2, <1>2
  <2>4. <<>> \in Seq(Seq(Nat)) /\ << <<j, 1>> >> \in Seq(Seq(Nat)) /\ << <<j, 2>> >> \in Seq(Seq(Nat))
        /\ << <<j, 1>>, <<j, 2>> >> \in Seq(Seq(Nat))
    BY <1>1
  <2>5. kind \in OpenAIKinds \/ kind = "gemini" \/ r[j] = "bare"
    BY <1>1, <1>5 DEF StreamLosesCalls, PartKinds, Formats
  <2>6. CASE r[j] = "bare" \/ kind = "gemini"
    <3>1. ds = <<CallDelta(j, Args(r, j))>>
      BY <2>6, <1>0, <1>1, <1>5 DEF AreDeltas, PartKinds
    <3>2. Len(ds) = 1 /\ d = 1 /\ ds[1] = CallDelta(j, Args(r, j))
      BY <3>1, <1>1
    <3>3. Args(r, j) \in Seq(Seq(Nat))
      BY <2>4 DEF Args
    <3>4. acc.calls = <<>>
      BY <2>3, <3>2
    <3>5. b.calls = <<[id |-> j, args |-> Args(r, j)]>>
      <4>1. PICK a, d1 : a = Args(r, j) /\ d1 = ds[d]
        OBVIOUS
      <4>2. a \in Seq(Seq(Nat)) /\ d1 = CallDelta(j, a) /\ b = addDelta(acc, d1)
        BY <4>1, <3>2, <3>3
      <4>3. b.calls = <<[id |-> j, args |-> a]>>
        BY <4>2, <3>4, <1>1, AddedFirst
      <4> QED  BY <4>1, <4>3
    <3> QED  BY <3>2, <3>5, <2>2, <1>3, <1>5 DEF SeenCalls
  <2>7. CASE r[j] = "call" /\ kind \in OpenAIKinds
    <3>1. ds = <<CallDelta(j, <<>>), CallDelta(NoCallID, << <<j, 1>> >>), CallDelta(NoCallID, << <<j, 2>> >>)>>
      BY <2>7, <1>0 DEF AreDeltas
    <3>2. Len(ds) = 3 /\ ds[1] = CallDelta(j, <<>>) /\ ds[2] = CallDelta(NoCallID, << <<j, 1>> >>)
          /\ ds[3] = CallDelta(NoCallID, << <<j, 2>> >>)
      BY <3>1
    <3>3. CASE d = 1
      <4>1. acc.calls = <<>>
        BY <2>3, <3>3
      <4>2. b.calls = <<[id |-> j, args |-> <<>>]>>
        <5>1. PICK a, d1 : a = <<>> /\ d1 = ds[d]
          OBVIOUS
        <5>2. a \in Seq(Seq(Nat)) /\ d1 = CallDelta(j, a) /\ b = addDelta(acc, d1)
          BY <5>1, <3>2, <3>3, <2>4
        <5>3. b.calls = <<[id |-> j, args |-> a]>>
          BY <5>2, <4>1, <1>1, AddedFirst
        <5> QED  BY <5>1, <5>3
      <4> QED  BY <4>2, <3>2, <3>3, <2>2, <1>3 DEF SeenCalls
    <3>4. CASE d = 2
      <4>1. acc.calls = <<[id |-> j, args |-> <<>>]>>
        BY <2>3, <3>4
      <4>2. <<>> \o << <<j, 1>> >> = << <<j, 1>> >>
        OBVIOUS
      <4>3. b.calls = <<[id |-> j, args |-> << <<j, 1>> >>]>>
        <5>1. PICK a, old, d1 : a = << <<j, 1>> >> /\ old = <<>> /\ d1 = ds[d]
          OBVIOUS
        <5>2. a = old \o a /\ d1 = CallDelta(NoCallID, a) /\ b = addDelta(acc, d1) /\ OneCall(acc, j, old)
          BY <5>1, <4>1, <4>2, <3>2, <3>4 DEF OneCall
        <5>3. OneCall(b, j, old \o a)
          BY <5>2, <1>1, AddedMore
        <5> QED  BY <5>1, <5>2, <5>3 DEF OneCall
      <4> QED  BY <4>3, <3>2, <3>4, <2>2, <1>3 DEF SeenCalls
    <3>5. CASE d = 3
      <4>1. acc.calls = <<[id |-> j, args |-> << <<j, 1>> >>]>>
        BY <2>3, <3>5
      <4>2. << <<j, 1>> >> \o << <<j, 2>> >> = << <<j, 1>>, <<j, 2>> >>
        <5>1. PICK x, y : x = <<j, 1>> /\ y = <<j, 2>>
          OBVIOUS
        <5>2. <<x>> \o <<y>> = <<x, y>>
          <6>1. PICK T, p, q, e : T = {x, y} /\ p = <<x>> /\ q = <<y>> /\ e = p \o q
            OBVIOUS
          <6>2. p \in Seq(T) /\ q \in Seq(T) /\ Len(p) = 1 /\ Len(q) = 1 /\ p[1] = x /\ q[1] = y
            BY ONLY <6>1
          <6>3. e \in Seq(T) /\ Len(e) = 2 /\ e[1] = x /\ e[2] = y
            BY ONLY <6>1, <6>2
          <6>4. e = <<x, y>>
            BY ONLY <6>3
          <6> QED  BY ONLY <6>1, <6>4
        <5> QED  BY ONLY <5>1, <5>2
      <4>3. b.calls = <<[id |-> j, args |-> Args(r, j)]>>
        <5>1. PICK a, old, d1, both : /\ a = << <<j, 2>> >> /\ old = << <<j, 1>> >> /\ d1 = ds[d]
                                      /\ both = << <<j, 1>>, <<j, 2>> >>
          OBVIOUS
        <5>2. both = old \o a /\ d1 = CallDelta(NoCallID, a) /\ b = addDelta(acc, d1) /\ OneCall(acc, j, old)
          BY <5>1, <4>1, <4>2, <3>2, <3>5 DEF OneCall
        <5>3. OneCall(b, j, old \o a)
          BY <5>2, <1>1, AddedMore
        <5> QED  BY <5>1, <5>2, <5>3, <2>7 DEF Args, OneCall
      <4> QED  BY <4>3, <3>2, <3>5, <2>2, <1>3, <1>5 DEF SeenCalls
    <3> QED  BY <3>3, <3>4, <3>5, <1>1
  <2> QED  BY <2>5, <2>6, <2>7, <1>1, <1>5 DEF PartKinds
<1> QED  BY <1>4, <1>5

\* The next delta.
LEMMA DeltaKeeps ==
    ASSUME NEW kind \in Formats, NEW r \in Seq(PartKinds), NEW j \in 1 .. Len(r), NEW d, NEW acc,
           SoFar(kind, r, j, d, acc), NEW ds, ds = Deltas(kind, r, j), NEW b, b = addDelta(acc, ds[d])
    PROVE  IF d = Len(ds) THEN SoFar(kind, r, j + 1, 1, b) ELSE SoFar(kind, r, j, d + 1, b)
<1>1. /\ j \in Nat \ {0} /\ r[j] \in PartKinds /\ j <= Len(r) /\ d \in 1 .. 3 /\ d <= Len(ds)
      /\ Len(r) \in Nat
  BY DEF SoFar
<1>2. Len(ds) \in 1 .. 3
  <2>1. \/ ds = <<Content(<<j>>)>> \/ ds = <<CallDelta(j, Args(r, j))>>
        \/ ds = <<CallDelta(j, <<>>), CallDelta(NoCallID, << <<j, 1>> >>), CallDelta(NoCallID, << <<j, 2>> >>)>>
        \/ ds = <<CallDelta(j, <<>>), Content(<< <<j, 1>> >>), Content(<< <<j, 2>> >>)>>
    <3>1. AreDeltas(ds, kind, r, j)
      BY <1>1, DeltasAre
    <3>2. kind \in OpenAIKinds \/ kind = "gemini" \/ kind \in {"anthropic", "bedrock"}
      BY DEF Formats
    <3>3. CASE r[j] = "text"
      BY <3>1, <3>3 DEF AreDeltas
    <3>4. CASE r[j] = "bare"
      BY <3>1, <3>4 DEF AreDeltas
    <3>5. CASE r[j] = "call"
      BY <3>1, <3>2, <3>5 DEF AreDeltas
    <3> QED  BY <3>3, <3>4, <3>5, <1>1 DEF PartKinds
  <2> QED  BY <2>1
<1>3. \A k \in 1 .. Len(r) : Len(Deltas(kind, r, k)) >= 1
  <2> SUFFICES ASSUME NEW k \in 1 .. Len(r) PROVE Len(Deltas(kind, r, k)) >= 1
    OBVIOUS
  <2>0. r[k] \in PartKinds
    OBVIOUS
  <2>1. PICK e : e = Deltas(kind, r, k)
    OBVIOUS
  <2>2. \/ e = <<Content(<<k>>)>> \/ e = <<CallDelta(k, Args(r, k))>>
        \/ e = <<CallDelta(k, <<>>), CallDelta(NoCallID, << <<k, 1>> >>), CallDelta(NoCallID, << <<k, 2>> >>)>>
        \/ e = <<CallDelta(k, <<>>), Content(<< <<k, 1>> >>), Content(<< <<k, 2>> >>)>>
    <3>1. AreDeltas(e, kind, r, k)
      BY <2>0, <2>1, DeltasAre
    <3>2. kind \in OpenAIKinds \/ kind = "gemini" \/ kind \in {"anthropic", "bedrock"}
      BY DEF Formats
    <3>3. CASE r[k] = "text"
      BY <3>1, <3>3 DEF AreDeltas
    <3>4. CASE r[k] = "bare"
      BY <3>1, <3>4 DEF AreDeltas
    <3>5. CASE r[k] = "call"
      BY <3>1, <3>2, <3>5 DEF AreDeltas
    <3> QED  BY <3>3, <3>4, <3>5, <2>0 DEF PartKinds
  <2>3. Len(e) >= 1
    BY <2>2
  <2> QED  BY <2>1, <2>3
<1>4. b = [text |-> b.text, calls |-> b.calls]
  BY AddedText
<1>5. CASE d = Len(ds)
  <2>1. j + 1 \in 1 .. (Len(r) + 1) /\ 1 \in 1 .. 3 /\ (j + 1 <= Len(r) => j + 1 \in 1 .. Len(r))
    BY <1>1
  <2>2. IF j + 1 <= Len(r) THEN 1 <= Len(Deltas(kind, r, j + 1)) ELSE 1 = 1
    BY <2>1, <1>3
  <2>3. ~StreamLosesText(kind, r) => b.text = TextsBefore(r, j + 1)
    BY <1>5, TextKeeps
  <2>4. ~StreamLosesCalls(kind, r) => SeenCalls(b.calls, r, j + 1, 1)
    BY <1>5, CallsKeep
  <2>5. SoFar(kind, r, j + 1, 1, b)
    BY <2>1, <2>2, <2>3, <2>4, <1>4 DEF SoFar
  <2> QED  BY <2>5, <1>5
<1>6. CASE d # Len(ds)
  <2>0. PICK n, l : n = Len(ds) /\ l = Len(r)
    OBVIOUS
  <2>1. j \in 1 .. (Len(r) + 1) /\ d + 1 \in 1 .. 3 /\ d + 1 <= Len(ds)
    <3>1. n \in 1 .. 3 /\ d \in 1 .. 3 /\ d <= n /\ d # n /\ l \in Nat /\ j \in 1 .. l
      BY <2>0, <1>1, <1>2, <1>6
    <3>2. d + 1 \in 1 .. 3 /\ d + 1 <= n /\ j \in 1 .. (l + 1)
      BY ONLY <3>1
    <3> QED  BY <3>2, <2>0
  <2>2. ~StreamLosesText(kind, r) => b.text = TextsBefore(r, j)
    BY <1>6, TextKeeps
  <2>3. ~StreamLosesCalls(kind, r) => SeenCalls(b.calls, r, j, d + 1)
    BY <1>6, CallsKeep
  <2>4. SoFar(kind, r, j, d + 1, b)
    BY <2>1, <2>2, <2>3, <1>1, <1>4 DEF SoFar
  <2> QED  BY <2>4, <1>6
<1> QED  BY <1>5, <1>6

-----------------------------------------------------------------------------
(* Calls *)

\* A call goes on soundly, and the others stay.
LEMMA AskGoesOn ==
    ASSUME ProvidersInv, UNCHANGED chain, NEW c \in LlmCallers, NEW r,
           asking' = [asking EXCEPT ![c] = r], AskIsSound(chain, r)
    PROVE  ProvidersInv'
<1>1. DOMAIN asking' = LlmCallers /\ asking'[c] = r /\ \A d \in LlmCallers : d # c => asking'[d] = asking[d]
  BY DEF ProvidersInv
<1>2. ASSUME NEW d \in LlmCallers PROVE AskIsSound(chain, asking'[d])
  <2>1. CASE d = c
    BY <2>1, <1>1
  <2>2. CASE d # c
    BY <2>2, <1>1 DEF ProvidersInv
  <2> QED  BY <2>1, <2>2
<1> QED  BY <1>1, <1>2 DEF ProvidersInv

\* What is known of a call and its provider.
LEMMA AskIs ==
    ASSUME ProvidersInv, NEW c \in LlmCallers
    PROVE  /\ AskIsSound(chain, asking[c]) /\ chain \in Seq(Formats)
           /\ Provider(c) = asking[c].i /\ chain[asking[c].i] \in Formats
<1>1. AskIsSound(chain, asking[c]) /\ chain \in Seq(Formats)
  BY DEF ProvidersInv
<1>2. asking[c].i \in DOMAIN chain
  BY <1>1 DEF AskIsSound
<1> QED  BY <1>1, <1>2 DEF Provider

\* A caller that asks nothing.
LEMMA QuietIsSound ==
    ASSUME ProvidersInv \/ chain \in Seq(Formats) \ {<<>>}
    PROVE  AskIsSound(chain, Quiet)
<1>1. chain \in Seq(Formats) /\ chain # <<>>
  BY DEF ProvidersInv
<1>2. 1 \in DOMAIN chain
  BY <1>1
<1>3. <<>> \in Seq(PartKinds)
  OBVIOUS
<1> QED  BY <1>2, <1>3 DEF AskIsSound, WholeAsk, Quiet

\* The next provider is asked from the start, or there is none.
LEMMA NextIsSound ==
    ASSUME ProvidersInv, NEW c \in LlmCallers, asking[c].pc \in {"try", "sent"}
    PROVE  AskIsSound(chain, NextProvider(c))
<1>1. PICK call, r : call = asking[c] /\ r = NextProvider(c)
  OBVIOUS
<1>2. AskIsSound(chain, call) /\ chain \in Seq(Formats) /\ Provider(c) = call.i
  BY <1>1, AskIs
<1>3. r = IF call.i < Len(chain) THEN [call EXCEPT !.i = @ + 1, !.pc = "try"] ELSE [call EXCEPT !.pc = "failed"]
  BY <1>1, <1>2 DEF NextProvider
<1>4. /\ WholeAsk(call) /\ call.mode \in {"chat", "stream"} /\ call.reply \in Seq(PartKinds) /\ call.i \in DOMAIN chain
      /\ call.acc = NoMessage /\ call.part = 1 /\ call.delta = 1
  BY <1>1, <1>2 DEF AskIsSound
<1>5. CASE call.i < Len(chain)
  <2>1. call.i + 1 \in DOMAIN chain
    BY <1>2, <1>4, <1>5
  <2>2. /\ WholeAsk(r) /\ r.pc = "try" /\ r.i = call.i + 1 /\ r.mode = call.mode /\ r.reply = call.reply
        /\ r.acc = call.acc /\ r.part = call.part /\ r.delta = call.delta
    BY <1>3, <1>4, <1>5 DEF WholeAsk
  <2>3. AskIsSound(chain, r)
    BY <2>1, <2>2, <1>4 DEF AskIsSound
  <2> QED  BY <2>3, <1>1
<1>6. CASE ~(call.i < Len(chain))
  <2>2. WholeAsk(r) /\ r.pc = "failed" /\ r.i = call.i /\ r.mode = call.mode /\ r.reply = call.reply
    BY <1>3, <1>4, <1>6 DEF WholeAsk
  <2>3. AskIsSound(chain, r)
    BY <2>2, <1>4 DEF AskIsSound
  <2> QED  BY <2>3, <1>1
<1> QED  BY <1>5, <1>6

\* Somebody asks.
LEMMA AskKeeps ==
    ASSUME ProvidersInv, NEW c \in LlmCallers, NEW mode \in {"chat", "stream"}, NEW q \in Replies, Ask(c, mode, q)
    PROVE  ProvidersInv'
<1>1. PICK r : r = [Quiet EXCEPT !.pc = "try", !.mode = mode, !.reply = q]
  OBVIOUS
<1>2. asking' = [asking EXCEPT ![c] = r] /\ UNCHANGED chain
  BY <1>1 DEF Ask
<1>3. /\ WholeAsk(r) /\ r.pc = "try" /\ r.i = 1 /\ r.mode = mode /\ r.reply = q
      /\ r.acc = NoMessage /\ r.part = 1 /\ r.delta = 1
  BY <1>1 DEF Quiet, WholeAsk
<1>4. q \in Seq(PartKinds)
  BY ProviderConstants DEF PartKinds
<1>5. 1 \in DOMAIN chain
  BY DEF ProvidersInv
<1>6. AskIsSound(chain, r)
  BY <1>3, <1>4, <1>5 DEF AskIsSound
<1> QED  BY <1>2, <1>6, AskGoesOn

\* The breaker lets a call through or refuses it.
LEMMA AttemptKeeps ==
    ASSUME ProvidersInv, NEW c \in LlmCallers, Attempt(c)
    PROVE  ProvidersInv'
<1>0. asking[c].pc = "try" /\ UNCHANGED chain
  BY DEF Attempt, AtCall
<1>1. CASE Passes(breaker[Provider(c)])
  <2>1. PICK call, r : call = asking[c] /\ r = [call EXCEPT !.pc = "sent", !.gen = breaker[Provider(c)].gen]
    OBVIOUS
  <2>2. asking' = [asking EXCEPT ![c] = r]
    BY <2>1, <1>1 DEF Attempt
  <2>3. AskIsSound(chain, call) /\ call.pc = "try"
    BY <2>1, <1>0, AskIs
  <2>4. /\ WholeAsk(r) /\ r.pc = "sent" /\ r.i = call.i /\ r.mode = call.mode /\ r.reply = call.reply
        /\ r.acc = call.acc /\ r.part = call.part /\ r.delta = call.delta
    BY <2>1, <2>3 DEF AskIsSound, WholeAsk
  <2>5. AskIsSound(chain, r)
    BY <2>3, <2>4 DEF AskIsSound
  <2> QED  BY <2>2, <2>5, <1>0, AskGoesOn
<1>2. CASE ~Passes(breaker[Provider(c)])
  <2>1. PICK r : r = NextProvider(c)
    OBVIOUS
  <2>2. asking' = [asking EXCEPT ![c] = r]
    BY <2>1, <1>2 DEF Attempt
  <2>3. AskIsSound(chain, r)
    BY <2>1, <1>0, NextIsSound
  <2> QED  BY <2>2, <2>3, <1>0, AskGoesOn
<1> QED  BY <1>1, <1>2

\* One text at most is the last one.
LEMMA LastIsAll ==
    ASSUME NEW r \in Seq(PartKinds), ~(Len(Texts(r)) > 1)
    PROVE  LastOnly(Texts(r)) = Texts(r)
<1>1. PICK t : t = Texts(r)
  OBVIOUS
<1>2. PICK T : t \in Seq(T)
  <2>1. PICK n, S : n = Len(r) /\ S = {k \in DOMAIN r : r[k] = "text"}
    OBVIOUS
  <2>2. n \in Nat /\ S \in SUBSET (1 .. n) /\ t = Ascending(S)
    BY <2>1, <1>1 DEF Texts
  <2> QED  BY <2>2, AscendingIsSeq
<1>3. CASE t = <<>>
  BY <1>1, <1>3 DEF LastOnly
<1>4. CASE t # <<>>
  <2>1. Len(t) = 1
    <3>0. PICK n : n = Len(t)
      OBVIOUS
    <3>1. n \in Nat /\ n # 0
      BY <3>0, <1>2, <1>4
    <3>2. ~(n > 1)
      BY <3>0, <1>1
    <3>3. n = 1
      BY ONLY <3>1, <3>2
    <3> QED  BY <3>0, <3>3
  <2>2. t = <<t[Len(t)]>>
    BY <2>1, <1>2
  <2> QED  BY <2>2, <1>1, <1>4 DEF LastOnly
<1> QED  BY <1>3, <1>4

\* Every part has a delta.
LEMMA DeltasCome ==
    ASSUME NEW kind \in Formats, NEW r \in Seq(PartKinds), NEW k \in 1 .. Len(r)
    PROVE  1 <= Len(Deltas(kind, r, k))
<1>1. PICK ds : ds = Deltas(kind, r, k)
  OBVIOUS
<1>2. r[k] \in PartKinds
  OBVIOUS
<1>3. AreDeltas(ds, kind, r, k)
  BY <1>1, <1>2, DeltasAre
<1>4. kind \in OpenAIKinds \/ kind = "gemini" \/ kind \in {"anthropic", "bedrock"}
  BY DEF Formats
<1>5. CASE r[k] = "text"
  <2>1. ds = <<Content(<<k>>)>>
    BY <1>3, <1>5 DEF AreDeltas
  <2>2. PICK n : n = Len(ds)
    OBVIOUS
  <2>3. n = 1 /\ 1 <= n
    BY <2>1, <2>2
  <2> QED  BY <2>2, <2>3, <1>1
<1>6. CASE r[k] = "bare"
  <2>1. ds = <<CallDelta(k, Args(r, k))>>
    BY <1>3, <1>6 DEF AreDeltas
  <2>2. PICK n : n = Len(ds)
    OBVIOUS
  <2>3. n = 1 /\ 1 <= n
    BY <2>1, <2>2
  <2> QED  BY <2>2, <2>3, <1>1
<1>7. CASE r[k] = "call"
  BY <1>1, <1>3, <1>4, <1>7 DEF AreDeltas
<1> QED  BY <1>2, <1>5, <1>6, <1>7 DEF PartKinds

\* The provider answers, at once or with a stream that has brought nothing yet.
LEMMA AnswersKeep ==
    ASSUME ProvidersInv, NEW c \in LlmCallers, Answers(c)
    PROVE  ProvidersInv'
<1>1. PICK call, kind, q : call = asking[c] /\ kind = chain[call.i] /\ q = call.reply
  OBVIOUS
<1>2. AskIsSound(chain, call) /\ Provider(c) = call.i /\ kind \in Formats /\ call.pc = "sent" /\ UNCHANGED chain
  BY <1>1, AskIs DEF Answers, AtCall
<1>3. /\ WholeAsk(call) /\ call.mode \in {"chat", "stream"} /\ q \in Seq(PartKinds) /\ call.i \in DOMAIN chain
      /\ call.acc = NoMessage /\ call.part = 1 /\ call.delta = 1
  BY <1>1, <1>2 DEF AskIsSound
<1>4. CASE call.mode = "chat"
  <2>1. PICK m, r : m = Converted(kind, q) /\ r = [call EXCEPT !.pc = "done", !.acc = m]
    OBVIOUS
  <2>2. asking' = [asking EXCEPT ![c] = r]
    BY <2>1, <1>1, <1>2, <1>4 DEF Answers
  <2>3. WholeAsk(r) /\ r.pc = "done" /\ r.i = call.i /\ r.mode = "chat" /\ r.reply = q /\ r.acc = m
    BY <2>1, <1>1, <1>3, <1>4 DEF WholeAsk
  <2>4. m.calls = ToolCalls(q) /\ m = [text |-> m.text, calls |-> m.calls]
    BY <2>1, <1>2
    DEF Converted, Formats, OpenAIKinds, fromOpenAIResponse, fromAnthropicResponse, fromGeminiResponse,
                      fromBedrockConverseOutput, Said
  <2>5. ~TextSuffers(kind, r) => m.text = Texts(q)
    <3>1. CASE kind \in OpenAIKinds
      BY <3>1, <2>1 DEF Converted, OpenAIKinds, fromOpenAIResponse, Said
    <3>2. CASE kind \notin OpenAIKinds
      <4>1. m.text = LastOnly(Texts(q))
        BY <3>2, <2>1, <1>2
        DEF Converted, Formats, fromAnthropicResponse, fromGeminiResponse, fromBedrockConverseOutput
      <4>2. ~TextSuffers(kind, r) => ~(Len(Texts(q)) > 1)
        BY <3>2, <2>3 DEF TextSuffers
      <4> QED  BY <4>1, <4>2, <1>3, LastIsAll
    <3> QED  BY <3>1, <3>2
  <2>6. WholeReply(kind, r)
    BY <2>3, <2>4, <2>5 DEF WholeReply
  <2>7. AskIsSound(chain, r)
    BY <2>3, <2>6, <1>1, <1>3 DEF AskIsSound
  <2> QED  BY <2>2, <2>7, <1>2, AskGoesOn
<1>5. CASE call.mode = "stream"
  <2>1. PICK r : r = [call EXCEPT !.pc = "reading"]
    OBVIOUS
  <2>2. asking' = [asking EXCEPT ![c] = r]
    BY <2>1, <1>1, <1>2, <1>5 DEF Answers
  <2>3. /\ WholeAsk(r) /\ r.pc = "reading" /\ r.i = call.i /\ r.mode = "stream" /\ r.reply = q
        /\ r.acc = NoMessage /\ r.part = 1 /\ r.delta = 1
    BY <2>1, <1>1, <1>3, <1>5 DEF WholeAsk
  <2>4. NoMessage.text = <<>> /\ NoMessage.calls = <<>> /\ NoMessage = [text |-> NoMessage.text, calls |-> NoMessage.calls]
    BY DEF NoMessage
  <2>5. TextsBefore(q, 1) = <<>>
    BY TextsGrow
  <2>6. SeenCalls(<<>>, q, 1, 1)
    <3>1. \A k \in 1 .. (1 - 1) : FALSE
      OBVIOUS
    <3> QED  BY <3>1 DEF SeenCalls
  <2>7. 1 \in 1 .. (Len(q) + 1) /\ 1 \in 1 .. 3 /\ (1 <= Len(q) => 1 \in 1 .. Len(q))
    BY <1>3
  <2>8. IF 1 <= Len(q) THEN 1 <= Len(Deltas(kind, q, 1)) ELSE 1 = 1
    BY <2>7, <1>2, <1>3, DeltasCome
  <2>9. SoFar(kind, q, 1, 1, NoMessage)
    BY <2>4, <2>5, <2>6, <2>7, <2>8 DEF SoFar
  <2>10. AskIsSound(chain, r)
    BY <2>3, <2>9, <1>1, <1>3 DEF AskIsSound
  <2> QED  BY <2>2, <2>10, <1>2, AskGoesOn
<1> QED  BY <1>3, <1>4, <1>5

\* The provider answers with an error.
LEMMA RefusesKeep ==
    ASSUME ProvidersInv, NEW c \in LlmCallers, Refuses(c)
    PROVE  ProvidersInv'
<1>1. PICK r : r = NextProvider(c)
  OBVIOUS
<1>2. asking' = [asking EXCEPT ![c] = r] /\ UNCHANGED chain /\ asking[c].pc = "sent"
  BY <1>1 DEF Refuses, AtCall
<1>3. AskIsSound(chain, r)
  BY <1>1, <1>2, NextIsSound
<1> QED  BY <1>2, <1>3, AskGoesOn

\* The stream brings a delta.
LEMMA StreamsKeep ==
    ASSUME ProvidersInv, NEW c \in LlmCallers, Streams(c)
    PROVE  ProvidersInv'
<1>1. PICK call, kind, q, ds : call = asking[c] /\ kind = chain[call.i] /\ q = call.reply /\ ds = Deltas(kind, q, call.part)
  OBVIOUS
<1>2. AskIsSound(chain, call) /\ kind \in Formats /\ call.pc = "reading" /\ UNCHANGED chain /\ ~(call.part > Len(q))
  BY <1>1, AskIs DEF Streams, AtCall, Arrived
<1>3. /\ WholeAsk(call) /\ call.mode = "stream" /\ q \in Seq(PartKinds) /\ call.i \in DOMAIN chain
      /\ SoFar(kind, q, call.part, call.delta, call.acc)
  BY <1>1, <1>2 DEF AskIsSound
<1>4. PICK j, d, b : j = call.part /\ d = call.delta /\ b = addDelta(call.acc, ds[d])
  OBVIOUS
<1>5. j \in 1 .. Len(q) /\ SoFar(kind, q, j, d, call.acc) /\ ds = Deltas(kind, q, j)
  <2>1. j \in 1 .. (Len(q) + 1) /\ ~(j > Len(q)) /\ Len(q) \in Nat
    BY <1>2, <1>3, <1>4 DEF SoFar
  <2> QED  BY <2>1, <1>1, <1>3, <1>4
<1>6. IF d = Len(ds) THEN SoFar(kind, q, j + 1, 1, b) ELSE SoFar(kind, q, j, d + 1, b)
  BY <1>2, <1>3, <1>4, <1>5, DeltaKeeps
<1>7. PICK r : r = [call EXCEPT !.acc = b, !.part = IF d = Len(ds) THEN j + 1 ELSE j, !.delta = IF d = Len(ds) THEN 1 ELSE d + 1]
  OBVIOUS
<1>8. asking' = [asking EXCEPT ![c] = r]
  BY <1>1, <1>4, <1>7 DEF Streams
<1>9. /\ WholeAsk(r) /\ r.pc = "reading" /\ r.i = call.i /\ r.mode = "stream" /\ r.reply = q /\ r.acc = b
      /\ r.part = (IF d = Len(ds) THEN j + 1 ELSE j) /\ r.delta = (IF d = Len(ds) THEN 1 ELSE d + 1)
  BY <1>1, <1>2, <1>3, <1>7 DEF WholeAsk
<1>10. SoFar(kind, q, r.part, r.delta, b)
  <2>1. CASE d = Len(ds)
    BY <2>1, <1>6, <1>9
  <2>2. CASE d # Len(ds)
    BY <2>2, <1>6, <1>9
  <2> QED  BY <2>1, <2>2
<1>11. AskIsSound(chain, r)
  BY <1>1, <1>3, <1>9, <1>10 DEF AskIsSound
<1> QED  BY <1>2, <1>8, <1>11, AskGoesOn

\* A stream that has brought everything has brought the reply.
LEMMA StreamIsWhole ==
    ASSUME NEW kind \in Formats, NEW q \in Seq(PartKinds), NEW j, NEW d, NEW acc, SoFar(kind, q, j, d, acc),
           j > Len(q)
    PROVE  /\ ~StreamLosesText(kind, q) => acc.text = Texts(q)
           /\ ~StreamLosesCalls(kind, q) => acc.calls = ToolCalls(q)
<1>1. PICK n : n = Len(q)
  OBVIOUS
<1>2. n \in Nat /\ j \in 1 .. (n + 1) /\ j > n /\ DOMAIN q = 1 .. n
  BY <1>1 DEF SoFar
<1>3. j = n + 1 /\ j - 1 = n
  BY <1>2
<1>4. d = 1
  <2>1. ~(j <= Len(q))
    BY <1>1, <1>2
  <2> QED  BY <2>1 DEF SoFar
<1>5. ~StreamLosesText(kind, q) => acc.text = Texts(q)
  BY <1>1, <1>3, TextsAre DEF SoFar
<1>6. ASSUME ~StreamLosesCalls(kind, q) PROVE acc.calls = ToolCalls(q)
  <2>1. /\ \A k \in 1 .. n : q[k] # "text" => acc.calls = <<[id |-> k, args |-> Args(q, k)]>>
        /\ (\A k \in 1 .. n : q[k] = "text") => acc.calls = <<>>
    BY <1>3, <1>4, <1>6 DEF SoFar, SeenCalls
  <2>2. /\ (\A k \in 1 .. n : q[k] = "text") => ToolCalls(q) = <<>>
        /\ \A k \in 1 .. n : q[k] # "text" => ToolCalls(q) = <<[id |-> k, args |-> Args(q, k)]>>
    BY <1>2, <1>6, OneCallAtMost DEF StreamLosesCalls
  <2> QED  BY <2>1, <2>2
<1> QED  BY <1>5, <1>6

\* The stream ends or breaks off.
LEMMA StreamStopsKeeps ==
    ASSUME ProvidersInv, NEW c \in LlmCallers, StreamStops(c)
    PROVE  ProvidersInv'
<1>1. PICK call, kind, q, r : /\ call = asking[c] /\ kind = chain[call.i] /\ q = call.reply
                              /\ r = [call EXCEPT !.pc = "done", !.broken = ~Arrived(c)]
  OBVIOUS
<1>2. AskIsSound(chain, call) /\ kind \in Formats /\ call.pc = "reading" /\ UNCHANGED chain
  BY <1>1, AskIs DEF StreamStops, AtCall
<1>3. /\ WholeAsk(call) /\ call.mode = "stream" /\ q \in Seq(PartKinds) /\ call.i \in DOMAIN chain
      /\ SoFar(kind, q, call.part, call.delta, call.acc)
  BY <1>1, <1>2 DEF AskIsSound
<1>4. asking' = [asking EXCEPT ![c] = r]
  BY <1>1 DEF StreamStops
<1>5. /\ WholeAsk(r) /\ r.pc = "done" /\ r.i = call.i /\ r.mode = "stream" /\ r.reply = q /\ r.acc = call.acc
      /\ (~r.broken => call.part > Len(q))
  BY <1>1, <1>3 DEF WholeAsk, Arrived
<1>6. ASSUME ~r.broken PROVE WholeReply(kind, r)
  <2>1. /\ ~StreamLosesText(kind, q) => r.acc.text = Texts(q)
        /\ ~StreamLosesCalls(kind, q) => r.acc.calls = ToolCalls(q)
    BY <1>2, <1>3, <1>5, <1>6, StreamIsWhole
  <2>2. r.acc = [text |-> r.acc.text, calls |-> r.acc.calls]
    BY <1>3, <1>5 DEF SoFar
  <2>3. (StreamLosesText(kind, q) => TextSuffers(kind, r)) /\ (StreamLosesCalls(kind, q) => CallsSuffer(kind, r))
    BY <1>5 DEF StreamLosesText, StreamLosesCalls, TextSuffers, CallsSuffer
  <2> QED  BY <2>1, <2>2, <2>3, <1>5 DEF WholeReply
<1>7. AskIsSound(chain, r)
  BY <1>1, <1>3, <1>5, <1>6 DEF AskIsSound
<1> QED  BY <1>2, <1>4, <1>7, AskGoesOn

\* The call is cancelled.
LEMMA CancelKeeps ==
    ASSUME ProvidersInv, NEW c \in LlmCallers, CancelCall(c)
    PROVE  ProvidersInv'
<1>1. PICK call, r : call = asking[c] /\ r = [call EXCEPT !.cancelled = TRUE]
  OBVIOUS
<1>2. AskIsSound(chain, call) /\ UNCHANGED chain /\ asking' = [asking EXCEPT ![c] = r] /\ call.pc \in {"try", "sent", "reading"}
  BY <1>1, AskIs DEF CancelCall
<1>3. /\ WholeAsk(r) /\ r.pc = call.pc /\ r.i = call.i /\ r.mode = call.mode /\ r.reply = call.reply /\ r.acc = call.acc
      /\ r.part = call.part /\ r.delta = call.delta
  BY <1>1, <1>2 DEF AskIsSound, WholeAsk
<1>4. AskIsSound(chain, r)
  BY <1>2, <1>3 DEF AskIsSound
<1> QED  BY <1>2, <1>4, AskGoesOn

\* The agent has the answer.
LEMMA ReturnKeeps ==
    ASSUME ProvidersInv, NEW c \in LlmCallers, CallReturns(c)
    PROVE  ProvidersInv'
<1>1. asking' = [asking EXCEPT ![c] = Quiet] /\ UNCHANGED chain
  BY DEF CallReturns
<1> QED  BY <1>1, QuietIsSound, AskGoesOn

\* Circuits open and close without touching a call.
LEMMA ProvidersStand ==
    ASSUME ProvidersInv, UNCHANGED <<chain, asking>>
    PROVE  ProvidersInv'
BY DEF ProvidersInv

\* At the start nobody asks.
LEMMA ProvidersStart ==
    ASSUME ProvidersInit
    PROVE  ProvidersInv
<1>1. chain \in Seq(Formats) \ {<<>>}
  BY ProviderConstants DEF ProvidersInit, Formats, OpenAIKinds
<1>2. asking = [c \in LlmCallers |-> Quiet]
  BY DEF ProvidersInit
<1> QED  BY <1>1, <1>2, QuietIsSound DEF ProvidersInv

\* The inductive invariant of the providers, for every chain and every reply.
THEOREM ProvidersInvariant == ProvidersSpec => []ProvidersInv
<1>1. ProvidersInit => ProvidersInv
  BY ProvidersStart
<1>2. ProvidersInv /\ [ProvidersNext]_providerVars => ProvidersInv'
  <2> SUFFICES ASSUME ProvidersInv, [ProvidersNext]_providerVars PROVE ProvidersInv'
    OBVIOUS
  <2>1. ASSUME NEW p \in DOMAIN chain, TimePasses(p) PROVE ProvidersInv'
    BY <2>1, ProvidersStand DEF TimePasses
  <2>2. CASE UNCHANGED providerVars
    BY <2>2, ProvidersStand DEF providerVars
  <2> QED  BY <2>1, <2>2, AskKeeps, AttemptKeeps, AnswersKeep, RefusesKeep, StreamsKeep, StreamStopsKeeps, CancelKeeps,
              ReturnKeeps DEF ProvidersNext
<1> QED  BY <1>1, <1>2, PTL DEF ProvidersSpec

\* ReplyComesBack: whatever the chain, the reply, the breakers and the faults, an answer that
\* arrived whole goes back to the model as it was said, apart from the known losses.
THEOREM ReplyComesBackHolds == ProvidersSpec => []ReplyComesBack
<1>1. ProvidersInv => ReplyComesBack
  <2> SUFFICES ASSUME ProvidersInv, NEW c \in LlmCallers, AtCall(c, "done"), ~asking[c].broken,
                      NEW call, call = asking[c], NEW kind, kind = chain[call.i], NEW m, m = Replayed(kind, call.acc)
               PROVE  /\ ~CallsSuffer(kind, call) => m.calls = ToolCalls(call.reply)
                      /\ ~TextSuffers(kind, call) =>
                            m.text = IF kind = "gemini" /\ m.calls # <<>> THEN <<>> ELSE Texts(call.reply)
    BY DEF ReplyComesBack
  <2>1. WholeReply(kind, call) /\ kind \in Formats
    BY AskIs DEF AskIsSound, AtCall
  <2>2. PICK acc : acc = call.acc
    OBVIOUS
  <2>3. acc = [text |-> acc.text, calls |-> acc.calls] /\ m = Replayed(kind, acc)
    BY <2>1, <2>2 DEF WholeReply
  <2>4. m.calls = acc.calls /\ m.text = IF kind = "gemini" /\ acc.calls # <<>> THEN <<>> ELSE acc.text
    BY <2>1, <2>3
    DEF Replayed, Formats, OpenAIKinds, toOpenAIRequest, toAnthropicRequest, toGeminiRequest, toBedrockMessage
  <2> QED  BY <2>1, <2>2, <2>4 DEF WholeReply
<1> QED  BY <1>1, ProvidersInvariant, PTL

=============================================================================
