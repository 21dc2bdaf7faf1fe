--------------------------------- MODULE Tui ---------------------------------
(***************************************************************************)
(* The chat of the terminal: ChatModel (adapter/tui/chat/model.go), the    *)
(* message loop of Bubble Tea around it, and TUIChannel, through which     *)
(* the handlers of requests send their answers and the message tool of     *)
(* any agent whatever it is told to.                                       *)
(*                                                                         *)
(* The loop takes one message at a time.  Every command and every sender   *)
(* has a goroutine of its own, so what is under way (lines, answers, ticks *)
(* of the stream, tool events) arrives in any order; only a handler goes   *)
(* on after its Send was taken.  The handler sends exactly once, an error  *)
(* when its turn failed or was cancelled, and never returns one.           *)
(***************************************************************************)
EXTENDS Integers, Sequences, FiniteSets

CONSTANTS Lines,              \* what is entered: "ask" or a slash command
          AnswerSize,         \* runes of an answer
          ChunkOf,            \* runes per tick at every speed
          MaxMessages,        \* ring buffer of the chat (1000)
          maxToolExecutions,  \* ring buffer of the tool pane (100)
          TuiBounds           \* bounds to choose from: requests made, keys pressed, tool calls anywhere
                              \* (those of the message tool included)

ASSUME TuiConstants ==
    /\ TuiBounds \subseteq [requests : Nat, keys : Nat, tools : Nat]
    /\ AnswerSize \in Nat /\ {MaxMessages, maxToolExecutions} \subseteq Nat \ {0}
    /\ Lines \subseteq {"ask", "/help", "/clear", "/cancel", "/speed", "/quit"}
    /\ DOMAIN ChunkOf = {"normal", "fast", "instant"} /\ ChunkOf["instant"] = 0
    /\ {ChunkOf["normal"], ChunkOf["fast"]} \subseteq Nat \ {0}

VARIABLES ui,        \* flags of ChatModel: waiting, vim, enabled, overlay, pane, speed, quitting
          gen,       \* ChatModel.gen
          tagGen,    \* TUIChannel.gen
          stream,    \* streaming, the answer in streamBuf and streamPos
          ticks,     \* StreamTickMsgs under way
          screen,    \* chatView: who wrote a message, for which request, and how much of the answer it shows
          handler,   \* of every request: its handler and its context
          cancelFn,  \* the request that cancelFn cancels, 0 when nil
          entered,   \* InputSubmitMsgs under way
          outbox,    \* OutboundMsgs under way
          tool,      \* tool events under way, the tool pane and pendingTools
          tuiSeen,   \* history: accepted answers, those accepted after their request was cancelled, those
                     \* cut short, those that stall, and requests for whose answer another was taken
          tuiLeft    \* what the bounds still allow

tuiVars == <<ui, gen, tagGen, stream, ticks, screen, handler, cancelFn, entered, outbox, tool, tuiSeen, tuiLeft>>

RequestIds == UNION {1 .. b.requests : b \in TuiBounds}
Made == {r \in RequestIds : handler[r].state # "none"}
Newest == Cardinality(Made)

TuiInit ==
    /\ ui = [waiting |-> FALSE, vim |-> FALSE, enabled |-> TRUE, overlay |-> "none", pane |-> "hidden",
             speed |-> "normal", quitting |-> FALSE]
    /\ gen = 0 /\ tagGen = 0
    /\ stream = [on |-> FALSE, of |-> 0, pos |-> 0] /\ ticks = 0
    /\ screen = <<>>
    /\ handler = [r \in RequestIds |-> [state |-> "none", cancelled |-> FALSE]]
    /\ cancelFn = 0 /\ entered = {} /\ outbox = {}
    /\ tool = [started |-> 0, completed |-> 0, pane |-> <<>>, pending |-> 0]
    /\ tuiSeen = [accepted |-> {}, late |-> {}, cut |-> {}, stalled |-> {}, mistaken |-> {}]
    /\ tuiLeft \in TuiBounds

-----------------------------------------------------------------------------
(* The parts of the screen *)

\* MessageListModel.Add drops the oldest messages; UpdateLast changes whatever is last.
Add(s, m) == LET t == Append(s, m) IN IF Len(t) > MaxMessages THEN SubSeq(t, Len(t) - MaxMessages + 1, Len(t)) ELSE t
UpdateLast(s, answer, pos) == IF s = <<>> THEN s ELSE [s EXCEPT ![Len(s)].of = answer, ![Len(s)].pos = pos]

Wrote(by) == [by |-> by, of |-> 0, pos |-> 0]

\* The input is given back: the lines that end a stream, a cancellation and an instant answer.
Ready(u) == [u EXCEPT !.waiting = FALSE, !.vim = FALSE, !.enabled = TRUE]

\* What a message written now does to the answer that is being streamed: ticks go on
\* into the new message, and the answer keeps what it shows.
Cut(seen) == IF stream.on THEN [seen EXCEPT !.cut = @ \cup {stream.of}] ELSE seen

Cancelled(r) == IF r = 0 THEN handler ELSE [handler EXCEPT ![r].cancelled = TRUE]

-----------------------------------------------------------------------------
(* Requests *)

\* Mutant: the channel is not told of the new generation.
MutOnGenBump(g) == tagGen

\* OnGenBump is TUIChannel.SetGen.
OnGenBump(g) == g

\* handleSubmit of a line that is no command.
MakeRequest ==
    /\ Newest < tuiLeft.requests
    /\ LET r == Newest + 1 IN
       /\ handler' = [Cancelled(cancelFn) EXCEPT ![r] = [state |-> "running", cancelled |-> FALSE]]
       /\ cancelFn' = r
       /\ screen' = Add(screen, Wrote("user"))
    /\ gen' = gen + 1 /\ tagGen' = OnGenBump(gen + 1)
    /\ ui' = [ui EXCEPT !.waiting = TRUE, !.vim = TRUE, !.enabled = FALSE]
    /\ stream' = [stream EXCEPT !.on = FALSE]
    /\ tool' = [tool EXCEPT !.pending = 0]
    /\ tuiSeen' = Cut(tuiSeen)
    /\ UNCHANGED ticks

cancelRequest ==
    /\ handler' = Cancelled(cancelFn) /\ cancelFn' = 0
    /\ gen' = gen + 1
    /\ ui' = Ready(ui)
    /\ stream' = [stream EXCEPT !.on = FALSE]
    /\ tool' = [tool EXCEPT !.pending = 0]
    /\ screen' = Add(screen, Wrote("system"))
    /\ tuiSeen' = Cut(tuiSeen)
    /\ UNCHANGED <<tagGen, ticks>>

\* The handler of main.go: Router.Handle, and Send of what it returned, with the
\* generation that the channel knows by then.
HandlerSends(r) ==
    /\ handler[r].state = "running"
    /\ IF ui.quitting THEN handler' = [handler EXCEPT ![r].state = "over"] /\ UNCHANGED outbox
       ELSE /\ handler' = [handler EXCEPT ![r].state = "sending"]
            /\ outbox' = outbox \cup {[of |-> r, gen |-> tagGen]}
    /\ UNCHANGED <<ui, gen, tagGen, stream, ticks, screen, cancelFn, entered, tool, tuiSeen, tuiLeft>>

\* The message tool, in a turn of whatever session: its text has the generation of the
\* moment too, and is numbered below zero here.
MessageToolSends ==
    /\ ~ui.quitting /\ tuiLeft.tools > 0
    /\ tuiLeft' = [tuiLeft EXCEPT !.tools = @ - 1]
    /\ outbox' = outbox \cup {[of |-> -tuiLeft.tools, gen |-> tagGen]}
    /\ UNCHANGED <<ui, gen, tagGen, stream, ticks, screen, handler, cancelFn, entered, tool, tuiSeen>>

Accepts(o) == o.gen \in {0, gen}

\* OutboundMsg: one of another generation is discarded; handleOutbound starts the stream,
\* or shows all of it when the speed is instant.  HandlerDoneMsg then changes nothing.
handleOutbound(o) ==
    /\ ~ui.quitting
    /\ outbox' = outbox \ {o}
    /\ handler' = IF o.of > 0 THEN [handler EXCEPT ![o.of].state = "over"] ELSE handler
    /\ IF Accepts(o)
       THEN LET whole == ui.speed = "instant"
                added == Add(screen, Wrote("assistant"))
            IN  /\ screen' = UpdateLast(added, o.of, IF whole THEN AnswerSize ELSE 0)
                /\ ui' = IF whole THEN Ready(ui) ELSE ui
                /\ stream' = IF whole THEN [stream EXCEPT !.on = FALSE] ELSE [on |-> TRUE, of |-> o.of, pos |-> 0]
                /\ ticks' = IF whole THEN ticks ELSE ticks + 1
                /\ tool' = [tool EXCEPT !.pending = 0]
                /\ tuiSeen' = [Cut(tuiSeen) EXCEPT !.accepted = @ \cup {o.of},
                                                   !.late = IF o.of > 0 /\ handler[o.of].cancelled THEN @ \cup {o.of} ELSE @,
                                                   !.mistaken = IF o.of # Newest THEN @ \cup {Newest} ELSE @]
       ELSE UNCHANGED <<screen, ui, stream, ticks, tool, tuiSeen>>
    /\ UNCHANGED <<gen, tagGen, cancelFn, entered, tuiLeft>>

\* A tick that finds no stream ends; others schedule the next one until all is shown: for
\* ever, when the speed has become instant, whose chunks are empty.
handleStreamTick ==
    /\ ticks > 0 /\ ~ui.quitting
    /\ IF ~stream.on THEN ticks' = ticks - 1 /\ UNCHANGED <<screen, ui, stream>>
       ELSE LET to == stream.pos + ChunkOf[ui.speed]
                end == IF to >= AnswerSize THEN AnswerSize ELSE to
            IN  /\ screen' = UpdateLast(screen, stream.of, end)
                /\ stream' = [stream EXCEPT !.pos = end, !.on = end < AnswerSize]
                /\ ui' = IF end >= AnswerSize THEN Ready(ui) ELSE ui
                /\ ticks' = IF end >= AnswerSize THEN ticks - 1 ELSE ticks
    /\ UNCHANGED <<gen, tagGen, handler, cancelFn, entered, outbox, tool, tuiSeen, tuiLeft>>

-----------------------------------------------------------------------------
(* Lines and keys *)

Pressed == ~ui.quitting /\ tuiLeft.keys > 0 /\ tuiLeft' = [tuiLeft EXCEPT !.keys = @ - 1]
Quit == ui' = [ui EXCEPT !.quitting = TRUE]

Open == ui.overlay \in {"none", "found"}   \* neither the modal nor the search line takes the keys

\* The input area: Enter in it sends what was typed.
EnterLine(line) ==
    /\ Pressed /\ Open /\ ~ui.vim /\ ui.enabled /\ line \notin entered
    /\ entered' = entered \cup {line}
    /\ UNCHANGED <<ui, gen, tagGen, stream, ticks, screen, handler, cancelFn, outbox, tool, tuiSeen>>

CycleStreamSpeed(s) == [normal |-> "fast", fast |-> "instant", instant |-> "normal"][s]

\* /clear also empties the tool pane and deletes the session.
Clear ==
    /\ screen' = Add(<<>>, Wrote("system")) /\ tool' = [tool EXCEPT !.pane = <<>>] /\ tuiSeen' = Cut(tuiSeen)
    /\ UNCHANGED <<ui, gen, tagGen, stream, ticks, handler, cancelFn>>

\* A command that answers with a message: /help, /privacy, /export, /delete, an unknown one.
Replied(u) ==
    /\ screen' = Add(screen, Wrote("system")) /\ ui' = u /\ tuiSeen' = Cut(tuiSeen)
    /\ UNCHANGED <<gen, tagGen, stream, ticks, handler, cancelFn, tool>>

\* /speed while an answer is being streamed may leave it without progress.
SpeedChanges ==
    LET speed == CycleStreamSpeed(ui.speed)
        seen  == Cut(tuiSeen)
    IN  /\ screen' = Add(screen, Wrote("system")) /\ ui' = [ui EXCEPT !.speed = speed]
        /\ tuiSeen' = IF stream.on /\ speed = "instant" THEN [seen EXCEPT !.stalled = @ \cup {stream.of}] ELSE seen
        /\ UNCHANGED <<gen, tagGen, stream, ticks, handler, cancelFn, tool>>

handleSubmit(line) ==
    /\ line \in entered /\ ~ui.quitting
    /\ entered' = entered \ {line}
    /\ \/ line = "ask" /\ MakeRequest
       \/ line = "/help" /\ Replied(ui)
       \/ line = "/speed" /\ SpeedChanges
       \/ line = "/clear" /\ Clear
       \/ line = "/cancel" /\ ui.waiting /\ cancelRequest
       \/ line = "/cancel" /\ ~ui.waiting /\ Replied(ui)
       \/ line = "/quit" /\ Quit /\ UNCHANGED <<gen, tagGen, stream, ticks, screen, handler, cancelFn, tool, tuiSeen>>
    /\ UNCHANGED <<outbox, tuiLeft>>

CtrlC ==
    /\ Pressed /\ Open
    /\ \/ ui.waiting /\ cancelRequest
       \/ ~ui.waiting /\ Quit /\ UNCHANGED <<gen, tagGen, stream, ticks, screen, handler, cancelFn, tool, tuiSeen>>
    /\ UNCHANGED <<entered, outbox>>

CtrlL == Pressed /\ Open /\ Clear /\ UNCHANGED <<entered, outbox>>

\* Keys that only move between the parts of the screen.
FocusMoves ==
    \/ Open /\ ui' = [ui EXCEPT !.pane = IF @ = "hidden" THEN "left" ELSE "hidden"]                  \* ctrl+t
    \/ Open /\ ui.pane # "hidden" /\ ui' = [ui EXCEPT !.pane = IF @ = "left" THEN "right" ELSE "left"] \* tab
    \/ ui.overlay # "none" /\ ui' = [ui EXCEPT !.overlay = "none"]                                   \* esc
    \/ ui.overlay = "none" /\ ~ui.vim /\ ~ui.waiting /\ ui' = [ui EXCEPT !.vim = TRUE, !.enabled = FALSE] \* esc
    \/ ui.overlay = "search" /\ ui' = [ui EXCEPT !.overlay = "found"]                                \* enter
    \/ Open /\ ui.vim /\ ui' = [ui EXCEPT !.overlay = "search"]                                      \* /
    \/ Open /\ ui.vim /\ ui' = [ui EXCEPT !.vim = FALSE, !.enabled = TRUE]                           \* i
    \/ /\ Open /\ ui.vim /\ ui.pane = "right" /\ \E i \in DOMAIN tool.pane : tool.pane[i] = "completed"
       /\ ui' = [ui EXCEPT !.overlay = "modal"]                                                      \* enter

handleKey ==
    /\ Pressed /\ FocusMoves
    /\ UNCHANGED <<gen, tagGen, stream, ticks, screen, handler, cancelFn, entered, outbox, tool, tuiSeen>>

\* QuitMsg: the program's context ended.
QuitMsg ==
    /\ ~ui.quitting /\ Quit
    /\ UNCHANGED <<gen, tagGen, stream, ticks, screen, handler, cancelFn, entered, outbox, tool, tuiSeen, tuiLeft>>

-----------------------------------------------------------------------------
(* Tool events come from the bus, of every session and each on a goroutine of its own. *)

Max(a, b) == IF a > b THEN a ELSE b

ToolRuns ==
    /\ tuiLeft.tools > 0 /\ tuiLeft' = [tuiLeft EXCEPT !.tools = @ - 1]
    /\ tool' = [tool EXCEPT !.started = @ + 1, !.completed = @ + 1]
    /\ UNCHANGED <<ui, gen, tagGen, stream, ticks, screen, handler, cancelFn, entered, outbox, tuiSeen>>

StartTool ==
    /\ tool.started > 0 /\ ~ui.quitting
    /\ LET p == Append(tool.pane, "running")
       IN  tool' = [tool EXCEPT !.started = @ - 1, !.pane = SubSeq(p, Max(1, Len(p) - maxToolExecutions + 1), Len(p))]
    /\ UNCHANGED <<ui, gen, tagGen, stream, ticks, screen, handler, cancelFn, entered, outbox, tuiSeen, tuiLeft>>

\* The last execution that runs is the one that completes.
CompleteTool ==
    /\ tool.completed > 0 /\ ~ui.quitting
    /\ LET running == {i \in DOMAIN tool.pane : tool.pane[i] = "running"}
           last == CHOOSE i \in running : \A j \in running : j <= i
       IN  tool' = [tool EXCEPT !.completed = @ - 1, !.pending = @ + 1,
                      !.pane = IF running = {} THEN @ ELSE [@ EXCEPT ![last] = "completed"]]
    /\ UNCHANGED <<ui, gen, tagGen, stream, ticks, screen, handler, cancelFn, entered, outbox, tuiSeen, tuiLeft>>

TuiNext ==
    \/ \E r \in RequestIds : HandlerSends(r)
    \/ MessageToolSends
    \/ \E o \in outbox : handleOutbound(o)
    \/ handleStreamTick
    \/ \E line \in Lines : EnterLine(line) \/ handleSubmit(line)
    \/ CtrlC \/ CtrlL \/ handleKey \/ QuitMsg
    \/ ToolRuns \/ StartTool \/ CompleteTool

TuiSpec == TuiInit /\ [][TuiNext]_tuiVars

-----------------------------------------------------------------------------
(* Properties *)

\* While the chat waits, with its spinner in the place of the input, something is under
\* way that ends it: the newest request, its answer, or a stream that makes progress (one
\* that /speed has brought to a standstill does not: only another /speed or a cancellation
\* ends that wait).
WaitingHasAReason ==
    ui.waiting /\ ~ui.quitting =>
        \/ stream.on /\ ticks > 0 /\ (ChunkOf[ui.speed] > 0 \/ stream.of \in tuiSeen.stalled)
        \/ /\ ~handler[Newest].cancelled
           /\ \/ handler[Newest].state = "running" /\ tagGen = gen
              \/ [of |-> Newest, gen |-> gen] \in outbox

\* And it waits until the newest request has answered or was cancelled, unless another text
\* was taken for the answer: one of the message tool, or of a request cancelled by this one.
AnswersAreWaitedFor ==
    ~ui.quitting /\ Newest > 0 /\ ~handler[Newest].cancelled /\ handler[Newest].state # "over" =>
        ui.waiting \/ Newest \in tuiSeen.mistaken

\* The answer of a request that was not cancelled is accepted, and that of a cancelled
\* one is not before another request is made.
AnswersFindTheirRequest ==
    /\ \A r \in Made : handler[r] = [state |-> "over", cancelled |-> FALSE] /\ ~ui.quitting => r \in tuiSeen.accepted
    /\ Newest \notin tuiSeen.late

\* An answer is shown to its end under its own name, and the words of others stay what
\* they were, unless something else was written while it was being streamed.
AnswersAreWhole ==
    \A i \in DOMAIN screen : LET m == screen[i] IN
        m.of \notin tuiSeen.cut =>
            IF m.by # "assistant" THEN m.of = 0
            ELSE m.pos = AnswerSize \/ (stream = [on |-> TRUE, of |-> m.of, pos |-> m.pos] /\ i = Len(screen))

ChatIsTrue == WaitingHasAReason /\ AnswersAreWaitedFor /\ AnswersFindTheirRequest /\ AnswersAreWhole
=============================================================================
