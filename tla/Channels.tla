------------------------------ MODULE Channels ------------------------------
(***************************************************************************)
(* The chat channels: internal/adapter/channel, with the handler that      *)
(* cmd/agent gives them.  One channel of some platform, from what people   *)
(* write to what they get back, through crashes, restarts and shutdowns.   *)
(*                                                                         *)
(* The platforms differ in when they let go of a message: Telegram when    *)
(* the next poll asks for later ones, Matrix never, signal-cli when it     *)
(* answers a poll, Slack when it is acknowledged, WhatsApp, Google Chat    *)
(* and Teams when the webhook answers, IRC and Discord at once.            *)
(*                                                                         *)
(* Messages are numbered in the order in which they were written.          *)
(***************************************************************************)
EXTENDS Integers, Sequences, FiniteSets

CONSTANTS Platforms,     \* the platforms that are tried
          Shapes,        \* what may be written: text ("none", "command", "text"), and whether the
                         \* bot wrote it, it is for a group, mentions the bot, passes the filter
          Window,        \* external: how many messages Matrix's initial sync returns
          ChannelBounds  \* bounds: messages, restarts, lost answers

ASSUME ChannelConstants ==
    /\ Platforms \subseteq {"telegram", "matrix", "signal", "irc", "slack", "discord",
                            "whatsapp", "googlechat", "teams"}
    /\ Shapes \subseteq [text : {"none", "command", "text"}, own : BOOLEAN, group : BOOLEAN,
                         mention : BOOLEAN, here : BOOLEAN]
    /\ Window \in Nat \ {0}
    /\ ChannelBounds \in [messages : Nat, restarts : Nat, losses : Nat]

VARIABLES chan,      \* the platform, mentionOnly, whether the bot knows its name, and whether the
                     \* channel is "up", "stopping", without its connection ("lost") or "down"
          written,   \* external: what people wrote
          gone,      \* external: the messages the platform has let go
          cursor,    \* TelegramChannel.offset, MatrixChannel.nextBatch; 0 at the start
          batch,     \* messages received that the loop has yet to look at
          work,      \* messages whose handler is running ...
          cut,       \* ... those of them whose context is cancelled ...
          hungUp,    \* ... and those whose webhook request the platform has given up
          turns,     \* how often each message was given to the handler
          answered,  \* messages whose sender got an answer or an error
          unsent,    \* messages whose answer the channel could not send
          deaf,      \* messages that mentioned a bot which did not know its name
          again,     \* messages a process held, not knowing whether they would come again
          dropped,   \* messages that were in nobody's hands, or in those of a process that ended
          chLeft     \* what the bounds still allow

channelVars == <<chan, written, gone, cursor, batch, work, cut, hungUp, turns, answered, unsent,
                 deaf, again, dropped, chLeft>>
ghosts      == <<again, dropped>>
outcomes    == <<turns, answered, unsent, deaf>>

Written       == DOMAIN written
On(p)     == chan.platform \in p
Up        == chan.state = "up"
InHand    == work \cup {batch[i] : i \in DOMAIN batch}
InOrder(S) == [i \in 1 .. Cardinality(S) |-> CHOOSE m \in S : Cardinality({k \in S : k < m}) = i - 1]

ChannelsInit ==
    /\ chan \in [platform : Platforms, mentionOnly : BOOLEAN, named : {TRUE}, state : {"down"}]
    /\ written = <<>> /\ gone = {} /\ cursor = 0 /\ batch = <<>> /\ work = {} /\ cut = {} /\ hungUp = {}
    /\ turns = <<>> /\ answered = {} /\ unsent = {} /\ deaf = {} /\ again = {} /\ dropped = {}
    /\ chLeft = ChannelBounds

-----------------------------------------------------------------------------
(* What a message is to each channel: "ignored", a "command" that the      *)
(* channel answers itself, or a message for the "agent".                   *)

ToAgent(m)       == IF m.text = "command" THEN "command" ELSE "agent"
Gated(m)         == chan.mentionOnly /\ ~m.mention

\* hasBotMention: a bot that could not ask for its name sees no mention of it.
hasBotMention(m) == chan.named /\ m.mention

\* pollLoop's body: commands come before the mention gate.
telegramUpdate(m) ==
    IF m.text = "none" THEN "ignored"
    ELSE IF m.text = "command" THEN "command"
    ELSE IF m.group /\ chan.mentionOnly /\ ~hasBotMention(m) THEN "ignored" ELSE "agent"

\* processEvent: the gate is for rooms of two as well.
matrixEvent(m) ==
    IF m.own \/ m.text = "none" THEN "ignored"
    ELSE IF m.text = "command" THEN "command"
    ELSE IF Gated(m) THEN "ignored" ELSE "agent"

\* processEnvelope and parseAndDispatch have no gate.
signalEnvelope(m) == IF m.text = "none" THEN "ignored" ELSE ToAgent(m)
ircLine(m)        == IF m.own \/ m.text = "none" THEN "ignored" ELSE ToAgent(m)

\* processMessage; dispatchMessage is always called with no group, so its gate is open.
whatsappMessage(m) == IF m.text = "none" THEN "ignored" ELSE ToAgent(m)

\* handleMessage, onMessageCreate and the two processMessage: the gate comes first.
slackMessage(m)   == IF m.own \/ ~m.here \/ Gated(m) THEN "ignored" ELSE ToAgent(m)
discordMessage(m) == IF m.own \/ ~m.here \/ (m.group /\ Gated(m)) THEN "ignored" ELSE ToAgent(m)
gchatMessage(m)   == IF m.text = "none" \/ ~m.here \/ (m.group /\ Gated(m)) THEN "ignored" ELSE ToAgent(m)
teamsMessage(m)   == IF m.text = "none" \/ ~m.here \/ (m.group /\ Gated(m)) THEN "ignored" ELSE ToAgent(m)

Outcome(m) == CASE On({"telegram"})   -> telegramUpdate(m)
                [] On({"matrix"})     -> matrixEvent(m)
                [] On({"signal"})     -> signalEnvelope(m)
                [] On({"irc"})        -> ircLine(m)
                [] On({"whatsapp"})   -> whatsappMessage(m)
                [] On({"slack"})      -> slackMessage(m)
                [] On({"discord"})    -> discordMessage(m)
                [] On({"googlechat"}) -> gchatMessage(m)
                [] On({"teams"})      -> teamsMessage(m)

\* A channel looks at a message: the answer to a command is not checked for errors.
LookAt(m) ==
    CASE Outcome(written[m]) = "ignored" ->
            deaf' = (IF chan.named THEN deaf ELSE deaf \cup {m}) /\ UNCHANGED <<work, turns, answered, unsent>>
      [] Outcome(written[m]) = "command" ->
            answered' = answered \cup {m} /\ UNCHANGED <<work, turns, unsent, deaf>>
      [] Outcome(written[m]) = "agent"   ->
            work' = work \cup {m} /\ turns' = [turns EXCEPT ![m] = @ + 1] /\ UNCHANGED <<answered, unsent, deaf>>

-----------------------------------------------------------------------------
(* Life cycle *)

Started     == [chan EXCEPT !.state = "up"]
StartsIf(ok) == IF ok THEN Started ELSE chan

\* Start of each channel, and what it needs: a name that may stay unknown, nothing, a
\* connection, a free port (and credentials), a login.
telegramStart(ok) == [Started EXCEPT !.named = ok]
matrixStart(ok)   == Started
signalStart(ok)   == Started
ircStart(ok)      == StartsIf(ok)
whatsappStart(ok) == StartsIf(ok)
gchatStart(ok)    == StartsIf(ok)
teamsStart(ok)    == StartsIf(ok)
slackStart(ok)    == StartsIf(ok)
discordStart(ok)  == StartsIf(ok)

\* cmd/agent starts the channels side by side: the error of one is kept for the exit, and
\* that channel stays down while the others run.
StartChannel(ok) ==
    /\ chan.state = "down" /\ chLeft.restarts > 0
    /\ chan' = CASE On({"telegram"})   -> telegramStart(ok)
                 [] On({"matrix"})     -> matrixStart(ok)
                 [] On({"signal"})     -> signalStart(ok)
                 [] On({"irc"})        -> ircStart(ok)
                 [] On({"whatsapp"})   -> whatsappStart(ok)
                 [] On({"googlechat"}) -> gchatStart(ok)
                 [] On({"teams"})      -> teamsStart(ok)
                 [] On({"slack"})      -> slackStart(ok)
                 [] On({"discord"})    -> discordStart(ok)
    /\ chLeft' = [chLeft EXCEPT !.restarts = @ - 1]
    /\ UNCHANGED <<written, gone, cursor, batch, work, cut, outcomes, ghosts, hungUp>>

\* Shutdown: the contexts are cancelled, and the loops end at their next turn.
StopChannel ==
    /\ Up
    /\ chan' = [chan EXCEPT !.state = "stopping"]
    /\ cut' = work
    /\ UNCHANGED <<written, gone, cursor, batch, work, outcomes, ghosts, chLeft, hungUp>>

\* The process ends, at the end of a shutdown or at any other time.
ProcessExit ==
    /\ chan.state # "down"
    /\ chan' = [chan EXCEPT !.state = "down"]
    /\ cursor' = 0 /\ batch' = <<>> /\ work' = {} /\ cut' = {} /\ hungUp' = {}
    /\ again' = again \cup (Written \ gone)
    /\ dropped' = dropped \cup (InHand \cap gone)
    /\ UNCHANGED <<written, gone, outcomes, chLeft>>

\* External: somebody writes.  IRC and Discord keep nothing for a bot that is not there.
Write(m) ==
    /\ Len(written) < ChannelBounds.messages
    /\ LET id == Len(written) + 1
           push == On({"irc", "discord"})
       IN  /\ gone' = IF push THEN gone \cup {id} ELSE gone
           /\ batch' = IF push /\ Up THEN Append(batch, id) ELSE batch
           /\ dropped' = IF push /\ ~Up THEN dropped \cup {id} ELSE dropped
    /\ written' = Append(written, m) /\ turns' = Append(turns, 0)
    /\ UNCHANGED <<chan, cursor, work, cut, answered, unsent, deaf, again, chLeft, hungUp>>

-----------------------------------------------------------------------------
(* Receiving *)

\* The poll loops handle one message at a time, and poll when they have none.
PollHead(p) == On({p}) /\ Up /\ InHand = {}
LoseAnswer(ok) == chLeft' = IF ok THEN chLeft ELSE [chLeft EXCEPT !.losses = @ - 1]
MayLose(ok) == ok \/ chLeft.losses > 0

\* getUpdates: the offset confirms what is before it, whether or not the answer arrives.
getUpdates(ok) ==
    /\ PollHead("telegram") /\ MayLose(ok) /\ LoseAnswer(ok)
    /\ gone' = gone \cup {m \in Written : m < cursor}
    /\ batch' = IF ok THEN InOrder(Written \ gone') ELSE <<>>
    /\ UNCHANGED <<chan, written, cursor, work, cut, outcomes, ghosts, hungUp>>

\* sync: without a batch token the server sends the newest messages, old ones as well.
sync(ok) ==
    /\ PollHead("matrix") /\ MayLose(ok) /\ LoseAnswer(ok)
    /\ LET first == IF cursor > 0 THEN cursor ELSE Len(written) - Window + 1
       IN  /\ batch' = IF ok THEN InOrder({m \in Written : m >= first}) ELSE <<>>
           /\ cursor' = IF ok THEN Len(written) + 1 ELSE cursor
           /\ dropped' = IF ok THEN dropped \cup ({m \in Written : m < first} \ answered) ELSE dropped
    /\ UNCHANGED <<chan, written, gone, work, cut, outcomes, again, hungUp>>

\* receiveMessages: the server forgets what it answers.
receiveMessages(ok) ==
    /\ PollHead("signal") /\ MayLose(ok) /\ LoseAnswer(ok)
    /\ gone' = Written
    /\ batch' = IF ok THEN InOrder(Written \ gone) ELSE <<>>
    /\ dropped' = IF ok THEN dropped ELSE dropped \cup (Written \ gone)
    /\ UNCHANGED <<chan, written, cursor, work, cut, outcomes, again, hungUp>>

\* Mutants: the offset of the update itself, and one too many.
MutNextOffset(m) == m
MutSkipsOne(m)   == m + 2

NextOffset(m) == m + 1

\* The next message of a batch, or of the IRC connection.  A cancelled context stops
\* IRC's loop at the next line, and the others only at the end of the batch.
LoopTakes ==
    /\ chan.state = "up" \/ (chan.state = "stopping" /\ ~On({"irc"}))
    /\ On({"telegram", "matrix", "signal", "irc"})
    /\ batch # <<>> /\ work = {}
    /\ LET m == Head(batch)
       IN  /\ LookAt(m)
           /\ cursor' = IF On({"telegram"}) /\ m >= cursor THEN NextOffset(m) ELSE cursor
           /\ cut' = IF Up THEN cut ELSE cut \cup (work' \ work)
    /\ batch' = Tail(batch)
    /\ UNCHANGED <<chan, written, gone, ghosts, chLeft, hungUp>>

\* Slack's eventLoop acknowledges, then handles; discordgo calls the handler on a
\* goroutine of its own.
EventTakes(m) ==
    /\ Up
    /\ \/ On({"slack"}) /\ m \in Written \ gone /\ work = {} /\ gone' = gone \cup {m} /\ UNCHANGED batch
       \/ /\ On({"discord"}) /\ m \notin work /\ UNCHANGED gone
          /\ \E i \in DOMAIN batch :
                batch[i] = m /\ batch' = SubSeq(batch, 1, i - 1) \o SubSeq(batch, i + 1, Len(batch))
    /\ LookAt(m)
    /\ UNCHANGED <<chan, written, cursor, cut, ghosts, chLeft, hungUp>>

AnswersFirst == On({"googlechat", "teams"})

\* handleWebhook and handleActivity answer 200 and handle on a goroutine; handleIncoming
\* handles first.
WebhookTakes(m) ==
    /\ On({"whatsapp", "googlechat", "teams"}) /\ Up /\ m \in Written \ (gone \cup work)
    /\ LookAt(m)
    /\ gone' = IF AnswersFirst \/ work' = work THEN gone \cup {m} ELSE gone
    /\ UNCHANGED <<chan, written, cursor, batch, cut, ghosts, chLeft, hungUp>>

\* The platform does not wait any longer for the answer: the request's context is
\* cancelled, and the message will be posted again.
WebhookTimesOut(m) ==
    /\ On({"whatsapp"}) /\ m \in work \ (gone \cup cut) /\ chLeft.losses > 0
    /\ chLeft' = [chLeft EXCEPT !.losses = @ - 1]
    /\ cut' = cut \cup {m} /\ hungUp' = hungUp \cup {m}
    /\ again' = again \cup {m}
    /\ UNCHANGED <<chan, written, gone, cursor, batch, work, outcomes, dropped>>

\* IRC: the connection breaks, readLoop ends, and nobody connects again.
ConnectionLost ==
    /\ On({"irc"}) /\ Up
    /\ chan' = [chan EXCEPT !.state = "lost"]
    /\ batch' = <<>>
    /\ dropped' = dropped \cup (InHand \ work)
    /\ UNCHANGED <<written, gone, cursor, work, cut, outcomes, again, chLeft, hungUp>>

-----------------------------------------------------------------------------
(* Answering *)

\* Send of each channel.  A request to a chat service needs the turn's context; IRC writes
\* into its connection and hears of no error; the libraries of Slack and Discord do not
\* look at the context; Teams needs the service_url of the inbound message's metadata,
\* which the handler does not pass on.
telegramSend(m, ok) == ok /\ m \notin cut
matrixSend(m, ok)   == ok /\ m \notin cut
signalSend(m, ok)   == ok /\ m \notin cut
whatsappSend(m, ok) == ok /\ m \notin cut
gchatSend(m, ok)    == ok /\ m \notin cut
ircSend(m, ok)      == ok /\ chan.state # "lost"
slackSend(m, ok)    == ok
discordSend(m, ok)  == ok
teamsSend(m, ok)    == FALSE

CanSend(m, ok) == CASE On({"telegram"})   -> telegramSend(m, ok)
                    [] On({"matrix"})     -> matrixSend(m, ok)
                    [] On({"signal"})     -> signalSend(m, ok)
                    [] On({"whatsapp"})   -> whatsappSend(m, ok)
                    [] On({"googlechat"}) -> gchatSend(m, ok)
                    [] On({"irc"})        -> ircSend(m, ok)
                    [] On({"slack"})      -> slackSend(m, ok)
                    [] On({"discord"})    -> discordSend(m, ok)
                    [] On({"teams"})      -> teamsSend(m, ok)

\* The handler of cmd/agent: Router.Handle, then Send of the answer or of the error.  An
\* error of Send is logged, and a webhook answers 200 all the same.
HandlerEnds(m, ok) ==
    /\ m \in work /\ MayLose(ok) /\ LoseAnswer(ok)
    /\ work' = work \ {m} /\ cut' = cut \ {m} /\ hungUp' = hungUp \ {m}
    /\ gone' = IF On({"whatsapp"}) /\ m \notin hungUp THEN gone \cup {m} ELSE gone
    /\ answered' = IF CanSend(m, ok) THEN answered \cup {m} ELSE answered
    /\ unsent' = IF ~CanSend(m, ok) /\ m \notin cut THEN unsent \cup {m} ELSE unsent
    /\ dropped' = IF m \in cut /\ (m \in gone' \/ On({"matrix"})) THEN dropped \cup {m} ELSE dropped
    /\ UNCHANGED <<chan, written, cursor, batch, turns, deaf, again>>

ChannelsNext ==
    \/ StopChannel \/ ProcessExit \/ LoopTakes \/ ConnectionLost
    \/ \E ok \in BOOLEAN : StartChannel(ok) \/ getUpdates(ok) \/ sync(ok) \/ receiveMessages(ok)
    \/ \E s \in Shapes : Write(s)
    \/ \E m \in Written : EventTakes(m) \/ WebhookTakes(m) \/ WebhookTimesOut(m)
                            \/ \E ok \in BOOLEAN : HandlerEnds(m, ok)

ChannelsSpec == ChannelsInit /\ [][ChannelsNext]_channelVars

-----------------------------------------------------------------------------
LetGo(m) == IF On({"matrix"}) THEN m < cursor ELSE m \in gone

\* A message that its platform will not deliver again has been answered, is in the
\* channel's hands, or its answer could not be sent, or it mentioned a bot that did not
\* know its name.  Telegram keeps this through crashes
\* and shutdowns; the other platforms lose what they had let go when the process that held
\* it ended or was shutting down, and IRC and Discord what was written to nobody.
NoneLost ==
    \A m \in Written :
        LetGo(m) /\ Outcome(written[m]) # "ignored"
        => m \in answered \cup InHand \cup unsent \cup deaf \cup (IF On({"telegram"}) THEN {} ELSE dropped)

\* The agent gets a message a second time only when its platform could not know that the
\* first time had happened: the process ended before it said so, or took too long to say it.
NoneTwice == \A m \in Written : turns[m] > 1 => m \in again

\* Every message is handled, and once (the receive loops and webhooks of adapter/channel).
DeliveryIsExact == NoneLost /\ NoneTwice
=============================================================================
