----------------------------- MODULE Providers ------------------------------
(***************************************************************************)
(* The model providers: internal/adapter/llm, with the stream accumulator  *)
(* of usecase/agent.go.  A chain of providers, each behind a circuit       *)
(* breaker, is asked in turn; an answer comes whole or as a stream, is     *)
(* converted into a message of the session, and is sent back to the model  *)
(* with the next request.                                                  *)
(*                                                                         *)
(* A reply of the model is a sequence of parts.  The k-th part is a text,  *)
(* whose fragment is k, or a tool call, whose arguments are streamed as    *)
(* the fragments <<k, 1>> and <<k, 2>>.                                    *)
(***************************************************************************)
EXTENDS Integers, Sequences, FiniteSets

CONSTANTS LlmCallers,            \* agents
          Chains,                \* the chains that are tried: the kinds of the primary and of the fallbacks
          Replies,               \* what the model may say: sequences of "text", "call" (with
                                 \* arguments) and "bare" (a call without)
          MaxFailures,
          maxToolCallsPerDelta,
          ProviderBounds         \* bounds: calls, faults

ASSUME ProviderConstants ==
    /\ Chains \subseteq Seq({"openai", "ollama", "openrouter", "anthropic", "gemini", "bedrock"}) \ {<<>>}
    /\ Replies \subseteq Seq({"text", "call", "bare"})
    /\ {MaxFailures, maxToolCallsPerDelta} \subseteq Nat \ {0}
    /\ ProviderBounds \in [calls : Nat, faults : Nat]

VARIABLES chain,     \* the configured chain
          breaker,   \* external: of every provider, the state of its circuit breaker
          asking,    \* of every caller: its call
          llmLeft    \* what the bounds still allow

providerVars == <<chain, breaker, asking, llmLeft>>

OpenAIKinds == {"openai", "ollama", "openrouter"}
NoMessage   == [text |-> <<>>, calls |-> <<>>]
NoCallID    == 0
Quiet       == [pc |-> "idle", mode |-> "chat", reply |-> <<>>, i |-> 1, gen |-> 0, cancelled |-> FALSE,
                part |-> 1, delta |-> 1, acc |-> NoMessage, broken |-> FALSE]

ProvidersInit ==
    /\ chain \in Chains
    /\ breaker = [p \in DOMAIN chain |-> [state |-> "closed", fails |-> 0, probes |-> 0, gen |-> 0]]
    /\ asking = [c \in LlmCallers |-> Quiet]
    /\ llmLeft = ProviderBounds

-----------------------------------------------------------------------------
(* Messages.  A tool call is its part's number and its argument fragments. *)

Ascending(S) == [n \in 1 .. Cardinality(S) |-> CHOOSE k \in S : Cardinality({j \in S : j < k}) = n - 1]

Args(r, k)   == IF r[k] = "call" THEN << <<k, 1>>, <<k, 2>> >> ELSE <<>>
Texts(r)     == Ascending({k \in DOMAIN r : r[k] = "text"})
Requested(r) == Ascending({k \in DOMAIN r : r[k] # "text"})
ToolCalls(r) == [n \in DOMAIN Requested(r) |-> [id |-> Requested(r)[n], args |-> Args(r, Requested(r)[n])]]

\* What the model said.
Said(r) == [text |-> Texts(r), calls |-> ToolCalls(r)]

LastOnly(s) == IF s = <<>> THEN <<>> ELSE <<s[Len(s)]>>

\* One string of text, all tool calls.
fromOpenAIResponse(r) == Said(r)

\* Every text block replaces the one before.
fromAnthropicResponse(r)     == [text |-> LastOnly(Texts(r)), calls |-> ToolCalls(r)]
fromGeminiResponse(r)        == [text |-> LastOnly(Texts(r)), calls |-> ToolCalls(r)]
fromBedrockConverseOutput(r) == [text |-> LastOnly(Texts(r)), calls |-> ToolCalls(r)]

Converted(kind, r) == CASE kind \in OpenAIKinds -> fromOpenAIResponse(r)
                        [] kind = "anthropic"   -> fromAnthropicResponse(r)
                        [] kind = "gemini"      -> fromGeminiResponse(r)
                        [] kind = "bedrock"     -> fromBedrockConverseOutput(r)

\* An assistant message in the next request.  Gemini's keeps the calls or the text.
toOpenAIRequest(m)    == m
toAnthropicRequest(m) == m
toGeminiRequest(m)    == IF m.calls = <<>> THEN m ELSE [m EXCEPT !.text = <<>>]
toBedrockMessage(m)   == m

Replayed(kind, m) == CASE kind \in OpenAIKinds -> toOpenAIRequest(m)
                       [] kind = "anthropic"   -> toAnthropicRequest(m)
                       [] kind = "gemini"      -> toGeminiRequest(m)
                       [] kind = "bedrock"     -> toBedrockMessage(m)

-----------------------------------------------------------------------------
(* Streams: the deltas a provider makes of the parts of a reply. *)

Content(s)        == [content |-> s, calls |-> <<>>]
CallDelta(id, as) == [content |-> <<>>, calls |-> <<[id |-> id, args |-> as]>>]

\* Every chunk has one tool call of its choice, whose index is not read.
openaiDeltas(r, k) ==
    CASE r[k] = "text" -> <<Content(<<k>>)>>
      [] r[k] = "bare" -> <<CallDelta(k, <<>>)>>
      [] r[k] = "call" -> <<CallDelta(k, <<>>), CallDelta(NoCallID, << <<k, 1>> >>), CallDelta(NoCallID, << <<k, 2>> >>)>>

\* content_block_start has the call, and content_block_delta the arguments, as text.
anthropicDeltas(r, k) ==
    CASE r[k] = "text" -> <<Content(<<k>>)>>
      [] r[k] = "bare" -> <<CallDelta(k, <<>>)>>
      [] r[k] = "call" -> <<CallDelta(k, <<>>), Content(<< <<k, 1>> >>), Content(<< <<k, 2>> >>)>>

processBedrockStreamEvent(r, k) == anthropicDeltas(r, k)

\* A chunk has whole parts, here one.
geminiDeltas(r, k) == IF r[k] = "text" THEN <<Content(<<k>>)>> ELSE <<CallDelta(k, Args(r, k))>>

Deltas(kind, r, k) == CASE kind \in OpenAIKinds -> openaiDeltas(r, k)
                        [] kind = "anthropic"   -> anthropicDeltas(r, k)
                        [] kind = "gemini"      -> geminiDeltas(r, k)
                        [] kind = "bedrock"     -> processBedrockStreamEvent(r, k)

\* Mutant: the newest arguments replace the ones before.
MutMerged(old, tc) == [id |-> IF tc.id # NoCallID THEN tc.id ELSE old.id, args |-> tc.args]

\* A tool call at the position of an earlier one.
Merged(old, tc) == [id |-> IF tc.id # NoCallID THEN tc.id ELSE old.id, args |-> old.args \o tc.args]

\* streamAccumulator.addDelta: tool calls are merged by their position in the delta.
addDelta(acc, d) ==
    LET n == IF Len(d.calls) > maxToolCallsPerDelta THEN maxToolCallsPerDelta ELSE Len(d.calls)
        Old(i) == IF i <= Len(acc.calls) THEN acc.calls[i] ELSE [id |-> NoCallID, args |-> <<>>]
    IN  [text  |-> acc.text \o d.content,
         calls |-> [i \in 1 .. (IF n > Len(acc.calls) THEN n ELSE Len(acc.calls)) |->
                      IF i <= n THEN Merged(Old(i), d.calls[i]) ELSE Old(i)]]

-----------------------------------------------------------------------------
(* The circuit breaker: external (gobreaker), with the settings of         *)
(* NewCircuitBreakerProvider.  Every change of state starts a generation,  *)
(* and a result of an earlier one does not count.                          *)

Moved(b, s) == [state |-> s, fails |-> 0, probes |-> 0, gen |-> b.gen + 1]

Passes(b) == b.state = "closed" \/ (b.state = "half-open" /\ b.probes = 0)

Succeeded(b) == IF b.state = "half-open" THEN Moved(b, "closed") ELSE [b EXCEPT !.fails = 0]

\* Every error is a failure of the provider, a cancelled request included.
Failed(b) == IF b.state = "half-open" \/ b.fails + 1 >= MaxFailures THEN Moved(b, "open")
             ELSE [b EXCEPT !.fails = @ + 1]

Counted(b, gen, result) == IF b.gen = gen THEN result ELSE b

\* The timeout of an open circuit, and the interval of a closed one.
TimePasses(p) ==
    /\ \/ breaker[p].state = "open" /\ breaker' = [breaker EXCEPT ![p] = Moved(@, "half-open")]
       \/ breaker[p].state = "closed" /\ breaker[p].fails > 0
          /\ breaker' = [breaker EXCEPT ![p] = Moved(@, "closed")]
    /\ UNCHANGED <<chain, asking, llmLeft>>

-----------------------------------------------------------------------------
(* A call *)

AtCall(c, pc) == asking[c].pc = pc
Provider(c)   == asking[c].i

\* FailoverProvider goes on to the next provider, whatever the error was.
NextProvider(c) == IF Provider(c) < Len(chain)
                   THEN [asking[c] EXCEPT !.i = @ + 1, !.pc = "try"]
                   ELSE [asking[c] EXCEPT !.pc = "failed"]

\* The model behind the primary says r, or the ones behind the fallbacks would.
Ask(c, mode, r) ==
    /\ AtCall(c, "idle") /\ llmLeft.calls > 0 /\ llmLeft' = [llmLeft EXCEPT !.calls = @ - 1]
    /\ asking' = [asking EXCEPT ![c] = [Quiet EXCEPT !.pc = "try", !.mode = mode, !.reply = r]]
    /\ UNCHANGED <<chain, breaker>>

\* CircuitBreakerProvider.Chat and ChatStream: refused, or sent.
Attempt(c) ==
    /\ AtCall(c, "try")
    /\ LET b == breaker[Provider(c)]
       IN  IF Passes(b)
           THEN /\ asking' = [asking EXCEPT ![c].pc = "sent", ![c].gen = b.gen]
                /\ breaker' = [breaker EXCEPT ![Provider(c)].probes = IF b.state = "half-open" THEN 1 ELSE 0]
           ELSE asking' = [asking EXCEPT ![c] = NextProvider(c)] /\ UNCHANGED breaker
    /\ UNCHANGED <<chain, llmLeft>>

\* doJSONRequest and doStreamRequest return an answer ...
Answers(c) ==
    /\ AtCall(c, "sent") /\ ~asking[c].cancelled
    /\ LET p == Provider(c)
           call == asking[c]
       IN  /\ breaker' = [breaker EXCEPT ![p] = Counted(@, call.gen, Succeeded(@))]
           /\ asking' = [asking EXCEPT ![c] =
                IF call.mode = "chat"
                THEN [call EXCEPT !.pc = "done", !.acc = Converted(chain[p], call.reply)]
                ELSE [call EXCEPT !.pc = "reading"]]
    /\ UNCHANGED <<chain, llmLeft>>

\* ... or an error (mapHTTPError, mapBedrockError), as they do at once for a cancelled call.
Refuses(c) ==
    /\ AtCall(c, "sent") /\ (asking[c].cancelled \/ llmLeft.faults > 0)
    /\ llmLeft' = IF asking[c].cancelled THEN llmLeft ELSE [llmLeft EXCEPT !.faults = @ - 1]
    /\ breaker' = [breaker EXCEPT ![Provider(c)] = Counted(@, asking[c].gen, Failed(@))]
    /\ asking' = [asking EXCEPT ![c] = NextProvider(c)]
    /\ UNCHANGED chain

\* The stream has brought everything.
Arrived(c) == asking[c].part > Len(asking[c].reply)

\* parseSSEStream or Bedrock's event stream brings the next delta, and the agent adds it.
Streams(c) ==
    /\ AtCall(c, "reading") /\ ~Arrived(c)
    /\ LET call == asking[c]
           ds   == Deltas(chain[call.i], call.reply, call.part)
           last == call.delta = Len(ds)
       IN  asking' = [asking EXCEPT ![c] = [call EXCEPT
              !.acc   = addDelta(@, ds[call.delta]),
              !.part  = IF last THEN @ + 1 ELSE @,
              !.delta = IF last THEN 1 ELSE @ + 1]]
    /\ UNCHANGED <<chain, breaker, llmLeft>>

\* The stream ends, or breaks off, which the agent cannot tell from an end.
StreamStops(c) ==
    /\ AtCall(c, "reading")
    /\ Arrived(c) \/ asking[c].cancelled \/ llmLeft.faults > 0
    /\ llmLeft' = IF Arrived(c) \/ asking[c].cancelled THEN llmLeft
                  ELSE [llmLeft EXCEPT !.faults = @ - 1]
    /\ asking' = [asking EXCEPT ![c].pc = "done", ![c].broken = ~Arrived(c)]
    /\ UNCHANGED <<chain, breaker>>

\* The user aborts, or the request's context ends.
CancelCall(c) ==
    /\ asking[c].pc \in {"try", "sent", "reading"} /\ ~asking[c].cancelled
    /\ asking' = [asking EXCEPT ![c].cancelled = TRUE]
    /\ UNCHANGED <<chain, breaker, llmLeft>>

CallReturns(c) ==
    /\ asking[c].pc \in {"done", "failed"}
    /\ asking' = [asking EXCEPT ![c] = Quiet]
    /\ UNCHANGED <<chain, breaker, llmLeft>>

ProvidersNext ==
    \/ \E p \in DOMAIN chain : TimePasses(p)
    \/ \E c \in LlmCallers :
          \/ Attempt(c) \/ Answers(c) \/ Refuses(c) \/ Streams(c) \/ StreamStops(c)
          \/ CancelCall(c) \/ CallReturns(c)
          \/ \E mode \in {"chat", "stream"} : \E r \in Replies : Ask(c, mode, r)

ProvidersSpec == ProvidersInit /\ [][ProvidersNext]_providerVars

-----------------------------------------------------------------------------
\* Where a reply is known to suffer.  Streamed: two calls, which all providers put at
\* position 0, and with Anthropic and Bedrock any arguments, which become text.  Not
\* streamed: with Anthropic, Gemini and Bedrock all text blocks but the last.
CallsSuffer(kind, call) == call.mode = "stream" /\
    (Len(ToolCalls(call.reply)) > 1 \/ (kind \in {"anthropic", "bedrock"} /\ \E k \in DOMAIN call.reply : call.reply[k] = "call"))
TextSuffers(kind, call) ==
    IF call.mode = "stream"
    THEN kind \in {"anthropic", "bedrock"} /\ \E k \in DOMAIN call.reply : call.reply[k] = "call"
    ELSE kind \notin OpenAIKinds /\ Len(Texts(call.reply)) > 1

\* A reply that arrived whole comes back to the model as it was: converting the answer,
\* putting a stream together and converting the message for the next request lose no tool
\* call, no fragment of its arguments and no text, whichever provider of the chain
\* answered, apart from the losses above and Gemini's text beside a call.
ReplyComesBack ==
    \A c \in LlmCallers :
        AtCall(c, "done") /\ ~asking[c].broken =>
            LET call == asking[c]
                kind == chain[call.i]
                m    == Replayed(kind, call.acc)
            IN  /\ ~CallsSuffer(kind, call) => m.calls = ToolCalls(call.reply)
                /\ ~TextSuffers(kind, call) =>
                      m.text = IF kind = "gemini" /\ m.calls # <<>> THEN <<>> ELSE Texts(call.reply)
=============================================================================
