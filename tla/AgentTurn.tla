----------------------------- MODULE AgentTurn -----------------------------
(***************************************************************************)
(* Agent.HandleMessage(Stream) on one session: internal/usecase/agent.go   *)
(* with the context guard, the compressor and the session lock it calls.   *)
(* Several turns (calls of handleInner) may run at once: the gateway       *)
(* dispatches every request on a goroutine of its own.  The session lock   *)
(* is the abstract one that SessionLocker implements.                      *)
(*                                                                         *)
(* A step is one access to the shared session (each is a critical section  *)
(* of Session.mu), one outcome of an external call, or one finished tool.  *)
(* The guard's token count is abstracted to the message count.             *)
(***************************************************************************)
EXTENDS Transcript, FiniteSets

CONSTANTS Turns,          \* calls of handleInner; a turn's name is its user message
          NoTurn,
          Wirings,        \* the optional dependencies (AgentDeps) to be tried
          MaxIterations,  \* agent loop bound
          MaxAttempts,    \* maxLLMRetries
          MaxMessages,    \* ContextBuilder's budget
          GuardLimit,     \* ContextGuard's limit, in messages
          Threshold,      \* Compressor's threshold
          KeepRecent,     \* messages that compression keeps
          CallCounts      \* how many tools one reply may ask for

ASSUME TurnBounds == /\ {MaxIterations, MaxAttempts, KeepRecent} \subseteq Nat \ {0}
                     /\ {MaxMessages, GuardLimit, Threshold} \subseteq Nat
                     /\ CallCounts \subseteq Nat \ {0}
                     /\ NoTurn \notin Turns

\* A reply and its results fit in what compression keeps (10 by default).
ASSUME KeepsAGroup == \A n \in CallCounts : n < KeepRecent

VARIABLES deps,    \* which optional dependencies are wired; never changes
          msgs,    \* session.Msgs
          holder,  \* the turn that holds the session lock
          turn     \* the local state of every turn

turnVars == <<deps, msgs, holder, turn>>

(***************************************************************************)
(* A turn's locals: pc; stage, what the guard or the compressor was called *)
(* for; iter and attempt, the loop variables; history, the messages that   *)
(* chatReq was built from; reply, the model's reply (<<>> or one message); *)
(* copy, the compressor's copy of the messages; filled, the indices of     *)
(* toolMsgs whose tool has finished; next, the index to be added next;     *)
(* ctxDone; and outcome, what handleInner returned.                        *)
(***************************************************************************)
Fresh == [pc |-> "start", stage |-> "none", iter |-> 0, attempt |-> 0, history |-> <<>>,
          reply |-> <<>>, copy |-> <<>>, filled |-> {}, next |-> 1,
          ctxDone |-> FALSE, outcome |-> "none"]

At(t, label) == turn[t].pc = label

UserMessage(t) == [role |-> "user", name |-> "", calls |-> <<>>, body |-> t]

\* Providers give every tool call an ID of its own.
Reply(t, n) == [role |-> "assistant", name |-> "", body |-> "reply",
                calls |-> [k \in 1 .. n |-> <<t, turn[t].iter, k>>]]

\* executeTool returns a tool message with the call's ID on every path: unknown
\* tool, approval denied, tool failed, tool succeeded.
executeTool(id) == [role |-> "tool", name |-> "", calls |-> <<id>>, body |-> "result"]

\* The calls of the reply being worked on.
Calls(t) == turn[t].reply[1].calls

TurnInit == /\ deps \in Wirings
        /\ msgs = <<>>
        /\ holder = NoTurn
        /\ turn = [t \in Turns |-> Fresh]

\* Mutant: the deferred unlock is missing.
MutReturn(t, result) ==
    /\ turn' = [turn EXCEPT ![t] = [Fresh EXCEPT !.pc = "done", !.outcome = result]]
    /\ UNCHANGED holder

\* handleInner returns and the deferred unlock runs; the turn's locals are dead.
Return(t, result) ==
    /\ turn' = [turn EXCEPT ![t] = [Fresh EXCEPT !.pc = "done", !.outcome = result]]
    /\ holder' = IF holder = t THEN NoTurn ELSE holder

-----------------------------------------------------------------------------
(* Entry *)

\* Mutant: the lock is not taken.
MutEnter(t) ==
    /\ At(t, "start")
    /\ turn' = [turn EXCEPT ![t].pc = "addUser"]
    /\ UNCHANGED <<deps, msgs, holder>>

\* The session lock, when one is wired.
Enter(t) ==
    /\ At(t, "start")
    /\ deps.locker => holder = NoTurn
    /\ holder' = IF deps.locker THEN t ELSE holder
    /\ turn' = [turn EXCEPT ![t].pc = "addUser"]
    /\ UNCHANGED <<deps, msgs>>

\* Lock returns ctx.Err().
LockFails(t) ==
    /\ At(t, "start")
    /\ deps.locker /\ turn[t].ctxDone
    /\ Return(t, "error")
    /\ UNCHANGED <<deps, msgs>>

AddUserMessage(t) ==
    /\ At(t, "addUser")
    /\ msgs' = Append(msgs, UserMessage(t))
    /\ turn' = [turn EXCEPT ![t].pc = IF deps.guard THEN "guard" ELSE "loop",
                            ![t].stage = "userAdded"]
    /\ UNCHANGED <<deps, holder>>

-----------------------------------------------------------------------------
(* ContextGuard.Check, at both check points *)

WithinLimit == Len(msgs) <= GuardLimit

\* After check point 2 the loop continues with the next iteration.
PassGuard(t) ==
    /\ turn' = [turn EXCEPT ![t].pc = "loop",
                            ![t].iter = IF turn[t].stage = "resultsAdded" THEN @ + 1 ELSE @]
    /\ UNCHANGED holder

GuardCheck(t) ==
    /\ At(t, "guard")
    /\ \/ WithinLimit /\ PassGuard(t)
       \/ /\ ~WithinLimit /\ deps.compressor
          /\ turn' = [turn EXCEPT ![t].pc = "compress"]
          /\ UNCHANGED holder
       \/ ~WithinLimit /\ ~deps.compressor /\ Return(t, "error")
    /\ UNCHANGED <<deps, msgs>>

\* After compression; still too long is ErrContextOverflow.
GuardRecheck(t) ==
    /\ At(t, "recheck")
    /\ \/ WithinLimit /\ PassGuard(t)
       \/ ~WithinLimit /\ Return(t, "error")
    /\ UNCHANGED <<deps, msgs>>

-----------------------------------------------------------------------------
(* Compressor.compress *)

\* What follows compress: the guard fails or counts again, a retry rebuilds its
\* prompt either way, a finished turn returns its answer either way.
AfterCompress(t, failed) ==
    LET guarding == turn[t].stage \in {"userAdded", "resultsAdded"} IN
    \/ guarding /\ failed /\ Return(t, "error")
    \/ turn[t].stage = "final" /\ Return(t, "ok")
    \/ /\ (guarding /\ ~failed) \/ turn[t].stage = "overflow"
       /\ turn' = [turn EXCEPT ![t].pc = IF guarding THEN "recheck" ELSE "rebuild",
                               ![t].copy = <<>>]
       /\ UNCHANGED holder

\* The compressor copies the messages; a short session is left alone.
CompressCopy(t) ==
    /\ At(t, "compress")
    /\ \/ Len(msgs) <= KeepRecent /\ AfterCompress(t, FALSE)
       \/ /\ Len(msgs) > KeepRecent
          /\ turn' = [turn EXCEPT ![t].pc = "summarise", ![t].copy = msgs]
          /\ UNCHANGED holder
    /\ UNCHANGED <<deps, msgs>>

\* The model fails, returns a blank summary, or returns a summary.
Summarise(t) ==
    /\ At(t, "summarise")
    /\ \/ \E failed \in BOOLEAN : AfterCompress(t, failed)
       \/ /\ turn' = [turn EXCEPT ![t].pc = "replace"]
          /\ UNCHANGED holder
    /\ UNCHANGED <<deps, msgs>>

\* The summary takes the place of all but the newest messages of the session as
\* it is now, which may have changed since the copy was made.
Replace(t) ==
    /\ At(t, "replace")
    /\ msgs' = CompressMessages(msgs, KeepRecent)
    /\ AfterCompress(t, FALSE)
    /\ UNCHANGED deps

-----------------------------------------------------------------------------
(* The agent loop and callLLMWithRetry *)

\* The requests ContextBuilder.Build may make of the history it was given; the
\* builder is pure, so the history is kept and the request derived from it.
Requests(t) == Build(turn[t].history, MaxMessages)

Exhausted(t) == turn[t].iter >= MaxIterations

\* Streaming turns look at their context before every iteration.
LoopHead(t) ==
    LET stop == Exhausted(t) \/ (deps.streaming /\ turn[t].ctxDone) IN
    /\ At(t, "loop")
    /\ \/ stop /\ Return(t, "error")
       \/ /\ ~stop
          /\ turn' = [turn EXCEPT ![t].pc = "call", ![t].attempt = 0, ![t].history = msgs]
          /\ UNCHANGED holder
    /\ UNCHANGED <<deps, msgs>>

\* The model replies, with the final text or with tool calls.
LLMReplies(t) ==
    /\ At(t, "call")
    /\ \E n \in {0} \cup CallCounts :
          turn' = [turn EXCEPT ![t].pc = "addReply", ![t].reply = <<Reply(t, n)>>]
    /\ UNCHANGED <<deps, msgs, holder>>

\* The call fails for good: no classifier, an error that is not retryable, or the
\* last attempt.
LLMFails(t) ==
    /\ At(t, "call")
    /\ Return(t, "error")
    /\ UNCHANGED <<deps, msgs>>

\* A retryable error that compression cannot help with.
LLMRetryable(t) ==
    /\ At(t, "call")
    /\ deps.classifier
    /\ turn[t].attempt < MaxAttempts - 1
    /\ turn' = [turn EXCEPT ![t].pc = "backoff"]
    /\ UNCHANGED <<deps, msgs, holder>>

\* Context overflow: force compression, also on the last attempt.
LLMOverflow(t) ==
    /\ At(t, "call")
    /\ deps.classifier /\ deps.compressor
    /\ turn' = [turn EXCEPT ![t].pc = "compress", ![t].stage = "overflow"]
    /\ UNCHANGED <<deps, msgs, holder>>

\* The prompt is rebuilt, and sent when an attempt is left.
Rebuild(t) ==
    /\ At(t, "rebuild")
    /\ \/ turn[t].attempt = MaxAttempts - 1 /\ Return(t, "error")
       \/ /\ turn[t].attempt < MaxAttempts - 1
          /\ turn' = [turn EXCEPT ![t].pc = "call", ![t].attempt = @ + 1, ![t].history = msgs]
          /\ UNCHANGED holder
    /\ UNCHANGED <<deps, msgs>>

\* Backoff: the timer fires or the context ends, whichever the select picks.
Backoff(t) ==
    /\ At(t, "backoff")
    /\ \/ turn[t].ctxDone /\ Return(t, "error")
       \/ /\ turn' = [turn EXCEPT ![t].pc = "call", ![t].attempt = @ + 1]
          /\ UNCHANGED holder
    /\ UNCHANGED <<deps, msgs>>

\* The reply enters the session; without tool calls it is the answer.
AddReply(t) ==
    /\ At(t, "addReply")
    /\ msgs' = Append(msgs, turn[t].reply[1])
    /\ \/ /\ Calls(t) # <<>> \/ deps.compressor
          /\ turn' = [turn EXCEPT ![t].pc = IF Calls(t) # <<>> THEN "tools" ELSE "shouldCompress",
                                  ![t].filled = {}]
          /\ UNCHANGED holder
       \/ Calls(t) = <<>> /\ ~deps.compressor /\ Return(t, "ok")
    /\ UNCHANGED deps

\* Compressor.ShouldCompress, asked by handleInner and again by Compress.
ShouldCompress(t) ==
    /\ At(t, "shouldCompress")
    /\ \/ /\ Len(msgs) > Threshold
          /\ turn' = [turn EXCEPT ![t].pc = "compress", ![t].stage = "final"]
          /\ UNCHANGED holder
       \/ Len(msgs) <= Threshold /\ Return(t, "ok")
    /\ UNCHANGED <<deps, msgs>>

\* One of the parallel tool goroutines fills its slot; wg.Wait returns with the
\* last one.
ToolDone(t) ==
    /\ At(t, "tools")
    /\ \E k \in DOMAIN Calls(t) \ turn[t].filled :
          turn' = [turn EXCEPT ![t].filled = @ \cup {k},
                               ![t].pc = IF turn[t].filled \cup {k} = DOMAIN Calls(t)
                                         THEN "addResults" ELSE @]
    /\ UNCHANGED <<deps, msgs, holder>>

\* The results enter the session one by one, in the order of the calls.
AddResult(t) ==
    LET last == turn[t].next = Len(Calls(t)) IN
    /\ At(t, "addResults")
    /\ msgs' = Append(msgs, executeTool(Calls(t)[turn[t].next]))
    /\ turn' = IF last
               THEN [turn EXCEPT ![t].next = 1,
                                 ![t].stage = "resultsAdded",
                                 ![t].pc = IF deps.guard THEN "guard" ELSE "loop",
                                 ![t].iter = IF deps.guard THEN @ ELSE @ + 1]
               ELSE [turn EXCEPT ![t].next = @ + 1]
    /\ UNCHANGED <<deps, holder>>

\* The caller's context ends (chat.abort, a closed connection, a timeout).  With
\* none of these wired nothing but the external calls looks at the context, and
\* they may fail at any time anyway.
CancelContext(t) ==
    /\ ~At(t, "done") /\ ~turn[t].ctxDone
    /\ deps.locker \/ deps.streaming \/ deps.classifier
    /\ turn' = [turn EXCEPT ![t].ctxDone = TRUE]
    /\ UNCHANGED <<deps, msgs, holder>>

-----------------------------------------------------------------------------

Step(t) == \/ Enter(t) \/ LockFails(t) \/ AddUserMessage(t)
           \/ GuardCheck(t) \/ GuardRecheck(t)
           \/ CompressCopy(t) \/ Summarise(t) \/ Replace(t)
           \/ LoopHead(t) \/ LLMReplies(t) \/ LLMFails(t) \/ LLMRetryable(t)
           \/ LLMOverflow(t) \/ Rebuild(t) \/ Backoff(t)
           \/ AddReply(t) \/ ShouldCompress(t) \/ ToolDone(t) \/ AddResult(t)

\* Every turn has returned.
Finished == (\A t \in Turns : At(t, "done")) /\ UNCHANGED turnVars

TurnNext == Finished \/ \E t \in Turns : Step(t) \/ CancelContext(t)

TurnSpec == TurnInit /\ [][TurnNext]_turnVars

\* Goroutines run, and every external call (model, tool) returns: the HTTP
\* clients and the tools have timeouts.  Nobody is obliged to cancel.
FairTurnSpec == TurnSpec /\ \A t \in Turns : WF_turnVars(Step(t))

-----------------------------------------------------------------------------
(* Properties *)

\* The newest input of a turn at its prompt: its user message, or its last reply
\* with all the results that came back.
NewestInput(t) ==
    IF turn[t].iter = 0
    THEN <<UserMessage(t)>>
    ELSE turn[t].reply \o [k \in DOMAIN Calls(t) |-> executeTool(Calls(t)[k])]

\* Each prompt ends with what the turn just added, its user message or its tool
\* calls with their real results: neither repair, truncation, a compression forced
\* by the guard or by an overflow, nor another turn of the session hides it from
\* the model.
NewestInputIsSent ==
    \A t \in Turns :
        At(t, "call") => \A r \in Requests(t) : IsSuffix(NewestInput(t), r)

\* The part of the compressor's copy that went into the summary.
Summarised(t) == SubSeq(turn[t].copy, 1, Len(turn[t].copy) - KeepRecent)

\* Compression drops from the session exactly the messages the summary was made
\* from ("Compress summarizes older messages and replaces them with a summary +
\* recent messages"): none is dropped that was added after the copy was taken.
CompressionLosesNothing ==
    [][\A t \in Turns :
          At(t, "replace") /\ turn'[t].pc # "replace" =>
            msgs = Summarised(t) \o Tail(msgs')]_turnVars

\* Every call of HandleMessage returns: the loops are bounded and the lock is
\* given back on every path.
EveryTurnReturns == \A t \in Turns : <>At(t, "done")
=============================================================================
