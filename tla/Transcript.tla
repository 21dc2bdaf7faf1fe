----------------------------- MODULE Transcript -----------------------------
(***************************************************************************)
(* The conversation a model is shown, as pure operators: how               *)
(* ContextBuilder.Build repairs and truncates a session's history          *)
(* (internal/usecase/transcript_repair.go, context_builder.go) and how the *)
(* compressor replaces the older part of it (compressor.go).               *)
(*                                                                         *)
(* A message is [role, name, calls, body]: calls holds the tool-call IDs   *)
(* of an assistant message, or the one ID a tool result answers; body      *)
(* stands for the content.                                                 *)
(***************************************************************************)
EXTENDS Integers, SequencesExt

CONSTANT NoID  \* the empty tool-call ID

Roles == {"user", "assistant", "tool", "system"}

Summary == [role |-> "assistant", name |-> "context_compression",
            calls |-> <<>>, body |-> "summary"]

\* The result injectMissingResults makes up for a call without one.
MissingResult(id) == [role |-> "tool", name |-> "", calls |-> <<id>>, body |-> "missing"]

IsTool(m) == m.role = "tool"

\* An assistant message that opens a group: it asks for tools.
OpensGroup(m) == m.role = "assistant" /\ m.calls # <<>>

-----------------------------------------------------------------------------
(* RepairTranscript *)

\* One made-up result per pending call, in the order Go's map iteration yields
\* them, which is any: the set of possible outputs.
injectMissingResults(out, pending) ==
    {out \o [i \in DOMAIN order |-> MissingResult(order[i])] : order \in SetToSeqs(pending)}

extractRepairToolCallID(m) == IF m.calls # <<>> THEN m.calls[1] ELSE NoID

TrackedCalls(m) == ToSet(m.calls) \ {NoID}

\* Mutant: a user message leaves the pending calls as they are.
MutSettle(a, m) ==
    IF m.role = "assistant"
    THEN {[out |-> Append(o, m), pending |-> TrackedCalls(m)] :
             o \in injectMissingResults(a.out, a.pending)}
    ELSE {[a EXCEPT !.out = Append(@, m)]}

\* A message other than a tool result: the pending calls get made-up results, and
\* the calls of an assistant message become the pending ones.
Settle(a, m) ==
    {[out |-> Append(o, m),
      pending |-> IF m.role = "assistant" THEN TrackedCalls(m) ELSE {}] :
        o \in injectMissingResults(a.out, a.pending)}

\* Mutant: a result does not settle its call.
MutMatch(a, m) ==
    IF extractRepairToolCallID(m) \in a.pending
    THEN {[a EXCEPT !.out = Append(@, m)]}
    ELSE {a}

\* A tool result is kept when a call waits for it, else dropped as an orphan.
Match(a, m) ==
    IF extractRepairToolCallID(m) \in a.pending
    THEN {[out |-> Append(a.out, m), pending |-> a.pending \ {extractRepairToolCallID(m)}]}
    ELSE {a}

\* The set of transcripts RepairTranscript may return: a loop state is the output
\* so far and the calls still without a result.
RepairTranscript(msgs) ==
    LET Loop(states, m) == UNION {IF IsTool(m) THEN Match(a, m) ELSE Settle(a, m) : a \in states}
        ends == FoldLeft(Loop, {[out |-> <<>>, pending |-> {}]}, msgs)
    IN  UNION {injectMissingResults(a.out, a.pending) : a \in ends}

-----------------------------------------------------------------------------
(* truncateHistory *)

\* Mutant: results are never kept with their call.
MutJoinsLastGroup(groups, m) == FALSE

\* m is a result that directly follows a call, or another result of it.
JoinsLastGroup(groups, m) ==
    groups # <<>> /\ IsTool(m) /\ OpensGroup(Head(Last(groups)))

\* Consecutive groups: an assistant message with calls takes the tool results
\* right after it, every other message stands alone.
groupMessages(msgs) ==
    LET Add(groups, m) ==
            IF JoinsLastGroup(groups, m)
            THEN ReplaceAt(groups, Len(groups), Append(Last(groups), m))
            ELSE Append(groups, <<m>>)
    IN  FoldLeft(Add, <<>>, msgs)

\* Mutants: the budget is overrun by one group; the newest group must fit too.
MutOverBudget(total, g, maxMessages) == total > maxMessages
MutOverBudgetFirst(total, g, maxMessages) == total + Len(g) > maxMessages

\* Adding group g would exceed the budget, and something is kept already.
OverBudget(total, g, maxMessages) == total + Len(g) > maxMessages /\ total > 0

\* The newest groups that fit, in chronological order.
KeepNewest(groups, maxMessages) ==
    LET Keep(g, acc) ==
            IF acc.full \/ OverBudget(Len(acc.kept), g, maxMessages)
            THEN [acc EXCEPT !.full = TRUE]
            ELSE [acc EXCEPT !.kept = g \o @]
    IN  FoldRight(Keep, groups, [kept |-> <<>>, full |-> FALSE]).kept

IsSummary(m) == m.name = Summary.name

truncateHistory(history, maxMessages) ==
    IF maxMessages <= 0 \/ Len(history) <= maxMessages
    THEN history
    ELSE LET kept == KeepNewest(groupMessages(history), maxMessages)
         IN  IF IsSummary(Head(history)) /\ ~(kept # <<>> /\ IsSummary(Head(kept)))
             THEN <<Head(history)>> \o kept
             ELSE kept

\* The history part of the request ContextBuilder.Build assembles (the system
\* prompt before it is constant): one of these.
Build(history, maxMessages) ==
    {truncateHistory(r, maxMessages) : r \in RepairTranscript(history)}

-----------------------------------------------------------------------------
(* Compression *)

LastN(msgs, n) == SubSeq(msgs, Len(msgs) - n + 1, Len(msgs))

\* Session.CompressMessages with a non-empty summary.
CompressMessages(msgs, keepRecent) ==
    IF Len(msgs) <= keepRecent THEN msgs ELSE <<Summary>> \o LastN(msgs, keepRecent)

-----------------------------------------------------------------------------
(* Reference definitions *)

\* The tool results right after position i.
Answers(msgs, i) ==
    {j \in i + 1 .. Len(msgs) : \A k \in i + 1 .. j : IsTool(msgs[k])}

\* What providers require of a conversation: every tool call with an ID is
\* answered exactly once, right after the message that made it, and every tool
\* result answers such a call.
WellFormed(msgs) ==
    /\ \A i \in DOMAIN msgs :
          OpensGroup(msgs[i]) =>
            \A id \in TrackedCalls(msgs[i]) :
               \E j \in Answers(msgs, i) :
                  \A k \in Answers(msgs, i) : extractRepairToolCallID(msgs[k]) = id <=> k = j
    /\ \A j \in DOMAIN msgs :
          IsTool(msgs[j]) =>
            \E i \in 1 .. j - 1 : /\ j \in Answers(msgs, i)
                                  /\ OpensGroup(msgs[i])
                                  /\ extractRepairToolCallID(msgs[j]) \in TrackedCalls(msgs[i])

\* The message at j is no orphan: it is not a tool result, or it is the first
\* answer to a call of the assistant message its run of results follows.
NoOrphan(msgs, j) ==
    IsTool(msgs[j]) =>
      \E i \in 1 .. j - 1 :
         /\ j \in Answers(msgs, i)
         /\ OpensGroup(msgs[i])
         /\ extractRepairToolCallID(msgs[j]) \in TrackedCalls(msgs[i])
         /\ \A k \in i + 1 .. j - 1 :
               extractRepairToolCallID(msgs[k]) # extractRepairToolCallID(msgs[j])

WithoutOrphans(msgs) ==
    FoldLeftDomain(LAMBDA out, j : IF NoOrphan(msgs, j) THEN Append(out, msgs[j]) ELSE out,
                   <<>>, msgs)

WithoutMadeUp(msgs) == SelectSeq(msgs, LAMBDA m : m.body # "missing")
=============================================================================
