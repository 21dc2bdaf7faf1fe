---------------------------- MODULE MCTranscript ----------------------------
(***************************************************************************)
(* Every history of up to MaxLen messages, grown message by message: well  *)
(* formed ones, and ones with lost, repeated, foreign and unidentified     *)
(* tool results as a crash, a compression cut or interleaved turns leave   *)
(* them.                                                                   *)
(***************************************************************************)
EXTENDS Transcript

CONSTANTS MaxLen,       \* bound on the history's length
          IDs,          \* tool-call IDs: 1, 2, ...
          Budgets       \* the budgets of truncateHistory that are tried

VARIABLE history

Plain(role) == [role |-> role, name |-> "", calls |-> <<>>, body |-> "text"]
Asks(calls) == [role |-> "assistant", name |-> "", calls |-> calls, body |-> "text"]
Result(id) == [role |-> "tool", name |-> "", calls |-> <<id>>, body |-> "result"]

Messages == {Plain("user"), Plain("assistant"), Summary, Plain("tool"), Result(NoID)}
            \cup {Asks(<<id>>) : id \in IDs}
            \cup {Asks(s) : s \in SetToSeqs(IDs)}
            \cup {Result(id) : id \in IDs}

TranscriptInit == history = <<>>

\* Session.AddMessage.
AddMessage(m) == Len(history) < MaxLen /\ history' = Append(history, m)

\* No definition tells one ID from another, so they first appear in their order.
InOrder(m) ==
    \A id \in Range(m.calls) \ {NoID} :
        id = 1 \/ \E seen \in Range(history) \cup {m} : id - 1 \in Range(seen.calls)

TranscriptNext == \E m \in Messages : InOrder(m) /\ AddMessage(m)

TranscriptSpec == TranscriptInit /\ [][TranscriptNext]_history

-----------------------------------------------------------------------------

\* However broken the history, RepairTranscript returns a conversation in which
\* every identified call is answered once and in place and no result is an
\* orphan; it drops the orphans and nothing else, and adds made-up results and
\* nothing else (the two repairs of its doc comment).  A well-formed history passes
\* unchanged: repairing at every iteration of the agent loop never alters an intact
\* conversation, and repairing twice is repairing once.
RepairIsExact ==
    \A r \in RepairTranscript(history) :
        /\ WellFormed(r)
        /\ WithoutMadeUp(r) = WithoutOrphans(history)
        /\ IF WellFormed(history) THEN r = history ELSE RepairTranscript(r) = {r}

\* truncateHistory keeps the longest suffix of whole groups within the budget,
\* the last group whatever its size, and the compression summary in front.
TruncationIsMaximal ==
    \A h \in RepairTranscript(history), max \in Budgets :
        LET t == truncateHistory(h, max)
            groups == groupMessages(h)
            Newest(n) == FlattenSeq(LastN(groups, n))
        IN  Len(h) > max =>
              \E n \in 1 .. Len(groups) :
                 /\ t = Newest(n) \/ (IsSummary(Head(h)) /\ t = <<Head(h)>> \o Newest(n))
                 /\ IsSummary(Head(h)) => IsSummary(Head(t))
                 /\ Len(Newest(n)) <= max \/ n = 1
                 /\ n < Len(groups) => Len(Newest(n + 1)) > max

\* What Build sends is well formed whatever the history and the budget:
\* truncation never separates a call from its results, not even when it puts
\* the summary back in front; and it drops no more than the budget asks for.
BuildIsWellFormed ==
    /\ \A max \in Budgets : \A r \in Build(history, max) : WellFormed(r)
    /\ TruncationIsMaximal
=============================================================================
