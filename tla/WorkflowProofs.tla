--------------------------- MODULE WorkflowProofs ---------------------------
(***************************************************************************)
(* Proofs about the workflow engine, the channels, the composition root    *)
(* run(), which opens and closes everything, and the configuration that it *)
(* loads first.  Each has an inductive invariant of its own, built from    *)
(* named parts.                                                            *)
(*                                                                         *)
(* The workflow engine: no step runs behind an approval that nobody gave,  *)
(* and a run that was promised to be paused can be resumed.  The argument  *)
(* for the first counts.  A call that walks through a run between two      *)
(* gates holds one passing of the gate behind it, and spends it, step by   *)
(* step, on executing each of them at most once; so the executions of a    *)
(* step and the calls that may still come to it are together no more than  *)
(* the passings of its nearest gate.                                       *)
(***************************************************************************)
EXTENDS Workflow, Channels, Startup, Config, FiniteSetTheorems, SequenceTheorems, TLAPS

Steps    == [type : StepTypes, cond : BOOLEAN, valid : BOOLEAN, failOnError : BOOLEAN]
Tokens   == {NoToken} \cup (WfCallers \X Nat)
Runs     == [id : Ids, steps : Seq(Steps), step : Nat, status : {"running", "paused", "failed", "denied", "completed"},
             token : Tokens]
WfLocals == [pc : {"idle", "refused", "admitted", "counted", "steps", "save", "done"}, run : Runs \cup {NoRun},
             counted : BOOLEAN]
Counters == [steps : Seq(Steps), executed : Seq(Nat), passed : Seq(Nat)]

\* The runs that were made.
Made == WfBounds.runs - wfLeft.runs

WfTypeOK ==
    /\ wfRuns \in [Ids -> Runs \cup {NoRun}] /\ wfDisk \in [Ids -> Runs \cup {NoRun}]
    /\ wfCall \in [WfCallers -> WfLocals]
    /\ wfLeft \in [runs : 0 .. WfBounds.runs, crashes : Nat, failures : Nat]
    /\ history \in [Ids -> Counters]
    /\ \A r \in Ids : /\ Len(history[r].executed) = Len(history[r].steps)
                      /\ Len(history[r].passed) = Len(history[r].steps)
    /\ promised \subseteq Ids \X Tokens

\* The gates among the first steps of a run, and that each of them was passed; h is what
\* happened to the run.
Gates(steps, n) == {j \in 1 .. n - 1 : steps[j].type = "approval"}
Opened(h, n)    == \A j \in Gates(h.steps, n) : h.passed[j] > 0

\* A run where it pauses: at a gate, and those before it were passed.
AtGate(run, h) == /\ run.step \in 1 .. Len(run.steps) /\ run.steps[run.step].type = "approval"
                  /\ Opened(h, run.step)

\* What the store has of the run r.
StoredRight(run, r, h, made) ==
    run = NoRun \/ /\ run.id = r /\ r <= made /\ run.steps = h.steps
                   /\ run.status = "paused" => AtGate(run, h)

\* What a call that walks through a run, or is about to save it, has of it.
HeldRight(call, h, made) ==
    /\ call.run \in Runs /\ call.run.id <= made /\ call.run.steps = h.steps
    /\ call.pc = "steps" => call.run.step \in 1 .. Len(h.steps) + 1 /\ Opened(h, call.run.step)
    /\ call.pc = "save" /\ call.run.status = "paused" => AtGate(call.run, h)

RunsAreRight ==
    /\ \A r \in Ids : /\ StoredRight(wfRuns[r], r, history[r], Made)
                      /\ StoredRight(wfDisk[r], r, history[r], Made)
                      /\ r > Made => history[r].steps = <<>>
    /\ \A c \in WfCallers : wfCall[c].pc \in {"steps", "save"} =>
                                HeldRight(wfCall[c], history[wfCall[c].run.id], Made)

\* The nearest gate before step i, or 0 if there is none; what it allows; and the calls
\* behind it that may still come to step i.
Nearest(steps, i, j) == j \in {0} \cup Gates(steps, i) /\ \A k \in Gates(steps, i) : k <= j
Credit(h, j)         == IF j = 0 THEN 1 ELSE h.passed[j]
Comes(call, r, i, j) == call.pc = "steps" /\ call.run.id = r /\ j < call.run.step /\ call.run.step <= i
Coming(calls, r, i, j) == {c \in WfCallers : Comes(calls[c], r, i, j)}

Covered(calls, r, h) ==
    \A i \in 1 .. Len(h.steps) : \A j \in Nat :
        Nearest(h.steps, i, j) => h.executed[i] + Cardinality(Coming(calls, r, i, j)) <= Credit(h, j)

StepsAreCovered == \A r \in Ids : Covered(wfCall, r, history[r])

ExecutedIsOpened ==
    \A r \in Ids : \A i \in 1 .. Len(history[r].steps) : history[r].executed[i] > 0 => Opened(history[r], i)

PromisesAreStored ==
    \A t \in promised : /\ wfRuns[t[1]].status = "paused" /\ wfRuns[t[1]].token = t[2]
                        /\ wfDisk[t[1]] = wfRuns[t[1]]

WorkflowInv == WfTypeOK /\ RunsAreRight /\ StepsAreCovered /\ ExecutedIsOpened /\ PromisesAreStored

-----------------------------------------------------------------------------
(* What the actions do *)

\* One call moves, and nothing else does.
CallMoves(c) == wfCall' \in [WfCallers -> WfLocals] /\ \A d \in WfCallers : d # c => wfCall'[d] = wfCall[d]
SameStore == wfRuns' = wfRuns /\ wfDisk' = wfDisk
SameRuns  == SameStore /\ promised' = promised /\ Made' = Made /\ wfLeft' \in [runs : 0 .. WfBounds.runs, crashes : Nat, failures : Nat]

\* The histories stay what they are; in one of them a step was passed, or executed.
KeepsSize(h, g) == g \in Counters /\ g.steps = h.steps /\ Len(g.executed) = Len(h.executed) /\ Len(g.passed) = Len(h.passed)
PassesIn(h, g, i) ==
    /\ KeepsSize(h, g) /\ g.executed = h.executed
    /\ \A k \in 1 .. Len(h.steps) : g.passed[k] = IF k = i THEN h.passed[k] + 1 ELSE h.passed[k]
ExecutesIn(h, g, i) ==
    /\ KeepsSize(h, g) /\ g.passed = h.passed
    /\ \A k \in 1 .. Len(h.steps) : g.executed[k] = IF k = i THEN h.executed[k] + 1 ELSE h.executed[k]
Passes(r, i)   == PassesIn(history[r], history'[r], i) /\ \A q \in Ids : q # r => history'[q] = history[q]
Executes(r, i) == ExecutesIn(history[r], history'[r], i) /\ \A q \in Ids : q # r => history'[q] = history[q]

\* The constants are what they should be.
LEMMA Bounds == WfBounds.runs \in Nat /\ Ids = 1 .. WfBounds.runs /\ IsFiniteSet(WfCallers) /\ NoRun.id = 0 /\ NoRun.status = "none"
BY WorkflowConstants DEF Ids, NoRun

\* A step was passed.
LEMMA PassesDoes ==
    ASSUME WfTypeOK, NEW r \in Ids, NEW i \in 1 .. Len(history[r].steps),
           history' = [history EXCEPT ![r].passed[i] = @ + 1]
    PROVE  Passes(r, i) /\ history' \in [Ids -> Counters]
<1> DEFINE h == history[r]
           p == [h.passed EXCEPT ![i] = @ + 1]
           g == [h EXCEPT !.passed = p]
<1>1. h \in Counters /\ Len(h.executed) = Len(h.steps) /\ Len(h.passed) = Len(h.steps)
  BY DEF WfTypeOK
<1>2. h.passed \in Seq(Nat) /\ i \in 1 .. Len(h.passed) /\ h.steps \in Seq(Steps) /\ h.executed \in Seq(Nat)
  BY <1>1 DEF Counters
<1>3. /\ p \in Seq(Nat) /\ Len(p) = Len(h.passed)
      /\ \A k \in 1 .. Len(h.passed) : p[k] = IF k = i THEN h.passed[k] + 1 ELSE h.passed[k]
  BY SMTT(30), <1>2
<1>4. history' = [history EXCEPT ![r] = g]
  OBVIOUS
<1> HIDE DEF p
<1>5. g \in Counters /\ g.steps = h.steps /\ g.executed = h.executed /\ g.passed = p
  BY <1>1, <1>3 DEF Counters
<1>6. history'[r] = g /\ (\A q \in Ids : q # r => history'[q] = history[q]) /\ history' \in [Ids -> Counters]
  BY <1>4, <1>5 DEF WfTypeOK
<1> QED
  BY <1>1, <1>3, <1>5, <1>6 DEF Passes, PassesIn, KeepsSize

\* A step was executed.
LEMMA ExecutesDoes ==
    ASSUME WfTypeOK, NEW r \in Ids, NEW i \in 1 .. Len(history[r].steps),
           history' = [history EXCEPT ![r].executed[i] = @ + 1]
    PROVE  Executes(r, i) /\ history' \in [Ids -> Counters]
<1> DEFINE h == history[r]
           p == [h.executed EXCEPT ![i] = @ + 1]
           g == [h EXCEPT !.executed = p]
<1>1. h \in Counters /\ Len(h.executed) = Len(h.steps) /\ Len(h.passed) = Len(h.steps)
  BY DEF WfTypeOK
<1>2. h.executed \in Seq(Nat) /\ i \in 1 .. Len(h.executed) /\ h.steps \in Seq(Steps) /\ h.passed \in Seq(Nat)
  BY <1>1 DEF Counters
<1>3. /\ p \in Seq(Nat) /\ Len(p) = Len(h.executed)
      /\ \A k \in 1 .. Len(h.executed) : p[k] = IF k = i THEN h.executed[k] + 1 ELSE h.executed[k]
  BY <1>2
<1>4. history' = [history EXCEPT ![r] = g]
  OBVIOUS
<1> HIDE DEF p
<1>5. g \in Counters /\ g.steps = h.steps /\ g.passed = h.passed /\ g.executed = p
  BY <1>1, <1>3 DEF Counters
<1>6. history'[r] = g /\ (\A q \in Ids : q # r => history'[q] = history[q]) /\ history' \in [Ids -> Counters]
  BY <1>4, <1>5 DEF WfTypeOK
<1> QED
  BY <1>1, <1>3, <1>5, <1>6 DEF Executes, ExecutesIn, KeepsSize

\* What a step's outcome is.
LEMMA StepOutcome ==
    ASSUME NEW s \in Steps, NEW w \in World
    PROVE  /\ s.type = "approval" => executeStep(s, w) = "paused"
           /\ s.type # "approval" => executeStep(s, w) \in {"completed", "failed"}
<1>1. s.type \in {"exec", "http", "transform", "approval", "tool_call"}
  BY DEF Steps, StepTypes
<1>2. CASE s.type = "approval"
  BY <1>2 DEF executeStep, executeApprovalStep
<1>3. CASE s.type = "exec"
  BY <1>3 DEF executeStep, executeExecStep
<1>4. CASE s.type = "http"
  BY <1>4 DEF executeStep, executeHTTPStep
<1>5. CASE s.type = "transform"
  BY <1>5 DEF executeStep, executeTransformStep
<1>6. CASE s.type = "tool_call"
  BY <1>6 DEF executeStep, executeToolCallStep
<1> QED
  BY <1>1, <1>2, <1>3, <1>4, <1>5, <1>6

\* A call gets new locals.
LEMMA MovesTo ==
    ASSUME WfTypeOK, NEW c \in WfCallers, NEW l \in WfLocals, wfCall' = [wfCall EXCEPT ![c] = l]
    PROVE  CallMoves(c) /\ wfCall'[c] = l
BY DEF CallMoves, WfTypeOK

\* Until a call has its run it has nothing, and counts.
Waits(c) ==
    /\ CallMoves(c) /\ wfCall[c].pc \notin {"steps", "save"} /\ wfCall'[c].pc \notin {"steps", "save"}
    /\ SameRuns /\ history' = history

\* A Run is refused or counted before it has a pipeline.
LEMMA QueueDoes ==
    ASSUME WfTypeOK, NEW c \in WfCallers, RunCheck(c) \/ RunCount(c) \/ RunArgs(c)
    PROVE  Waits(c)
<1> DEFINE l(pc) == [wfCall[c] EXCEPT !.pc = pc]
<1>1. wfCall[c] \in WfLocals
  BY DEF WfTypeOK
<1>2. \A pc \in {"refused", "admitted", "counted"} : l(pc) \in WfLocals /\ l(pc).pc = pc
  BY <1>1 DEF WfLocals
<1>3. PICK pc \in {"refused", "admitted", "counted"} : wfCall' = [wfCall EXCEPT ![c] = l(pc)]
  BY DEF RunCheck, RunCount, RunArgs
<1>4. l(pc) \in WfLocals /\ l(pc).pc = pc
  BY <1>2, <1>3
<1> HIDE DEF l
<1>5. CallMoves(c) /\ wfCall'[c].pc = pc
  BY <1>3, <1>4, MovesTo
<1>6. wfCall[c].pc \notin {"steps", "save"} /\ SameRuns /\ history' = history
  BY DEF RunCheck, RunCount, RunArgs, SameRuns, SameStore, Made, WfTypeOK
<1> QED
  BY <1>5, <1>6 DEF Waits

\* A run is made.
Starts(c, p) ==
    LET id == Made + 1 IN
    /\ p \in Seq(Steps) /\ id \in Ids
    /\ CallMoves(c) /\ wfCall[c].pc = "counted" /\ wfCall'[c].pc = "steps"
    /\ wfCall'[c].run \in Runs /\ wfCall'[c].run.id = id /\ wfCall'[c].run.steps = p /\ wfCall'[c].run.step = 1
    /\ history' \in [Ids -> Counters] /\ \A q \in Ids : q # id => history'[q] = history[q]
    /\ history'[id].steps = p /\ Len(history'[id].executed) = Len(p) /\ Len(history'[id].passed) = Len(p)
    /\ \A k \in 1 .. Len(p) : history'[id].executed[k] = 0
    /\ SameStore /\ promised' = promised /\ Made' = id
    /\ wfLeft' \in [runs : 0 .. WfBounds.runs, crashes : Nat, failures : Nat]

\* A Run makes a run of its own, at its first step.
LEMMA StartDoes ==
    ASSUME WfTypeOK, NEW c \in WfCallers, NEW p \in Pipelines, RunStart(c, p)
    PROVE  Starts(c, p)
<1> DEFINE id   == Made + 1
           run  == [id |-> id, steps |-> p, step |-> 1, status |-> "running", token |-> NoToken]
           zero == [i \in DOMAIN p |-> 0]
           h    == [steps |-> p, executed |-> zero, passed |-> zero]
           l    == [pc |-> "steps", counted |-> TRUE, run |-> run]
<1>1. p \in Seq(Steps)
  BY WorkflowConstants DEF Steps
<1>2. wfLeft.runs \in 1 .. WfBounds.runs
  BY Bounds DEF RunStart, WfTypeOK
<1>3. id \in Ids /\ id = WfBounds.runs - wfLeft.runs + 1
  BY <1>2, Bounds DEF Made
<1>4. run \in Runs /\ run.id = id /\ run.steps = p /\ run.step = 1
  BY <1>1, <1>3 DEF Runs, Tokens
<1>5. zero \in Seq(Nat) /\ Len(zero) = Len(p) /\ \A k \in 1 .. Len(p) : zero[k] = 0
  BY <1>1
<1>6. h \in Counters /\ h.steps = p /\ h.executed = zero /\ h.passed = zero
  <2> HIDE DEF zero
  <2> QED
    BY <1>1, <1>5 DEF Counters
<1>7. wfCall' = [wfCall EXCEPT ![c] = l] /\ history' = [history EXCEPT ![id] = h]
  BY <1>3 DEF RunStart
<1>8. l \in WfLocals /\ l.pc = "steps" /\ l.run = run
  <2> HIDE DEF run
  <2> QED
    BY <1>4 DEF WfLocals
<1> HIDE DEF l, h, run, zero
<1>9. CallMoves(c) /\ wfCall'[c] = l
  BY <1>7, <1>8, MovesTo
<1>10. /\ history' \in [Ids -> Counters] /\ history'[id] = h
       /\ \A q \in Ids : q # id => history'[q] = history[q]
  BY <1>3, <1>6, <1>7 DEF WfTypeOK
<1>11. /\ wfLeft' \in [runs : 0 .. WfBounds.runs, crashes : Nat, failures : Nat] /\ wfLeft'.runs = wfLeft.runs - 1
       /\ wfRuns' = wfRuns /\ wfDisk' = wfDisk /\ promised' = promised /\ wfCall[c].pc = "counted"
  <2> DEFINE left == [wfLeft EXCEPT !.runs = @ - 1]
  <2>1. wfLeft' = left
    BY DEF RunStart
  <2>2. wfLeft.runs - 1 \in 0 .. WfBounds.runs
    BY <1>2, Bounds
  <2>3. /\ left \in [runs : 0 .. WfBounds.runs, crashes : Nat, failures : Nat]
        /\ left.runs = wfLeft.runs - 1
    BY <2>2 DEF WfTypeOK
  <2> HIDE DEF left
  <2> QED
    BY <2>1, <2>3 DEF RunStart
<1>12. Made' = id
  BY <1>2, <1>11, Bounds DEF Made
<1> QED
  BY <1>1, <1>3, <1>4, <1>5, <1>6, <1>8, <1>9, <1>10, <1>11, <1>12 DEF Starts, SameStore

\* A call goes on in its run: to another step, or to its end.
Keeps(c) == wfCall'[c].run \in Runs /\ wfCall'[c].run.id = wfCall[c].run.id /\ wfCall'[c].run.steps = wfCall[c].run.steps

\* A run is taken from the store and goes on behind the gate, or is denied.
Resumes(c, r) ==
    /\ CallMoves(c) /\ wfCall[c].pc = "idle"
    /\ wfRuns[r] \in Runs /\ wfRuns[r].status = "paused"
    /\ wfCall'[c].run \in Runs /\ wfCall'[c].run.id = wfRuns[r].id /\ wfCall'[c].run.steps = wfRuns[r].steps
    /\ SameStore /\ Made' = Made /\ wfLeft' \in [runs : 0 .. WfBounds.runs, crashes : Nat, failures : Nat]
    /\ promised' \subseteq promised

\* A Resume takes the run and passes or denies its gate.
LEMMA ResumeDoes ==
    ASSUME WfTypeOK, NEW c \in WfCallers, NEW r \in Ids, NEW approve \in BOOLEAN, Resume(c, r, approve)
    PROVE  /\ Resumes(c, r)
           /\ \/ /\ wfCall'[c].pc = "steps" /\ wfCall'[c].run.step = wfRuns[r].step + 1
                 /\ history' = [history EXCEPT ![r].passed[wfRuns[r].step] = @ + 1]
              \/ wfCall'[c].pc = "save" /\ wfCall'[c].run.status = "denied" /\ history' = history
<1> DEFINE old == [wfRuns[r] EXCEPT !.token = NoToken]
           run == IF approve THEN [old EXCEPT !.status = "running", !.step = @ + 1] ELSE [old EXCEPT !.status = "denied"]
           l   == [pc |-> IF approve THEN "steps" ELSE "save", counted |-> FALSE, run |-> run]
<1>1. wfRuns[r] \in Runs /\ wfRuns[r].status = "paused"
  BY Bounds DEF Resume, Resumable, WfTypeOK
<1>2. old \in Runs /\ old.id = wfRuns[r].id /\ old.steps = wfRuns[r].steps /\ old.step = wfRuns[r].step
  BY <1>1 DEF Runs, Tokens
<1>3. /\ run \in Runs /\ run.id = wfRuns[r].id /\ run.steps = wfRuns[r].steps
      /\ approve => run.step = wfRuns[r].step + 1
      /\ ~approve => run.status = "denied"
  <2> HIDE DEF old
  <2>1. CASE approve
    <3> DEFINE mid == [old EXCEPT !.status = "running"]
    <3>1. run = [mid EXCEPT !.step = old.step + 1] /\ old.step + 1 \in Nat
      BY <1>2, <2>1 DEF Runs
    <3>2. mid \in Runs /\ mid.id = old.id /\ mid.steps = old.steps
      BY <1>2 DEF Runs
    <3> HIDE DEF run, mid
    <3> QED
      BY <1>2, <2>1, <3>1, <3>2 DEF Runs
  <2>2. CASE ~approve
    <3>1. run = [old EXCEPT !.status = "denied"]
      BY <2>2
    <3> HIDE DEF run
    <3> QED
      BY <1>2, <2>2, <3>1 DEF Runs
  <2> QED
    BY <2>1, <2>2
<1>4. wfCall' = [wfCall EXCEPT ![c] = l]
  BY DEF Resume
<1> HIDE DEF run, old
<1>5. l \in WfLocals /\ l.run = run /\ l.pc = IF approve THEN "steps" ELSE "save"
  BY <1>3 DEF WfLocals
<1> HIDE DEF l
<1>6. CallMoves(c) /\ wfCall'[c] = l
  BY <1>4, <1>5, MovesTo
<1>7. Resumes(c, r)
  BY <1>1, <1>3, <1>5, <1>6 DEF Resumes, Resume, SameStore, Made, WfTypeOK
<1> QED
  BY <1>3, <1>5, <1>6, <1>7 DEF Resume

\* A condition does not hold.
LEMMA SkipDoes ==
    ASSUME WfTypeOK, NEW c \in WfCallers, NEW i \in DOMAIN wfCall[c].run.steps, SkipStep(c, i)
    PROVE  /\ CallMoves(c) /\ Keeps(c) /\ wfCall[c].pc = "steps" /\ wfCall'[c].pc = "steps"
           /\ wfCall[c].run.step = i /\ wfCall'[c].run.step = i + 1
           /\ history' = [history EXCEPT ![wfCall[c].run.id].passed[i] = @ + 1]
           /\ SameRuns
<1> DEFINE run == [wfCall[c].run EXCEPT !.step = i + 1]
           l   == [wfCall[c] EXCEPT !.run = run]
<1>1. wfCall[c] \in WfLocals /\ wfCall[c].pc = "steps" /\ wfCall[c].run.step = i
  BY DEF WfTypeOK, SkipStep, AtStep
<1>2. wfCall[c].run \in Runs
  <2>1. i \in DOMAIN wfCall[c].run.steps /\ NoRun.steps = <<>>
    BY DEF NoRun
  <2> QED
    BY <1>1, <2>1 DEF WfLocals
<1>3. i \in Nat
  BY <1>2 DEF Runs
<1>4. run \in Runs /\ run.id = wfCall[c].run.id /\ run.steps = wfCall[c].run.steps /\ run.step = i + 1
  BY <1>2, <1>3 DEF Runs
<1>5. wfCall' = [wfCall EXCEPT ![c] = l]
  BY DEF SkipStep
<1> HIDE DEF run
<1>6. l \in WfLocals /\ l.run = run /\ l.pc = "steps"
  BY <1>1, <1>4 DEF WfLocals
<1> HIDE DEF l
<1>7. CallMoves(c) /\ wfCall'[c] = l
  BY <1>5, <1>6, MovesTo
<1> QED
  BY <1>1, <1>4, <1>6, <1>7 DEF SkipStep, SameRuns, SameStore, Made, WfTypeOK, Keeps

\* A step is executed: the call goes on, or the run ends or pauses there.
LEMMA ExecuteDoes ==
    ASSUME WfTypeOK, NEW c \in WfCallers, NEW i \in DOMAIN wfCall[c].run.steps, NEW w \in World,
           ExecuteStep(c, i, w)
    PROVE  /\ CallMoves(c) /\ Keeps(c) /\ wfCall[c].pc = "steps" /\ wfCall[c].run.step = i
           /\ \/ /\ wfCall'[c].pc = "steps" /\ wfCall'[c].run.step = i + 1
                 /\ wfCall[c].run.steps[i].type # "approval"
              \/ /\ wfCall'[c].pc = "save" /\ wfCall'[c].run.step = i
                 /\ wfCall'[c].run.status = "paused" => wfCall[c].run.steps[i].type = "approval"
           /\ history' = [history EXCEPT ![wfCall[c].run.id].executed[i] = @ + 1]
           /\ SameRuns
<1> DEFINE run  == wfCall[c].run
           s    == run.steps[i]
           next == AfterStep(run, executeStep(s, w), c)
           l    == [wfCall[c] EXCEPT !.pc = next.pc, !.run = next.run]
<1>1. wfCall[c] \in WfLocals /\ wfCall[c].pc = "steps" /\ run.step = i
  BY DEF WfTypeOK, ExecuteStep, AtStep
<1>2. run \in Runs
  <2>1. i \in DOMAIN wfCall[c].run.steps /\ NoRun.steps = <<>>
    BY DEF NoRun
  <2> QED
    BY <1>1, <2>1 DEF WfLocals
<1>3. i \in Nat /\ s \in Steps
  BY <1>2 DEF Runs
<1>4. wfCall' = [wfCall EXCEPT ![c] = l]
  BY <1>1 DEF ExecuteStep
<1>5. /\ next.run \in Runs /\ next.run.id = run.id /\ next.run.steps = run.steps
      /\ \/ next.pc = "steps" /\ next.run.step = i + 1 /\ s.type # "approval"
         \/ next.pc = "save" /\ next.run.step = i /\ (next.run.status = "paused" => s.type = "approval")
  <2> DEFINE out == executeStep(s, w)
  <2>1. (s.type = "approval" => out = "paused") /\ (s.type # "approval" => out \in {"completed", "failed"})
    BY <1>3, StepOutcome
  <2> HIDE DEF out, s
  <2>2. CASE out = "completed"
    BY <1>1, <1>2, <1>3, <2>1, <2>2 DEF AfterStep, Runs, out
  <2>3. CASE out = "failed"
    BY <1>1, <1>2, <1>3, <2>1, <2>3 DEF AfterStep, Runs, out
  <2>4. CASE out = "paused"
    BY <1>1, <1>2, <1>3, <2>1, <2>4 DEF AfterStep, Runs, Tokens, out
  <2> QED
    BY <2>1, <2>2, <2>3, <2>4
<1> HIDE DEF next
<1>6. l \in WfLocals /\ l.run = next.run /\ l.pc = next.pc
  BY <1>1, <1>5 DEF WfLocals
<1> HIDE DEF l
<1>7. CallMoves(c) /\ wfCall'[c] = l
  BY <1>4, <1>6, MovesTo
<1>8. SameRuns /\ history' = [history EXCEPT ![wfCall[c].run.id].executed[i] = @ + 1]
  BY DEF ExecuteStep, SameRuns, SameStore, Made, WfTypeOK
<1> QED
  BY <1>1, <1>5, <1>6, <1>7, <1>8 DEF Keeps

\* All steps are done.
LEMMA CompleteDoes ==
    ASSUME WfTypeOK, RunsAreRight, NEW c \in WfCallers, Complete(c)
    PROVE  /\ CallMoves(c) /\ Keeps(c) /\ wfCall[c].pc = "steps" /\ wfCall'[c].pc = "save"
           /\ wfCall'[c].run.status = "completed"
           /\ SameRuns /\ history' = history
<1> DEFINE run == [wfCall[c].run EXCEPT !.status = "completed"]
           l   == [wfCall[c] EXCEPT !.pc = "save", !.run = run]
<1>1. wfCall[c] \in WfLocals /\ wfCall[c].pc = "steps"
  BY DEF WfTypeOK, Complete
<1>2. wfCall[c].run \in Runs
  BY <1>1 DEF RunsAreRight, HeldRight
<1>3. run \in Runs /\ run.id = wfCall[c].run.id /\ run.steps = wfCall[c].run.steps /\ run.status = "completed"
  BY <1>2 DEF Runs
<1>4. wfCall' = [wfCall EXCEPT ![c] = l]
  BY DEF Complete
<1> HIDE DEF run
<1>5. l \in WfLocals /\ l.run = run /\ l.pc = "save"
  BY <1>1, <1>3 DEF WfLocals
<1> HIDE DEF l
<1>6. CallMoves(c) /\ wfCall'[c] = l
  BY <1>4, <1>5, MovesTo
<1> QED
  BY <1>1, <1>3, <1>5, <1>6 DEF Complete, SameRuns, SameStore, Made, WfTypeOK, Keeps

\* A run is saved: it is in the store, or evicted at once or later; a paused run never is.
Returns(c) ==
    LET run    == wfCall[c].run
        new(q) == IF q = run.id THEN run ELSE wfRuns[q] IN
    /\ CallMoves(c) /\ wfCall[c].pc = "save" /\ wfCall'[c].pc = "done"
    /\ wfRuns' \in [Ids -> Runs \cup {NoRun}]
    /\ \A q \in Ids : wfRuns'[q] \in {NoRun, new(q)} /\ (new(q).status = "paused" => wfRuns'[q] = new(q))
    /\ wfDisk' = wfRuns' \/ wfDisk' = wfDisk
    /\ history' = history /\ Made' = Made /\ wfLeft' \in [runs : 0 .. WfBounds.runs, crashes : Nat, failures : Nat]
    /\ \A t \in promised' :
          \/ t \in promised /\ t[1] # run.id
          \/ t = <<run.id, run.token>> /\ run.status = "paused" /\ wfDisk' = wfRuns'

\* A call puts its run back and returns.
LEMMA ReturnDoes ==
    ASSUME WfTypeOK, RunsAreRight, NEW c \in WfCallers, Return(c)
    PROVE  Returns(c)
<1> DEFINE run    == wfCall[c].run
           new(q) == IF q = run.id THEN run ELSE wfRuns[q]
           m      == [wfRuns EXCEPT ![run.id] = run]
           l      == [Idle EXCEPT !.pc = "done"]
<1>1. wfCall[c].pc = "save" /\ run \in Runs /\ run.id \in Ids
  BY DEF Return, RunsAreRight, HeldRight, Runs
<1>2. l \in WfLocals /\ l.pc = "done"
  BY DEF Idle, WfLocals
<1>3. wfCall' = [wfCall EXCEPT ![c] = l]
  BY DEF Return
<1> HIDE DEF l
<1>4. CallMoves(c) /\ wfCall'[c].pc = "done"
  BY <1>2, <1>3, MovesTo
<1>5. \A q \in Ids : m[q] = new(q) /\ m[q] \in Runs \cup {NoRun}
  BY <1>1 DEF WfTypeOK
<1>6. wfRuns' = [q \in Ids |-> IF q \in Evicted(m) THEN NoRun ELSE m[q]]
  BY DEF Return, SaveRun, evictOldest
<1>7. \A q \in Evicted(m) : m[q].status # "paused"
  BY DEF Evicted, Evictable, Finished
<1> HIDE DEF m
<1>8. wfRuns' \in [Ids -> Runs \cup {NoRun}]
  BY <1>5, <1>6
<1>9. \A q \in Ids : wfRuns'[q] \in {NoRun, new(q)} /\ (new(q).status = "paused" => wfRuns'[q] = new(q))
  BY <1>5, <1>6, <1>7
<1>10. /\ wfDisk' = wfRuns' \/ wfDisk' = wfDisk
       /\ wfLeft' \in [runs : 0 .. WfBounds.runs, crashes : Nat, failures : Nat] /\ wfLeft'.runs = wfLeft.runs
  <2>1. CASE wfDisk' = wfRuns' /\ UNCHANGED wfLeft
    BY <2>1 DEF WfTypeOK
  <2>2. CASE /\ wfLeft.failures > 0 /\ wfLeft' = [wfLeft EXCEPT !.failures = @ - 1]
             /\ UNCHANGED wfDisk
    BY <2>2 DEF WfTypeOK
  <2> QED
    BY <2>1, <2>2 DEF Return, SaveRun
<1>11. \A t \in promised' :
          \/ t \in promised /\ t[1] # run.id
          \/ t = <<run.id, run.token>> /\ run.status = "paused" /\ wfDisk' = wfRuns'
  <2>1. CASE run.status # "paused"
    BY <2>1 DEF Return
  <2>2. CASE run.status = "paused"
    <3>1. promised' = {t \in promised : t[1] # run.id} \cup
                      (IF wfDisk' = wfRuns' THEN {<<run.id, run.token>>} ELSE {})
      BY <2>2 DEF Return
    <3> QED
      BY <2>2, <3>1
  <2> QED
    BY <2>1, <2>2
<1>12. history' = history /\ Made' = Made
  BY <1>10 DEF Return, Made
<1> QED
  BY <1>1, <1>4, <1>8, <1>9, <1>10, <1>11, <1>12 DEF Returns

\* The process starts again with what the file has.
LEMMA CrashDoes ==
    ASSUME WfTypeOK, WorkflowCrash
    PROVE  /\ wfRuns' = wfDisk /\ wfDisk' = wfDisk /\ history' = history /\ promised' = promised /\ Made' = Made
           /\ wfLeft' \in [runs : 0 .. WfBounds.runs, crashes : Nat, failures : Nat]
           /\ wfCall' \in [WfCallers -> WfLocals] /\ \A d \in WfCallers : wfCall'[d].pc \notin {"steps", "save"}
<1> DEFINE left == [wfLeft EXCEPT !.crashes = @ - 1]
           over == [Idle EXCEPT !.pc = "done"]
<1>1. left \in [runs : 0 .. WfBounds.runs, crashes : Nat, failures : Nat] /\ left.runs = wfLeft.runs
  BY DEF WfTypeOK, WorkflowCrash
<1>2. Idle \in WfLocals /\ over \in WfLocals /\ Idle.pc = "idle" /\ over.pc = "done"
  <2>1. Idle \in WfLocals /\ Idle.pc = "idle"
    BY DEF Idle, WfLocals
  <2> QED
    BY <2>1 DEF WfLocals
<1>3. /\ wfLeft' = left
      /\ wfCall' = [d \in WfCallers |-> IF wfCall[d].pc = "idle" THEN Idle ELSE over]
  BY DEF WorkflowCrash
<1> HIDE DEF left, over
<1>4. wfCall' \in [WfCallers -> WfLocals] /\ \A d \in WfCallers : wfCall'[d].pc \notin {"steps", "save"}
  BY <1>2, <1>3
<1> QED
  BY <1>1, <1>3, <1>4 DEF WorkflowCrash, Made

-----------------------------------------------------------------------------
(* What stays *)

\* A run keeps its steps, and is passed more and more often.
Sized(h)     == h \in Counters /\ Len(h.executed) = Len(h.steps) /\ Len(h.passed) = Len(h.steps)
Grows(h, g)  == Sized(h) /\ KeepsSize(h, g) /\ \A k \in 1 .. Len(h.steps) : h.passed[k] <= g.passed[k]

\* A history that is not touched only grows.
LEMMA SameGrows == ASSUME NEW h, Sized(h) PROVE Grows(h, h)
BY DEF Sized, Grows, KeepsSize, Counters

\* Passing a gate grows a history.
LEMMA PassedGrows == ASSUME NEW h, NEW g, NEW i, Sized(h), PassesIn(h, g, i) PROVE Grows(h, g)
BY DEF Sized, Grows, PassesIn, Counters

\* Executing a step grows a history.
LEMMA ExecutedGrows == ASSUME NEW h, NEW g, NEW i, Sized(h), ExecutesIn(h, g, i) PROVE Grows(h, g)
BY DEF Sized, Grows, ExecutesIn, Counters

\* What was opened stays open.
LEMMA OpenedStays ==
    ASSUME NEW h, NEW g, Grows(h, g), NEW n \in Nat, n <= Len(h.steps) + 1, Opened(h, n)
    PROVE  Opened(g, n)
<1> SUFFICES ASSUME NEW j \in Gates(g.steps, n) PROVE g.passed[j] > 0
  BY DEF Opened
<1>1. g.steps = h.steps /\ j \in 1 .. Len(h.steps)
  BY DEF Grows, KeepsSize, Gates, Sized, Counters
<1>2. h.passed[j] > 0 /\ h.passed[j] <= g.passed[j]
  BY <1>1 DEF Opened, Grows
<1>3. h.passed[j] \in Nat /\ g.passed[j] \in Nat
  BY SMTT(30), <1>1 DEF Grows, KeepsSize, Sized, Counters
<1> QED
  BY <1>2, <1>3

\* Passing a step, or executing one that is no gate, opens the next.
LEMMA OpensNext ==
    ASSUME NEW h, NEW g, Sized(h), NEW i \in 1 .. Len(h.steps), PassesIn(h, g, i), Opened(h, i)
    PROVE  Opened(g, i + 1)
<1> SUFFICES ASSUME NEW j \in Gates(g.steps, i + 1) PROVE g.passed[j] > 0
  BY DEF Opened
<1>1. g.steps = h.steps /\ j \in 1 .. Len(h.steps) /\ (j < i \/ j = i) /\ h.steps[j].type = "approval"
  BY DEF PassesIn, KeepsSize, Gates, Sized, Counters
<1>2. h.passed[j] \in Nat
  BY <1>1 DEF Sized, Counters
<1>3. j < i => h.passed[j] > 0
  BY <1>1 DEF Opened, Gates
<1> QED
  BY <1>1, <1>2, <1>3 DEF PassesIn

\* Executing a step opens the next one, unless it is a gate.
LEMMA OpensOn ==
    ASSUME NEW h, NEW g, Sized(h), NEW i \in 1 .. Len(h.steps), ExecutesIn(h, g, i), Opened(h, i)
    PROVE  /\ Opened(g, i) /\ g.steps = h.steps
           /\ h.steps[i].type # "approval" => Opened(g, i + 1)
<1>1. g.steps = h.steps /\ g.passed = h.passed
  BY DEF ExecutesIn, KeepsSize
<1>2. h.steps[i].type # "approval" => Gates(h.steps, i + 1) = Gates(h.steps, i)
  BY DEF Gates, Sized, Counters
<1> QED
  BY <1>1, <1>2 DEF Opened

\* A run stays where it pauses.
LEMMA GateStays ==
    ASSUME NEW h, NEW g, Grows(h, g), NEW run \in Runs, run.steps = h.steps, AtGate(run, h)
    PROVE  AtGate(run, g)
<1>1. run.step \in Nat /\ run.step <= Len(h.steps) + 1
  BY DEF AtGate, Runs, Grows, Sized, Counters
<1> QED
  BY <1>1, OpenedStays DEF AtGate

\* The runs that were made keep their steps.
KeepsHistory == Made \in Nat /\ Made' \in Nat /\ Made <= Made' /\ \A q \in Ids : q <= Made => Grows(history[q], history'[q])

\* A stored run stays right while histories grow.
LEMMA StoredStays ==
    ASSUME KeepsHistory, NEW r \in Ids, NEW run \in Runs \cup {NoRun}, StoredRight(run, r, history[r], Made)
    PROVE  StoredRight(run, r, history'[r], Made')
<1> SUFFICES ASSUME run # NoRun PROVE StoredRight(run, r, history'[r], Made')
  BY DEF StoredRight
<1>1. run \in Runs /\ run.id = r /\ r <= Made /\ run.steps = history[r].steps
  BY DEF StoredRight
<1>2. Grows(history[r], history'[r]) /\ r <= Made'
  BY <1>1, Bounds DEF KeepsHistory
<1>3. history'[r].steps = history[r].steps
  BY <1>2 DEF Grows, KeepsSize
<1>4. run.status = "paused" => AtGate(run, history'[r])
  BY <1>1, <1>2, GateStays DEF StoredRight
<1> QED
  BY <1>1, <1>2, <1>3, <1>4 DEF StoredRight

\* A run that a call holds stays right while histories grow.
LEMMA HeldStays ==
    ASSUME KeepsHistory, NEW call \in WfLocals, HeldRight(call, history[call.run.id], Made)
    PROVE  HeldRight(call, history'[call.run.id], Made')
<1> DEFINE h == history[call.run.id]
           g == history'[call.run.id]
<1>1. call.run \in Runs /\ call.run.id \in Ids /\ call.run.id <= Made /\ call.run.steps = h.steps
  BY DEF HeldRight, Runs
<1>2. Grows(h, g) /\ call.run.id <= Made'
  BY <1>1, Bounds DEF KeepsHistory
<1>3. g.steps = h.steps
  BY <1>2 DEF Grows, KeepsSize
<1>4. Len(h.steps) \in Nat
  BY <1>2 DEF Grows, Sized, Counters
<1>5. call.pc = "save" /\ call.run.status = "paused" => AtGate(call.run, g)
  BY <1>1, <1>2, GateStays DEF HeldRight
<1>6. call.pc = "steps" => call.run.step \in 1 .. Len(g.steps) + 1 /\ Opened(g, call.run.step)
  BY <1>2, <1>3, <1>4, OpenedStays DEF HeldRight
<1> QED
  BY <1>1, <1>2, <1>3, <1>5, <1>6 DEF HeldRight

-----------------------------------------------------------------------------
(* Every step *)

\* The actions, by what they do.
Denies(c, r) == Resumes(c, r) /\ wfCall'[c].pc = "save" /\ wfCall'[c].run.status = "denied" /\ history' = history
Approves(c, r) ==
    /\ Resumes(c, r) /\ wfCall'[c].pc = "steps" /\ wfCall'[c].run.step = wfRuns[r].step + 1
    /\ wfRuns[r].id = r /\ r <= Made /\ AtGate(wfRuns[r], history[r]) /\ wfRuns[r].steps = history[r].steps
    /\ Passes(r, wfRuns[r].step) /\ history' \in [Ids -> Counters]
Walks(c, r, i) ==
    /\ CallMoves(c) /\ Keeps(c) /\ wfCall[c].pc = "steps" /\ wfCall[c].run.step = i /\ SameRuns
    /\ r = wfCall[c].run.id /\ r \in Ids /\ r <= Made /\ i \in 1 .. Len(history[r].steps)
    /\ wfCall[c].run.steps = history[r].steps /\ Opened(history[r], i) /\ history' \in [Ids -> Counters]
Jumps(c, r, i) ==
    Walks(c, r, i) /\ wfCall'[c].pc = "steps" /\ wfCall'[c].run.step = i + 1 /\ Passes(r, i)
Does(c, r, i) ==
    /\ Walks(c, r, i) /\ Executes(r, i)
    /\ \/ wfCall'[c].pc = "steps" /\ wfCall'[c].run.step = i + 1 /\ history[r].steps[i].type # "approval"
       \/ /\ wfCall'[c].pc = "save" /\ wfCall'[c].run.step = i
          /\ wfCall'[c].run.status = "paused" => history[r].steps[i].type = "approval"
Ends(c) ==
    /\ CallMoves(c) /\ Keeps(c) /\ wfCall[c].pc = "steps" /\ wfCall'[c].pc = "save"
    /\ wfCall'[c].run.status = "completed" /\ SameRuns /\ history' = history
Restarts ==
    /\ wfRuns' = wfDisk /\ wfDisk' = wfDisk /\ history' = history /\ promised' = promised /\ Made' = Made
    /\ wfLeft' \in [runs : 0 .. WfBounds.runs, crashes : Nat, failures : Nat]
    /\ wfCall' \in [WfCallers -> WfLocals] /\ \A d \in WfCallers : wfCall'[d].pc \notin {"steps", "save"}
Stutters == wfRuns' = wfRuns /\ wfDisk' = wfDisk /\ wfCall' = wfCall /\ wfLeft' = wfLeft /\ history' = history
            /\ promised' = promised

WfStep ==
    \/ \E c \in WfCallers :
          \/ Waits(c) \/ Ends(c) \/ Returns(c) \/ \E p \in Pipelines : Starts(c, p)
          \/ \E r \in Ids : Denies(c, r) \/ Approves(c, r) \/ \E i \in Nat : Jumps(c, r, i) \/ Does(c, r, i)
    \/ Restarts
    \/ Stutters

\* What a call that walks has.
LEMMA Walking ==
    ASSUME WfTypeOK, RunsAreRight, NEW c \in WfCallers, NEW i, i \in DOMAIN wfCall[c].run.steps, AtStep(c, i),
           CallMoves(c), Keeps(c), SameRuns
    PROVE  LET r == wfCall[c].run.id
           IN  /\ r \in Ids /\ i \in Nat /\ i \in 1 .. Len(history[r].steps) /\ wfCall[c].run.steps = history[r].steps
               /\ history' \in [Ids -> Counters] => Walks(c, r, i)
<1> DEFINE r == wfCall[c].run.id
<1>1. wfCall[c].pc = "steps" /\ wfCall[c].run.step = i
  BY DEF AtStep
<1>2. HeldRight(wfCall[c], history[r], Made)
  BY <1>1 DEF RunsAreRight
<1>3. r \in Ids /\ r <= Made /\ wfCall[c].run.steps = history[r].steps /\ Opened(history[r], i)
  BY <1>1, <1>2 DEF HeldRight, Runs
<1>4. history[r].steps \in Seq(Steps)
  BY <1>3 DEF WfTypeOK, Counters
<1>5. i \in 1 .. Len(history[r].steps) /\ i \in Nat
  BY <1>3, <1>4
<1> QED
  BY <1>1, <1>3, <1>5 DEF Walks

\* Every step is one of them.
LEMMA StepIs ==
    ASSUME WfTypeOK, RunsAreRight, [WorkflowNext]_workflowVars
    PROVE  WfStep
<1>1. ASSUME NEW c \in WfCallers, RunCheck(c) \/ RunCount(c) \/ RunArgs(c)
      PROVE  Waits(c)
  BY <1>1, QueueDoes
<1>2. ASSUME NEW c \in WfCallers, Complete(c)
      PROVE  Ends(c)
  BY <1>2, CompleteDoes DEF Ends
<1>3. ASSUME NEW c \in WfCallers, Return(c)
      PROVE  Returns(c)
  BY <1>3, ReturnDoes
<1>4. ASSUME NEW c \in WfCallers, NEW p \in Pipelines, RunStart(c, p)
      PROVE  Starts(c, p)
  BY <1>4, StartDoes
<1>5. ASSUME NEW c \in WfCallers, NEW r \in Ids, NEW approve \in BOOLEAN, Resume(c, r, approve)
      PROVE  Denies(c, r) \/ Approves(c, r)
  <2>1. Resumes(c, r)
    BY <1>5, ResumeDoes
  <2>2. CASE wfCall'[c].pc = "save" /\ wfCall'[c].run.status = "denied" /\ history' = history
    BY <2>1, <2>2 DEF Denies
  <2>3. CASE /\ wfCall'[c].pc = "steps" /\ wfCall'[c].run.step = wfRuns[r].step + 1
             /\ history' = [history EXCEPT ![r].passed[wfRuns[r].step] = @ + 1]
    <3>1. wfRuns[r] # NoRun /\ wfRuns[r].status = "paused"
      BY <2>1, Bounds DEF Resumes
    <3>2. wfRuns[r].id = r /\ r <= Made /\ AtGate(wfRuns[r], history[r]) /\ wfRuns[r].steps = history[r].steps
      BY <3>1 DEF RunsAreRight, StoredRight
    <3>3. wfRuns[r].step \in 1 .. Len(history[r].steps)
      BY <3>2 DEF AtGate
    <3>4. Passes(r, wfRuns[r].step) /\ history' \in [Ids -> Counters]
      BY <2>3, <3>3, PassesDoes
    <3> QED
      BY <2>1, <2>3, <3>2, <3>4 DEF Approves
  <2> QED
    BY <1>5, <2>2, <2>3, ResumeDoes
<1>6. ASSUME NEW c \in WfCallers, NEW i \in DOMAIN wfCall[c].run.steps, SkipStep(c, i)
      PROVE  \E r \in Ids : \E n \in Nat : Jumps(c, r, n)
  <2> DEFINE r == wfCall[c].run.id
  <2>1. /\ CallMoves(c) /\ Keeps(c) /\ wfCall'[c].pc = "steps" /\ wfCall'[c].run.step = i + 1
        /\ history' = [history EXCEPT ![r].passed[i] = @ + 1] /\ SameRuns /\ AtStep(c, i)
    BY <1>6, SkipDoes DEF SkipStep
  <2>2. r \in Ids /\ i \in Nat /\ i \in 1 .. Len(history[r].steps)
    BY <2>1, Walking
  <2>3. Passes(r, i) /\ history' \in [Ids -> Counters]
    BY <2>1, <2>2, PassesDoes
  <2>4. Walks(c, r, i)
    BY <2>1, <2>3, Walking
  <2> QED
    BY <2>1, <2>2, <2>3, <2>4 DEF Jumps
<1>7. ASSUME NEW c \in WfCallers, NEW i \in DOMAIN wfCall[c].run.steps, NEW w \in World, ExecuteStep(c, i, w)
      PROVE  \E r \in Ids : \E n \in Nat : Does(c, r, n)
  <2> DEFINE r == wfCall[c].run.id
  <2>1. /\ CallMoves(c) /\ Keeps(c)
        /\ \/ wfCall'[c].pc = "steps" /\ wfCall'[c].run.step = i + 1 /\ wfCall[c].run.steps[i].type # "approval"
           \/ /\ wfCall'[c].pc = "save" /\ wfCall'[c].run.step = i
              /\ wfCall'[c].run.status = "paused" => wfCall[c].run.steps[i].type = "approval"
        /\ history' = [history EXCEPT ![r].executed[i] = @ + 1] /\ SameRuns /\ AtStep(c, i)
    BY <1>7, ExecuteDoes DEF ExecuteStep
  <2>2. r \in Ids /\ i \in Nat /\ i \in 1 .. Len(history[r].steps) /\ wfCall[c].run.steps = history[r].steps
    BY <2>1, Walking
  <2>3. Executes(r, i) /\ history' \in [Ids -> Counters]
    BY <2>1, <2>2, ExecutesDoes
  <2>4. Walks(c, r, i)
    BY <2>1, <2>3, Walking
  <2>5. Does(c, r, i)
    BY <2>1, <2>2, <2>3, <2>4 DEF Does
  <2> QED
    BY <2>2, <2>5
<1>8. ASSUME WorkflowCrash PROVE Restarts
  BY <1>8, CrashDoes DEF Restarts
<1>9. CASE UNCHANGED workflowVars
  BY <1>9 DEF workflowVars, WfStep, Stutters
<1>10. CASE WorkflowNext
  BY <1>1, <1>2, <1>3, <1>4, <1>5, <1>6, <1>7, <1>8, <1>10 DEF WorkflowNext, WfStep
<1> QED
  BY <1>9, <1>10

\* The histories grow.
LEMMA MadeIs == ASSUME WfTypeOK PROVE Made \in Nat /\ \A r \in Ids : Sized(history[r])
BY Bounds DEF WfTypeOK, Made, Sized

\* No step takes anything from the history of a run.
LEMMA HistoryIsKept ==
    ASSUME WfTypeOK, RunsAreRight, WfStep
    PROVE  KeepsHistory
<1> SUFFICES Made' \in Nat /\ Made <= Made' /\ \A q \in Ids : q <= Made => Grows(history[q], history'[q])
  BY MadeIs DEF KeepsHistory
<1>1. Made \in Nat /\ \A q \in Ids : Sized(history[q])
  BY MadeIs
<1>2. CASE history' = history /\ Made' = Made
  BY <1>1, <1>2, SameGrows
<1>3. ASSUME NEW c \in WfCallers, NEW p \in Pipelines, Starts(c, p)
      PROVE  Made' = Made + 1 /\ \A q \in Ids : q <= Made => history'[q] = history[q]
  BY <1>1, <1>3, Bounds DEF Starts
<1>4. ASSUME NEW c \in WfCallers, NEW r \in Ids, Approves(c, r)
      PROVE  Made' = Made /\ \A q \in Ids : Grows(history[q], history'[q])
  BY <1>1, <1>4, PassedGrows, SameGrows DEF Approves, Passes, Resumes
<1>5. ASSUME NEW c \in WfCallers, NEW r \in Ids, NEW i \in Nat, Jumps(c, r, i)
      PROVE  Made' = Made /\ \A q \in Ids : Grows(history[q], history'[q])
  BY <1>1, <1>5, PassedGrows, SameGrows DEF Jumps, Passes, Walks, SameRuns
<1>6. ASSUME NEW c \in WfCallers, NEW r \in Ids, NEW i \in Nat, Does(c, r, i)
      PROVE  Made' = Made /\ \A q \in Ids : Grows(history[q], history'[q])
  BY <1>1, <1>6, ExecutedGrows, SameGrows DEF Does, Executes, Walks, SameRuns
<1>7. CASE Stutters
  <2>1. Made' = Made
    BY <1>7 DEF Stutters, Made
  <2> QED
    BY <1>2, <1>7, <2>1 DEF Stutters
<1>8. CASE Restarts
  BY <1>2, <1>8 DEF Restarts
<1>9. ASSUME NEW c \in WfCallers, Waits(c) \/ Ends(c) \/ Returns(c) \/ \E r \in Ids : Denies(c, r)
      PROVE  history' = history /\ Made' = Made
  BY <1>9 DEF Waits, Ends, Returns, Denies, Resumes, SameRuns
<1>10. \/ history' = history /\ Made' = Made
       \/ \E c \in WfCallers, p \in Pipelines : Starts(c, p)
       \/ \E c \in WfCallers, r \in Ids : Approves(c, r) \/ \E i \in Nat : Jumps(c, r, i) \/ Does(c, r, i)
       \/ Stutters \/ Restarts
  BY <1>9 DEF WfStep
<1>11. CASE \E c \in WfCallers, p \in Pipelines : Starts(c, p)
  BY <1>1, <1>3, <1>11, SameGrows
<1>12. CASE \E c \in WfCallers, r \in Ids : Approves(c, r) \/ \E i \in Nat : Jumps(c, r, i) \/ Does(c, r, i)
  BY <1>1, <1>4, <1>5, <1>6, <1>12
<1> QED
  BY <1>2, <1>7, <1>8, <1>10, <1>11, <1>12

\* Only a call that returns writes the store; a restart reads it back.
LEMMA StoreChanges ==
    ASSUME WfStep
    PROVE  \/ \E c \in WfCallers : Returns(c)
           \/ (wfRuns' = wfRuns \/ wfRuns' = wfDisk) /\ wfDisk' = wfDisk /\ promised' \subseteq promised
<1> DEFINE Left == (wfRuns' = wfRuns \/ wfRuns' = wfDisk) /\ wfDisk' = wfDisk /\ promised' \subseteq promised
<1>1. ASSUME NEW c \in WfCallers, Waits(c) \/ Ends(c) PROVE Left
  BY <1>1 DEF Waits, Ends, SameRuns, SameStore
<1>2. ASSUME NEW c \in WfCallers, NEW p \in Pipelines, Starts(c, p) PROVE Left
  BY <1>2 DEF Starts, SameStore
<1>3. ASSUME NEW c \in WfCallers, NEW r \in Ids, Denies(c, r) \/ Approves(c, r) PROVE Left
  BY <1>3 DEF Denies, Approves, Resumes, SameStore
<1>4. ASSUME NEW c \in WfCallers, NEW r \in Ids, NEW i \in Nat, Jumps(c, r, i) \/ Does(c, r, i) PROVE Left
  <2>1. Walks(c, r, i)
    BY <1>4 DEF Jumps, Does
  <2>2. SameStore /\ promised' = promised
    BY <2>1 DEF Walks, SameRuns
  <2> QED
    BY <2>2 DEF SameStore
<1>5. CASE Restarts \/ Stutters
  BY <1>5 DEF Restarts, Stutters
<1> QED
  BY <1>1, <1>2, <1>3, <1>4, <1>5 DEF WfStep

\* Histories stay histories, and one that is not made yet is the next to be made.
LEMMA HistoryChanges ==
    ASSUME WfTypeOK, RunsAreRight, WfStep
    PROVE  /\ history' \in [Ids -> Counters]
           /\ \A r \in Ids : r <= Made \/ history'[r] = history[r]
                              \/ \E c \in WfCallers, p \in Pipelines : Starts(c, p) /\ r = Made + 1
<1> DEFINE Right == /\ history' \in [Ids -> Counters]
                    /\ \A r \in Ids : r <= Made \/ history'[r] = history[r]
                                       \/ \E c \in WfCallers, p \in Pipelines : Starts(c, p) /\ r = Made + 1
<1>1. ASSUME history' = history PROVE Right
  BY <1>1 DEF WfTypeOK
<1>2. ASSUME NEW c \in WfCallers, Waits(c) \/ Ends(c) \/ Returns(c) \/ (\E r \in Ids : Denies(c, r))
      PROVE  history' = history
  BY <1>2 DEF Waits, Ends, Returns, Denies
<1>3. ASSUME NEW c \in WfCallers, NEW p \in Pipelines, Starts(c, p) PROVE Right
  BY <1>3 DEF Starts
<1>4. ASSUME NEW c \in WfCallers, NEW r \in Ids, Approves(c, r) PROVE Right
  BY <1>4 DEF Approves, Passes
<1>5. ASSUME NEW c \in WfCallers, NEW r \in Ids, NEW i \in Nat, Jumps(c, r, i) \/ Does(c, r, i) PROVE Right
  <2>1. Walks(c, r, i) /\ (Passes(r, i) \/ Executes(r, i))
    BY <1>5 DEF Jumps, Does
  <2>2. r <= Made /\ history' \in [Ids -> Counters]
    BY <2>1 DEF Walks
  <2>3. \A q \in Ids : q # r => history'[q] = history[q]
    BY <2>1 DEF Passes, Executes
  <2> QED
    BY <2>2, <2>3
<1>6. CASE Restarts \/ Stutters
  BY <1>1, <1>6 DEF Restarts, Stutters
<1>7. ASSUME NEW c \in WfCallers, NEW r \in Ids, \E i \in Nat : Jumps(c, r, i) \/ Does(c, r, i) PROVE Right
  BY <1>5, <1>7
<1>8. ASSUME NEW c \in WfCallers,
             \/ Waits(c) \/ Ends(c) \/ Returns(c) \/ \E p \in Pipelines : Starts(c, p)
             \/ \E r \in Ids : Denies(c, r) \/ Approves(c, r) \/ \E i \in Nat : Jumps(c, r, i) \/ Does(c, r, i)
      PROVE  Right
  BY <1>1, <1>2, <1>3, <1>4, <1>7, <1>8
<1> QED
  BY <1>6, <1>8 DEF WfStep

\* The types are kept.
LEMMA TypeStep ==
    ASSUME WfTypeOK, RunsAreRight, WfStep
    PROVE  WfTypeOK'
<1>1. Made \in Nat /\ \A q \in Ids : Sized(history[q])
  BY MadeIs
<1>2. /\ wfCall' \in [WfCallers -> WfLocals] /\ wfLeft' \in [runs : 0 .. WfBounds.runs, crashes : Nat, failures : Nat]
  <2>1. ASSUME NEW c \in WfCallers, Waits(c) \/ Ends(c) \/ Returns(c)
        PROVE  /\ wfCall' \in [WfCallers -> WfLocals]
             /\ wfLeft' \in [runs : 0 .. WfBounds.runs, crashes : Nat, failures : Nat]
    BY <2>1 DEF Waits, Ends, Returns, CallMoves, SameRuns
  <2>2. ASSUME NEW c \in WfCallers, NEW p \in Pipelines, Starts(c, p)
        PROVE  /\ wfCall' \in [WfCallers -> WfLocals]
             /\ wfLeft' \in [runs : 0 .. WfBounds.runs, crashes : Nat, failures : Nat]
    BY <2>2 DEF Starts, CallMoves, SameRuns
  <2>3. ASSUME NEW c \in WfCallers, NEW r \in Ids, Denies(c, r) \/ Approves(c, r)
        PROVE  /\ wfCall' \in [WfCallers -> WfLocals]
             /\ wfLeft' \in [runs : 0 .. WfBounds.runs, crashes : Nat, failures : Nat]
    BY <2>3 DEF Denies, Approves, Resumes, CallMoves, SameRuns
  <2>4. ASSUME NEW c \in WfCallers, NEW r \in Ids, NEW i \in Nat, Jumps(c, r, i) \/ Does(c, r, i)
        PROVE  /\ wfCall' \in [WfCallers -> WfLocals]
             /\ wfLeft' \in [runs : 0 .. WfBounds.runs, crashes : Nat, failures : Nat]
    BY <2>4 DEF Jumps, Does, Walks, CallMoves, SameRuns
  <2>5. CASE Restarts \/ Stutters
    BY <2>5 DEF Restarts, Stutters, WfTypeOK
  <2> QED
    BY <2>1, <2>2, <2>3, <2>4, <2>5 DEF WfStep
<1>3. wfRuns' \in [Ids -> Runs \cup {NoRun}] /\ wfDisk' \in [Ids -> Runs \cup {NoRun}]
  <2>1. ASSUME NEW c \in WfCallers, Waits(c) \/ Ends(c) \/ Returns(c)
        PROVE  wfRuns' \in [Ids -> Runs \cup {NoRun}] /\ wfDisk' \in [Ids -> Runs \cup {NoRun}]
    BY <2>1 DEF Waits, Ends, Returns, SameRuns, SameStore, WfTypeOK
  <2>2. ASSUME NEW c \in WfCallers, NEW p \in Pipelines, Starts(c, p)
        PROVE  wfRuns' \in [Ids -> Runs \cup {NoRun}] /\ wfDisk' \in [Ids -> Runs \cup {NoRun}]
    BY <2>2 DEF Starts, SameRuns, SameStore, WfTypeOK
  <2>3. ASSUME NEW c \in WfCallers, NEW r \in Ids, Denies(c, r) \/ Approves(c, r)
        PROVE  wfRuns' \in [Ids -> Runs \cup {NoRun}] /\ wfDisk' \in [Ids -> Runs \cup {NoRun}]
    BY <2>3 DEF Denies, Approves, Resumes, SameRuns, SameStore, WfTypeOK
  <2>4. ASSUME NEW c \in WfCallers, NEW r \in Ids, NEW i \in Nat, Jumps(c, r, i) \/ Does(c, r, i)
        PROVE  wfRuns' \in [Ids -> Runs \cup {NoRun}] /\ wfDisk' \in [Ids -> Runs \cup {NoRun}]
    BY <2>4 DEF Jumps, Does, Walks, SameRuns, SameStore, WfTypeOK
  <2>5. CASE Restarts \/ Stutters
    BY <2>5 DEF Restarts, Stutters, WfTypeOK
  <2> QED
    BY <2>1, <2>2, <2>3, <2>4, <2>5 DEF WfStep
<1>4. history' \in [Ids -> Counters]
  BY HistoryChanges
<1>5. \A r \in Ids : /\ Len(history'[r].executed) = Len(history'[r].steps)
                     /\ Len(history'[r].passed) = Len(history'[r].steps)
  <2>1. KeepsHistory
    BY HistoryIsKept
  <2>2. ASSUME NEW r \in Ids, r <= Made
        PROVE  /\ Len(history'[r].executed) = Len(history'[r].steps)
               /\ Len(history'[r].passed) = Len(history'[r].steps)
    BY <2>1, <2>2 DEF KeepsHistory, Grows, Sized, KeepsSize
  <2>3. ASSUME NEW r \in Ids, ~(r <= Made)
        PROVE  \/ history'[r] = history[r]
               \/ \E c \in WfCallers, p \in Pipelines : Starts(c, p) /\ r = Made + 1
    BY <2>3, HistoryChanges
  <2>4. ASSUME NEW r \in Ids, NEW c \in WfCallers, NEW p \in Pipelines, Starts(c, p), r = Made + 1
        PROVE  /\ Len(history'[r].executed) = Len(history'[r].steps)
               /\ Len(history'[r].passed) = Len(history'[r].steps)
    BY <2>4 DEF Starts
  <2> QED
    BY <2>2, <2>3, <2>4, <1>1 DEF Sized
<1>6. promised' \subseteq Ids \X Tokens
  <2>1. ASSUME NEW c \in WfCallers, Returns(c)
        PROVE  promised' \subseteq Ids \X Tokens
    <3>1. wfCall[c].run \in Runs
      BY <2>1 DEF RunsAreRight, HeldRight, Returns
    <3>2. <<wfCall[c].run.id, wfCall[c].run.token>> \in Ids \X Tokens
      BY <3>1 DEF Runs
    <3> QED
      BY <2>1, <3>2 DEF Returns, WfTypeOK
  <2>2. promised' \subseteq promised \/ \E c \in WfCallers : Returns(c)
    BY StoreChanges
  <2> QED
    BY <2>1, <2>2 DEF WfTypeOK
<1> QED
  BY <1>2, <1>3, <1>4, <1>5, <1>6 DEF WfTypeOK

\* The runs that calls and store have are kept right.
LEMMA RunsStep ==
    ASSUME WfTypeOK, RunsAreRight, WfStep
    PROVE  RunsAreRight'
<1>1. KeepsHistory /\ Made \in Nat /\ WfTypeOK'
  BY HistoryIsKept, MadeIs, TypeStep
<1> DEFINE RightAt(run, r) == StoredRight(run, r, history'[r], Made')
           Held(d) == wfCall'[d].pc \in {"steps", "save"} =>
                          HeldRight(wfCall'[d], history'[wfCall'[d].run.id], Made')
<1>2. ASSUME NEW r \in Ids
      PROVE  RightAt(wfRuns[r], r) /\ RightAt(wfDisk[r], r) /\ RightAt(NoRun, r)
  BY <1>1, StoredStays DEF WfTypeOK, RunsAreRight, StoredRight
<1>3. ASSUME NEW d \in WfCallers, wfCall'[d] = wfCall[d]
      PROVE  Held(d)
  BY <1>1, <1>3, HeldStays DEF WfTypeOK, RunsAreRight
<1>4. ASSUME NEW r \in Ids, r > Made'
      PROVE  history'[r].steps = <<>>
  <2>1. r > Made
    BY <1>1, <1>4, Bounds DEF KeepsHistory
  <2>2. history[r].steps = <<>>
    BY <2>1 DEF RunsAreRight
  <2>3. ASSUME NEW c \in WfCallers, NEW p \in Pipelines, Starts(c, p)
        PROVE  history'[r] = history[r]
    BY <1>1, <1>4, <2>3, Bounds DEF Starts
  <2>4. ASSUME NEW c \in WfCallers, Waits(c) \/ Ends(c) \/ Returns(c)
        PROVE  history'[r] = history[r]
    BY <2>4 DEF Waits, Ends, Returns
  <2>5. ASSUME NEW c \in WfCallers, NEW q \in Ids, Denies(c, q) \/ Approves(c, q)
        PROVE  history'[r].steps = history[r].steps
    BY <2>5 DEF Denies, Approves, Passes, PassesIn, KeepsSize
  <2>6. ASSUME NEW c \in WfCallers, NEW q \in Ids, NEW i \in Nat, Jumps(c, q, i) \/ Does(c, q, i)
        PROVE  history'[r].steps = history[r].steps
    BY <2>6 DEF Jumps, Does, Passes, PassesIn, Executes, ExecutesIn, KeepsSize
  <2>7. CASE Restarts \/ Stutters
    BY <2>2, <2>7 DEF Restarts, Stutters
  <2> QED
    BY <2>2, <2>3, <2>4, <2>5, <2>6, <2>7 DEF WfStep
<1>5. ASSUME NEW r \in Ids
      PROVE  RightAt(wfRuns'[r], r) /\ RightAt(wfDisk'[r], r)
  <2>1. ASSUME NEW c \in WfCallers, Returns(c)
        PROVE  RightAt(wfRuns'[r], r) /\ RightAt(wfDisk'[r], r)
    <3> DEFINE run == wfCall[c].run
    <3>1. HeldRight(wfCall[c], history[run.id], Made)
      BY <2>1 DEF Returns, RunsAreRight
    <3>2. run \in Runs /\ StoredRight(run, run.id, history[run.id], Made)
      BY <2>1, <3>1 DEF HeldRight, StoredRight, Returns
    <3>3. run.id = r => RightAt(run, r)
      BY <1>1, <3>2, StoredStays
    <3>4. wfRuns'[r] \in {NoRun, run, wfRuns[r]} /\ (wfRuns'[r] = run => run.id = r \/ run \in {NoRun, wfRuns[r]})
      BY <2>1 DEF Returns
    <3>5. RightAt(wfRuns'[r], r)
      BY <1>2, <3>3, <3>4
    <3> QED
      BY <1>2, <2>1, <3>5 DEF Returns
  <2>2. \/ wfRuns'[r] \in {wfRuns[r], wfDisk[r]} /\ wfDisk'[r] = wfDisk[r]
        \/ \E c \in WfCallers : Returns(c)
    BY StoreChanges
  <2> QED
    BY <1>2, <2>1, <2>2
<1>6. ASSUME NEW d \in WfCallers
      PROVE  Held(d)
  <2>1. CASE Restarts \/ Stutters
    BY <1>3, <2>1 DEF Restarts, Stutters
  <2>2. ASSUME NEW c \in WfCallers,
               Waits(c) \/ Returns(c)
        PROVE  Held(d)
    BY <1>3, <2>2 DEF Waits, Returns, CallMoves
  <2>3. ASSUME NEW c \in WfCallers, Ends(c)
        PROVE  Held(d)
    <3>1. CASE d # c
      BY <1>3, <2>3, <3>1 DEF Ends, CallMoves
    <3>2. CASE d = c
      BY <2>3, <3>2 DEF Ends, Keeps, SameRuns, RunsAreRight, HeldRight
    <3> QED
      BY <3>1, <3>2
  <2>4. ASSUME NEW c \in WfCallers, NEW p \in Pipelines, Starts(c, p)
        PROVE  Held(d)
    <3>1. CASE d # c
      BY <1>3, <2>4, <3>1 DEF Starts, CallMoves
    <3>2. CASE d = c
      <4>1. Opened(history'[Made + 1], 1)
        BY DEF Opened, Gates
      <4>2. Len(p) \in Nat
        BY <2>4 DEF Starts
      <4>3. 1 \in 1 .. Len(p) + 1
        BY <4>2
      <4> QED
        BY <1>1, <2>4, <3>2, <4>1, <4>3 DEF Starts, HeldRight
    <3> QED
      BY <3>1, <3>2
  <2>5. ASSUME NEW c \in WfCallers, NEW r \in Ids, Denies(c, r)
        PROVE  Held(d)
    <3>1. CASE d # c
      BY <1>3, <2>5, <3>1 DEF Denies, Resumes, CallMoves
    <3>2. CASE d = c
      <4>1. wfRuns[r] # NoRun
        BY <2>5, Bounds DEF Denies, Resumes
      <4>2. wfRuns[r].id = r /\ r <= Made /\ wfRuns[r].steps = history[r].steps
        BY <4>1 DEF RunsAreRight, StoredRight
      <4> QED
        BY <2>5, <3>2, <4>2 DEF Denies, Resumes, HeldRight
    <3> QED
      BY <3>1, <3>2
  <2>6. ASSUME NEW c \in WfCallers, NEW r \in Ids, Approves(c, r)
        PROVE  Held(d)
    <3>1. CASE d # c
      BY <1>3, <2>6, <3>1 DEF Approves, Resumes, CallMoves
    <3>2. CASE d = c
      <4> DEFINE i == wfRuns[r].step
      <4>1. i \in 1 .. Len(history[r].steps) /\ Opened(history[r], i) /\ Sized(history[r])
        BY <2>6, MadeIs DEF Approves, AtGate
      <4>2. PassesIn(history[r], history'[r], i)
        BY <2>6 DEF Approves, Passes
      <4>3. Opened(history'[r], i + 1)
        BY <4>1, <4>2, OpensNext
      <4>4. i + 1 \in 1 .. Len(history[r].steps) + 1
        BY <4>1 DEF Sized, Counters
      <4> QED
        BY <2>6, <3>2, <4>2, <4>3, <4>4 DEF Approves, Resumes, HeldRight, PassesIn, KeepsSize
    <3> QED
      BY <3>1, <3>2
  <2>7. ASSUME NEW c \in WfCallers, NEW r \in Ids, NEW i \in Nat, Jumps(c, r, i)
        PROVE  Held(d)
    <3>1. CASE d # c
      BY <1>3, <2>7, <3>1 DEF Jumps, Walks, CallMoves
    <3>2. CASE d = c
      <4>1. i \in 1 .. Len(history[r].steps) /\ Opened(history[r], i) /\ Sized(history[r])
        BY <2>7, MadeIs DEF Jumps, Walks
      <4>2. PassesIn(history[r], history'[r], i)
        BY <2>7 DEF Jumps, Passes
      <4>3. Opened(history'[r], i + 1)
        BY <4>1, <4>2, OpensNext
      <4>4. i + 1 \in 1 .. Len(history[r].steps) + 1
        BY <4>1 DEF Sized, Counters
      <4>5. /\ wfCall'[d].run \in Runs /\ wfCall'[d].run.id = r /\ wfCall'[d].run.steps = history'[r].steps
            /\ r <= Made' /\ history'[r].steps = history[r].steps
        BY <2>7, <3>2, <4>2 DEF Jumps, Walks, Keeps, SameRuns, PassesIn, KeepsSize
      <4> QED
        BY <2>7, <3>2, <4>3, <4>4, <4>5 DEF Jumps, HeldRight
    <3> QED
      BY <3>1, <3>2
  <2>8. ASSUME NEW c \in WfCallers, NEW r \in Ids, NEW i \in Nat, Does(c, r, i)
        PROVE  Held(d)
    <3>1. CASE d # c
      BY <1>3, <2>8, <3>1 DEF Does, Walks, CallMoves
    <3>2. CASE d = c
      <4>1. i \in 1 .. Len(history[r].steps) /\ Opened(history[r], i) /\ Sized(history[r])
        BY <2>8, MadeIs DEF Does, Walks
      <4>2. ExecutesIn(history[r], history'[r], i)
        BY <2>8 DEF Does, Executes
      <4>3. /\ Opened(history'[r], i) /\ history'[r].steps = history[r].steps
            /\ history[r].steps[i].type # "approval" => Opened(history'[r], i + 1)
        BY <4>1, <4>2, OpensOn
      <4>4. i + 1 \in 1 .. Len(history[r].steps) + 1
        BY <4>1 DEF Sized, Counters
      <4>5. /\ wfCall'[d].run \in Runs /\ wfCall'[d].run.id = r /\ wfCall'[d].run.steps = history'[r].steps
            /\ r <= Made'
        BY <2>8, <3>2, <4>3 DEF Does, Walks, Keeps, SameRuns
      <4>6. CASE wfCall'[d].pc = "steps"
        BY <2>8, <3>2, <4>3, <4>4, <4>5, <4>6 DEF Does, HeldRight
      <4>7. CASE wfCall'[d].pc = "save"
        BY <2>8, <3>2, <4>1, <4>3, <4>5, <4>7 DEF Does, HeldRight, AtGate
      <4> QED
        BY <4>6, <4>7
    <3> QED
      BY <3>1, <3>2
  <2> QED
    BY <2>1, <2>2, <2>3, <2>4, <2>5, <2>6, <2>7, <2>8 DEF WfStep
<1> QED
  BY <1>4, <1>5, <1>6 DEF RunsAreRight

-----------------------------------------------------------------------------
(* The steps that are covered *)

\* What is counted: a call less, or one more against one more passing, or an execution
\* by a call that leaves.
LEMMA Balanced ==
    ASSUME NEW S, IsFiniteSet(S), NEW T, NEW c, NEW n \in Nat, NEW p \in Nat, NEW m \in Nat, NEW q \in Nat,
           n + Cardinality(S) <= p, p <= q,
           \/ T \subseteq S /\ m = n
           \/ T \subseteq S \cup {c} /\ m = n /\ q = p + 1
           \/ c \in S /\ T \subseteq S \ {c} /\ m = n + 1
    PROVE  m + Cardinality(T) <= q
<1>1. Cardinality(S) \in Nat
  BY FS_CardinalityType
<1>2. CASE T \subseteq S /\ m = n
  <2>1. Cardinality(T) \in Nat /\ Cardinality(T) <= Cardinality(S)
    BY <1>2, FS_Subset, FS_CardinalityType
  <2> QED
    BY <1>1, <1>2, <2>1
<1>3. CASE T \subseteq S \cup {c} /\ m = n /\ q = p + 1
  <2>1. IsFiniteSet(S \cup {c}) /\ Cardinality(S \cup {c}) \in Nat /\ Cardinality(S \cup {c}) <= Cardinality(S) + 1
    BY <1>1, FS_AddElement
  <2>2. Cardinality(T) \in Nat /\ Cardinality(T) <= Cardinality(S \cup {c})
    BY <1>3, <2>1, FS_Subset, FS_CardinalityType
  <2> QED
    BY <1>1, <1>3, <2>1, <2>2
<1>4. CASE c \in S /\ T \subseteq S \ {c} /\ m = n + 1
  <2>1. IsFiniteSet(S \ {c}) /\ Cardinality(S \ {c}) = Cardinality(S) - 1
    BY <1>4, FS_RemoveElement
  <2>2. Cardinality(T) \in Nat /\ Cardinality(T) <= Cardinality(S \ {c})
    BY <1>4, <2>1, FS_Subset, FS_CardinalityType
  <2> QED
    BY <1>1, <1>4, <2>1, <2>2
<1> QED
  BY <1>2, <1>3, <1>4

\* The calls that may come to a step are finitely many, and what they may spend is a number.
LEMMA Countable ==
    ASSUME NEW calls, NEW h, Sized(h), NEW r, NEW i \in 1 .. Len(h.steps), NEW j \in Nat, Nearest(h.steps, i, j)
    PROVE  /\ IsFiniteSet(Coming(calls, r, i, j)) /\ h.executed[i] \in Nat /\ Credit(h, j) \in Nat
           /\ j < i /\ (j # 0 => j \in 1 .. Len(h.steps) /\ h.steps[j].type = "approval")
           /\ \A k \in 1 .. i - 1 : h.steps[k].type = "approval" => k <= j
<1>1. IsFiniteSet(Coming(calls, r, i, j))
  BY FS_Subset, Bounds DEF Coming
<1>2. i \in Nat /\ Len(h.steps) \in Nat
  BY DEF Sized, Counters
<1>3. j < i /\ (j # 0 => j \in 1 .. Len(h.steps) /\ h.steps[j].type = "approval")
  BY <1>2 DEF Nearest, Gates
<1>4. \A k \in 1 .. i - 1 : h.steps[k].type = "approval" => k <= j
  BY DEF Nearest, Gates
<1>5. h.executed[i] \in Nat /\ Credit(h, j) \in Nat
  BY <1>3 DEF Sized, Counters, Credit
<1> QED
  BY <1>1, <1>3, <1>4, <1>5

\* A run that nobody walks on in, and that is not passed or executed, stays covered.
LEMMA CoveredFewer ==
    ASSUME NEW calls, NEW calls2, NEW r, NEW h, Sized(h), Covered(calls, r, h),
           \A d \in WfCallers : calls2[d].pc = "steps" /\ calls2[d].run.id = r => calls2[d] = calls[d]
    PROVE  Covered(calls2, r, h)
<1> SUFFICES ASSUME NEW i \in 1 .. Len(h.steps), NEW j \in Nat, Nearest(h.steps, i, j)
             PROVE  h.executed[i] + Cardinality(Coming(calls2, r, i, j)) <= Credit(h, j)
  BY DEF Covered
<1>1. h.executed[i] + Cardinality(Coming(calls, r, i, j)) <= Credit(h, j)
  BY DEF Covered
<1>2. Coming(calls2, r, i, j) \subseteq Coming(calls, r, i, j)
  BY DEF Coming, Comes
<1>3. IsFiniteSet(Coming(calls, r, i, j)) /\ h.executed[i] \in Nat /\ Credit(h, j) \in Nat
  BY Countable
<1> DEFINE n == h.executed[i]
           q == Credit(h, j)
<1>4. n \in Nat /\ q \in Nat /\ n + Cardinality(Coming(calls, r, i, j)) <= q /\ q <= q
  BY <1>1, <1>3
<1> HIDE DEF n, q
<1>5. n + Cardinality(Coming(calls2, r, i, j)) <= q
  BY <1>2, <1>3, <1>4, Balanced
<1> QED
  BY <1>5 DEF n, q

\* A call goes on behind the step that was passed; it was idle, or stood at it.
LEMMA CoveredPassed ==
    ASSUME NEW calls, NEW calls2, NEW r, NEW h, NEW g, Sized(h), Covered(calls, r, h), NEW c \in WfCallers,
           NEW k \in 1 .. Len(h.steps), PassesIn(h, g, k),
           \A d \in WfCallers : d # c => calls2[d] = calls[d],
           calls2[c].pc = "steps", calls2[c].run.id = r, calls2[c].run.step = k + 1,
           \/ calls[c].pc = "steps" /\ calls[c].run.id = r /\ calls[c].run.step = k
           \/ h.steps[k].type = "approval"
    PROVE  Covered(calls2, r, g)
<1>1. Sized(g) /\ g.steps = h.steps /\ g.executed = h.executed
  BY DEF PassesIn, KeepsSize, Sized
<1> SUFFICES ASSUME NEW i \in 1 .. Len(h.steps), NEW j \in Nat, Nearest(h.steps, i, j)
             PROVE  h.executed[i] + Cardinality(Coming(calls2, r, i, j)) <= Credit(g, j)
  BY <1>1 DEF Covered
<1>2. h.executed[i] + Cardinality(Coming(calls, r, i, j)) <= Credit(h, j)
  BY DEF Covered
<1>3. /\ IsFiniteSet(Coming(calls, r, i, j)) /\ h.executed[i] \in Nat /\ Credit(h, j) \in Nat
      /\ j < i /\ (j # 0 => j \in 1 .. Len(h.steps) /\ h.steps[j].type = "approval")
      /\ \A n \in 1 .. i - 1 : h.steps[n].type = "approval" => n <= j
  BY Countable
<1>4. i \in Nat /\ k \in Nat /\ k >= 1 /\ i >= 1
  BY DEF Sized, Counters
<1>5. Credit(g, j) = IF j = k THEN Credit(h, j) + 1 ELSE Credit(h, j)
  BY <1>3, <1>4 DEF Credit, PassesIn
<1>6. Coming(calls2, r, i, j) \subseteq Coming(calls, r, i, j) \cup {c}
  BY DEF Coming, Comes
<1>7. j # k => Coming(calls2, r, i, j) \subseteq Coming(calls, r, i, j)
  <2> SUFFICES ASSUME j # k, Comes(calls2[c], r, i, j) PROVE Comes(calls[c], r, i, j)
    BY DEF Coming
  <2>1. j < k + 1 /\ k + 1 <= i
    BY DEF Comes
  <2>2. j < k /\ k <= i - 1
    BY <2>1, <1>4
  <2>3. h.steps[k].type # "approval"
    BY <1>3, <1>4, <2>2
  <2> QED
    BY <1>4, <2>2, <2>3 DEF Comes
<1> HIDE DEF Coming, Credit
<1> DEFINE S == Coming(calls, r, i, j)
           T == Coming(calls2, r, i, j)
           n == h.executed[i]
           p == Credit(h, j)
           q == Credit(g, j)
<1>8. /\ n \in Nat /\ p \in Nat /\ q \in Nat /\ p <= q /\ IsFiniteSet(S) /\ n + Cardinality(S) <= p
      /\ T \subseteq S \/ (T \subseteq S \cup {c} /\ q = p + 1)
  BY <1>2, <1>3, <1>5, <1>6, <1>7
<1> HIDE DEF S, T, n, p, q
<1>9. n + Cardinality(T) <= q
  BY <1>8, Balanced
<1> QED
  BY <1>9 DEF T, n, q

\* A call executes the step it stands at; it goes on behind it if that is no gate, or leaves.
LEMMA CoveredExecuted ==
    ASSUME NEW calls, NEW calls2, NEW r, NEW h, NEW g, Sized(h), Covered(calls, r, h), NEW c \in WfCallers,
           NEW k \in 1 .. Len(h.steps), ExecutesIn(h, g, k),
           \A d \in WfCallers : d # c => calls2[d] = calls[d],
           calls[c].pc = "steps", calls[c].run.id = r, calls[c].run.step = k,
           \/ calls2[c].pc = "steps" /\ calls2[c].run.step = k + 1 /\ h.steps[k].type # "approval"
           \/ calls2[c].pc # "steps"
    PROVE  Covered(calls2, r, g)
<1>1. Sized(g) /\ g.steps = h.steps /\ g.passed = h.passed
  BY DEF ExecutesIn, KeepsSize, Sized
<1> SUFFICES ASSUME NEW i \in 1 .. Len(h.steps), NEW j \in Nat, Nearest(h.steps, i, j)
             PROVE  g.executed[i] + Cardinality(Coming(calls2, r, i, j)) <= Credit(h, j)
  BY <1>1 DEF Covered, Credit
<1>2. h.executed[i] + Cardinality(Coming(calls, r, i, j)) <= Credit(h, j)
  BY DEF Covered
<1>3. /\ IsFiniteSet(Coming(calls, r, i, j)) /\ h.executed[i] \in Nat /\ Credit(h, j) \in Nat
      /\ j < i /\ (j # 0 => j \in 1 .. Len(h.steps) /\ h.steps[j].type = "approval")
  BY Countable
<1>4. i \in Nat /\ k \in Nat /\ k >= 1 /\ i >= 1
  BY DEF Sized, Counters
<1>5. g.executed[i] = IF i = k THEN h.executed[i] + 1 ELSE h.executed[i]
  BY DEF ExecutesIn
<1>6. Coming(calls2, r, i, j) \subseteq Coming(calls, r, i, j)
  <2> SUFFICES ASSUME Comes(calls2[c], r, i, j) PROVE Comes(calls[c], r, i, j)
    BY DEF Coming
  <2>1. j < k + 1 /\ k + 1 <= i /\ h.steps[k].type # "approval"
    BY DEF Comes
  <2>2. j # k
    BY <1>3, <1>4, <2>1
  <2> QED
    BY <1>4, <2>1, <2>2 DEF Comes
<1>7. i = k => c \in Coming(calls, r, i, j) /\ Coming(calls2, r, i, j) \subseteq Coming(calls, r, i, j) \ {c}
  <2> SUFFICES ASSUME i = k PROVE Comes(calls[c], r, i, j) /\ ~Comes(calls2[c], r, i, j)
    BY <1>6 DEF Coming
  <2> QED
    BY <1>3, <1>4 DEF Comes
<1> HIDE DEF Coming, Credit
<1>8. CASE i = k
  <2>1. g.executed[i] = h.executed[i] + 1 /\ g.executed[i] \in Nat
    BY <1>3, <1>5, <1>8
  <2> QED
    BY <1>2, <1>3, <1>7, <1>8, <2>1, Balanced
<1>9. CASE i # k
  <2>1. g.executed[i] = h.executed[i]
    BY <1>5, <1>9
  <2> QED
    BY SMTT(30), <1>2, <1>3, <1>6, <2>1, Balanced
<1> QED
  BY <1>8, <1>9

\* A new run is covered: one call may come to the steps before its first gate.
LEMMA CoveredNew ==
    ASSUME NEW calls, NEW r, NEW g, Sized(g), NEW c \in WfCallers,
           \A k \in 1 .. Len(g.steps) : g.executed[k] = 0,
           \A d \in WfCallers : d # c => ~(calls[d].pc = "steps" /\ calls[d].run.id = r),
           calls[c].run.step = 1
    PROVE  Covered(calls, r, g)
<1> SUFFICES ASSUME NEW i \in 1 .. Len(g.steps), NEW j \in Nat, Nearest(g.steps, i, j)
             PROVE  g.executed[i] + Cardinality(Coming(calls, r, i, j)) <= Credit(g, j)
  BY DEF Covered
<1>1. Credit(g, j) \in Nat /\ IsFiniteSet({c}) /\ Cardinality({c}) = 1 /\ Cardinality({}) = 0 /\ g.executed[i] = 0
  BY Countable, FS_Singleton, FS_EmptySet
<1>2. CASE j = 0
  <2>1. Coming(calls, r, i, j) \subseteq {c}
    BY DEF Coming, Comes
  <2>2. Cardinality(Coming(calls, r, i, j)) \in Nat /\ Cardinality(Coming(calls, r, i, j)) <= 1
    BY <1>1, <2>1, FS_Subset, FS_CardinalityType
  <2>3. Credit(g, j) = 1
    BY <1>2 DEF Credit
  <2> QED
    BY <1>1, <2>2, <2>3
<1>3. CASE j # 0
  <2>1. Coming(calls, r, i, j) = {}
    BY <1>3 DEF Coming, Comes
  <2>2. Cardinality(Coming(calls, r, i, j)) = 0
    BY <1>1, <2>1
  <2> QED
    BY <1>1, <2>2
<1> QED
  BY <1>2, <1>3

\* Every run stays covered.
LEMMA CoveredStep ==
    ASSUME WfTypeOK, RunsAreRight, StepsAreCovered, WfStep
    PROVE  StepsAreCovered'
<1> SUFFICES ASSUME NEW q \in Ids PROVE Covered(wfCall', q, history'[q])
  BY DEF StepsAreCovered
<1>1. Sized(history[q]) /\ Covered(wfCall, q, history[q]) /\ Made \in Nat
  BY MadeIs DEF StepsAreCovered
<1>2. ASSUME history'[q] = history[q],
             \A d \in WfCallers : wfCall'[d].pc = "steps" /\ wfCall'[d].run.id = q => wfCall'[d] = wfCall[d]
      PROVE  Covered(wfCall', q, history'[q])
  BY <1>1, <1>2, CoveredFewer
<1>3. CASE Restarts \/ Stutters
  BY <1>2, <1>3 DEF Restarts, Stutters
<1>4. ASSUME NEW c \in WfCallers, Waits(c) \/ Ends(c) \/ Returns(c) \/ \E r \in Ids : Denies(c, r)
      PROVE  Covered(wfCall', q, history'[q])
  <2>1. history' = history /\ CallMoves(c) /\ wfCall'[c].pc # "steps"
    BY <1>4 DEF Waits, Ends, Returns, Denies, Resumes
  <2> QED
    BY <1>2, <2>1 DEF CallMoves
<1>5. ASSUME NEW c \in WfCallers, NEW p \in Pipelines, Starts(c, p)
      PROVE  Covered(wfCall', q, history'[q])
  <2>1. CASE q # Made + 1
    BY <1>2, <1>5, <2>1 DEF Starts, CallMoves
  <2>2. CASE q = Made + 1
    <3>1. Sized(history'[q]) /\ \A k \in 1 .. Len(history'[q].steps) : history'[q].executed[k] = 0
      BY <1>5, <2>2 DEF Starts, Sized
    <3>2. ASSUME NEW d \in WfCallers, d # c, wfCall'[d].pc = "steps", wfCall'[d].run.id = q
          PROVE  FALSE
      <4>1. wfCall[d].pc = "steps" /\ wfCall[d].run.id = q
        BY <1>5, <3>2 DEF Starts, CallMoves
      <4>2. q <= Made
        BY <4>1 DEF RunsAreRight, HeldRight
      <4> QED
        BY <1>1, <2>2, <4>2
    <3>3. wfCall'[c].run.step = 1
      BY <1>5 DEF Starts
    <3> QED
      BY <3>1, <3>2, <3>3, CoveredNew
  <2> QED
    BY <2>1, <2>2
<1>6. ASSUME NEW c \in WfCallers, NEW r \in Ids, Approves(c, r)
      PROVE  Covered(wfCall', q, history'[q])
  <2>1. CASE q # r
    BY <1>2, <1>6, <2>1 DEF Approves, Resumes, Passes, CallMoves
  <2>2. CASE q = r
    <3> DEFINE k == wfRuns[r].step
    <3>1. k \in 1 .. Len(history[q].steps) /\ history[q].steps[k].type = "approval" /\ PassesIn(history[q], history'[q], k)
      BY <1>6, <2>2 DEF Approves, Passes, AtGate
    <3>2. /\ \A d \in WfCallers : d # c => wfCall'[d] = wfCall[d]
          /\ wfCall'[c].pc = "steps" /\ wfCall'[c].run.id = q /\ wfCall'[c].run.step = k + 1
      BY <1>6, <2>2 DEF Approves, Resumes, CallMoves
    <3> HIDE DEF k
    <3> QED
      BY <1>1, <3>1, <3>2, CoveredPassed
  <2> QED
    BY <2>1, <2>2
<1>7. ASSUME NEW c \in WfCallers, NEW r \in Ids, NEW i \in Nat, Jumps(c, r, i)
      PROVE  Covered(wfCall', q, history'[q])
  <2>1. /\ \A d \in WfCallers : d # c => wfCall'[d] = wfCall[d]
        /\ wfCall'[c].pc = "steps" /\ wfCall'[c].run.id = r /\ wfCall'[c].run.step = i + 1
        /\ wfCall[c].pc = "steps" /\ wfCall[c].run.id = r /\ wfCall[c].run.step = i
        /\ i \in 1 .. Len(history[r].steps) /\ PassesIn(history[r], history'[r], i)
        /\ q # r => history'[q] = history[q]
    BY <1>7 DEF Jumps, Walks, Keeps, CallMoves, Passes
  <2>2. CASE q # r
    BY <1>2, <2>1, <2>2
  <2>3. CASE q = r
    BY <1>1, <2>1, <2>3, CoveredPassed
  <2> QED
    BY <2>2, <2>3
<1>8. ASSUME NEW c \in WfCallers, NEW r \in Ids, NEW i \in Nat, Does(c, r, i)
      PROVE  Covered(wfCall', q, history'[q])
  <2>1. /\ \A d \in WfCallers : d # c => wfCall'[d] = wfCall[d]
        /\ \/ wfCall'[c].pc = "steps" /\ wfCall'[c].run.step = i + 1 /\ history[r].steps[i].type # "approval"
           \/ wfCall'[c].pc # "steps"
        /\ wfCall'[c].run.id = r /\ wfCall[c].pc = "steps" /\ wfCall[c].run.id = r /\ wfCall[c].run.step = i
        /\ i \in 1 .. Len(history[r].steps) /\ ExecutesIn(history[r], history'[r], i)
        /\ q # r => history'[q] = history[q]
    BY <1>8 DEF Does, Walks, Keeps, CallMoves, Executes
  <2>2. CASE q # r
    BY <1>2, <2>1, <2>2
  <2>3. CASE q = r
    BY <1>1, <2>1, <2>3, CoveredExecuted
  <2> QED
    BY <2>2, <2>3
<1> QED
  BY <1>3, <1>4, <1>5, <1>6, <1>7, <1>8 DEF WfStep

\* Behind a gate nothing is executed before it was passed.
LEMMA ExecutedStep ==
    ASSUME WfTypeOK, RunsAreRight, ExecutedIsOpened, WfStep
    PROVE  ExecutedIsOpened'
<1> DEFINE Right(h) == \A i \in 1 .. Len(h.steps) : h.executed[i] > 0 => Opened(h, i)
<1> SUFFICES ASSUME NEW q \in Ids PROVE Right(history'[q])
  BY DEF ExecutedIsOpened
<1>1. Sized(history[q]) /\ Right(history[q])
  BY MadeIs DEF ExecutedIsOpened
<1>2. ASSUME NEW h, NEW g, Sized(h), Right(h), Grows(h, g), g.executed = h.executed
      PROVE  Right(g)
  <2> SUFFICES ASSUME NEW i \in 1 .. Len(g.steps), g.executed[i] > 0 PROVE Opened(g, i)
    OBVIOUS
  <2>1. g.steps = h.steps /\ Len(h.steps) \in Nat
    BY <1>2 DEF Grows, KeepsSize, Sized, Counters
  <2>2. Opened(h, i) /\ i \in Nat /\ i <= Len(h.steps) + 1
    BY <1>2, <2>1
  <2> QED
    BY <1>2, <2>2, OpenedStays
<1>3. \/ history'[q] = history[q]
      \/ \E i \in Nat : PassesIn(history[q], history'[q], i)
      \/ \E i \in 1 .. Len(history[q].steps) : ExecutesIn(history[q], history'[q], i) /\ Opened(history[q], i)
      \/ \A k \in 1 .. Len(history'[q].steps) : history'[q].executed[k] = 0
  <2>1. ASSUME NEW c \in WfCallers, Waits(c) \/ Ends(c) \/ Returns(c) \/ \E r \in Ids : Denies(c, r)
        PROVE  history'[q] = history[q]
    BY <2>1 DEF Waits, Ends, Returns, Denies
  <2>2. ASSUME NEW c \in WfCallers, NEW p \in Pipelines, Starts(c, p)
        PROVE  \/ history'[q] = history[q]
               \/ \A k \in 1 .. Len(history'[q].steps) : history'[q].executed[k] = 0
    BY <2>2 DEF Starts
  <2>3. ASSUME NEW c \in WfCallers, NEW r \in Ids, Approves(c, r)
        PROVE  history'[q] = history[q] \/ \E i \in Nat : PassesIn(history[q], history'[q], i)
    BY <2>3 DEF Approves, Passes, AtGate, Resumes, Runs
  <2>4. ASSUME NEW c \in WfCallers, NEW r \in Ids, NEW i \in Nat, Jumps(c, r, i)
        PROVE  history'[q] = history[q] \/ PassesIn(history[q], history'[q], i)
    BY <2>4 DEF Jumps, Passes
  <2>5. ASSUME NEW c \in WfCallers, NEW r \in Ids, NEW i \in Nat, Does(c, r, i)
        PROVE  \/ history'[q] = history[q]
               \/ /\ i \in 1 .. Len(history[q].steps)
                  /\ ExecutesIn(history[q], history'[q], i) /\ Opened(history[q], i)
    BY <2>5 DEF Does, Executes, Walks
  <2>6. CASE Restarts \/ Stutters
    BY <2>6 DEF Restarts, Stutters
  <2> QED
    BY <2>1, <2>2, <2>3, <2>4, <2>5, <2>6 DEF WfStep
<1>4. CASE history'[q] = history[q]
  BY <1>1, <1>4
<1>5. ASSUME NEW i \in Nat, PassesIn(history[q], history'[q], i)
      PROVE  Right(history'[q])
  BY <1>1, <1>2, <1>5, PassedGrows DEF PassesIn
<1>6. ASSUME NEW i \in 1 .. Len(history[q].steps), ExecutesIn(history[q], history'[q], i), Opened(history[q], i)
      PROVE  Right(history'[q])
  <2> DEFINE h == history[q]
             g == history'[q]
  <2> SUFFICES ASSUME NEW k \in 1 .. Len(g.steps), g.executed[k] > 0 PROVE Opened(g, k)
    OBVIOUS
  <2>1. g.steps = h.steps /\ g.passed = h.passed
    BY <1>6 DEF ExecutesIn, KeepsSize
  <2>2. Opened(h, k)
    BY <1>1, <1>6, <2>1 DEF ExecutesIn
  <2> QED
    BY <2>1, <2>2 DEF Opened
<1>7. CASE \A k \in 1 .. Len(history'[q].steps) : history'[q].executed[k] = 0
  BY <1>7
<1> QED
  BY <1>3, <1>4, <1>5, <1>6, <1>7

\* What was promised stays in the store and in the file: only its own run's save takes it
\* away, and that takes the promise with it.
LEMMA PromisesStep ==
    ASSUME WfTypeOK, RunsAreRight, PromisesAreStored, WfStep
    PROVE  PromisesAreStored'
<1> SUFFICES ASSUME NEW t \in promised'
             PROVE  wfRuns'[t[1]].status = "paused" /\ wfRuns'[t[1]].token = t[2] /\ wfDisk'[t[1]] = wfRuns'[t[1]]
  BY DEF PromisesAreStored
<1>1. t[1] \in Ids
  BY TypeStep DEF WfTypeOK
<1>2. ASSUME NEW c \in WfCallers, Returns(c)
      PROVE  wfRuns'[t[1]].status = "paused" /\ wfRuns'[t[1]].token = t[2] /\ wfDisk'[t[1]] = wfRuns'[t[1]]
  <2> DEFINE run == wfCall[c].run
  <2>1. CASE t \in promised /\ t[1] # run.id
    <3>1. wfRuns[t[1]].status = "paused" /\ wfRuns[t[1]].token = t[2] /\ wfDisk[t[1]] = wfRuns[t[1]]
      BY <2>1 DEF PromisesAreStored
    <3>2. wfRuns'[t[1]] = wfRuns[t[1]]
      BY <1>1, <1>2, <2>1, <3>1 DEF Returns
    <3> QED
      BY <1>2, <3>1, <3>2 DEF Returns
  <2>2. CASE t = <<run.id, run.token>> /\ run.status = "paused" /\ wfDisk' = wfRuns'
    <3>1. t[1] = run.id /\ t[2] = run.token
      BY <2>2
    <3>2. wfRuns'[t[1]] = run
      BY <1>1, <1>2, <2>2, <3>1 DEF Returns
    <3> QED
      BY <2>2, <3>1, <3>2
  <2> QED
    BY <1>2, <2>1, <2>2 DEF Returns
<1>3. ASSUME wfRuns' = wfRuns \/ wfRuns' = wfDisk, wfDisk' = wfDisk, t \in promised
      PROVE  wfRuns'[t[1]].status = "paused" /\ wfRuns'[t[1]].token = t[2] /\ wfDisk'[t[1]] = wfRuns'[t[1]]
  BY <1>3 DEF PromisesAreStored
<1>4. \/ (wfRuns' = wfRuns \/ wfRuns' = wfDisk) /\ wfDisk' = wfDisk /\ t \in promised
      \/ \E c \in WfCallers : Returns(c)
  BY StoreChanges
<1> QED
  BY <1>2, <1>3, <1>4

-----------------------------------------------------------------------------
(* The theorems *)

\* At the start no run is made.
LEMMA WorkflowStarts == ASSUME WorkflowInit PROVE WorkflowInv
<1>1. Idle \in WfLocals /\ Idle.pc = "idle"
  BY DEF Idle, WfLocals
<1>2. \A r \in Ids : /\ history[r] \in Counters /\ history[r].steps = <<>> /\ Len(history[r].steps) = 0
                     /\ Len(history[r].executed) = 0 /\ Len(history[r].passed) = 0
                     /\ wfRuns[r] = NoRun /\ wfDisk[r] = NoRun
  BY DEF WorkflowInit, Counters
<1>3. wfLeft \in [runs : 0 .. WfBounds.runs, crashes : Nat, failures : Nat]
  BY WorkflowConstants DEF WorkflowInit
<1>4. WfTypeOK
  BY <1>1, <1>2, <1>3 DEF WorkflowInit, WfTypeOK
<1>5. RunsAreRight
  BY <1>1, <1>2 DEF WorkflowInit, RunsAreRight, StoredRight
<1>6. StepsAreCovered /\ ExecutedIsOpened
  BY <1>2 DEF StepsAreCovered, Covered, ExecutedIsOpened
<1>7. PromisesAreStored
  BY DEF WorkflowInit, PromisesAreStored
<1> QED
  BY <1>4, <1>5, <1>6, <1>7 DEF WorkflowInv

\* In every state each call's copy of its run and the store's are of one pipeline and stand
\* behind gates that were passed; and the executions of a step, with the calls that may
\* still come to it, never exceed the passings of its nearest gate (continueExecution,
\* Resume and SaveRun in workflow/manager.go and store.go).
THEOREM WorkflowInvariant == WorkflowSpec => []WorkflowInv
<1>1. WorkflowInit => WorkflowInv
  BY WorkflowStarts
<1>2. WorkflowInv /\ [WorkflowNext]_workflowVars => WorkflowInv'
  <2> SUFFICES ASSUME WorkflowInv, [WorkflowNext]_workflowVars PROVE WorkflowInv'
    OBVIOUS
  <2>1. WfTypeOK /\ RunsAreRight /\ StepsAreCovered /\ ExecutedIsOpened /\ PromisesAreStored
    BY DEF WorkflowInv
  <2>2. WfStep
    BY <2>1, StepIs
  <2>3. WfTypeOK' /\ RunsAreRight'
    BY <2>1, <2>2, TypeStep, RunsStep
  <2>4. StepsAreCovered' /\ ExecutedIsOpened' /\ PromisesAreStored'
    BY <2>1, <2>2, CoveredStep, ExecutedStep, PromisesStep
  <2> QED
    BY <2>3, <2>4 DEF WorkflowInv
<1> QED
  BY <1>1, <1>2, PTL DEF WorkflowSpec

\* For every number of callers, pipelines and runs: no step is executed behind a gate that
\* was not passed, none more often than its nearest gate was, and a run that was handed out
\* as paused, with its file written, can be resumed with its token, across restarts and
\* with the store at its limit.
THEOREM WorkflowsAreGatedHolds == WorkflowSpec => []WorkflowsAreGated
<1>1. WorkflowInv => WorkflowsAreGated
  <2> SUFFICES ASSUME WorkflowInv PROVE WorkflowsAreGated
    OBVIOUS
  <2>1. PausedIsKept
    BY DEF WorkflowInv, PromisesAreStored, PausedIsKept, Resumable
  <2>2. ASSUME NEW r \in Ids, NEW i \in DOMAIN history[r].steps
        PROVE  /\ GatesBefore(r, i) = {} => history[r].executed[i] <= 1
               /\ \A j \in GatesBefore(r, i) :
                     /\ history[r].executed[i] > 0 => history[r].passed[j] > 0
                     /\ (\A k \in GatesBefore(r, i) : k <= j) => history[r].executed[i] <= history[r].passed[j]
    <3> DEFINE h == history[r]
    <3>1. Sized(h) /\ Covered(wfCall, r, h) /\ (\A k \in 1 .. Len(h.steps) : h.executed[k] > 0 => Opened(h, k))
      BY MadeIs DEF WorkflowInv, StepsAreCovered, ExecutedIsOpened
    <3>2. i \in 1 .. Len(h.steps) /\ GatesBefore(r, i) = Gates(h.steps, i)
      BY <3>1 DEF Sized, Counters, GatesBefore, Gates
    <3>3. ASSUME NEW j \in Nat, Nearest(h.steps, i, j)
          PROVE  h.executed[i] <= Credit(h, j)
      <4>1. /\ IsFiniteSet(Coming(wfCall, r, i, j)) /\ h.executed[i] \in Nat /\ Credit(h, j) \in Nat
        BY <3>1, <3>2, <3>3, Countable
      <4>2. Cardinality(Coming(wfCall, r, i, j)) \in Nat
        BY <4>1, FS_CardinalityType
      <4>3. h.executed[i] + Cardinality(Coming(wfCall, r, i, j)) <= Credit(h, j)
        BY <3>1, <3>2, <3>3 DEF Covered
      <4> QED
        BY <4>1, <4>2, <4>3
    <3>4. Gates(h.steps, i) = {} => h.executed[i] <= 1
      BY <3>3 DEF Nearest, Credit
    <3>5. ASSUME NEW j \in Gates(h.steps, i), \A k \in Gates(h.steps, i) : k <= j
          PROVE  h.executed[i] <= h.passed[j]
      <4>1. j \in Nat /\ j # 0 /\ Nearest(h.steps, i, j)
        BY <3>5 DEF Nearest, Gates
      <4> QED
        BY <3>3, <4>1 DEF Credit
    <3>6. \A j \in Gates(h.steps, i) : h.executed[i] > 0 => h.passed[j] > 0
      BY <3>1, <3>2 DEF Opened
    <3> QED
      BY <3>2, <3>4, <3>5, <3>6
  <2> QED
    BY <2>1, <2>2 DEF WorkflowsAreGated, StepsAreApproved
<1> QED
  BY <1>1, WorkflowInvariant, PTL

-----------------------------------------------------------------------------
(* The channels *)

-----------------------------------------------------------------------------
(* The channels *)

\* The platforms, and the states of a channel.
NinePlatforms == {"telegram", "matrix", "signal", "irc", "slack", "discord", "whatsapp", "googlechat", "teams"}
ChanStates    == {"up", "stopping", "lost", "down"}

\* The messages by what they are to the channel.
Ignored  == {m \in Written : Outcome(written[m]) = "ignored"}
Commands == {m \in Written : Outcome(written[m]) = "command"}
ForAgent == {m \in Written : Outcome(written[m]) = "agent"}

\* What Telegram's channel would not ignore if it knew the name of its bot.
Wanted ==
    {m \in Written : \/ written[m].text = "command"
                     \/ written[m].text = "text" /\ ~(written[m].group /\ chan.mentionOnly /\ ~written[m].mention)}

\* What needs nothing more: answered, not to be sent, or not meant for the bot as far as it
\* knows.
Settled == answered \cup unsent \cup deaf

\* The types of the channel and of what its platform keeps for it.
ChannelsTypeOK ==
    /\ chan \in [platform : Platforms, mentionOnly : BOOLEAN, named : BOOLEAN, state : ChanStates]
    /\ written \in Seq(Shapes)
    /\ gone \in SUBSET Written /\ work \in SUBSET Written
    /\ cursor \in Nat /\ cursor <= Len(written) + 1
    /\ batch \in Seq(Written)
    /\ turns \in [Written -> Nat]
    /\ hungUp \subseteq again
    /\ ~On({"telegram"}) => chan.named
    /\ chan.state = "down" => cursor = 0 /\ batch = <<>> /\ work = {} /\ cut = {}

\* Messages are taken in the order in which they were written.
BatchAscends ==
    /\ \A i, j \in DOMAIN batch : i < j => batch[i] < batch[j]
    /\ On({"telegram"}) => \A i \in DOMAIN batch : batch[i] = batch[1] + i - 1
    /\ On({"slack", "whatsapp", "googlechat", "teams"}) => batch = <<>>

\* Telegram and signal-cli let go of a prefix of what was written, Matrix of nothing.
GoneIsPrefix ==
    /\ On({"telegram", "signal"}) => \E g \in 0 .. Len(written) : gone = 1 .. g
    /\ On({"matrix"}) => gone = {}

\* Nothing that Telegram has let go, or will with the next poll, is forgotten.
TelegramKeeps ==
    On({"telegram"}) =>
        /\ gone \cap Wanted \subseteq Settled
        /\ Up => /\ cut = {}
                 /\ \A m \in Wanted :
                      m < cursor \/ (batch # <<>> /\ m < batch[1]) => m \in Settled \cup work

\* On the other platforms, what was let go is settled, in the hands of the channel, or
\* dropped.
LetGoIsHeld ==
    ~On({"telegram"}) =>
        \A m \in Written \ Ignored : LetGo(m) => m \in Settled \cup InHand \cup dropped

\* What the channel has looked at does not come again.
Past ==
    CASE On({"telegram"}) -> gone \cup {m \in Written : m < cursor}
      [] On({"matrix"})   -> {m \in Written : m < cursor}
      [] On({"whatsapp"}) -> gone \cup work
      [] OTHER            -> gone

\* What was pulled does not come again.
PulledIsPast == On({"matrix", "signal", "irc", "discord"}) => \A i \in DOMAIN batch : batch[i] \in Past

\* A message that was looked at is past and not in the batch, unless its platform had to
\* send it again.
TakenOnce ==
    \A m \in Written :
        \/ turns[m] = 0 \/ m \in again
        \/ turns[m] = 1 /\ m \in Past /\ \A i \in DOMAIN batch : batch[i] # m

\* The inductive invariant of the channels.
ChannelsInv ==
    /\ ChannelsTypeOK /\ BatchAscends /\ GoneIsPrefix /\ TelegramKeeps /\ LetGoIsHeld
    /\ PulledIsPast /\ TakenOnce

-----------------------------------------------------------------------------
(* Lists in order *)

\* How many numbers an interval has.
LEMMA IntervalSize ==
    ASSUME NEW a \in Nat, NEW b \in Nat, a <= b + 1
    PROVE  IsFiniteSet(a .. b) /\ Cardinality(a .. b) = b - a + 1
<1>1. IsFiniteSet(a .. b) /\ Cardinality(a .. b) = IF a > b THEN 0 ELSE b - a + 1
  BY FS_Interval
<1> QED BY <1>1

\* How many are below one of them.
LEMMA BelowInInterval ==
    ASSUME NEW a \in Nat \ {0}, NEW b \in Nat, a <= b + 1, NEW m \in a .. b
    PROVE  Cardinality({k \in a .. b : k < m}) = m - a
<1>1. PICK c : c = m - 1
  OBVIOUS
<1>2. {k \in a .. b : k < m} = a .. c
  BY <1>1
<1>3. c \in Nat /\ a <= c + 1 /\ a \in Nat
  BY <1>1
<1>4. Cardinality(a .. c) = c - a + 1
  BY <1>3, IntervalSize
<1>5. c - a + 1 = m - a
  BY <1>1
<1>6. Cardinality({k \in a .. b : k < m}) = Cardinality(a .. c)
  BY <1>2
<1> QED BY <1>4, <1>5, <1>6

\* An interval in order.
LEMMA InOrderOfInterval ==
    ASSUME NEW a \in Nat \ {0}, NEW b \in Nat, a <= b + 1
    PROVE  InOrder(a .. b) = [i \in 1 .. (b - a + 1) |-> a + i - 1]
<1>1. Cardinality(a .. b) = b - a + 1
  BY IntervalSize
<1>2. ASSUME NEW i \in 1 .. (b - a + 1)
      PROVE  (CHOOSE m \in a .. b : Cardinality({k \in a .. b : k < m}) = i - 1) = a + i - 1
  <2>1. a + i - 1 \in a .. b
    OBVIOUS
  <2>2. \A m \in a .. b : Cardinality({k \in a .. b : k < m}) = m - a
    BY BelowInInterval
  <2>3. \A m \in a .. b : Cardinality({k \in a .. b : k < m}) = i - 1 <=> m = a + i - 1
    BY <2>2
  <2> QED BY <2>1, <2>3
<1> QED BY <1>1, <1>2 DEF InOrder

-----------------------------------------------------------------------------
(* What a message is *)

\* A message is ignored, a command, or for the agent.
LEMMA OutcomeIsOne ==
    ASSUME ChannelConstants, ChannelsTypeOK, NEW x
    PROVE  Outcome(x) \in {"ignored", "command", "agent"}
<1>1. chan.platform \in NinePlatforms
  BY DEF ChannelConstants, ChannelsTypeOK, NinePlatforms
<1> QED BY <1>1 DEF NinePlatforms, Outcome, On, ToAgent, telegramUpdate, matrixEvent, signalEnvelope, ircLine,
             whatsappMessage, slackMessage, discordMessage, gchatMessage, teamsMessage

\* And so every message is one of the three.
LEMMA EachIsOne ==
    ASSUME ChannelConstants, ChannelsTypeOK, NEW m \in Written
    PROVE  /\ m \in Ignored \cup Commands \cup ForAgent
           /\ m \in Ignored  <=> Outcome(written[m]) = "ignored"
           /\ m \in Commands <=> Outcome(written[m]) = "command"
           /\ m \in ForAgent <=> Outcome(written[m]) = "agent"
BY OutcomeIsOne DEF Ignored, Commands, ForAgent

\* Looking at a message, by what it is.
LEMMA LooksAt ==
    ASSUME ChannelConstants, ChannelsTypeOK, NEW m \in Written, LookAt(m)
    PROVE  \/ /\ m \in Ignored /\ deaf' = (IF chan.named THEN deaf ELSE deaf \cup {m})
              /\ work' = work /\ turns' = turns /\ answered' = answered /\ unsent' = unsent
           \/ /\ m \in Commands /\ answered' = answered \cup {m}
              /\ work' = work /\ turns' = turns /\ deaf' = deaf /\ unsent' = unsent
           \/ /\ m \in ForAgent /\ work' = work \cup {m} /\ turns' = [turns EXCEPT ![m] = @ + 1]
              /\ answered' = answered /\ deaf' = deaf /\ unsent' = unsent
<1>1. CASE Outcome(written[m]) = "ignored"
  BY <1>1, EachIsOne DEF LookAt
<1>2. CASE Outcome(written[m]) = "command"
  BY <1>2, EachIsOne DEF LookAt
<1>3. CASE Outcome(written[m]) = "agent"
  BY <1>3, EachIsOne DEF LookAt
<1> QED BY <1>1, <1>2, <1>3, OutcomeIsOne

\* The bot stays what it is.
SameBot == chan' = [chan EXCEPT !.state = chan'.state]

\* Its settings, one by one.
LEMMA BotStays ==
    ASSUME SameBot, ChannelsTypeOK
    PROVE  chan'.platform = chan.platform /\ chan'.mentionOnly = chan.mentionOnly /\ chan'.named = chan.named
BY DEF SameBot, ChannelsTypeOK

\* What is ignored stays ignored while the settings and the messages stay.
LEMMA IgnoredStays ==
    ASSUME chan'.platform = chan.platform, chan'.mentionOnly = chan.mentionOnly, chan'.named = chan.named,
           written' = written
    PROVE  Ignored' = Ignored
BY DEF Ignored, Written, Outcome, On, ToAgent, telegramUpdate, matrixEvent, signalEnvelope, ircLine, Gated,
   hasBotMention,
       whatsappMessage, slackMessage, discordMessage, gchatMessage, teamsMessage

\* What is wanted needs less than that.
LEMMA WantedStays ==
    ASSUME chan'.mentionOnly = chan.mentionOnly, written' = written
    PROVE  Wanted' = Wanted
BY DEF Wanted, Written

\* A bot that does not know its name ignores more.
LEMMA TelegramWants ==
    ASSUME ChannelConstants, ChannelsTypeOK, On({"telegram"})
    PROVE  /\ Written \ Ignored \subseteq Wanted
           /\ Ignored \cap Wanted # {} => ~chan.named
<1>1. chan.platform = "telegram" /\ chan.named \in BOOLEAN /\ chan.mentionOnly \in BOOLEAN
  BY DEF On, ChannelsTypeOK
<1>2. \A m \in Written : written[m] \in Shapes
  BY DEF ChannelsTypeOK, Written
<1>3. \A x \in Shapes : /\ x.text \in {"none", "command", "text"} /\ x.group \in BOOLEAN /\ x.mention \in BOOLEAN
  BY DEF ChannelConstants
<1>4. \A m \in Written : Outcome(written[m]) = telegramUpdate(written[m])
  BY <1>1 DEF Outcome, On
<1>5. ASSUME NEW m \in Written, Outcome(written[m]) # "ignored"
      PROVE  m \in Wanted
  BY <1>1, <1>2, <1>3, <1>4, <1>5 DEF Wanted, telegramUpdate, hasBotMention
<1>6. ASSUME NEW m \in Wanted, Outcome(written[m]) = "ignored"
      PROVE  ~chan.named
  BY <1>1, <1>2, <1>3, <1>4, <1>6 DEF Wanted, telegramUpdate, hasBotMention
<1> QED BY <1>5, <1>6 DEF Ignored

-----------------------------------------------------------------------------
(* The life of a channel *)

\* At the start nothing was written.
LEMMA ChannelsStart ==
    ASSUME ChannelConstants, ChannelsInit
    PROVE  ChannelsInv
<1>1. Written = {}
  BY DEF ChannelsInit, Written
<1>2. ChannelsTypeOK
  <2>1. chan \in [platform : Platforms, mentionOnly : BOOLEAN, named : BOOLEAN, state : ChanStates] /\ chan.named
    BY DEF ChannelsInit, ChanStates
  <2>2. written \in Seq(Shapes) /\ Len(written) = 0 /\ batch \in Seq(Written)
    BY EmptySeq DEF ChannelsInit
  <2>3. turns \in [Written -> Nat]
    BY <1>1 DEF ChannelsInit
  <2> QED BY <2>1, <2>2, <2>3 DEF ChannelsInit, ChannelsTypeOK
<1>3. DOMAIN batch = {}
  BY DEF ChannelsInit
<1>4. Wanted = {}
  BY <1>1 DEF Wanted
<1>5. GoneIsPrefix
  <2>1. gone = 1 .. 0 /\ gone = {} /\ 0 \in 0 .. Len(written)
    BY DEF ChannelsInit
  <2> QED BY <2>1 DEF GoneIsPrefix
<1>6. TelegramKeeps
  BY <1>4 DEF TelegramKeeps, ChannelsInit
<1> QED BY <1>1, <1>2, <1>3, <1>5, <1>6 DEF ChannelsInv, BatchAscends, LetGoIsHeld, PulledIsPast, TakenOnce, ChannelsInit

\* What stands when the lists stand.
LEMMA ListsStand ==
    ASSUME ChannelsInv, chan'.platform = chan.platform, written' = written, gone' = gone, cursor' = cursor,
           batch' = batch
    PROVE  /\ Written' = Written /\ BatchAscends' /\ GoneIsPrefix' /\ PulledIsPast'
           /\ ~On({"whatsapp"}) => Past' = Past
           /\ \A m : LetGo(m)' = LetGo(m)
<1>1. Written' = Written
  BY DEF Written
<1>2. BatchAscends' /\ GoneIsPrefix'
  BY DEF ChannelsInv, BatchAscends, GoneIsPrefix, On
<1>3. ~On({"whatsapp"}) => Past' = Past
  BY <1>1 DEF Past, On
<1>4. PulledIsPast'
  <2>1. CASE On({"matrix", "signal", "irc", "discord"})
    <3>1. ~On({"whatsapp"})
      BY <2>1 DEF On
    <3> QED BY <2>1, <3>1, <1>3 DEF ChannelsInv, PulledIsPast, On
  <2>2. CASE ~On({"matrix", "signal", "irc", "discord"})
    BY <2>2 DEF PulledIsPast, On
  <2> QED BY <2>1, <2>2
<1>5. \A m : LetGo(m)' = LetGo(m)
  BY DEF LetGo, On
<1> QED BY <1>1, <1>2, <1>3, <1>4, <1>5

\* What is past, platform by platform.
LEMMA PastIs ==
    /\ On({"telegram"}) => Past = gone \cup {m \in Written : m < cursor}
    /\ On({"matrix"}) => Past = {m \in Written : m < cursor}
    /\ On({"whatsapp"}) => Past = gone \cup work
    /\ ~On({"telegram", "matrix", "whatsapp"}) => Past = gone
BY DEF Past, On

\* Start of a channel; Telegram asks for its name.
LEMMA StartChannelKeeps ==
    ASSUME ChannelConstants, ChannelsInv, NEW ok \in BOOLEAN, StartChannel(ok)
    PROVE  ChannelsInv'
<1> USE DEF ChannelsInv
<1>1. /\ written' = written /\ gone' = gone /\ cursor' = cursor /\ batch' = batch /\ work' = work /\ cut' = cut
      /\ turns' = turns /\ answered' = answered /\ unsent' = unsent /\ deaf' = deaf
      /\ again' = again /\ dropped' = dropped /\ hungUp' = hungUp /\ chan.state = "down"
  BY DEF StartChannel, outcomes, ghosts
<1>2. /\ chan' \in [platform : Platforms, mentionOnly : BOOLEAN, named : BOOLEAN, state : ChanStates]
      /\ chan'.platform = chan.platform /\ chan'.mentionOnly = chan.mentionOnly
      /\ chan'.state \in {"up", "down"}
      /\ ~On({"telegram"}) => chan'.named = chan.named
  <2>1. chan \in [platform : Platforms, mentionOnly : BOOLEAN, named : BOOLEAN, state : ChanStates]
    BY DEF ChannelsTypeOK
  <2>2. chan.platform \in NinePlatforms
    BY <2>1 DEF ChannelConstants, NinePlatforms
  <2>3. \/ On({"telegram"}) /\ chan' = [[chan EXCEPT !.state = "up"] EXCEPT !.named = ok]
        \/ ~On({"telegram"}) /\ chan' = [chan EXCEPT !.state = "up"]
        \/ ~On({"telegram"}) /\ chan' = chan
    BY <2>2 DEF StartChannel, On, NinePlatforms, telegramStart, matrixStart, signalStart, ircStart, whatsappStart,
       gchatStart, teamsStart, slackStart, discordStart, StartsIf, Started
  <2> QED BY <2>1, <2>3, <1>1 DEF ChanStates
<1>3. /\ Written' = Written /\ BatchAscends' /\ GoneIsPrefix' /\ PulledIsPast'
      /\ ~On({"whatsapp"}) => Past' = Past
      /\ \A m : LetGo(m)' = LetGo(m)
  BY <1>1, <1>2, ListsStand
<1>4. ChannelsTypeOK'
  BY <1>1, <1>2, <1>3 DEF ChannelsTypeOK, On
<1>5. Wanted' = Wanted /\ Wanted \subseteq Written
  BY <1>1, <1>2, WantedStays DEF Wanted
<1>6. TelegramKeeps'
  <2>1. cut = {} /\ cursor = 0 /\ batch = <<>>
    BY <1>1 DEF ChannelsTypeOK
  <2>2. \A m \in Wanted : m \in Nat \ {0}
    BY DEF Wanted, Written, ChannelsTypeOK
  <2> QED BY <1>1, <1>2, <1>5, <2>1, <2>2 DEF TelegramKeeps, Settled, On
<1>7. LetGoIsHeld'
  <2>1. CASE On({"telegram"})
    BY <2>1, <1>2 DEF LetGoIsHeld, On
  <2>2. CASE ~On({"telegram"})
    <3>1. Ignored' = Ignored
      BY <1>1, <1>2, <2>2, IgnoredStays
    <3>2. InHand' = InHand
      BY <1>1 DEF InHand
    <3> QED BY <1>1, <1>3, <2>2, <3>1, <3>2 DEF LetGoIsHeld, Settled
  <2> QED BY <2>1, <2>2
<1>8. TakenOnce'
  <2>1. Past' = Past
    BY <1>1, <1>2, <1>3 DEF Past, On
  <2> QED BY <1>1, <1>3, <2>1 DEF TakenOnce
<1> QED BY <1>3, <1>4, <1>6, <1>7, <1>8

\* Stop of a channel cuts the turns that are at work.
LEMMA StopChannelKeeps ==
    ASSUME ChannelConstants, ChannelsInv, StopChannel
    PROVE  ChannelsInv'
<1> USE DEF ChannelsInv
<1>1. /\ written' = written /\ gone' = gone /\ cursor' = cursor /\ batch' = batch /\ work' = work
      /\ turns' = turns /\ answered' = answered /\ unsent' = unsent /\ deaf' = deaf
      /\ again' = again /\ dropped' = dropped /\ hungUp' = hungUp
      /\ chan' = [chan EXCEPT !.state = "stopping"]
  BY DEF StopChannel, outcomes, ghosts
<1>2. /\ chan' \in [platform : Platforms, mentionOnly : BOOLEAN, named : BOOLEAN, state : ChanStates]
      /\ chan'.platform = chan.platform /\ chan'.mentionOnly = chan.mentionOnly
      /\ chan'.state = "stopping" /\ chan'.named = chan.named
  BY <1>1 DEF ChannelsTypeOK, ChanStates
<1>3. /\ Written' = Written /\ BatchAscends' /\ GoneIsPrefix' /\ PulledIsPast'
      /\ ~On({"whatsapp"}) => Past' = Past
      /\ \A m : LetGo(m)' = LetGo(m)
  BY <1>1, <1>2, ListsStand
<1>4. ChannelsTypeOK'
  BY <1>1, <1>2, <1>3 DEF ChannelsTypeOK, On
<1>5. Wanted' = Wanted /\ Ignored' = Ignored
  BY <1>1, <1>2, WantedStays, IgnoredStays
<1>6. TelegramKeeps'
  BY <1>1, <1>2, <1>5 DEF TelegramKeeps, Settled, On, Up
<1>7. LetGoIsHeld'
  <2>1. InHand' = InHand
    BY <1>1 DEF InHand
  <2> QED BY <1>1, <1>2, <1>3, <1>5, <2>1 DEF LetGoIsHeld, Settled, On
<1>8. TakenOnce'
  <2>1. Past' = Past
    BY <1>1, <1>2, <1>3 DEF Past, On
  <2> QED BY <1>1, <1>3, <2>1 DEF TakenOnce
<1> QED BY <1>3, <1>4, <1>6, <1>7, <1>8

\* What a process held is dropped, or comes again.
LEMMA ProcessExitKeeps ==
    ASSUME ChannelConstants, ChannelsInv, ProcessExit
    PROVE  ChannelsInv'
<1> USE DEF ChannelsInv
<1>1. /\ written' = written /\ gone' = gone /\ cursor' = 0 /\ batch' = <<>> /\ work' = {} /\ cut' = {}
      /\ turns' = turns /\ answered' = answered /\ unsent' = unsent /\ deaf' = deaf
      /\ again' = again \cup (Written \ gone) /\ dropped' = dropped \cup (InHand \cap gone) /\ hungUp' = {}
      /\ chan' = [chan EXCEPT !.state = "down"]
  BY DEF ProcessExit, outcomes
<1>2. /\ chan' \in [platform : Platforms, mentionOnly : BOOLEAN, named : BOOLEAN, state : ChanStates]
      /\ chan'.platform = chan.platform /\ chan'.mentionOnly = chan.mentionOnly
      /\ chan'.state = "down" /\ chan'.named = chan.named
  BY <1>1 DEF ChannelsTypeOK, ChanStates
<1>3. Written' = Written /\ DOMAIN batch' = {}
  BY <1>1 DEF Written
<1>4. ChannelsTypeOK'
  <2>1. Len(written) \in Nat
    BY LenProperties DEF ChannelsTypeOK
  <2>2. batch' \in Seq(Written)
    BY <1>1, EmptySeq
  <2> QED BY <1>1, <1>2, <1>3, <2>1, <2>2 DEF ChannelsTypeOK, On
<1>5. Wanted' = Wanted /\ Ignored' = Ignored
  BY <1>1, <1>2, WantedStays, IgnoredStays
<1>6. TelegramKeeps' /\ BatchAscends' /\ GoneIsPrefix' /\ PulledIsPast'
  BY <1>1, <1>2, <1>3, <1>5 DEF TelegramKeeps, Settled, On, Up, BatchAscends, GoneIsPrefix, PulledIsPast
<1>7. LetGoIsHeld'
  <2> SUFFICES ASSUME ~On({"telegram"}), NEW m \in Written \ Ignored, LetGo(m)'
               PROVE  m \in (Settled \cup InHand \cup dropped)'
    BY <1>2, <1>3, <1>5 DEF LetGoIsHeld, On
  <2>1. m \in Nat /\ m > 0
    BY LenProperties DEF Written, ChannelsTypeOK
  <2>2. ~On({"matrix"}) /\ m \in gone
    BY <1>1, <1>2, <2>1 DEF LetGo, On
  <2>3. LetGo(m)
    BY <2>2 DEF LetGo
  <2>4. m \in Settled \cup InHand \cup dropped
    BY <2>3 DEF LetGoIsHeld
  <2> QED BY <2>2, <2>4, <1>1 DEF Settled
<1>8. TakenOnce'
  <2> SUFFICES ASSUME NEW m \in Written, turns[m] # 0, m \notin again'
               PROVE  turns[m] = 1 /\ m \in Past'
    BY <1>1, <1>3 DEF TakenOnce
  <2>1. turns[m] = 1 /\ m \in gone
    BY <1>1 DEF TakenOnce
  <2>2. m \in Past /\ \A k \in Written : ~(k < 0)
    BY <1>1, LenProperties DEF TakenOnce, Written, ChannelsTypeOK
  <2>3. CASE On({"matrix"})
    BY <2>1, <2>3 DEF GoneIsPrefix
  <2>4. CASE ~On({"matrix"})
    BY <2>1, <2>4, <1>1, <1>2, <1>3 DEF Past, On
  <2> QED BY <2>1, <2>3, <2>4
<1> QED BY <1>4, <1>6, <1>7, <1>8

\* A new message changes nothing for the others.
LEMMA IgnoredGrows ==
    ASSUME chan' = chan, NEW k, k \in Written, k \in Written', written'[k] = written[k]
    PROVE  (k \in Ignored' <=> k \in Ignored) /\ (k \in Wanted' <=> k \in Wanted)
<1>1. PICK x : x = written[k]
  OBVIOUS
<1>2. Outcome(x)' = Outcome(x)
  BY DEF Outcome, On, ToAgent, telegramUpdate, matrixEvent, signalEnvelope, ircLine, Gated, hasBotMention,
         whatsappMessage, slackMessage, discordMessage, gchatMessage, teamsMessage
<1>3. k \in Ignored' <=> k \in Ignored
  BY <1>1, <1>2
  DEF Ignored, Outcome, On, ToAgent, telegramUpdate, matrixEvent, signalEnvelope, ircLine, Gated,
      hasBotMention,
         whatsappMessage, slackMessage, discordMessage, gchatMessage, teamsMessage
<1>4. k \in Wanted' <=> k \in Wanted
  BY <1>1 DEF Wanted
<1> QED BY <1>3, <1>4

\* Somebody writes: the platform keeps the message, or an event of it is on its way.
LEMMA WriteKeeps ==
    ASSUME ChannelConstants, ChannelsInv, NEW s \in Shapes, Write(s)
    PROVE  ChannelsInv'
<1> USE DEF ChannelsInv
<1>1. /\ cursor' = cursor /\ work' = work /\ cut' = cut /\ chan' = chan
      /\ answered' = answered /\ unsent' = unsent /\ deaf' = deaf /\ again' = again /\ hungUp' = hungUp
      /\ written' = Append(written, s) /\ turns' = Append(turns, 0)
  BY DEF Write
<1>2. PICK n : n = Len(written)
  OBVIOUS
<1>3. /\ n \in Nat /\ Written = 1 .. n /\ Written' = 1 .. (n + 1) /\ Written \subseteq Written'
      /\ written' \in Seq(Shapes) /\ Len(written') = n + 1
      /\ \A k \in Written : written'[k] = written[k]
  <2>1. written \in Seq(Shapes)
    BY DEF ChannelsTypeOK
  <2>2. n \in Nat /\ DOMAIN written = 1 .. n
    BY <2>1, <1>2, LenProperties
  <2>3. Append(written, s) \in Seq(Shapes) /\ Len(Append(written, s)) = n + 1
        /\ \A k \in 1 .. n : Append(written, s)[k] = written[k]
    BY <2>1, <1>2, AppendProperties
  <2>4. DOMAIN Append(written, s) = 1 .. (n + 1)
    BY <2>3, LenProperties
  <2> QED BY <2>2, <2>3, <2>4, <1>1 DEF Written
<1>4. /\ turns' \in [Written' -> Nat] /\ turns'[n + 1] = 0
      /\ \A k \in Written : turns'[k] = turns[k]
  <2>1. turns \in [1 .. n -> Nat]
    BY <1>3 DEF ChannelsTypeOK
  <2>2. turns \in Seq(Nat) /\ Len(turns) = n
    BY <2>1, <1>3, SeqDef
  <2>3. /\ Append(turns, 0) \in Seq(Nat) /\ Len(Append(turns, 0)) = n + 1
        /\ Append(turns, 0)[n + 1] = 0 /\ \A k \in 1 .. n : Append(turns, 0)[k] = turns[k]
    BY <2>2, AppendProperties
  <2>4. Append(turns, 0) \in [1 .. (n + 1) -> Nat]
    BY <2>3, LenProperties
  <2> QED BY <2>3, <2>4, <1>1, <1>3
<1>5. \/ On({"irc", "discord"}) /\ Up /\ gone' = gone \cup {n + 1} /\ batch' = Append(batch, n + 1) /\ dropped' = dropped
      \/ On({"irc", "discord"}) /\ ~Up /\ gone' = gone \cup {n + 1} /\ batch' = batch /\ dropped' = dropped \cup {n + 1}
      \/ ~On({"irc", "discord"}) /\ gone' = gone /\ batch' = batch /\ dropped' = dropped
  BY <1>2 DEF Write
<1>6. /\ batch' \in Seq(Written')
      /\ \A i \in DOMAIN batch : i \in DOMAIN batch' /\ batch'[i] = batch[i]
      /\ batch' = batch => DOMAIN batch' = DOMAIN batch
      /\ batch' # batch => DOMAIN batch' = DOMAIN batch \cup {Len(batch) + 1} /\ batch'[Len(batch) + 1] = n + 1
      /\ batch # <<>> => batch' # <<>> /\ batch'[1] = batch[1] /\ batch[1] \in Written
      /\ DOMAIN batch = 1 .. Len(batch) /\ Len(batch) \in Nat
      /\ \A i \in DOMAIN batch : batch[i] \in 1 .. n
  <2>1. batch \in Seq(Written)
    BY DEF ChannelsTypeOK
  <2>2. batch \in Seq(Written') /\ n + 1 \in Written'
    BY <2>1, <1>3, SeqMonotonic
  <2>3. Len(batch) \in Nat /\ DOMAIN batch = 1 .. Len(batch) /\ \A i \in 1 .. Len(batch) : batch[i] \in 1 .. n
    BY <2>1, <1>3, LenProperties, ElementOfSeq
  <2>4. batch # <<>> => 1 \in DOMAIN batch
    BY <2>1, <2>3, EmptySeq
  <2>5. CASE batch' = batch
    BY <2>2, <2>3, <2>4, <2>5, <1>3
  <2>6. CASE batch' # batch
    <3>1. batch' = Append(batch, n + 1)
      BY <2>6, <1>5
    <3>2. PICK b : b = Append(batch, n + 1)
      OBVIOUS
    <3>3. /\ b \in Seq(Written') /\ Len(b) = Len(batch) + 1 /\ \A i \in 1 .. Len(batch) : b[i] = batch[i]
          /\ b[Len(batch) + 1] = n + 1 /\ b # <<>>
      BY <2>2, <3>2, AppendProperties
    <3>4. DOMAIN b = 1 .. (Len(batch) + 1)
      BY <3>3, LenProperties
    <3>5. 1 .. (Len(batch) + 1) = 1 .. Len(batch) \cup {Len(batch) + 1}
      BY <2>3
    <3>6. b' = batch'
      BY <3>1, <3>2
    <3> QED BY <3>1, <3>2, <3>3, <3>4, <3>5, <2>3, <2>4, <2>6, <1>3
  <2> QED BY <2>5, <2>6
<1>7. \A k \in Written : (k \in Ignored' <=> k \in Ignored) /\ (k \in Wanted' <=> k \in Wanted)
  BY <1>1, <1>3, IgnoredGrows
<1>8. ChannelsTypeOK'
  <2>1. gone' \in SUBSET Written' /\ work' \in SUBSET Written' /\ cursor' <= Len(written') + 1
    <3>1. n + 1 \in Written' /\ gone \subseteq Written' /\ work \subseteq Written'
      <4>1. gone \subseteq Written /\ work \subseteq Written
        BY DEF ChannelsTypeOK
      <4> QED BY <4>1, <1>3
    <3>2. gone' \subseteq Written'
      BY <3>1, <1>5
    <3>3. cursor \in Nat /\ cursor <= n + 1
      BY <1>2 DEF ChannelsTypeOK
    <3> QED BY <3>1, <3>2, <3>3, <1>1, <1>3
  <2>2. chan.state = "down" => batch' = <<>>
    BY <1>5 DEF ChannelsTypeOK, Up
  <2> QED BY <2>1, <2>2, <1>1, <1>3, <1>4, <1>6 DEF ChannelsTypeOK, On
<1>9. BatchAscends'
  <2>1. CASE batch' = batch
    BY <2>1, <1>1 DEF BatchAscends, On
  <2>2. CASE batch' # batch
    <3>1. On({"irc", "discord"})
      BY <2>2, <1>5
    <3>2. \A i, j \in DOMAIN batch' : i < j => batch'[i] < batch'[j]
      <4> SUFFICES ASSUME NEW i \in DOMAIN batch', NEW j \in DOMAIN batch', i < j
                   PROVE  batch'[i] < batch'[j]
        OBVIOUS
      <4>1. i \in DOMAIN batch /\ batch'[i] = batch[i] /\ batch[i] \in 1 .. n
        BY <1>6, <2>2
      <4>2. CASE j \in DOMAIN batch
        BY <4>1, <4>2, <1>6 DEF BatchAscends
      <4>3. CASE j \notin DOMAIN batch
        <5>1. batch'[j] = n + 1
          BY <4>3, <2>2, <1>6
        <5> QED BY <5>1, <4>1, <1>3
      <4> QED BY <4>2, <4>3
    <3> QED BY <3>1, <3>2, <1>1 DEF BatchAscends, On
  <2> QED BY <2>1, <2>2
<1>10. GoneIsPrefix'
  <2>1. CASE On({"telegram", "signal", "matrix"})
    <3>1. gone' = gone /\ 0 .. Len(written) \subseteq 0 .. Len(written')
      BY <2>1, <1>5, <1>2, <1>3 DEF On
    <3> QED BY <3>1, <1>1 DEF GoneIsPrefix, On
  <2>2. CASE ~On({"telegram", "signal", "matrix"})
    BY <2>2, <1>1 DEF GoneIsPrefix, On
  <2> QED BY <2>1, <2>2
<1>11. TelegramKeeps'
  <2> SUFFICES ASSUME On({"telegram"})
               PROVE  TelegramKeeps'
    BY <1>1 DEF TelegramKeeps, On
  <2>1. gone' = gone /\ batch' = batch
    BY <1>5 DEF On
  <2>2. gone' \cap Wanted' \subseteq Settled'
    BY <2>1, <1>1, <1>7 DEF TelegramKeeps, Settled, ChannelsTypeOK
  <2>3. ASSUME Up, NEW m \in Wanted', m < cursor \/ (batch # <<>> /\ m < batch[1])
        PROVE  m \in Settled \cup work
    <3>1. m \in 1 .. (n + 1)
      BY <1>3 DEF Wanted
    <3>2. m # n + 1
      BY <2>3, <1>6, <1>2, <1>3 DEF ChannelsTypeOK
    <3>3. m \in Written
      BY <3>1, <3>2, <1>3
    <3>4. m \in Wanted
      BY <3>3, <1>7
    <3> QED BY <2>3, <3>4 DEF TelegramKeeps
  <2>4. Up => cut' = {}
    BY <1>1 DEF TelegramKeeps
  <2> QED BY <2>1, <2>2, <2>3, <2>4, <1>1 DEF TelegramKeeps, On, Up, Settled
<1>12. LetGoIsHeld'
  <2> SUFFICES ASSUME ~On({"telegram"}), NEW m \in Written', m \notin Ignored', LetGo(m)'
               PROVE  m \in (Settled \cup InHand \cup dropped)'
    BY <1>1 DEF LetGoIsHeld, On
  <2>1. CASE m = n + 1
    <3>1. ~(m < cursor)
      BY <2>1, <1>2, <1>3 DEF ChannelsTypeOK
    <3>2. m \in gone'
      BY <3>1, <1>1 DEF LetGo, On
    <3>3. m \notin gone
      BY <2>1, <1>3 DEF ChannelsTypeOK
    <3> QED BY <2>1, <3>2, <3>3, <1>5, <1>6 DEF InHand
  <2>2. CASE m # n + 1
    <3>1. m \in Written /\ m \notin Ignored
      BY <2>2, <1>3, <1>7
    <3>2. LetGo(m)
      BY <2>2, <1>1, <1>5 DEF LetGo, On
    <3>3. m \in Settled \cup InHand \cup dropped
      BY <3>1, <3>2 DEF LetGoIsHeld
    <3>4. InHand \subseteq InHand' /\ dropped \subseteq dropped' /\ Settled' = Settled
      BY <1>1, <1>5, <1>6 DEF InHand, Settled
    <3> QED BY <3>3, <3>4
  <2> QED BY <2>1, <2>2
<1>13. Past \subseteq Past' /\ gone \subseteq gone'
  BY <1>1, <1>3, <1>5 DEF Past, On
<1>14. PulledIsPast'
  <2> SUFFICES ASSUME On({"matrix", "signal", "irc", "discord"}), NEW i \in DOMAIN batch'
               PROVE  batch'[i] \in Past'
    BY <1>1 DEF PulledIsPast, On
  <2>1. CASE i \in DOMAIN batch
    BY <2>1, <1>6, <1>13 DEF PulledIsPast
  <2>2. CASE i \notin DOMAIN batch
    <3>1. batch'[i] = n + 1 /\ batch' # batch
      BY <2>2, <1>6
    <3>2. On({"irc", "discord"}) /\ n + 1 \in gone'
      BY <3>1, <1>5
    <3> QED BY <3>1, <3>2, <1>1 DEF Past, On
  <2> QED BY <2>1, <2>2
<1>15. TakenOnce'
  <2> SUFFICES ASSUME NEW m \in Written', turns'[m] # 0, m \notin again
               PROVE  turns'[m] = 1 /\ m \in Past' /\ \A i \in DOMAIN batch' : batch'[i] # m
    BY <1>1 DEF TakenOnce
  <2>1. m # n + 1 /\ m \in Written
    BY <1>3, <1>4
  <2>2. turns'[m] = turns[m]
    BY <2>1, <1>4
  <2>3. turns[m] = 1 /\ m \in Past /\ \A i \in DOMAIN batch : batch[i] # m
    BY <2>1, <2>2 DEF TakenOnce
  <2>4. \A i \in DOMAIN batch' : batch'[i] # m
    BY <2>1, <2>3, <1>6
  <2> QED BY <2>2, <2>3, <2>4, <1>13
<1> QED BY <1>8, <1>9, <1>10, <1>11, <1>12, <1>14, <1>15

-----------------------------------------------------------------------------
(* Receiving *)

\* A poll brings the messages from some number on, in their order.
LEMMA PolledBatch ==
    ASSUME NEW a \in Nat \ {0}, NEW n \in Nat, a <= n + 1, NEW b, b = InOrder(a .. n)
    PROVE  /\ b \in Seq(1 .. n) /\ DOMAIN b = 1 .. (n - a + 1)
           /\ \A i \in DOMAIN b : b[i] = a + i - 1
<1>1. b = [i \in 1 .. (n - a + 1) |-> a + i - 1]
  BY InOrderOfInterval
<1>2. DOMAIN b = 1 .. (n - a + 1) /\ \A i \in DOMAIN b : b[i] = a + i - 1
  BY <1>1
<1>3. n - a + 1 \in Nat /\ \A i \in 1 .. (n - a + 1) : a + i - 1 \in 1 .. n
  OBVIOUS
<1>4. b \in [1 .. (n - a + 1) -> 1 .. n]
  BY <1>1, <1>3
<1>5. b \in Seq(1 .. n)
  BY <1>3, <1>4, SeqDef
<1> QED BY <1>2, <1>5

\* Nothing is in the channel's hands when it polls.
LEMMA PollFacts ==
    ASSUME ChannelsInv, InHand = {}
    PROVE  /\ work = {} /\ batch = <<>> /\ DOMAIN batch = {}
           /\ Len(written) \in Nat /\ Written = 1 .. Len(written)
<1>1. work = {} /\ DOMAIN batch = {}
  BY DEF InHand
<1>2. batch = <<>>
  <2>1. batch \in Seq(Written)
    BY DEF ChannelsInv, ChannelsTypeOK
  <2> QED BY <2>1, <1>1, EmptySeq, LenProperties
<1>3. written \in Seq(Shapes)
  BY DEF ChannelsInv, ChannelsTypeOK
<1>4. Len(written) \in Nat /\ Written = 1 .. Len(written)
  BY <1>3, LenProperties DEF Written
<1> QED BY <1>1, <1>2, <1>4

\* Telegram: the offset lets go of what is settled, and the rest comes in order.
LEMMA GetUpdatesKeeps ==
    ASSUME ChannelConstants, ChannelsInv, NEW ok \in BOOLEAN, getUpdates(ok)
    PROVE  ChannelsInv'
<1> USE DEF ChannelsInv
<1>1. /\ On({"telegram"}) /\ Up /\ InHand = {}
      /\ chan' = chan /\ written' = written /\ cursor' = cursor /\ work' = work /\ cut' = cut
      /\ turns' = turns /\ answered' = answered /\ unsent' = unsent /\ deaf' = deaf
      /\ again' = again /\ dropped' = dropped /\ hungUp' = hungUp
      /\ gone' = gone \cup {m \in Written : m < cursor}
      /\ batch' = IF ok THEN InOrder(Written \ gone') ELSE <<>>
  BY DEF getUpdates, PollHead, outcomes, ghosts
<1>2. /\ work = {} /\ batch = <<>> /\ DOMAIN batch = {} /\ Written' = Written
      /\ Len(written) \in Nat /\ Written = 1 .. Len(written)
  BY <1>1, PollFacts DEF Written
<1>3. PICK g \in 0 .. Len(written) : gone = 1 .. g
  BY <1>1 DEF GoneIsPrefix, On
<1>4. PICK n : n = Len(written)
  OBVIOUS
<1>5. PICK h \in 0 .. n : gone' = 1 .. h
  <2>1. cursor \in Nat /\ cursor <= n + 1 /\ n \in Nat /\ g \in 0 .. n
    BY <1>2, <1>3, <1>4 DEF ChannelsTypeOK
  <2>2. CASE g >= cursor - 1
    <3>1. gone' = 1 .. g
      BY <2>1, <2>2, <1>1, <1>2, <1>3, <1>4
    <3> QED BY <3>1, <2>1
  <2>3. CASE g < cursor - 1
    <3>1. gone' = 1 .. (cursor - 1)
      BY <2>1, <2>3, <1>1, <1>2, <1>3, <1>4
    <3>2. cursor - 1 \in 0 .. n
      BY <2>1, <2>3
    <3> QED BY <3>1, <3>2
  <2> QED BY <2>1, <2>2, <2>3
<1>6. /\ batch' \in Seq(1 .. n)
      /\ \A i \in DOMAIN batch' : batch'[i] = h + i /\ batch'[i] \in 1 .. n /\ i \in Nat
      /\ batch' # <<>> => batch'[1] = h + 1
  <2>1. CASE ~ok
    BY <2>1, <1>1, EmptySeq
  <2>2. CASE ok
    <3>1. PICK b, a : b = batch' /\ a = h + 1
      OBVIOUS
    <3>2. Written \ gone' = a .. n
      BY <3>1, <1>2, <1>4, <1>5
    <3>3. a \in Nat \ {0} /\ a <= n + 1 /\ n \in Nat
      BY <3>1, <1>2, <1>4
    <3>7. b = InOrder(a .. n)
      BY <2>2, <3>1, <3>2, <1>1
    <3>4. /\ b \in Seq(1 .. n) /\ DOMAIN b = 1 .. (n - a + 1)
          /\ \A i \in DOMAIN b : b[i] = a + i - 1
      BY <3>3, <3>7, PolledBatch
    <3>5. \A i \in 1 .. (n - a + 1) : a + i - 1 = h + i /\ h + i \in 1 .. n
      BY <3>1, <1>2, <1>4
    <3>6. b # <<>> => b[1] = h + 1
      <4>1. b # <<>> => 1 \in DOMAIN b
        <5>1. b # <<>> => Len(b) \in Nat \ {0}
          BY <3>4, EmptySeq
        <5>2. DOMAIN b = 1 .. Len(b)
          BY <3>4, LenProperties
        <5> QED BY <5>1, <5>2
      <4>2. h + 1 = h + 1 /\ (1 \in DOMAIN b => b[1] = a + 1 - 1)
        BY <3>4
      <4> QED BY <4>1, <4>2, <3>1
    <3> QED BY <3>1, <3>4, <3>5, <3>6
  <2> QED BY <2>1, <2>2
<1>7. Wanted' = Wanted /\ Ignored' = Ignored /\ Wanted \subseteq Written
  BY <1>1, WantedStays, IgnoredStays DEF Wanted
<1>8. ChannelsTypeOK'
  <2>1. gone' \subseteq Written /\ batch' \in Seq(Written)
    BY <1>2, <1>4, <1>5, <1>6
  <2>2. chan.state # "down"
    BY <1>1 DEF Up
  <2> QED BY <2>1, <2>2, <1>1, <1>2 DEF ChannelsTypeOK, On
<1>9. BatchAscends'
  <2>1. h \in Nat /\ 1 \in Nat
    OBVIOUS
  <2>2. \A i, j \in DOMAIN batch' : i < j => batch'[i] < batch'[j]
    BY <1>6, <2>1
  <2>3. \A i \in DOMAIN batch' : batch'[i] = batch'[1] + i - 1
    <3> SUFFICES ASSUME NEW i \in DOMAIN batch'
                 PROVE  batch'[i] = batch'[1] + i - 1
      OBVIOUS
    <3>1. batch' # <<>>
      OBVIOUS
    <3>2. batch'[i] = h + i /\ i \in Nat
      BY ONLY <1>6, i \in DOMAIN batch'
    <3>3. batch'[1] = h + 1
      BY ONLY <3>1, <1>6
    <3> QED BY ONLY <3>2, <3>3, <2>1
  <2> QED BY <2>2, <2>3, <1>1 DEF BatchAscends, On
<1>10. GoneIsPrefix'
  BY <1>1, <1>4, <1>5 DEF GoneIsPrefix, On
<1>11. \A m \in Wanted : m \in gone' => m \in Settled
  BY <1>1, <1>2 DEF TelegramKeeps
<1>12. TelegramKeeps'
  <2>1. gone' \cap Wanted' \subseteq Settled'
    BY <1>1, <1>7, <1>11 DEF Settled
  <2>2. cut = {} /\ \A m \in Wanted : m < cursor => m \in gone'
    BY <1>1, <1>7 DEF TelegramKeeps
  <2>3. \A m \in Wanted : batch' # <<>> /\ m < batch'[1] => m \in gone'
    <3> SUFFICES ASSUME NEW m \in Wanted, batch' # <<>>, m < batch'[1]
                 PROVE  m \in gone'
      OBVIOUS
    <3>1. m \in 1 .. n /\ m < h + 1
      BY <1>2, <1>4, <1>6, <1>7
    <3>2. h \in Nat /\ n \in Nat
      BY <1>2, <1>4
    <3> QED BY <3>1, <3>2, <1>5
  <2> QED BY <2>1, <2>2, <2>3, <1>1, <1>7, <1>11 DEF TelegramKeeps, Settled
<1>13. LetGoIsHeld' /\ PulledIsPast'
  BY <1>1 DEF LetGoIsHeld, PulledIsPast, On
<1>14. TakenOnce'
  <2> SUFFICES ASSUME NEW m \in Written, turns[m] # 0, m \notin again
               PROVE  turns[m] = 1 /\ m \in Past' /\ \A i \in DOMAIN batch' : batch'[i] # m
    BY <1>1, <1>2 DEF TakenOnce
  <2>1. turns[m] = 1 /\ m \in Past
    BY DEF TakenOnce
  <2>2. m \in gone'
    BY <2>1, <1>1, PastIs
  <2>3. m \in Past'
    <3>1. chan'.platform = "telegram"
      BY <1>1 DEF On
    <3> QED BY <2>2, <3>1 DEF Past, On
  <2>4. ASSUME NEW i \in DOMAIN batch'
        PROVE  batch'[i] # m
    <3>1. m <= h /\ m \in 1 .. n /\ h \in Nat /\ n \in Nat
      BY <2>2, <1>2, <1>4, <1>5
    <3>2. batch'[i] = h + i /\ i \in 1 .. Len(batch')
      BY <1>6, LenProperties
    <3>3. Len(batch') \in Nat
      BY <1>6, LenProperties
    <3> QED BY <3>1, <3>2, <3>3
  <2> QED BY <2>1, <2>3, <2>4
<1> QED BY <1>8, <1>9, <1>10, <1>12, <1>13, <1>14

\* What an ascending interval gives the loops, whether its answer arrives or not.
LEMMA FreshBatch ==
    ASSUME ChannelsInv, NEW a \in Nat \ {0}, NEW n \in Nat, n = Len(written), a <= n + 1, NEW ok,
           batch' = IF ok THEN InOrder(a .. n) ELSE <<>>
    PROVE  /\ batch' \in Seq(Written)
           /\ \A i, j \in DOMAIN batch' : i < j => batch'[i] < batch'[j]
           /\ \A i \in DOMAIN batch' : batch'[i] \in a .. n
           /\ ok => \A k \in a .. n : \E i \in DOMAIN batch' : batch'[i] = k
<1>1. PICK b : b = batch'
  OBVIOUS
<1>2. Written = 1 .. n
  BY LenProperties DEF Written, ChannelsInv, ChannelsTypeOK
<1>3. CASE ~ok
  <2>1. b = <<>>
    BY <1>1, <1>3
  <2> QED BY <2>1, <1>1, <1>3, EmptySeq
<1>4. CASE ok
  <2>1. b = InOrder(a .. n)
    BY <1>1, <1>4
  <2>2. /\ b \in Seq(1 .. n) /\ DOMAIN b = 1 .. (n - a + 1)
        /\ \A i \in DOMAIN b : b[i] = a + i - 1
    <3>1. a \in Nat \ {0} /\ n \in Nat /\ a <= n + 1
      OBVIOUS
    <3> QED BY ONLY <3>1, <2>1, PolledBatch
  <2>3. \A i, j \in DOMAIN b : i < j => b[i] < b[j]
    BY <2>2
  <2>4. \A i \in DOMAIN b : b[i] \in a .. n
    BY <2>2
  <2>5. ASSUME NEW k \in a .. n
        PROVE  \E i \in DOMAIN b : b[i] = k
    <3>1. k - a + 1 \in 1 .. (n - a + 1) /\ a + (k - a + 1) - 1 = k
      OBVIOUS
    <3> QED BY <3>1, <2>2
  <2>6. b \in Seq(Written)
    BY ONLY <2>2, <1>2
  <2> QED BY <2>6, <2>3, <2>4, <2>5, <1>1
<1> QED BY <1>3, <1>4

\* Matrix: what the token, or the window, leaves out is dropped.
LEMMA SyncKeeps ==
    ASSUME ChannelConstants, ChannelsInv, NEW ok \in BOOLEAN, sync(ok)
    PROVE  ChannelsInv'
<1> USE DEF ChannelsInv
<1>1. /\ On({"matrix"}) /\ Up /\ InHand = {}
      /\ chan' = chan /\ written' = written /\ gone' = gone /\ work' = work /\ cut' = cut
      /\ turns' = turns /\ answered' = answered /\ unsent' = unsent /\ deaf' = deaf
      /\ again' = again /\ hungUp' = hungUp
  BY DEF sync, PollHead, outcomes
<1>2. /\ work = {} /\ batch = <<>> /\ DOMAIN batch = {} /\ Written' = Written
      /\ Len(written) \in Nat /\ Written = 1 .. Len(written)
  BY <1>1, PollFacts DEF Written
<1>3. PICK n : n = Len(written)
  OBVIOUS
<1>4. PICK first : first = IF cursor > 0 THEN cursor ELSE n - Window + 1
  OBVIOUS
<1>5. /\ batch' = IF ok THEN InOrder({m \in Written : m >= first}) ELSE <<>>
      /\ cursor' = IF ok THEN n + 1 ELSE cursor
      /\ dropped' = IF ok THEN dropped \cup ({m \in Written : m < first} \ answered) ELSE dropped
  BY <1>3, <1>4 DEF sync
<1>6. n \in Nat /\ Written = 1 .. n /\ cursor \in Nat /\ cursor <= n + 1 /\ Window \in Nat \ {0}
  BY <1>2, <1>3 DEF ChannelsTypeOK, ChannelConstants
<1>7. first \in Int /\ first <= n + 1
  BY <1>4, <1>6
<1>8. PICK a \in Nat \ {0} : a <= n + 1 /\ {m \in Written : m >= first} = a .. n /\ (first > 0 => a = first)
  <2>1. CASE first > 0
    <3>1. {m \in Written : m >= first} = first .. n
      BY <2>1, <1>6, <1>7
    <3> QED BY <2>1, <3>1, <1>7
  <2>2. CASE ~(first > 0)
    <3>1. {m \in Written : m >= first} = 1 .. n
      BY <2>2, <1>6, <1>7
    <3> QED BY <2>2, <3>1, <1>6
  <2> QED BY <2>1, <2>2
<1>9. /\ batch' \in Seq(Written)
      /\ \A i, j \in DOMAIN batch' : i < j => batch'[i] < batch'[j]
      /\ \A i \in DOMAIN batch' : batch'[i] \in a .. n
      /\ ok => \A k \in a .. n : \E i \in DOMAIN batch' : batch'[i] = k
  <2>1. batch' = IF ok THEN InOrder(a .. n) ELSE <<>>
    BY <1>5, <1>8
  <2> QED BY <2>1, <1>3, <1>6, <1>8, FreshBatch
<1>10. Wanted' = Wanted /\ Ignored' = Ignored
  BY <1>1, WantedStays, IgnoredStays
<1>11. ChannelsTypeOK'
  <2>1. cursor' \in Nat /\ cursor' <= Len(written) + 1
    BY <1>3, <1>5, <1>6
  <2>2. chan.state # "down"
    BY <1>1 DEF Up
  <2> QED BY <2>1, <2>2, <1>1, <1>2, <1>9 DEF ChannelsTypeOK, On
<1>12. BatchAscends' /\ GoneIsPrefix' /\ TelegramKeeps'
  BY <1>1, <1>9 DEF BatchAscends, GoneIsPrefix, TelegramKeeps, On
<1>13. LetGoIsHeld'
  <2> SUFFICES ASSUME NEW m \in Written \ Ignored, m < cursor'
               PROVE  m \in (Settled \cup InHand \cup dropped)'
    BY <1>1, <1>2, <1>10 DEF LetGoIsHeld, LetGo, On
  <2>1. CASE ~ok
    <3>1. m < cursor
      BY <2>1, <1>5
    <3>2. m \in Settled \cup InHand \cup dropped
      BY <3>1, <1>1 DEF LetGoIsHeld, LetGo, On
    <3> QED BY <2>1, <3>2, <1>1, <1>5 DEF Settled
  <2>2. CASE ok
    <3>1. CASE m >= first
      <4>1. m \in a .. n
        BY <3>1, <1>8
      <4>2. PICK i \in DOMAIN batch' : batch'[i] = m
        BY <4>1, <2>2, <1>9
      <4> QED BY <4>2 DEF InHand
    <3>2. CASE ~(m >= first)
      <4>1. m < first
        BY <3>2, <1>6, <1>7
      <4>2. m \in answered \cup dropped'
        BY <4>1, <2>2, <1>5
      <4> QED BY <4>2, <1>1 DEF Settled
    <3> QED BY <3>1, <3>2
  <2> QED BY <2>1, <2>2
<1>14. Past' = {m \in Written : m < cursor'} /\ Past = {m \in Written : m < cursor}
  BY <1>1, <1>2 DEF Past, On
<1>15. PulledIsPast'
  <2> SUFFICES ASSUME NEW i \in DOMAIN batch'
               PROVE  batch'[i] \in Past'
    BY <1>1 DEF PulledIsPast, On
  <2>1. batch'[i] \in 1 .. n
    BY <1>6, <1>8, <1>9
  <2>2. ok
    BY <1>5
  <2>3. batch'[i] < cursor'
    BY <2>1, <2>2, <1>5, <1>6
  <2> QED BY <2>1, <2>3, <1>6, <1>14
<1>16. TakenOnce'
  <2> SUFFICES ASSUME NEW m \in Written, turns[m] # 0, m \notin again
               PROVE  turns[m] = 1 /\ m \in Past' /\ \A i \in DOMAIN batch' : batch'[i] # m
    BY <1>1, <1>2 DEF TakenOnce
  <2>1. turns[m] = 1 /\ m \in Past
    BY DEF TakenOnce
  <2>2. m < cursor /\ m \in 1 .. n
    BY <2>1, <1>6, <1>14
  <2>3. m < cursor'
    BY <2>2, <1>5, <1>6
  <2>4. cursor > 0 /\ first = cursor /\ a = cursor
    BY <2>2, <1>4, <1>6, <1>8
  <2>5. \A i \in DOMAIN batch' : batch'[i] # m
    BY <2>2, <2>4, <1>6, <1>9
  <2> QED BY <2>1, <2>3, <2>5, <1>14
<1> QED BY <1>11, <1>12, <1>13, <1>15, <1>16

\* signal-cli forgets what it answers, and an answer that is lost is dropped.
LEMMA ReceiveKeeps ==
    ASSUME ChannelConstants, ChannelsInv, NEW ok \in BOOLEAN, receiveMessages(ok)
    PROVE  ChannelsInv'
<1> USE DEF ChannelsInv
<1>1. /\ On({"signal"}) /\ Up /\ InHand = {}
      /\ chan' = chan /\ written' = written /\ cursor' = cursor /\ work' = work /\ cut' = cut
      /\ turns' = turns /\ answered' = answered /\ unsent' = unsent /\ deaf' = deaf
      /\ again' = again /\ hungUp' = hungUp /\ gone' = Written
      /\ batch' = IF ok THEN InOrder(Written \ gone) ELSE <<>>
      /\ dropped' = IF ok THEN dropped ELSE dropped \cup (Written \ gone)
  BY DEF receiveMessages, PollHead, outcomes
<1>2. /\ work = {} /\ batch = <<>> /\ DOMAIN batch = {} /\ Written' = Written
      /\ Len(written) \in Nat /\ Written = 1 .. Len(written)
  BY <1>1, PollFacts DEF Written
<1>3. PICK n : n = Len(written)
  OBVIOUS
<1>4. PICK g \in 0 .. n : gone = 1 .. g
  BY <1>1, <1>3 DEF GoneIsPrefix, On
<1>5. PICK a : a = g + 1
  OBVIOUS
<1>6. n \in Nat /\ Written = 1 .. n /\ a \in Nat \ {0} /\ a <= n + 1
  BY <1>2, <1>3, <1>4, <1>5
<1>7. Written \ gone = a .. n
  BY <1>4, <1>5, <1>6
<1>8. /\ batch' \in Seq(Written)
      /\ \A i, j \in DOMAIN batch' : i < j => batch'[i] < batch'[j]
      /\ \A i \in DOMAIN batch' : batch'[i] \in a .. n
      /\ ok => \A k \in a .. n : \E i \in DOMAIN batch' : batch'[i] = k
  <2>1. batch' = IF ok THEN InOrder(a .. n) ELSE <<>>
    BY <1>1, <1>7
  <2> QED BY <2>1, <1>3, <1>6, FreshBatch
<1>9. Wanted' = Wanted /\ Ignored' = Ignored
  BY <1>1, WantedStays, IgnoredStays
<1>10. ChannelsTypeOK'
  <2>1. chan.state # "down"
    BY <1>1 DEF Up
  <2> QED BY <2>1, <1>1, <1>2, <1>8 DEF ChannelsTypeOK, On
<1>11. BatchAscends' /\ TelegramKeeps'
  BY <1>1, <1>8 DEF BatchAscends, TelegramKeeps, On
<1>12. GoneIsPrefix'
  <2>1. gone' = 1 .. n /\ n \in 0 .. Len(written)
    BY <1>1, <1>3, <1>6
  <2> QED BY <2>1, <1>1 DEF GoneIsPrefix, On
<1>13. LetGoIsHeld'
  <2> SUFFICES ASSUME NEW m \in Written \ Ignored
               PROVE  m \in (Settled \cup InHand \cup dropped)'
    BY <1>1, <1>2, <1>9 DEF LetGoIsHeld, LetGo, On
  <2>1. CASE m \in gone
    <3>1. m \in Settled \cup InHand \cup dropped
      BY <2>1, <1>1 DEF LetGoIsHeld, LetGo, On
    <3> QED BY <3>1, <1>1 DEF Settled
  <2>2. CASE m \notin gone
    <3>1. m \in a .. n
      BY <2>2, <1>7
    <3>2. CASE ok
      <4>1. PICK i \in DOMAIN batch' : batch'[i] = m
        BY <3>1, <3>2, <1>8
      <4> QED BY <4>1 DEF InHand
    <3>3. CASE ~ok
      BY <2>2, <3>3, <1>1
    <3> QED BY <3>2, <3>3
  <2> QED BY <2>1, <2>2
<1>14. Past' = Written /\ Past = gone
  BY <1>1, <1>2 DEF Past, On
<1>15. PulledIsPast'
  <2>1. \A i \in DOMAIN batch' : batch'[i] \in Written
    BY <1>7, <1>8
  <2> QED BY <2>1, <1>14 DEF PulledIsPast
<1>16. TakenOnce'
  <2> SUFFICES ASSUME NEW m \in Written, turns[m] # 0, m \notin again
               PROVE  turns[m] = 1 /\ m \in Past' /\ \A i \in DOMAIN batch' : batch'[i] # m
    BY <1>1, <1>2 DEF TakenOnce
  <2>1. turns[m] = 1 /\ m \in gone
    BY <1>14 DEF TakenOnce
  <2>2. m \notin a .. n
    BY <2>1, <1>7
  <2> QED BY <2>1, <2>2, <1>8, <1>14
<1> QED BY <1>10, <1>11, <1>12, <1>13, <1>15, <1>16

\* What is looked at is settled, at work or ignored, and it was looked at once.
LEMMA Looked ==
    ASSUME ChannelConstants, ChannelsInv, NEW m \in Written, LookAt(m), turns[m] = 0 \/ m \in again
    PROVE  /\ turns' \in [Written -> Nat] /\ \A k \in Written : k # m => turns'[k] = turns[k]
           /\ m \in again \/ turns'[m] \in {0, 1}
           /\ Settled \subseteq Settled' /\ work \subseteq work' /\ work' \subseteq work \cup {m}
           /\ m \in Ignored \/ m \in Settled' \cup work'
           /\ On({"telegram"}) /\ m \in Wanted => m \in Settled' \cup work'
<1>1. \/ /\ m \in Ignored /\ deaf' = (IF chan.named THEN deaf ELSE deaf \cup {m})
         /\ work' = work /\ turns' = turns /\ answered' = answered /\ unsent' = unsent
      \/ /\ m \in Commands /\ answered' = answered \cup {m}
         /\ work' = work /\ turns' = turns /\ deaf' = deaf /\ unsent' = unsent
      \/ /\ m \in ForAgent /\ work' = work \cup {m} /\ turns' = [turns EXCEPT ![m] = @ + 1]
         /\ answered' = answered /\ deaf' = deaf /\ unsent' = unsent
  BY LooksAt DEF ChannelsInv
<1>2. turns \in [Written -> Nat]
  BY DEF ChannelsInv, ChannelsTypeOK
<1>3. /\ turns' \in [Written -> Nat] /\ \A k \in Written : k # m => turns'[k] = turns[k]
      /\ m \in again \/ turns'[m] \in {0, 1}
  BY <1>1, <1>2
<1>4. Settled \subseteq Settled' /\ work \subseteq work' /\ work' \subseteq work \cup {m}
  BY <1>1 DEF Settled
<1>5. m \in Ignored \/ m \in Settled' \cup work'
  BY <1>1 DEF Settled
<1>6. ASSUME On({"telegram"}), m \in Wanted
      PROVE  m \in Settled' \cup work'
  <2>1. m \in Ignored => ~chan.named
    BY <1>6, TelegramWants DEF ChannelsInv
  <2> QED BY <1>1, <2>1 DEF Settled
<1> QED BY <1>3, <1>4, <1>5, <1>6

\* The first message of the batch and the others.
LEMMA NextOfBatch ==
    ASSUME ChannelsInv, batch # <<>>
    PROVE  /\ 1 \in DOMAIN batch /\ Head(batch) = batch[1] /\ batch[1] \in Written
           /\ Tail(batch) \in Seq(Written)
           /\ \A i \in DOMAIN Tail(batch) : /\ i + 1 \in DOMAIN batch /\ i \in Nat \ {0}
                                            /\ Tail(batch)[i] = batch[i + 1]
           /\ \A i \in DOMAIN batch : i # 1 => i - 1 \in DOMAIN Tail(batch) /\ Tail(batch)[i - 1] = batch[i]
           /\ Tail(batch) # <<>> => 1 \in DOMAIN Tail(batch)
<1>1. batch \in Seq(Written)
  BY DEF ChannelsInv, ChannelsTypeOK
<1>2. Len(batch) \in Nat \ {0} /\ DOMAIN batch = 1 .. Len(batch)
  BY <1>1, EmptySeq, LenProperties
<1>3. PICK t : t = Tail(batch)
  OBVIOUS
<1>4. /\ t \in Seq(Written) /\ Len(t) = Len(batch) - 1
      /\ \A i \in 1 .. Len(t) : t[i] = batch[i + 1]
  BY <1>1, <1>3, HeadTailProperties
<1>5. DOMAIN t = 1 .. Len(t) /\ Len(t) \in Nat /\ (t # <<>> => Len(t) \in Nat \ {0})
  BY <1>4, LenProperties, EmptySeq
<1>6. Head(batch) = batch[1]
  BY <1>1
<1>7. batch[1] \in Written
  BY <1>1, <1>2, ElementOfSeq
<1>8. \A i \in DOMAIN t : i + 1 \in DOMAIN batch /\ i \in Nat \ {0} /\ t[i] = batch[i + 1]
  BY <1>2, <1>4, <1>5
<1>9. ASSUME NEW i \in DOMAIN batch, i # 1
      PROVE  i - 1 \in DOMAIN t /\ t[i - 1] = batch[i]
  <2>1. i - 1 \in 1 .. Len(t) /\ i - 1 + 1 = i
    BY <1>2, <1>4, <1>9
  <2>2. t[i - 1] = batch[i - 1 + 1]
    BY <2>1, <1>4
  <2> QED BY <2>1, <2>2, <1>5
<1> QED BY <1>2, <1>3, <1>4, <1>5, <1>6, <1>7, <1>8, <1>9

\* The loop takes the first message of its batch.
LEMMA LoopTakesKeeps ==
    ASSUME ChannelConstants, ChannelsInv, LoopTakes
    PROVE  ChannelsInv'
<1> USE DEF ChannelsInv
<1>1. /\ On({"telegram", "matrix", "signal", "irc"}) /\ batch # <<>> /\ work = {}
      /\ chan' = chan /\ written' = written /\ gone' = gone /\ again' = again /\ dropped' = dropped
      /\ hungUp' = hungUp /\ batch' = Tail(batch)
      /\ chan.state = "up" \/ chan.state = "stopping"
  BY DEF LoopTakes, ghosts
<1>2. PICK m \in Written : m = Head(batch)
  BY <1>1, NextOfBatch
<1>3. /\ LookAt(m) /\ cursor' = IF On({"telegram"}) /\ m >= cursor THEN m + 1 ELSE cursor
      /\ cut' = IF Up THEN cut ELSE cut \cup (work' \ work)
  BY <1>2 DEF LoopTakes, NextOffset
<1>4. /\ 1 \in DOMAIN batch /\ m = batch[1] /\ batch' \in Seq(Written)
      /\ \A i \in DOMAIN batch' : /\ i + 1 \in DOMAIN batch /\ i \in Nat \ {0}
                                  /\ batch'[i] = batch[i + 1]
      /\ \A i \in DOMAIN batch : i # 1 => i - 1 \in DOMAIN batch' /\ batch'[i - 1] = batch[i]
      /\ batch' # <<>> => 1 \in DOMAIN batch'
  BY <1>1, <1>2, NextOfBatch
<1>5. turns[m] = 0 \/ m \in again
  BY <1>4 DEF TakenOnce
<1>6. /\ turns' \in [Written -> Nat] /\ \A k \in Written : k # m => turns'[k] = turns[k]
      /\ m \in again \/ turns'[m] \in {0, 1}
      /\ Settled \subseteq Settled' /\ work \subseteq work' /\ work' \subseteq work \cup {m}
      /\ m \in Ignored \/ m \in Settled' \cup work'
      /\ On({"telegram"}) /\ m \in Wanted => m \in Settled' \cup work'
  BY <1>3, <1>5, Looked
<1>7. Wanted' = Wanted /\ Ignored' = Ignored /\ Written' = Written /\ Wanted \subseteq Written
  BY <1>1, WantedStays, IgnoredStays DEF Written, Wanted
<1>8. Len(written) \in Nat /\ Written = 1 .. Len(written) /\ cursor \in Nat
  BY LenProperties DEF Written, ChannelsTypeOK
<1>9. cursor' \in Nat /\ cursor <= cursor' /\ cursor' <= Len(written) + 1
      /\ (On({"telegram"}) => m < cursor') /\ (~On({"telegram"}) => cursor' = cursor)
  <2>1. m \in 1 .. Len(written) /\ cursor <= Len(written) + 1
    BY <1>8 DEF ChannelsTypeOK
  <2> QED BY <2>1, <1>3, <1>8
<1>10. ChannelsTypeOK'
  <2>1. work' \in SUBSET Written
    BY <1>6 DEF ChannelsTypeOK
  <2> QED BY <2>1, <1>1, <1>4, <1>6, <1>7, <1>9 DEF ChannelsTypeOK, On
<1>11. \A i \in DOMAIN batch : batch[i] \in Written /\ batch[i] \in Nat /\ i \in Nat
  BY <1>8, LenProperties, ElementOfSeq DEF ChannelsTypeOK
<1>12. BatchAscends'
  <2>1. \A i, j \in DOMAIN batch' : i < j => batch'[i] < batch'[j]
    <3> SUFFICES ASSUME NEW i \in DOMAIN batch', NEW j \in DOMAIN batch', i < j
                 PROVE  batch'[i] < batch'[j]
      OBVIOUS
    <3>1. i + 1 \in DOMAIN batch /\ j + 1 \in DOMAIN batch /\ i + 1 < j + 1
      BY <1>4
    <3> QED BY <3>1, <1>4 DEF BatchAscends
  <2>2. ASSUME On({"telegram"}), NEW i \in DOMAIN batch'
        PROVE  batch'[i] = batch'[1] + i - 1
    <3>1. batch' # <<>>
      OBVIOUS
    <3>2. 1 \in DOMAIN batch' /\ batch'[1] = batch[1 + 1] /\ 1 + 1 \in DOMAIN batch
      BY <3>1, <1>4
    <3>3. i + 1 \in DOMAIN batch /\ batch'[i] = batch[i + 1] /\ i \in Nat
      BY <1>4
    <3>4. batch[1 + 1] = batch[1] + (1 + 1) - 1 /\ batch[i + 1] = batch[1] + (i + 1) - 1
      BY <2>2, <3>2, <3>3 DEF BatchAscends
    <3>5. PICK f : f = batch[1]
      OBVIOUS
    <3>6. f \in Nat
      BY <3>5, <1>4, <1>11
    <3>7. batch'[1] = f + 1
      BY <3>2, <3>4, <3>5, <3>6
    <3>8. batch'[i] = f + i
      BY <3>3, <3>4, <3>5, <3>6
    <3> QED BY <3>3, <3>6, <3>7, <3>8
  <2>3. ~On({"slack", "whatsapp", "googlechat", "teams"})
    BY <1>1 DEF On
  <2> QED BY <2>1, <2>2, <2>3, <1>1 DEF BatchAscends, On
<1>13. GoneIsPrefix'
  BY <1>1 DEF GoneIsPrefix, On
<1>14. ASSUME NEW i \in DOMAIN batch'
       PROVE  batch'[i] > m /\ batch'[i] # m
  <2>1. i + 1 \in DOMAIN batch /\ batch'[i] = batch[i + 1] /\ 1 < i + 1
    BY <1>4
  <2>2. batch[1] < batch[i + 1]
    BY <2>1, <1>4 DEF BatchAscends
  <2> QED BY <2>1, <2>2, <1>4, <1>11
<1>15. TelegramKeeps'
  <2> SUFFICES ASSUME On({"telegram"})
               PROVE  TelegramKeeps'
    BY <1>1 DEF TelegramKeeps, On
  <2>1. gone' \cap Wanted' \subseteq Settled'
    BY <1>1, <1>6, <1>7 DEF TelegramKeeps
  <2>2. Up => cut' = {}
    BY <1>3 DEF TelegramKeeps
  <2>3. ASSUME Up, NEW k \in Wanted, k < cursor' \/ (batch' # <<>> /\ k < batch'[1])
        PROVE  k \in Settled' \cup work'
    <3>1. CASE k = m
      BY <3>1, <2>3, <1>6
    <3>2. CASE k # m
      <4>1. k \in Nat /\ m \in Nat
        BY <1>7, <1>8
      <4>2. k < cursor \/ k < batch[1]
        <5>1. CASE k < cursor'
          BY <5>1, <4>1, <3>2, <1>3, <1>4, <1>8
        <5>2. CASE batch' # <<>> /\ k < batch'[1]
          <6>1. batch'[1] = batch[1 + 1] /\ 1 + 1 \in DOMAIN batch
            BY <5>2, <1>4
          <6>2. batch[1 + 1] = batch[1] + (1 + 1) - 1
            BY <6>1 DEF BatchAscends
          <6> QED BY <5>2, <6>1, <6>2, <4>1, <3>2, <1>4
        <5> QED BY <2>3, <5>1, <5>2
      <4>3. k \in Settled \cup work
        BY <4>2, <2>3, <1>1 DEF TelegramKeeps
      <4> QED BY <4>3, <1>6
    <3> QED BY <3>1, <3>2
  <2> QED BY <2>1, <2>2, <2>3, <1>1, <1>7 DEF TelegramKeeps, On, Up
<1>16. LetGoIsHeld'
  <2> SUFFICES ASSUME ~On({"telegram"}), NEW k \in Written \ Ignored, LetGo(k)'
               PROVE  k \in (Settled \cup InHand \cup dropped)'
    BY <1>1, <1>7 DEF LetGoIsHeld, On
  <2>1. LetGo(k)
    BY <1>1, <1>9 DEF LetGo, On
  <2>2. k \in Settled \cup InHand \cup dropped
    BY <2>1 DEF LetGoIsHeld
  <2>3. CASE k = m
    BY <2>3, <1>6 DEF InHand
  <2>4. CASE k # m
    <3>1. CASE k \in Settled \cup dropped \cup work
      BY <3>1, <1>1, <1>6 DEF InHand
    <3>2. CASE \E i \in DOMAIN batch : batch[i] = k
      <4>1. PICK i \in DOMAIN batch : batch[i] = k
        BY <3>2
      <4>2. i # 1
        BY <4>1, <2>4, <1>4
      <4>3. i - 1 \in DOMAIN batch' /\ batch'[i - 1] = k
        BY <4>1, <4>2, <1>4
      <4> QED BY <4>3 DEF InHand
    <3> QED BY <2>2, <3>1, <3>2 DEF InHand
  <2> QED BY <2>3, <2>4
<1>17. Past \subseteq Past' /\ m \in Past'
  <2>1. CASE On({"telegram"})
    <3>1. chan'.platform = "telegram" /\ m \in Nat
      BY <2>1, <1>1, <1>8 DEF On
    <3>2. Past' = gone \cup {k \in Written : k < cursor'}
      BY <3>1, <1>1, <1>7 DEF Past, On
    <3>3. Past = gone \cup {k \in Written : k < cursor}
      BY <2>1, PastIs
    <3>4. \A k \in Written : k < cursor => k < cursor'
      BY <1>8, <1>9
    <3> QED BY <2>1, <3>2, <3>3, <3>4, <1>9
  <2>2. CASE ~On({"telegram"})
    <3>1. Past' = Past
      BY <1>1, <1>7, <1>9, <2>2 DEF Past, On
    <3>2. m \in Past
      BY <2>2, <1>1, <1>4 DEF PulledIsPast, On
    <3> QED BY <3>1, <3>2
  <2> QED BY <2>1, <2>2
<1>18. PulledIsPast'
  <2> SUFFICES ASSUME On({"matrix", "signal", "irc", "discord"}), NEW i \in DOMAIN batch'
               PROVE  batch'[i] \in Past'
    BY <1>1 DEF PulledIsPast, On
  <2>1. i + 1 \in DOMAIN batch /\ batch'[i] = batch[i + 1]
    BY <1>4
  <2>2. batch[i + 1] \in Past
    BY <2>1 DEF PulledIsPast
  <2> QED BY <2>1, <2>2, <1>17
<1>19. TakenOnce'
  <2> SUFFICES ASSUME NEW k \in Written, turns'[k] # 0, k \notin again
               PROVE  turns'[k] = 1 /\ k \in Past' /\ \A i \in DOMAIN batch' : batch'[i] # k
    BY <1>1, <1>7 DEF TakenOnce
  <2>1. CASE k = m
    BY <2>1, <1>6, <1>14, <1>17
  <2>2. CASE k # m
    <3>1. turns[k] # 0 /\ turns'[k] = turns[k]
      BY <2>2, <1>6
    <3>2. turns[k] = 1 /\ k \in Past /\ \A i \in DOMAIN batch : batch[i] # k
      BY <3>1 DEF TakenOnce
    <3> QED BY <3>1, <3>2, <1>4, <1>17
  <2> QED BY <2>1, <2>2
<1> QED BY <1>10, <1>12, <1>13, <1>15, <1>16, <1>18, <1>19

\* A sequence without its member at i.
OneOut(b, i) == SubSeq(b, 1, i - 1) \o SubSeq(b, i + 1, Len(b))

\* It has every other member, in order.
LEMMA OneLess ==
    ASSUME NEW S, NEW b \in Seq(S), NEW i \in 1 .. Len(b)
    PROVE  /\ OneOut(b, i) \in Seq(S) /\ DOMAIN OneOut(b, i) = 1 .. (Len(b) - 1)
           /\ \A j \in 1 .. (Len(b) - 1) : OneOut(b, i)[j] = IF j < i THEN b[j] ELSE b[j + 1]
<1>0. PICK r : r = OneOut(b, i)
  OBVIOUS
<1>1. PICK n, p, q, x, y : n = Len(b) /\ p = i - 1 /\ q = i + 1 /\ x = SubSeq(b, 1, p) /\ y = SubSeq(b, q, n)
  OBVIOUS
<1>2. n \in Nat /\ i \in 1 .. n /\ \A k \in 1 .. n : b[k] \in S
  BY <1>1, LenProperties, ElementOfSeq
<1>3. p \in Int /\ q \in Int /\ n \in Int /\ 1 \in Int
  BY <1>1, <1>2
<1>4. (\A k \in 1 .. p : b[k] \in S) /\ (\A k \in q .. n : b[k] \in S)
  BY <1>1, <1>2
<1>5. /\ x \in Seq(S) /\ Len(x) = IF 1 <= p THEN p - 1 + 1 ELSE 0
      /\ \A j \in 1 .. p - 1 + 1 : x[j] = b[1 + j - 1]
  BY <1>1, <1>3, <1>4, SubSeqProperties
<1>6. /\ y \in Seq(S) /\ Len(y) = IF q <= n THEN n - q + 1 ELSE 0
      /\ \A j \in 1 .. n - q + 1 : y[j] = b[q + j - 1]
  BY <1>1, <1>3, <1>4, SubSeqProperties
<1>7. PICK lx, ly, w : lx = Len(x) /\ ly = Len(y) /\ w = x \o y
  OBVIOUS
<1>8. lx = i - 1 /\ ly = n - i
  BY <1>1, <1>2, <1>5, <1>6, <1>7
<1>9. /\ w \in Seq(S) /\ Len(w) = lx + ly
      /\ \A j \in 1 .. lx + ly : w[j] = IF j <= lx THEN x[j] ELSE y[j - lx]
  <2>1. x \in Seq(S) /\ y \in Seq(S)
    BY ONLY <1>5, <1>6
  <2> QED BY ONLY <2>1, <1>7, ConcatProperties
<1>10. r = w /\ lx + ly = n - 1 /\ DOMAIN r = 1 .. (n - 1)
  <2>1. r = w
    BY <1>0, <1>1, <1>7 DEF OneOut
  <2>2. lx + ly = n - 1
    BY <1>2, <1>8
  <2>3. DOMAIN w = 1 .. Len(w)
    BY <1>9, LenProperties
  <2> QED BY <2>1, <2>2, <2>3, <1>9
<1>11. ASSUME NEW j \in DOMAIN r
       PROVE  r[j] = IF j < i THEN b[j] ELSE b[j + 1]
  <2>1. j \in 1 .. (n - 1) /\ j \in 1 .. lx + ly
    BY <1>10
  <2>2. CASE j < i
    <3>1. j \in 1 .. p - 1 + 1 /\ 1 + j - 1 = j
      BY <2>1, <2>2, <1>1, <1>2
    <3>2. x[j] = b[j]
      BY <3>1, <1>5
    <3>3. j <= lx
      BY <2>1, <2>2, <1>2, <1>8
    <3>4. r[j] = x[j]
      BY <2>1, <3>3, <1>9, <1>10
    <3> QED BY <2>2, <3>2, <3>4
  <2>3. CASE ~(j < i)
    <3>1. PICK k : k = j - lx
      OBVIOUS
    <3>2. k \in 1 .. n - q + 1 /\ q + k - 1 = j + 1
      BY <2>1, <2>3, <3>1, <1>1, <1>2, <1>8
    <3>3. y[k] = b[j + 1]
      BY <3>2, <1>6
    <3>4. ~(j <= lx)
      BY <2>1, <2>3, <1>2, <1>8
    <3>5. r[j] = y[k]
      BY <2>1, <3>1, <3>4, <1>9, <1>10
    <3> QED BY <2>3, <3>3, <3>5
  <2> QED BY <2>2, <2>3
<1> QED BY <1>0, <1>1, <1>9, <1>10, <1>11

\* Taking a message that is neither past nor elsewhere in the batch.
LEMMA TakesKeep ==
    ASSUME ChannelConstants, ChannelsInv, NEW m \in Written, LookAt(m), turns[m] = 0 \/ m \in again,
           Up, ~On({"telegram", "matrix", "signal", "irc"}), chan' = chan, written' = written, cursor' = cursor, cut' = cut,
           again' = again, dropped' = dropped, hungUp' = hungUp,
           gone \subseteq gone', gone' \subseteq gone \cup {m}, m \in gone' \/ (On({"whatsapp"}) /\ m \in work'),
           batch' \in Seq(Written), BatchAscends',
           \A i \in DOMAIN batch' : batch'[i] # m /\ \E j \in DOMAIN batch : batch'[i] = batch[j],
           \A j \in DOMAIN batch : batch[j] # m => \E i \in DOMAIN batch' : batch'[i] = batch[j]
    PROVE  ChannelsInv'
<1> USE DEF ChannelsInv
<1>1. /\ turns' \in [Written -> Nat] /\ \A k \in Written : k # m => turns'[k] = turns[k]
      /\ m \in again \/ turns'[m] \in {0, 1}
      /\ Settled \subseteq Settled' /\ work \subseteq work' /\ work' \subseteq work \cup {m}
      /\ m \in Ignored \/ m \in Settled' \cup work'
  BY Looked
<1>2. Ignored' = Ignored /\ Written' = Written
  BY IgnoredStays DEF Written
<1>3. ChannelsTypeOK'
  <2>1. work' \in SUBSET Written /\ gone' \in SUBSET Written
    BY <1>1 DEF ChannelsTypeOK
  <2>2. chan.state # "down"
    BY DEF Up
  <2> QED BY <2>1, <2>2, <1>1, <1>2 DEF ChannelsTypeOK, On
<1>4. GoneIsPrefix' /\ TelegramKeeps'
  BY DEF GoneIsPrefix, TelegramKeeps, On
<1>5. LetGoIsHeld'
  <2> SUFFICES ASSUME NEW k \in Written \ Ignored, LetGo(k)'
               PROVE  k \in (Settled \cup InHand \cup dropped)'
    BY <1>2 DEF LetGoIsHeld, On
  <2>1. CASE k = m
    BY <2>1, <1>1 DEF InHand
  <2>2. CASE k # m
    <3>1. LetGo(k)
      BY <2>2 DEF LetGo, On
    <3>2. k \in Settled \cup dropped \/ k \in work \/ \E j \in DOMAIN batch : batch[j] = k
      BY <3>1 DEF LetGoIsHeld, InHand, On
    <3>3. CASE k \in Settled \cup dropped
      BY <3>3, <1>1
    <3>4. CASE k \in work
      BY <3>4, <1>1 DEF InHand
    <3>5. CASE \E j \in DOMAIN batch : batch[j] = k
      <4>1. \E i \in DOMAIN batch' : batch'[i] = k
        BY <3>5, <2>2
      <4> QED BY <4>1 DEF InHand
    <3> QED BY <3>2, <3>3, <3>4, <3>5
  <2> QED BY <2>1, <2>2
<1>6. Past \subseteq Past' /\ m \in Past'
  <2>1. CASE On({"whatsapp"})
    <3>1. Past = gone \cup work /\ Past' = gone' \cup work'
      BY <2>1 DEF Past, On
    <3> QED BY <3>1, <1>1
  <2>2. CASE ~On({"whatsapp"})
    <3>1. Past = gone /\ Past' = gone'
      BY <2>2 DEF Past, On
    <3> QED BY <3>1, <2>2
  <2> QED BY <2>1, <2>2
<1>7. PulledIsPast'
  <2>1. CASE On({"discord"})
    <3>1. \A j \in DOMAIN batch : batch[j] \in Past
      BY <2>1 DEF PulledIsPast, On
    <3> QED BY <3>1, <1>6 DEF PulledIsPast
  <2>2. CASE ~On({"discord"})
    BY <2>2 DEF PulledIsPast, On
  <2> QED BY <2>1, <2>2
<1>8. TakenOnce'
  <2> SUFFICES ASSUME NEW k \in Written, turns'[k] # 0, k \notin again
               PROVE  turns'[k] = 1 /\ k \in Past' /\ \A i \in DOMAIN batch' : batch'[i] # k
    BY <1>2 DEF TakenOnce
  <2>1. CASE k = m
    BY <2>1, <1>1, <1>6
  <2>2. CASE k # m
    <3>1. turns[k] # 0 /\ turns'[k] = turns[k]
      BY <2>2, <1>1
    <3>2. turns[k] = 1 /\ k \in Past /\ \A j \in DOMAIN batch : batch[j] # k
      BY <3>1 DEF TakenOnce
    <3> QED BY <3>1, <3>2, <1>6
  <2> QED BY <2>1, <2>2
<1> QED BY <1>3, <1>4, <1>5, <1>7, <1>8

\* An event handler of Slack or Discord takes a message, in any order.
LEMMA EventTakesKeeps ==
    ASSUME ChannelConstants, ChannelsInv, NEW m \in Written, EventTakes(m)
    PROVE  ChannelsInv'
<1> USE DEF ChannelsInv
<1>1. /\ Up /\ LookAt(m) /\ chan' = chan /\ written' = written /\ cursor' = cursor /\ cut' = cut
      /\ again' = again /\ dropped' = dropped /\ hungUp' = hungUp
  BY DEF EventTakes, ghosts
<1>2. Written' = Written
  BY <1>1 DEF Written
<1>3. CASE On({"slack"}) /\ m \in Written \ gone /\ gone' = gone \cup {m} /\ batch' = batch
  <2>1. batch = <<>> /\ DOMAIN batch = {}
    BY <1>3 DEF BatchAscends, On
  <2>2. Past = gone
    BY <1>3, PastIs DEF On
  <2>3. turns[m] = 0 \/ m \in again
    BY <2>2, <1>3 DEF TakenOnce
  <2>4. ~On({"telegram", "matrix", "signal", "irc"}) /\ BatchAscends' /\ batch' \in Seq(Written)
    BY <1>1, <1>3 DEF BatchAscends, On, ChannelsTypeOK
  <2>5. DOMAIN batch' = {}
    BY <2>1, <1>3
  <2> QED BY <2>1, <2>3, <2>4, <2>5, <1>1, <1>3, TakesKeep
<1>4. CASE /\ On({"discord"}) /\ gone' = gone
           /\ \E i \in DOMAIN batch :
                batch[i] = m /\ batch' = SubSeq(batch, 1, i - 1) \o SubSeq(batch, i + 1, Len(batch))
  <2>1. PICK i \in DOMAIN batch :
                batch[i] = m /\ batch' = SubSeq(batch, 1, i - 1) \o SubSeq(batch, i + 1, Len(batch))
    BY <1>4
  <2>2. PICK b, r, n : b = batch /\ r = batch' /\ n = Len(b)
    OBVIOUS
  <2>3. b \in Seq(Written) /\ DOMAIN b = 1 .. n /\ n \in Nat /\ i \in 1 .. Len(b)
        /\ r = SubSeq(b, 1, i - 1) \o SubSeq(b, i + 1, Len(b)) /\ b[i] = m
    BY <2>1, <2>2, LenProperties DEF ChannelsTypeOK
  <2>4. /\ r \in Seq(Written) /\ DOMAIN r = 1 .. (n - 1) /\ i \in 1 .. n
        /\ \A j \in DOMAIN r : r[j] = IF j < i THEN b[j] ELSE b[j + 1]
    <3>1. /\ r \in Seq(Written) /\ DOMAIN r = 1 .. (Len(b) - 1)
          /\ \A j \in DOMAIN r : r[j] = IF j < i THEN b[j] ELSE b[j + 1]
      <4>1. PICK S : S = Written
        OBVIOUS
      <4>2. b \in Seq(S) /\ i \in 1 .. Len(b) /\ r = OneOut(b, i)
        BY <2>3, <4>1 DEF OneOut
      <4>3. /\ OneOut(b, i) \in Seq(S) /\ DOMAIN OneOut(b, i) = 1 .. (Len(b) - 1)
            /\ \A j \in 1 .. (Len(b) - 1) : OneOut(b, i)[j] = IF j < i THEN b[j] ELSE b[j + 1]
        BY <4>2, OneLess
      <4> QED BY <4>1, <4>2, <4>3
    <3> QED BY <2>2, <2>3, <3>1
  <2>5. \A j, k \in 1 .. n : /\ j < k => b[j] < b[k]
                             /\ b[j] \in Nat
    <3>1. \A j \in 1 .. n : b[j] \in Written
      BY <2>2, <2>3, ElementOfSeq
    <3>2. Written \subseteq Nat
      <4>1. Len(written) \in Nat /\ Written = 1 .. Len(written)
        BY LenProperties DEF Written, ChannelsTypeOK
      <4> QED BY ONLY <4>1
    <3> QED BY <2>2, <2>3, <3>1, <3>2 DEF BatchAscends
  <2>6. \A j, k \in DOMAIN r : j < k => r[j] < r[k]
    <3> SUFFICES ASSUME NEW j \in DOMAIN r, NEW k \in DOMAIN r, j < k
                 PROVE  r[j] < r[k]
      OBVIOUS
    <3>1. PICK u, v : u = (IF j < i THEN j ELSE j + 1) /\ v = (IF k < i THEN k ELSE k + 1)
      OBVIOUS
    <3>4. j \in 1 .. (n - 1) /\ k \in 1 .. (n - 1) /\ n \in Nat /\ i \in 1 .. n /\ j < k
      BY <2>3, <2>4
    <3>2. u \in 1 .. n /\ v \in 1 .. n /\ u < v
      BY ONLY <3>1, <3>4
    <3>3. r[j] = b[u] /\ r[k] = b[v]
      BY <3>1, <2>4
    <3> QED BY <3>2, <3>3, <2>5
  <2>7. ASSUME NEW j \in DOMAIN r
        PROVE  r[j] # m /\ \E k \in DOMAIN b : r[j] = b[k]
    <3>1. PICK u : u = (IF j < i THEN j ELSE j + 1)
      OBVIOUS
    <3>5. j \in 1 .. (n - 1) /\ n \in Nat /\ i \in 1 .. n
      BY <2>3, <2>4
    <3>2. u \in 1 .. n /\ (u < i \/ i < u) /\ i \in 1 .. n
      BY ONLY <3>1, <3>5
    <3>3. r[j] = b[u]
      BY <3>1, <2>4
    <3>4. b[u] # b[i]
      BY <3>2, <2>5
    <3> QED BY <3>2, <3>3, <3>4, <2>3
  <2>8. ASSUME NEW k \in DOMAIN b, b[k] # m
        PROVE  \E j \in DOMAIN r : r[j] = b[k]
    <3>1. CASE k < i
      <4>1. k \in 1 .. (n - 1)
        BY <3>1, <2>2, <2>3
      <4> QED BY <4>1, <3>1, <2>4
    <3>2. CASE ~(k < i)
      <4>1. k - 1 \in 1 .. (n - 1) /\ ~(k - 1 < i) /\ k - 1 + 1 = k
        <5>1. k \in 1 .. n /\ k # i /\ n \in Nat /\ i \in 1 .. n
          BY <3>2, <2>2, <2>3, <2>8
        <5> QED BY ONLY <5>1, <3>2
      <4>2. r[k - 1] = b[k - 1 + 1]
        BY <4>1, <2>4
      <4> QED BY <4>1, <4>2, <2>4
    <3> QED BY <3>1, <3>2
  <2>9. m \in gone /\ Past = gone
    <3>1. Past = gone
      BY <1>4, PastIs DEF On
    <3> QED BY <3>1, <2>1, <1>4 DEF PulledIsPast, On
  <2>10. turns[m] = 0 \/ m \in again
    BY <2>1 DEF TakenOnce
  <2>11. BatchAscends' /\ ~On({"telegram", "matrix", "signal", "irc"})
    BY <2>2, <2>6, <1>1, <1>4 DEF BatchAscends, On
  <2>12. /\ \A j \in DOMAIN batch' : batch'[j] # m /\ \E k \in DOMAIN batch : batch'[j] = batch[k]
         /\ \A k \in DOMAIN batch : batch[k] # m => \E j \in DOMAIN batch' : batch'[j] = batch[k]
         /\ batch' \in Seq(Written)
    BY <2>2, <2>4, <2>7, <2>8
  <2> QED BY <2>9, <2>10, <2>11, <2>12, <1>1, <1>4, TakesKeep
<1> QED BY <1>3, <1>4 DEF EventTakes

\* A webhook request brings a message.
LEMMA WebhookTakesKeeps ==
    ASSUME ChannelConstants, ChannelsInv, NEW m \in Written, WebhookTakes(m)
    PROVE  ChannelsInv'
<1> USE DEF ChannelsInv
<1>1. /\ Up /\ LookAt(m) /\ chan' = chan /\ written' = written /\ cursor' = cursor /\ cut' = cut
      /\ again' = again /\ dropped' = dropped /\ hungUp' = hungUp /\ batch' = batch
      /\ On({"whatsapp", "googlechat", "teams"}) /\ m \notin gone \cup work
      /\ gone' = IF AnswersFirst \/ work' = work THEN gone \cup {m} ELSE gone
  BY DEF WebhookTakes, ghosts
<1>2. batch = <<>> /\ DOMAIN batch = {}
  BY <1>1 DEF BatchAscends, On
<1>3. Past \subseteq gone \cup work
  BY <1>1, PastIs DEF On
<1>4. turns[m] = 0 \/ m \in again
  BY <1>1, <1>3 DEF TakenOnce
<1>5. ~On({"telegram", "matrix", "signal", "irc"}) /\ BatchAscends' /\ batch' \in Seq(Written)
  BY <1>1 DEF BatchAscends, On, ChannelsTypeOK
<1>6. work \subseteq work' /\ work' \subseteq work \cup {m}
  BY <1>1, <1>4, Looked
<1>7. m \in gone' \/ (On({"whatsapp"}) /\ m \in work')
  BY <1>1, <1>6 DEF AnswersFirst, On
<1>8. gone \subseteq gone' /\ gone' \subseteq gone \cup {m} /\ DOMAIN batch' = {}
  BY <1>1, <1>2
<1> QED BY <1>1, <1>2, <1>4, <1>5, <1>7, <1>8, TakesKeep

\* A request that times out is one the platform will post again.
LEMMA WebhookTimesOutKeeps ==
    ASSUME ChannelConstants, ChannelsInv, NEW m \in Written, WebhookTimesOut(m)
    PROVE  ChannelsInv'
<1> USE DEF ChannelsInv
<1>1. /\ On({"whatsapp"}) /\ m \in work
      /\ chan' = chan /\ written' = written /\ gone' = gone /\ cursor' = cursor /\ batch' = batch /\ work' = work
      /\ turns' = turns /\ answered' = answered /\ unsent' = unsent /\ deaf' = deaf /\ dropped' = dropped
      /\ again' = again \cup {m} /\ hungUp' = hungUp \cup {m} /\ cut' = cut \cup {m}
  BY DEF WebhookTimesOut, outcomes
<1>2. /\ Written' = Written /\ BatchAscends' /\ GoneIsPrefix' /\ PulledIsPast' /\ \A k : LetGo(k)' = LetGo(k)
  BY <1>1, ListsStand
<1>3. Ignored' = Ignored /\ InHand' = InHand /\ Past' = Past
  BY <1>1, <1>2, IgnoredStays DEF InHand, Past, On
<1>4. ChannelsTypeOK'
  <2>1. chan.state # "down"
    BY <1>1 DEF ChannelsTypeOK
  <2> QED BY <2>1, <1>1, <1>2 DEF ChannelsTypeOK, On
<1>5. TelegramKeeps' /\ LetGoIsHeld' /\ TakenOnce'
  BY <1>1, <1>2, <1>3 DEF TelegramKeeps, LetGoIsHeld, TakenOnce, Settled, On
<1> QED BY <1>2, <1>4, <1>5

\* IRC: what was waiting in the connection is dropped.
LEMMA ConnectionLostKeeps ==
    ASSUME ChannelConstants, ChannelsInv, ConnectionLost
    PROVE  ChannelsInv'
<1> USE DEF ChannelsInv
<1>1. /\ On({"irc"}) /\ chan' = [chan EXCEPT !.state = "lost"]
      /\ written' = written /\ gone' = gone /\ cursor' = cursor /\ batch' = <<>> /\ work' = work /\ cut' = cut
      /\ turns' = turns /\ answered' = answered /\ unsent' = unsent /\ deaf' = deaf
      /\ dropped' = dropped \cup (InHand \ work) /\ again' = again /\ hungUp' = hungUp
  BY DEF ConnectionLost, outcomes
<1>2. /\ chan' \in [platform : Platforms, mentionOnly : BOOLEAN, named : BOOLEAN, state : ChanStates]
      /\ chan'.platform = chan.platform /\ chan'.mentionOnly = chan.mentionOnly
      /\ chan'.state = "lost" /\ chan'.named = chan.named
  BY <1>1 DEF ChannelsTypeOK, ChanStates
<1>3. Written' = Written /\ DOMAIN batch' = {}
  BY <1>1 DEF Written
<1>4. Ignored' = Ignored
  BY <1>1, <1>2, IgnoredStays
<1>5. ChannelsTypeOK'
  <2>1. batch' \in Seq(Written)
    BY <1>1, EmptySeq
  <2> QED BY <2>1, <1>1, <1>2, <1>3 DEF ChannelsTypeOK, On
<1>6. BatchAscends' /\ GoneIsPrefix' /\ TelegramKeeps' /\ PulledIsPast'
  BY <1>1, <1>2, <1>3 DEF BatchAscends, GoneIsPrefix, TelegramKeeps, PulledIsPast, On
<1>7. LetGoIsHeld'
  <2> SUFFICES ASSUME NEW k \in Written \ Ignored, LetGo(k)'
               PROVE  k \in (Settled \cup InHand \cup dropped)'
    BY <1>3, <1>4 DEF LetGoIsHeld
  <2>1. LetGo(k)
    BY <1>1, <1>2 DEF LetGo, On
  <2>2. k \in Settled \cup InHand \cup dropped
    BY <2>1, <1>1 DEF LetGoIsHeld, On
  <2>3. Settled' = Settled /\ work \subseteq InHand'
    BY <1>1 DEF Settled, InHand
  <2> QED BY <2>2, <2>3, <1>1
<1>8. Past' = Past
  BY <1>1, <1>2, <1>3 DEF Past, On
<1>9. TakenOnce'
  BY <1>1, <1>3, <1>8 DEF TakenOnce
<1> QED BY <1>5, <1>6, <1>7, <1>9

-----------------------------------------------------------------------------
(* Answering *)

\* A turn ends answered, unsent or, when it was cut, dropped or to come again.
LEMMA HandlerEndsKeeps ==
    ASSUME ChannelConstants, ChannelsInv, NEW m \in Written, NEW ok \in BOOLEAN, HandlerEnds(m, ok)
    PROVE  ChannelsInv'
<1> USE DEF ChannelsInv
<1>1. /\ m \in work /\ chan' = chan /\ written' = written /\ cursor' = cursor /\ batch' = batch
      /\ turns' = turns /\ deaf' = deaf /\ again' = again
      /\ work' = work \ {m} /\ cut' = cut \ {m} /\ hungUp' = hungUp \ {m}
      /\ gone' = IF On({"whatsapp"}) /\ m \notin hungUp THEN gone \cup {m} ELSE gone
  BY DEF HandlerEnds
<1>2. /\ answered \subseteq answered' /\ unsent \subseteq unsent' /\ dropped \subseteq dropped'
      /\ m \in answered' \cup unsent' \/ m \in cut
      /\ m \in cut /\ (m \in gone' \/ On({"matrix"})) => m \in dropped'
  BY DEF HandlerEnds
<1>3. Settled \subseteq Settled' /\ (m \in Settled' \/ m \in cut)
  BY <1>1, <1>2 DEF Settled
<1>4. Written' = Written /\ Ignored' = Ignored /\ Wanted' = Wanted
  BY <1>1, IgnoredStays, WantedStays DEF Written
<1>5. ChannelsTypeOK'
  <2>1. work' \subseteq Written /\ gone' \subseteq Written /\ chan.state # "down" /\ hungUp' \subseteq again
    BY <1>1 DEF ChannelsTypeOK
  <2> QED BY <2>1, <1>1, <1>4 DEF ChannelsTypeOK, On
<1>6. BatchAscends'
  BY <1>1 DEF BatchAscends, On
<1>7. ~On({"whatsapp"}) => gone' = gone
  BY <1>1
<1>8. GoneIsPrefix'
  BY <1>1, <1>7 DEF GoneIsPrefix, On
<1>9. TelegramKeeps'
  <2> SUFFICES ASSUME On({"telegram"})
               PROVE  TelegramKeeps'
    BY <1>1 DEF TelegramKeeps, On
  <2>1. gone' = gone
    BY <1>7 DEF On
  <2>2. gone' \cap Wanted' \subseteq Settled'
    BY <2>1, <1>3, <1>4 DEF TelegramKeeps
  <2>3. ASSUME Up
        PROVE  /\ cut' = {}
               /\ \A k \in Wanted : k < cursor \/ (batch # <<>> /\ k < batch[1]) => k \in Settled' \cup work'
    <3>1. cut = {} /\ \A k \in Wanted : k < cursor \/ (batch # <<>> /\ k < batch[1]) => k \in Settled \cup work
      BY <2>3 DEF TelegramKeeps
    <3>2. m \in Settled'
      BY <3>1, <1>3
    <3>3. Settled \cup work \subseteq Settled' \cup work'
      BY <3>2, <1>1, <1>3
    <3> QED BY <3>1, <3>3, <1>1
  <2> QED BY <2>2, <2>3, <1>1, <1>4 DEF TelegramKeeps, On, Up
<1>10. LetGoIsHeld'
  <2> SUFFICES ASSUME ~On({"telegram"}), NEW k \in Written \ Ignored, LetGo(k)'
               PROVE  k \in (Settled \cup InHand \cup dropped)'
    BY <1>1, <1>4 DEF LetGoIsHeld, On
  <2>1. CASE k = m
    <3>1. m \in gone' \/ On({"matrix"})
      BY <2>1, <1>1 DEF LetGo, On
    <3> QED BY <2>1, <3>1, <1>2, <1>3
  <2>2. CASE k # m
    <3>1. LetGo(k)
      BY <2>2, <1>1 DEF LetGo, On
    <3>2. k \in Settled \cup InHand \cup dropped
      BY <3>1 DEF LetGoIsHeld
    <3>3. k \in InHand => k \in InHand'
      BY <2>2, <1>1 DEF InHand
    <3> QED BY <3>2, <3>3, <1>2, <1>3
  <2> QED BY <2>1, <2>2
<1>11. ASSUME NEW k \in Past, k \notin again
       PROVE  k \in Past'
  <2>1. CASE On({"whatsapp"})
    <3>1. Past = gone \cup work /\ Past' = gone' \cup work'
      BY <2>1, <1>1 DEF Past, On
    <3>2. k = m => k \notin hungUp
      BY <1>11 DEF ChannelsTypeOK
    <3> QED BY <2>1, <3>1, <3>2, <1>1, <1>11
  <2>2. CASE ~On({"whatsapp"})
    <3>1. Past' = Past
      BY <2>2, <1>1, <1>4, <1>7 DEF Past, On
    <3> QED BY <3>1, <1>11
  <2> QED BY <2>1, <2>2
<1>12. PulledIsPast'
  <2>1. CASE On({"matrix", "signal", "irc", "discord"})
    <3>1. Past' = Past
      BY <2>1, <1>1, <1>4, <1>7 DEF Past, On
    <3> QED BY <3>1, <2>1, <1>1 DEF PulledIsPast, On
  <2>2. CASE ~On({"matrix", "signal", "irc", "discord"})
    BY <2>2, <1>1 DEF PulledIsPast, On
  <2> QED BY <2>1, <2>2
<1>13. TakenOnce'
  BY <1>1, <1>4, <1>11 DEF TakenOnce
<1> QED BY <1>5, <1>6, <1>8, <1>9, <1>10, <1>12, <1>13

-----------------------------------------------------------------------------

\* Nothing happens.
LEMMA ChannelsStand ==
    ASSUME ChannelsInv, UNCHANGED channelVars
    PROVE  ChannelsInv'
<1>1. /\ chan' = chan /\ written' = written /\ gone' = gone /\ cursor' = cursor /\ batch' = batch /\ work' = work
      /\ turns' = turns /\ answered' = answered /\ unsent' = unsent /\ deaf' = deaf /\ dropped' = dropped
      /\ again' = again /\ hungUp' = hungUp /\ cut' = cut
  BY DEF channelVars
<1>2. /\ Written' = Written /\ BatchAscends' /\ GoneIsPrefix' /\ PulledIsPast' /\ \A k : LetGo(k)' = LetGo(k)
  BY <1>1, ListsStand
<1>3. Ignored' = Ignored /\ Wanted' = Wanted /\ InHand' = InHand /\ Past' = Past
  BY <1>1, <1>2, IgnoredStays, WantedStays DEF InHand, Past, On
<1>4. ChannelsTypeOK' /\ TelegramKeeps' /\ LetGoIsHeld' /\ TakenOnce'
  BY <1>1, <1>2, <1>3 DEF ChannelsInv, ChannelsTypeOK, TelegramKeeps, LetGoIsHeld, TakenOnce, Settled, On, Up
<1> QED BY <1>2, <1>4 DEF ChannelsInv

\* The receive loops and webhooks of adapter/channel keep their inductive invariant, for
\* every set of messages, bound and platform: what each channel still has to look at comes
\* in order, what Telegram lets go of is settled, what another platform lets go of is
\* settled, in the channel's hands or dropped, and what was taken is not taken again unless
\* the platform could not know.
THEOREM ChannelsInvariant == ChannelsSpec => []ChannelsInv
<1>1. ChannelsInit => ChannelsInv
  BY ChannelConstants, ChannelsStart
<1>2. ChannelsInv /\ [ChannelsNext]_channelVars => ChannelsInv'
  <2> SUFFICES ASSUME ChannelsInv, [ChannelsNext]_channelVars
               PROVE  ChannelsInv'
    OBVIOUS
  <2> USE ChannelConstants
  <2>1. CASE StopChannel \/ ProcessExit \/ LoopTakes \/ ConnectionLost
    BY <2>1, StopChannelKeeps, ProcessExitKeeps, LoopTakesKeeps, ConnectionLostKeeps
  <2>2. CASE \E ok \in BOOLEAN : StartChannel(ok) \/ getUpdates(ok) \/ sync(ok) \/ receiveMessages(ok)
    BY <2>2, StartChannelKeeps, GetUpdatesKeeps, SyncKeeps, ReceiveKeeps
  <2>3. CASE \E s \in Shapes : Write(s)
    BY <2>3, WriteKeeps
  <2>4. CASE \E m \in Written : EventTakes(m) \/ WebhookTakes(m) \/ WebhookTimesOut(m)
                                  \/ \E ok \in BOOLEAN : HandlerEnds(m, ok)
    <3>1. PICK m \in Written : EventTakes(m) \/ WebhookTakes(m) \/ WebhookTimesOut(m)
                                  \/ \E ok \in BOOLEAN : HandlerEnds(m, ok)
      BY <2>4
    <3> QED BY <3>1, EventTakesKeeps, WebhookTakesKeeps, WebhookTimesOutKeeps, HandlerEndsKeeps
  <2>5. CASE UNCHANGED channelVars
    BY <2>5, ChannelsStand
  <2> QED BY <2>1, <2>2, <2>3, <2>4, <2>5 DEF ChannelsNext
<1> QED BY <1>1, <1>2, PTL DEF ChannelsSpec

\* What the inductive invariant says of deliveries.
LEMMA InvDelivers ==
    ASSUME ChannelConstants, ChannelsInv
    PROVE  DeliveryIsExact
<1> USE DEF ChannelsInv
<1>1. NoneTwice
  <2> SUFFICES ASSUME NEW m \in Written, turns[m] > 1, m \notin again
               PROVE  FALSE
    BY DEF NoneTwice
  <2>1. turns[m] = 0 \/ turns[m] = 1
    BY DEF TakenOnce
  <2> QED BY <2>1
<1>2. NoneLost
  <2> SUFFICES ASSUME NEW m \in Written, LetGo(m), Outcome(written[m]) # "ignored"
               PROVE  m \in answered \cup InHand \cup unsent \cup deaf \cup (IF On({"telegram"}) THEN {} ELSE dropped)
    BY DEF NoneLost
  <2>1. m \in Written \ Ignored
    BY DEF Ignored
  <2>2. CASE On({"telegram"})
    <3>1. m \in Wanted /\ m \in gone
      BY <2>1, <2>2, TelegramWants DEF LetGo, On
    <3>2. m \in Settled
      BY <3>1, <2>2 DEF TelegramKeeps
    <3> QED BY <3>2 DEF Settled
  <2>3. CASE ~On({"telegram"})
    <3>1. m \in Settled \cup InHand \cup dropped
      BY <2>1, <2>3 DEF LetGoIsHeld
    <3> QED BY <3>1, <2>3 DEF Settled
  <2> QED BY <2>2, <2>3
<1> QED BY <1>1, <1>2 DEF DeliveryIsExact

\* DeliveryIsExact of Channels, for every platform, workload and bound: a message that its
\* platform will not deliver again has been answered, is in the channel's hands or is known
\* to have failed, Telegram loses none to a crash or a shutdown, and the agent gets a
\* message twice only when its platform could not know that the first time had happened.
THEOREM DeliveryIsExactHolds == ChannelsSpec => []DeliveryIsExact
<1>1. ChannelsInv => DeliveryIsExact
  BY ChannelConstants, InvDelivers
<1> QED BY <1>1, ChannelsInvariant, PTL


-----------------------------------------------------------------------------
(* The composition root *)

\* The steps of run() that open something, in their order.
Building == {"config", "logger", "tracer", "sandbox", "encryption", "audit", "scanning", "rotation", "llm", "memory",
             "agent", "mcp", "skills", "features", "router", "channels", "cron", "workflow", "voice", "tenants", "cluster",
             "runtime"}
\* The steps after the agent is built.
Later == {"mcp", "skills", "features", "router", "channels", "cron", "workflow", "voice", "tenants", "cluster", "runtime"}
\* Where run() is.
Stages == Building \cup {"serve", "unwind", "ended"}

\* The depth of a cleanup in the stack of run().
Depth == [logger |-> 1, tracer |-> 2, encryptor |-> 3, audit |-> 4, rotator |-> 5, bus |-> 6, memory |-> 7, runtime |-> 8,
          channels |-> 9, router |-> 10, redis |-> 11, scheduler |-> 12, processes |-> 13, gateway |-> 14]
Cleanup == DOMAIN Depth

\* What has been deferred by a step is not deeper than that.
Reached == [s \in Stages |->
    CASE s \in {"config", "logger"} -> 0 [] s = "tracer" -> 1 [] s \in {"sandbox", "encryption"} -> 2 [] s = "audit" -> 3
      [] s \in {"scanning", "rotation"} -> 4 [] s = "llm" -> 5 [] s = "memory" -> 6 [] s = "agent" \/ s \in Later -> 7
      [] s = "serve" -> 8 [] s \in {"unwind", "ended"} -> 14]

\* A part is closed by a cleanup of its own or by the cleanup that initRuntime returned.
Deferred(x) == \E i \in DOMAIN cleanups : cleanups[i] = x
Closes(p)   == Deferred(p) \/ (Deferred("runtime") /\ p \in Cleanup /\ Depth[p] > 8)

\* The types of the composition root.
StartupTypeOK ==
    /\ cfg \in StartupConfigs
    /\ stage \in Stages
    /\ cleanups \in Seq(Cleanup)
    /\ up \subseteq Cleanup \cup Abandoned
    /\ outcome \in {"none", "first run", "aborted", "error", "ok"}
    /\ turn \in {"none", "running", "cut"} /\ curator \in {"none", "counted", "late"}
    /\ "runtime" \notin up
    /\ stage \in Building \cup {"serve"} => outcome = "none"

\* The cleanups are a stack: what was opened first is closed last.
StackAscends ==
    /\ \A i, j \in DOMAIN cleanups : i < j => Depth[cleanups[i]] < Depth[cleanups[j]]
    /\ \A i \in DOMAIN cleanups : Depth[cleanups[i]] <= Reached[stage]
    /\ stage = "ended" => cleanups = <<>>

\* What is open and not abandoned will be closed, with four exceptions.
UpIsClosed ==
    \A p \in up \ Abandoned :
        \/ Closes(p)
        \/ p = "memory" /\ ~IsOn("vector")
        \/ p = "processes" /\ (stage \in Building \/ outcome = "aborted")
        \/ p = "redis" /\ stage = "runtime"
        \/ p = "audit" /\ outcome = "aborted" /\ IsOn("retention")

\* What a step may count on.
StepsDone ==
    /\ stage = "config" => up = {}
    /\ stage \in {"audit", "scanning", "rotation", "llm", "memory", "agent", "serve"} \cup Later =>
          (IsOn("encryption") /\ cfg.passkey => "encryptor" \in up)
    /\ stage \in {"scanning", "rotation", "llm", "memory", "agent", "serve"} \cup Later => (IsOn("audit") => "audit" \in up)
    /\ stage \in {"memory", "agent", "serve"} \cup Later => "bus" \in up
    /\ stage \in {"agent", "serve"} \cup Later => "memory" \in up
    /\ stage \in {"llm", "memory", "agent"} \cup Later /\ IsOn("rotation") /\ "encryptor" \in up
         => Deferred("rotator")
    /\ stage = "serve" => {"channels", "router"} \subseteq up

\* Whoever is open has what it uses.
UsesAreUp ==
    /\ \A p \in up \ Abandoned : Uses(p) \subseteq up \/ (p = "processes" /\ outcome = "aborted")
    /\ "router" \in up => Uses("channels") \cup Uses("rotator") \subseteq up
    /\ "encryptor" \in up => IsOn("encryption") /\ cfg.passkey
    /\ curator = "counted" => "router" \in up

\* The channels, and the turn that one of them started.
TurnsHaveChannels ==
    /\ chans = [i \in DOMAIN chans |-> [type |-> chans[i].type, is |-> chans[i].is]]
    /\ turn = "running" => /\ stage = "serve"
                           /\ \E i \in DOMAIN chans : chans[i].is \in {"up", "quit"}

\* Names are registered once.
ShellIsBuiltin == \A n \in {"filesystem", "shell"} : n \in DOMAIN owner /\ owner[n] = "builtin"
NamesAreKept ==
    /\ stage \in Building \ Later => owner = <<>>
    /\ stage \in Later => ShellIsBuiltin
    /\ owner = <<>> \/ ShellIsBuiltin
    /\ conns # {} => "mcp" \in up

\* The inductive invariant of the composition root.
StartupInv ==
    /\ StartupTypeOK /\ StackAscends /\ UpIsClosed /\ StepsDone /\ UsesAreUp /\ TurnsHaveChannels /\ NamesAreKept

-----------------------------------------------------------------------------
\* The depths, one by one.
LEMMA DepthIs ==
    /\ Cleanup = {"logger", "tracer", "encryptor", "audit", "rotator", "bus", "memory", "runtime", "channels", "router",
                  "redis", "scheduler", "processes", "gateway"}
    /\ Depth["logger"] = 1 /\ Depth["tracer"] = 2 /\ Depth["encryptor"] = 3 /\ Depth["audit"] = 4
    /\ Depth["rotator"] = 5 /\ Depth["bus"] = 6 /\ Depth["memory"] = 7 /\ Depth["runtime"] = 8
    /\ Depth["channels"] = 9 /\ Depth["router"] = 10 /\ Depth["redis"] = 11 /\ Depth["scheduler"] = 12
    /\ Depth["processes"] = 13 /\ Depth["gateway"] = 14
BY DEF Depth, Cleanup

\* Every depth is a number.
LEMMA DepthIsNat == \A x \in Cleanup : Depth[x] \in Nat
BY DepthIs

\* What every step has reached.
LEMMA ReachedIs ==
    /\ Reached["config"] = 0 /\ Reached["logger"] = 0 /\ Reached["tracer"] = 1
    /\ Reached["sandbox"] = 2 /\ Reached["encryption"] = 2 /\ Reached["audit"] = 3
    /\ Reached["scanning"] = 4 /\ Reached["rotation"] = 4 /\ Reached["llm"] = 5 /\ Reached["memory"] = 6
    /\ \A s \in {"agent"} \cup Later : Reached[s] = 7
    /\ Reached["serve"] = 8 /\ Reached["unwind"] = 14 /\ Reached["ended"] = 14
BY DEF Reached, Stages, Building, Later

\* And it is a number that no depth exceeds.
LEMMA ReachedIsNat == \A s \in Stages : Reached[s] \in Nat /\ Reached[s] <= 14
<1> SUFFICES ASSUME NEW s \in Stages
             PROVE  Reached[s] \in Nat /\ Reached[s] <= 14
  OBVIOUS
<1>1. CASE s \in {"agent"} \cup Later
  BY <1>1, ReachedIs
<1>2. CASE s \notin {"agent"} \cup Later
  <2>1. s \in {"config", "logger", "tracer", "sandbox", "encryption", "audit", "scanning", "rotation", "llm", "memory",
               "serve", "unwind", "ended"}
    BY <1>2 DEF Stages, Building, Later
  <2> QED BY <2>1, ReachedIs
<1> QED BY <1>1, <1>2

\* The configuration decides what is on and who uses whom.
LEMMA CfgStays ==
    ASSUME cfg' = cfg
    PROVE  (\A f : IsOn(f)' <=> IsOn(f)) /\ (\A p : Uses(p)' = Uses(p))
BY DEF IsOn, Uses

\* Who uses whom.
LEMMA UsesAre ==
    /\ \A p : Uses(p) \subseteq {"encryptor", "bus", "audit", "memory"}
    /\ \A p : p \notin {"rotator", "processes", "heartbeat", "scheduler", "gateway", "channels"} => Uses(p) = {}
    /\ \A p \in {"scheduler", "gateway", "channels"} :
          /\ "memory" \in Uses(p) /\ "bus" \in Uses(p) /\ "encryptor" \notin Uses(p)
          /\ "audit" \in Uses(p) <=> IsOn("audit")
    /\ Uses("processes") = {"bus"}
    /\ Uses("rotator") \subseteq {"encryptor"} /\ ("encryptor" \in Uses("rotator") <=> IsOn("encryption") /\ cfg.passkey)
BY DEF Uses

\* A step that defers nothing.
LEMMA Stood ==
    ASSUME StartupTypeOK, StackAscends, cleanups' = cleanups \/ cleanups' = cleanups \o <<>>,
           stage' \in Stages, Reached[stage] <= Reached[stage'], stage' = "ended" => cleanups = <<>>
    PROVE  /\ cleanups' \in Seq(Cleanup) /\ StackAscends' /\ \A x : Deferred(x)' <=> Deferred(x)
<1>1. cleanups \in Seq(Cleanup)
  BY DEF StartupTypeOK
<1>2. cleanups' = cleanups
  BY <1>1, ConcatEmptySeq
<1>3. \A i \in DOMAIN cleanups : Depth[cleanups[i]] \in Nat
  BY <1>1, ElementOfSeq, LenProperties, DepthIsNat
<1>4. Reached[stage] \in Nat /\ Reached[stage'] \in Nat
  BY ReachedIsNat DEF StartupTypeOK
<1> QED BY <1>1, <1>2, <1>3, <1>4 DEF StackAscends, Deferred

\* A step that defers one cleanup, deeper than all before it.
LEMMA Pushed ==
    ASSUME StartupTypeOK, StackAscends, NEW x \in Cleanup, cleanups' = cleanups \o <<x>>,
           stage' \in Stages \ {"ended"}, Reached[stage] < Depth[x], Depth[x] <= Reached[stage']
    PROVE  /\ cleanups' \in Seq(Cleanup) /\ StackAscends' /\ \A y : Deferred(y)' <=> Deferred(y) \/ y = x
<1>1. PICK c, d, n : c = cleanups /\ d = cleanups' /\ n = Len(cleanups)
  OBVIOUS
<1>2. c \in Seq(Cleanup) /\ n \in Nat /\ DOMAIN c = 1 .. n
  BY <1>1, LenProperties DEF StartupTypeOK
<1>3. d = Append(c, x)
  BY <1>1, <1>2, AppendIsConcat
<1>4. d \in Seq(Cleanup) /\ Len(d) = n + 1 /\ d[n + 1] = x /\ \A i \in 1 .. n : d[i] = c[i]
  BY <1>1, <1>2, <1>3, AppendProperties
<1>5. DOMAIN d = 1 .. (n + 1) /\ 1 .. (n + 1) = 1 .. n \cup {n + 1}
  BY <1>2, <1>4, LenProperties
<1>6. PICK r, t, k : r = Reached[stage] /\ t = Reached[stage'] /\ k = Depth[x]
  OBVIOUS
<1>7. r \in Nat /\ t \in Nat /\ k \in Nat /\ r < k /\ k <= t
  BY <1>6, ReachedIsNat, DepthIsNat DEF StartupTypeOK
<1>8. \A i \in 1 .. n : Depth[c[i]] \in Nat /\ Depth[c[i]] <= r
  <2>1. \A i \in 1 .. n : Depth[c[i]] <= r
    BY <1>1, <1>2, <1>6 DEF StackAscends
  <2>2. \A i \in 1 .. n : c[i] \in Cleanup
    BY <1>1, <1>2, ElementOfSeq
  <2> QED BY <2>1, <2>2, DepthIsNat
<1>9. \A i, j \in DOMAIN d : i < j => Depth[d[i]] < Depth[d[j]]
  <2> SUFFICES ASSUME NEW i \in DOMAIN d, NEW j \in DOMAIN d, i < j
               PROVE  Depth[d[i]] < Depth[d[j]]
    OBVIOUS
  <2>1. i \in 1 .. n
    BY <1>2, <1>5
  <2>2. CASE j \in 1 .. n
    BY <2>1, <2>2, <1>1, <1>2, <1>4 DEF StackAscends
  <2>3. CASE j = n + 1
    <3>1. d[i] = c[i] /\ d[j] = x
      BY <2>1, <2>3, <1>4
    <3> QED BY <3>1, <2>1, <1>6, <1>7, <1>8
  <2> QED BY <2>2, <2>3, <1>5
<1>10. \A i \in DOMAIN d : Depth[d[i]] <= t
  BY <1>4, <1>5, <1>6, <1>7, <1>8
<1>11. \A y : (\E i \in DOMAIN d : d[i] = y) <=> (\E i \in DOMAIN c : c[i] = y) \/ y = x
  <2> SUFFICES ASSUME NEW y
               PROVE  (\E i \in DOMAIN d : d[i] = y) <=> (\E i \in DOMAIN c : c[i] = y) \/ y = x
    OBVIOUS
  <2>1. ASSUME NEW i \in DOMAIN d, d[i] = y
        PROVE  (\E j \in DOMAIN c : c[j] = y) \/ y = x
    BY ONLY <2>1, i \in DOMAIN d, <1>2, <1>4, <1>5
  <2>2. ASSUME NEW i \in DOMAIN c, c[i] = y
        PROVE  \E j \in DOMAIN d : d[j] = y
    BY ONLY <2>2, i \in DOMAIN c, <1>2, <1>4, <1>5
  <2>3. n + 1 \in DOMAIN d /\ d[n + 1] = x
    BY <1>4, <1>5
  <2> QED BY <2>1, <2>2, <2>3
<1> QED BY <1>1, <1>4, <1>6, <1>9, <1>10, <1>11 DEF StackAscends, Deferred


\* A step that opens parts and goes on.
LEMMA OpensKeep ==
    ASSUME StartupInv, UNCHANGED <<cfg, turn, curator, outcome>>,
           chans' = [i \in DOMAIN chans' |-> [type |-> chans'[i].type, is |-> chans'[i].is]],
           NEW parts, up' = up \cup parts, stage \in Building,
           stage' \in Building \cup {"serve"}, stage' = "serve" => stage = "runtime", cleanups' \in Seq(Cleanup), StackAscends',
           \A x : Deferred(x) => Deferred(x)',
           parts \subseteq (Cleanup \cup Abandoned) \ {"runtime"},
           stage = "runtime" => Deferred("runtime")',
           \A p \in parts \ Abandoned : \/ Closes(p)'
                                        \/ p = "memory" /\ ~IsOn("vector")
                                        \/ p = "processes" /\ stage' \in Building
                                        \/ p = "redis" /\ stage' = "runtime",
           \A p \in parts \ Abandoned : Uses(p) \subseteq up',
           "router" \in parts => Uses("channels") \cup Uses("rotator") \subseteq up',
           "encryptor" \in parts => IsOn("encryption") /\ cfg.passkey,
           StepsDone', NamesAreKept'
    PROVE  StartupInv'
<1>1. (\A f : IsOn(f)' <=> IsOn(f)) /\ (\A p : Uses(p)' = Uses(p))
  BY CfgStays
<1>2. StartupTypeOK'
  BY DEF StartupTypeOK, StartupInv, Stages
<1>3. UpIsClosed'
  <2> SUFFICES ASSUME NEW p \in up' \ Abandoned
               PROVE  \/ Closes(p)'
                      \/ p = "memory" /\ ~IsOn("vector")
                      \/ p = "processes" /\ (stage' \in Building \/ outcome = "aborted")
                      \/ p = "redis" /\ stage' = "runtime"
                      \/ p = "audit" /\ outcome = "aborted" /\ IsOn("retention")
    BY <1>1 DEF UpIsClosed
  <2>1. CASE p \in parts
    BY <2>1
  <2>2. CASE p \in up
    <3>1. \/ Closes(p)
          \/ p = "memory" /\ ~IsOn("vector")
          \/ p = "processes" /\ (stage \in Building \/ outcome = "aborted")
          \/ p = "redis" /\ stage = "runtime"
          \/ p = "audit" /\ outcome = "aborted" /\ IsOn("retention")
      BY <2>2 DEF UpIsClosed, StartupInv
    <3>2. Closes(p) => Closes(p)'
      BY DEF Closes
    <3>3. p \in {"processes", "redis"} /\ stage = "runtime" => Closes(p)'
      BY DepthIs DEF Closes
    <3>4. stage # "runtime" => stage' \in Building
      OBVIOUS
    <3> QED BY <3>1, <3>2, <3>3, <3>4
  <2> QED BY <2>1, <2>2
<1>4. UsesAreUp'
  BY <1>1 DEF UsesAreUp, StartupInv
<1>5. TurnsHaveChannels'
  BY DEF TurnsHaveChannels, StartupInv, Building
<1> QED BY <1>2, <1>3, <1>4, <1>5 DEF StartupInv, StartupTypeOK

\* A step that fails.
LEMMA FailsKeeps ==
    ASSUME StartupInv, UNCHANGED <<cfg, turn, curator, chans, cleanups>>, stage \in Building \ {"runtime"},
           stage' = "unwind", outcome' \in {"first run", "aborted"},
           outcome' = "first run" => up = {},
           up' = up \/ (up' = up \cup {"audit"} /\ outcome' = "aborted" /\ IsOn("retention")),
           owner' = owner, conns' = conns
    PROVE  StartupInv'
<1>1. (\A f : IsOn(f)' <=> IsOn(f)) /\ (\A p : Uses(p)' = Uses(p))
  BY CfgStays
<1>2. StartupTypeOK' /\ StackAscends'
  <2>1. Reached[stage] <= Reached[stage']
    BY ReachedIs, ReachedIsNat DEF StartupInv, StartupTypeOK
  <2>2. stage' \in Stages
    BY DEF Stages
  <2>3. cleanups' \in Seq(Cleanup) /\ StackAscends'
    BY <2>1, <2>2, Stood DEF StartupInv
  <2>4. "audit" \in Cleanup
    BY DepthIs
  <2> QED BY <2>2, <2>3, <2>4 DEF StartupTypeOK, StartupInv, Building
<1>3. \A p : Closes(p)' <=> Closes(p)
  BY DEF Closes, Deferred
<1>4. UpIsClosed'
  BY <1>1, <1>3 DEF UpIsClosed, StartupInv
<1>5. Uses("audit") = {}
  BY UsesAre
<1>6. UsesAreUp'
  BY <1>1, <1>5 DEF UsesAreUp, StartupInv
<1>7. StepsDone' /\ TurnsHaveChannels' /\ NamesAreKept'
  BY DEF StepsDone, TurnsHaveChannels, NamesAreKept, ShellIsBuiltin, StartupInv, Building, Later
<1> QED BY <1>2, <1>4, <1>6, <1>7 DEF StartupInv

\* A step that opens one part and defers its cleanup, or opens nothing.
LEMMA SkipsKeep ==
    ASSUME StartupInv, UNCHANGED <<cfg, turn, curator, outcome>>,
           chans' = [i \in DOMAIN chans' |-> [type |-> chans'[i].type, is |-> chans'[i].is]],
           NEW parts, up' = up \cup parts, stage \in Building \ {"runtime"}, stage' \in Building,
           cleanups' = cleanups \/ cleanups' = cleanups \o <<>>, Reached[stage] <= Reached[stage'],
           parts \subseteq Abandoned \cup {"memory", "processes", "redis", "rotator"},
           "memory" \in parts => ~IsOn("vector"), "redis" \in parts => stage' = "runtime",
           "processes" \in parts => "bus" \in up,
           "rotator" \in parts => Deferred("rotator") /\ "encryptor" \in up,
           StepsDone', NamesAreKept'
    PROVE  StartupInv'
<1>1. cleanups' \in Seq(Cleanup) /\ StackAscends' /\ \A x : Deferred(x)' <=> Deferred(x)
  <2>1. stage' \in Stages /\ stage' # "ended"
    BY DEF Stages, Building
  <2> QED BY <2>1, Stood DEF StartupInv
<1>2. parts \subseteq (Cleanup \cup Abandoned) \ {"runtime"}
  BY DepthIs DEF Abandoned
<1>3. \A p \in parts \ Abandoned : \/ Closes(p)'
                                   \/ p = "memory" /\ ~IsOn("vector")
                                   \/ p = "processes" /\ stage' \in Building
                                   \/ p = "redis" /\ stage' = "runtime"
  <2>1. "rotator" \in parts => Closes("rotator")'
    BY <1>1 DEF Closes
  <2>2. \A p \in parts \ Abandoned : p \in {"memory", "processes", "redis", "rotator"}
    OBVIOUS
  <2> QED BY <2>1, <2>2
<1>4. \A p \in parts \ Abandoned : Uses(p) \subseteq up'
  <2>1. Uses("memory") = {} /\ Uses("redis") = {} /\ Uses("processes") = {"bus"} /\ Uses("rotator") \subseteq {"encryptor"}
    BY UsesAre
  <2> QED BY <2>1
<1>5. "router" \notin parts /\ "encryptor" \notin parts
  BY DEF Abandoned
<1>6. stage' \in Building \cup {"serve"} /\ stage' # "serve"
  BY DEF Building
<1> QED BY <1>1, <1>2, <1>3, <1>4, <1>5, <1>6, OpensKeep

\* A step that opens a part and defers its cleanup.
LEMMA PushesKeep ==
    ASSUME StartupInv, UNCHANGED <<cfg, turn, curator, outcome, chans>>,
           NEW x \in {"logger", "tracer", "encryptor", "audit", "rotator", "bus", "memory"},
           IF x = "rotator" THEN up' = up ELSE up' = up \cup {x},
           stage \in Building \ {"runtime"}, stage' \in Building,
           cleanups' = cleanups \o <<x>>, Reached[stage] < Depth[x], Depth[x] <= Reached[stage'],
           x = "encryptor" => IsOn("encryption") /\ cfg.passkey,
           StepsDone', NamesAreKept'
    PROVE  StartupInv'
<1>1. x \in Cleanup /\ x # "runtime"
  BY DepthIs
<1>2. cleanups' \in Seq(Cleanup) /\ StackAscends' /\ \A y : Deferred(y)' <=> Deferred(y) \/ y = x
  <2>1. stage' \in Stages \ {"ended"}
    BY DEF Stages, Building
  <2> QED BY <2>1, <1>1, Pushed DEF StartupInv
<1>3. chans' = [i \in DOMAIN chans' |-> [type |-> chans'[i].type, is |-> chans'[i].is]]
  BY DEF StartupInv, TurnsHaveChannels
<1>4. CASE x # "rotator"
  <2>1. Uses(x) = {}
    BY <1>4, UsesAre
  <2>2. stage' \in Building \cup {"serve"} /\ stage' # "serve" /\ Closes(x)'
    BY <1>2 DEF Building, Closes
  <2> QED BY <2>1, <2>2, <1>1, <1>2, <1>3, <1>4, OpensKeep
<1>5. CASE x = "rotator"
  <2>1. PICK none : none = {}
    OBVIOUS
  <2>2. /\ up' = up \cup none /\ stage' \in Building \cup {"serve"} /\ stage' # "serve"
        /\ none \subseteq (Cleanup \cup Abandoned) \ {"runtime"}
        /\ "router" \notin none /\ "encryptor" \notin none /\ \A p \in none \ Abandoned : FALSE
    BY <1>5, <2>1 DEF Building
  <2> QED BY <2>2, <1>1, <1>2, <1>3, OpensKeep
<1> QED BY <1>4, <1>5

-----------------------------------------------------------------------------
(* The steps of run() *)

\* The channels stay what they are.
LEMMA ChansStay ==
    ASSUME StartupInv, chans' = chans
    PROVE  chans' = [i \in DOMAIN chans' |-> [type |-> chans'[i].type, is |-> chans'[i].is]]
BY DEF StartupInv, TurnsHaveChannels

\* A step that neither opens nor defers.
LEMMA OnlyGoesOn ==
    ASSUME StartupInv, UNCHANGED <<cfg, turn, curator, outcome, chans, up>>,
           stage \in Building \ {"runtime"}, stage' \in Building,
           cleanups' = cleanups \/ cleanups' = cleanups \o <<>>, Reached[stage] <= Reached[stage'],
           StepsDone', NamesAreKept'
    PROVE  StartupInv'
<1>1. PICK none : none = {}
  OBVIOUS
<1>2. /\ up' = up \cup none /\ none \subseteq Abandoned \cup {"memory", "processes", "redis", "rotator"}
      /\ "memory" \notin none /\ "redis" \notin none /\ "processes" \notin none /\ "rotator" \notin none
  BY <1>1
<1> QED BY <1>2, ChansStay, SkipsKeep

\* The tools and the connections stay, before initAgent and in the later steps.
LEMMA NamesStay ==
    ASSUME StartupInv, owner' = owner, conns' = conns, up \subseteq up',
           \/ stage \in Building \ (Later \cup {"agent"}) /\ stage' \in Building \ Later
           \/ stage \in Later /\ stage' \in Later \cup {"serve"}
    PROVE  NamesAreKept'
BY DEF NamesAreKept, ShellIsBuiltin, StartupInv, Building, Later

\* A step that is skipped opens nothing.
LEMMA SkipsIs ==
    ASSUME NEW next, Skips(next)
    PROVE  up' = up /\ stage' = next /\ outcome' = outcome /\ cleanups' = cleanups \o <<>>
BY DEF Skips, Opens

\* A step that fails leaves what is open to the unwinding.
LEMMA FailsIs ==
    ASSUME StartupInv, Fails, Rest, stage \in Building \ {"runtime"}
    PROVE  StartupInv'
BY FailsKeeps DEF Fails, Rest

\* The configuration, or the first run.
LEMMA LoadConfigKeeps ==
    ASSUME StartupInv, LoadConfig
    PROVE  StartupInv'
<1>1. stage = "config" /\ Rest /\ stage \in Building \ {"runtime"}
  BY DEF LoadConfig, Building
<1>2. \/ stage' = "unwind" /\ outcome' = "first run" /\ UNCHANGED <<up, cleanups>>
      \/ Fails
      \/ Skips("logger")
  <2>1. cfg.source \in {"quick", "partial", "file", "missing"}
    BY StartupConstants DEF StartupInv, StartupTypeOK
  <2> QED BY <2>1 DEF LoadConfig
<1>3. CASE stage' = "unwind" /\ outcome' = "first run" /\ UNCHANGED <<up, cleanups>>
  <2>1. up = {} /\ up' = up
    BY <1>1, <1>3 DEF StartupInv, StepsDone
  <2> QED BY <1>1, <1>3, <2>1, FailsKeeps DEF Rest
<1>4. CASE Fails
  BY <1>1, <1>4, FailsIs
<1>5. CASE Skips("logger")
  <2>1. stage' \in Building /\ Reached[stage] <= Reached[stage'] /\ stage' \in Building \ Later
    BY <1>1, <1>5, SkipsIs, ReachedIs DEF Building, Later
  <2>2. StepsDone'
    BY <1>5, SkipsIs DEF StepsDone, Later
  <2>3. NamesAreKept'
    <3>1. stage \in Building \ (Later \cup {"agent"})
      BY <1>1 DEF Later
    <3>2. owner' = owner /\ conns' = conns /\ up \subseteq up'
      BY <1>1, <1>5, SkipsIs DEF Rest
    <3> QED BY <2>1, <3>1, <3>2, NamesStay
  <2> QED BY <1>1, <1>5, <2>1, <2>2, <2>3, SkipsIs, OnlyGoesOn DEF Rest
<1> QED BY <1>2, <1>3, <1>4, <1>5

\* An early step that skips what is off.
LEMMA EarlySkips ==
    ASSUME StartupInv, Rest, NEW s, NEW t, stage = s, Skips(t),
           s \in Building \ (Later \cup {"agent"}), t \in Building \ Later, Reached[s] <= Reached[t], StepsDone'
    PROVE  StartupInv'
<1>1. up' = up /\ stage' = t /\ outcome' = outcome /\ cleanups' = cleanups \o <<>>
  BY SkipsIs
<1>2. owner' = owner /\ conns' = conns /\ up \subseteq up' /\ UNCHANGED <<cfg, turn, curator, chans>>
  BY <1>1 DEF Rest
<1>3. NamesAreKept'
  BY <1>1, <1>2, NamesStay
<1>4. s # "runtime"
  BY DEF Later
<1> QED BY <1>1, <1>2, <1>3, <1>4, OnlyGoesOn

\* An early step that opens one part and defers its cleanup.
LEMMA EarlyPushes ==
    ASSUME StartupInv, Rest, NEW s, NEW t, stage = s,
           NEW x \in {"logger", "tracer", "encryptor", "audit", "rotator", "bus", "memory"},
           NEW parts, parts = IF x = "rotator" THEN {} ELSE {x}, Opens(parts, <<x>>, t),
           s \in Building \ (Later \cup {"agent"}), t \in Building \ Later, Reached[s] < Depth[x], Depth[x] <= Reached[t],
           x = "encryptor" => IsOn("encryption") /\ cfg.passkey, StepsDone'
    PROVE  StartupInv'
<1>1. /\ stage' = t /\ outcome' = outcome /\ cleanups' = cleanups \o <<x>>
      /\ IF x = "rotator" THEN up' = up ELSE up' = up \cup {x}
  BY DEF Opens
<1>2. owner' = owner /\ conns' = conns /\ up \subseteq up' /\ UNCHANGED <<cfg, turn, curator, chans>>
  BY <1>1 DEF Rest
<1>3. NamesAreKept'
  BY <1>1, <1>2, NamesStay
<1>4. s # "runtime"
  BY DEF Later
<1> QED BY <1>1, <1>2, <1>3, <1>4, PushesKeep

\* The logger.
LEMMA StartLoggerKeeps ==
    ASSUME StartupInv, StartLogger
    PROVE  StartupInv'
<1>1. /\ stage = "logger" /\ Rest /\ "logger" \in Building \ (Later \cup {"agent"}) /\ "tracer" \in Building \ Later
      /\ stage \in Building \ {"runtime"}
      /\ Reached["logger"] <= Reached["tracer"] /\ Reached["logger"] < Depth["logger"] /\ Depth["logger"] <= Reached["tracer"]
  BY ReachedIs, DepthIs DEF StartLogger, Building, Later
<1>2. \/ Fails
      \/ Opens({"logger"}, <<"logger">>, "tracer")
  BY DEF StartLogger, Optional, Opens, Skips
<1>3. CASE Fails
  BY <1>1, <1>3, FailsIs
<1>4. CASE Opens({"logger"}, <<"logger">>, "tracer")
  <2>1. StepsDone'
    BY <1>1, <1>4 DEF StartupInv, StepsDone, Later, Rest, IsOn, Opens
  <2>2. PICK parts, x : x = "logger" /\ parts = IF x = "rotator" THEN {} ELSE {x}
    OBVIOUS
  <2>3. Opens(parts, <<x>>, "tracer")
    BY <1>4, <2>2
  <2> QED BY <1>1, <1>4, <2>1, <2>2, <2>3, EarlyPushes
<1> QED BY <1>2, <1>3, <1>4

\* The tracer.
LEMMA StartTracerKeeps ==
    ASSUME StartupInv, StartTracer
    PROVE  StartupInv'
<1>1. /\ stage = "tracer" /\ Rest /\ "tracer" \in Building \ (Later \cup {"agent"}) /\ "sandbox" \in Building \ Later
      /\ stage \in Building \ {"runtime"}
      /\ Reached["tracer"] <= Reached["sandbox"] /\ Reached["tracer"] < Depth["tracer"] /\ Depth["tracer"] <= Reached["sandbox"]
  BY ReachedIs, DepthIs DEF StartTracer, Building, Later
<1>2. \/ Fails
      \/ Opens({"tracer"}, <<"tracer">>, "sandbox")
  BY DEF StartTracer, Optional, Opens, Skips
<1>3. CASE Fails
  BY <1>1, <1>3, FailsIs
<1>4. CASE Opens({"tracer"}, <<"tracer">>, "sandbox")
  <2>1. StepsDone'
    BY <1>1, <1>4 DEF StartupInv, StepsDone, Later, Rest, IsOn, Opens
  <2>2. PICK parts, x : x = "tracer" /\ parts = IF x = "rotator" THEN {} ELSE {x}
    OBVIOUS
  <2>3. Opens(parts, <<x>>, "sandbox")
    BY <1>4, <2>2
  <2> QED BY <1>1, <1>4, <2>1, <2>2, <2>3, EarlyPushes
<1> QED BY <1>2, <1>3, <1>4

\* The sandbox.
LEMMA NewSandboxKeeps ==
    ASSUME StartupInv, NewSandbox
    PROVE  StartupInv'
<1>1. /\ stage = "sandbox" /\ Rest /\ "sandbox" \in Building \ (Later \cup {"agent"}) /\ "encryption" \in Building \ Later
      /\ stage \in Building \ {"runtime"}
      /\ Reached["sandbox"] <= Reached["encryption"]
  BY ReachedIs, DepthIs DEF NewSandbox, Building, Later
<1>2. \/ Fails
      \/ Skips("encryption")
  BY DEF NewSandbox, Optional, Opens, Skips
<1>3. CASE Fails
  BY <1>1, <1>3, FailsIs
<1>5. CASE Skips("encryption")
  <2>1. StepsDone'
    BY <1>1, <1>5 DEF StartupInv, StepsDone, Later, Rest, IsOn, Skips, Opens
  <2> QED BY <1>1, <1>5, <2>1, EarlySkips
<1> QED BY <1>2, <1>3, <1>5

\* The encryptor.
LEMMA NewEncryptorKeeps ==
    ASSUME StartupInv, NewEncryptor
    PROVE  StartupInv'
<1>1. /\ stage = "encryption" /\ Rest /\ "encryption" \in Building \ (Later \cup {"agent"}) /\ "audit" \in Building \ Later
      /\ stage \in Building \ {"runtime"}
      /\ Reached["encryption"] <= Reached["audit"] /\ Reached["encryption"] < Depth["encryptor"] /\ Depth["encryptor"] <= Reached["audit"]
  BY ReachedIs, DepthIs DEF NewEncryptor, Building, Later
<1>2. \/ Fails
      \/ Opens({"encryptor"}, <<"encryptor">>, "audit") /\ (IsOn("encryption") /\ cfg.passkey)
      \/ Skips("audit") /\ ~((IsOn("encryption") /\ cfg.passkey))
  BY DEF NewEncryptor, Optional, Opens, Skips
<1>3. CASE Fails
  BY <1>1, <1>3, FailsIs
<1>4. CASE Opens({"encryptor"}, <<"encryptor">>, "audit") /\ (IsOn("encryption") /\ cfg.passkey)
  <2>1. StepsDone'
    BY <1>1, <1>4 DEF StartupInv, StepsDone, Later, Rest, IsOn, Opens
  <2>2. PICK parts, x : x = "encryptor" /\ parts = IF x = "rotator" THEN {} ELSE {x}
    OBVIOUS
  <2>3. Opens(parts, <<x>>, "audit")
    BY <1>4, <2>2
  <2> QED BY <1>1, <1>4, <2>1, <2>2, <2>3, EarlyPushes
<1>5. CASE Skips("audit") /\ ~((IsOn("encryption") /\ cfg.passkey))
  <2>1. StepsDone'
    BY <1>1, <1>5 DEF StartupInv, StepsDone, Later, Rest, IsOn, Skips, Opens
  <2> QED BY <1>1, <1>5, <2>1, EarlySkips
<1> QED BY <1>2, <1>3, <1>4, <1>5

\* The audit log.
LEMMA NewAuditLoggerKeeps ==
    ASSUME StartupInv, NewAuditLogger
    PROVE  StartupInv'
<1>1. /\ stage = "audit" /\ Rest /\ "audit" \in Building \ (Later \cup {"agent"}) /\ "scanning" \in Building \ Later
      /\ stage \in Building \ {"runtime"}
      /\ Reached["audit"] <= Reached["scanning"] /\ Reached["audit"] < Depth["audit"] /\ Depth["audit"] <= Reached["scanning"]
  BY ReachedIs, DepthIs DEF NewAuditLogger, Building, Later
<1>2. \/ Fails
      \/ Opens({"audit"}, <<"audit">>, "scanning") /\ IsOn("audit")
      \/ Skips("scanning") /\ ~(IsOn("audit"))
      \/ stage' = "unwind" /\ outcome' = "aborted" /\ UNCHANGED cleanups /\ up' = up \cup {"audit"} /\ IsOn("retention")
  BY DEF NewAuditLogger, Optional, Opens, Skips
<1>3. CASE Fails
  BY <1>1, <1>3, FailsIs
<1>4. CASE Opens({"audit"}, <<"audit">>, "scanning") /\ IsOn("audit")
  <2>1. StepsDone'
    BY <1>1, <1>4 DEF StartupInv, StepsDone, Later, Rest, IsOn, Opens
  <2>2. PICK parts, x : x = "audit" /\ parts = IF x = "rotator" THEN {} ELSE {x}
    OBVIOUS
  <2>3. Opens(parts, <<x>>, "scanning")
    BY <1>4, <2>2
  <2> QED BY <1>1, <1>4, <2>1, <2>2, <2>3, EarlyPushes
<1>5. CASE Skips("scanning") /\ ~(IsOn("audit"))
  <2>1. StepsDone'
    BY <1>1, <1>5 DEF StartupInv, StepsDone, Later, Rest, IsOn, Skips, Opens
  <2> QED BY <1>1, <1>5, <2>1, EarlySkips
<1>6. CASE stage' = "unwind" /\ outcome' = "aborted" /\ UNCHANGED cleanups /\ up' = up \cup {"audit"} /\ IsOn("retention")
  BY <1>1, <1>6, FailsKeeps DEF Rest
<1> QED BY <1>2, <1>3, <1>4, <1>5, <1>6

\* The secret scanner.
LEMMA NewSecretScannerKeeps ==
    ASSUME StartupInv, NewSecretScanner
    PROVE  StartupInv'
<1>1. /\ stage = "scanning" /\ Rest /\ "scanning" \in Building \ (Later \cup {"agent"}) /\ "rotation" \in Building \ Later
      /\ stage \in Building \ {"runtime"}
      /\ Reached["scanning"] <= Reached["rotation"]
  BY ReachedIs, DepthIs DEF NewSecretScanner, Building, Later
<1>2. \/ Fails
      \/ Skips("rotation")
  BY DEF NewSecretScanner, Optional, Opens, Skips
<1>3. CASE Fails
  BY <1>1, <1>3, FailsIs
<1>5. CASE Skips("rotation")
  <2>1. StepsDone'
    BY <1>1, <1>5 DEF StartupInv, StepsDone, Later, Rest, IsOn, Skips, Opens
  <2> QED BY <1>1, <1>5, <2>1, EarlySkips
<1> QED BY <1>2, <1>3, <1>5

\* What was deferred stays deferred while the stack grows.
LEMMA PushedStays ==
    ASSUME StartupInv, NEW x \in Cleanup, cleanups' = cleanups \o <<x>>
    PROVE  \A y : Deferred(y) \/ y = x => Deferred(y)'
<1>1. PICK c, d, n : c = cleanups /\ d = cleanups' /\ n = Len(cleanups)
  OBVIOUS
<1>2. c \in Seq(Cleanup) /\ n \in Nat /\ DOMAIN c = 1 .. n
  BY <1>1, LenProperties DEF StartupInv, StartupTypeOK
<1>3. d = Append(c, x)
  BY <1>1, <1>2, AppendIsConcat
<1>4. d \in Seq(Cleanup) /\ Len(d) = n + 1 /\ d[n + 1] = x /\ \A i \in 1 .. n : d[i] = c[i]
  BY <1>1, <1>2, <1>3, AppendProperties
<1>5. DOMAIN d = 1 .. (n + 1) /\ 1 .. (n + 1) = 1 .. n \cup {n + 1}
  BY <1>2, <1>4, LenProperties
<1> QED BY <1>1, <1>2, <1>4, <1>5 DEF Deferred

\* What was deferred stays deferred when nothing is added.
LEMMA StoodStays ==
    ASSUME StartupInv, cleanups' = cleanups \o <<>>
    PROVE  \A y : Deferred(y) => Deferred(y)'
<1>1. cleanups' = cleanups
  BY ConcatEmptySeq DEF StartupInv, StartupTypeOK
<1> QED BY <1>1 DEF Deferred

\* The key rotator.
LEMMA NewKeyRotatorKeeps ==
    ASSUME StartupInv, NewKeyRotator
    PROVE  StartupInv'
<1>1. /\ stage = "rotation" /\ Rest /\ "rotation" \in Building \ (Later \cup {"agent"}) /\ "llm" \in Building \ Later
      /\ stage \in Building \ {"runtime"} /\ "rotator" \in Cleanup
      /\ Reached["rotation"] <= Reached["llm"] /\ Reached["rotation"] < Depth["rotator"] /\ Depth["rotator"] <= Reached["llm"]
  BY ReachedIs, DepthIs DEF NewKeyRotator, Building, Later
<1>2. \/ Fails
      \/ Opens({}, <<"rotator">>, "llm")
      \/ Skips("llm") /\ ~(IsOn("rotation") /\ "encryptor" \in up)
  BY DEF NewKeyRotator
<1>3. CASE Fails
  BY <1>1, <1>3, FailsIs
<1>4. CASE Opens({}, <<"rotator">>, "llm")
  <2>0. Deferred("rotator")'
    BY <1>1, <1>4, PushedStays DEF Opens
  <2>1. StepsDone'
    BY <1>1, <1>4, <2>0 DEF StartupInv, StepsDone, Later, Rest, IsOn, Opens
  <2>2. PICK parts, x : x = "rotator" /\ parts = IF x = "rotator" THEN {} ELSE {x}
    OBVIOUS
  <2>3. Opens(parts, <<x>>, "llm")
    BY <1>4, <2>2
  <2> QED BY <1>1, <1>4, <2>1, <2>2, <2>3, EarlyPushes
<1>5. CASE Skips("llm") /\ ~(IsOn("rotation") /\ "encryptor" \in up)
  <2>1. StepsDone'
    BY <1>1, <1>5 DEF StartupInv, StepsDone, Later, Rest, IsOn, Skips, Opens
  <2> QED BY <1>1, <1>5, <2>1, EarlySkips
<1> QED BY <1>2, <1>3, <1>4, <1>5

\* The provider and the event bus.
LEMMA initLLMKeeps ==
    ASSUME StartupInv, initLLM
    PROVE  StartupInv'
<1>1. /\ stage = "llm" /\ Rest /\ "llm" \in Building \ (Later \cup {"agent"}) /\ "memory" \in Building \ Later
      /\ stage \in Building \ {"runtime"} /\ "bus" \in Cleanup
      /\ Reached["llm"] < Depth["bus"] /\ Depth["bus"] <= Reached["memory"]
  BY ReachedIs, DepthIs DEF initLLM, Building, Later
<1>2. Opens({"bus"}, <<"bus">>, "memory") \/ Fails
  BY DEF initLLM
<1>3. CASE Fails
  BY <1>1, <1>3, FailsIs
<1>4. CASE Opens({"bus"}, <<"bus">>, "memory")
  <2>0. Deferred("rotator") => Deferred("rotator")'
    BY <1>1, <1>4, PushedStays DEF Opens
  <2>1. StepsDone'
    BY <1>1, <1>4, <2>0 DEF StartupInv, StepsDone, Later, Rest, IsOn, Opens
  <2>2. PICK parts, x : x = "bus" /\ parts = IF x = "rotator" THEN {} ELSE {x}
    OBVIOUS
  <2>3. Opens(parts, <<x>>, "memory")
    BY <1>4, <2>2
  <2> QED BY <1>1, <1>4, <2>1, <2>2, <2>3, EarlyPushes
<1> QED BY <1>2, <1>3, <1>4

\* The memory, which only the vector store has to close.
LEMMA initMemoryKeeps ==
    ASSUME StartupInv, initMemory
    PROVE  StartupInv'
<1>1. /\ stage = "memory" /\ Rest /\ "memory" \in Building \ (Later \cup {"agent"}) /\ "agent" \in Building \ Later
      /\ stage \in Building \ {"runtime"} /\ "memory" \in Cleanup
      /\ Reached["memory"] <= Reached["agent"] /\ Reached["memory"] < Depth["memory"] /\ Depth["memory"] <= Reached["agent"]
  BY ReachedIs, DepthIs DEF initMemory, Building, Later
<1>2. \/ Opens({"memory"}, <<"memory">>, "agent")
      \/ Opens({"memory"}, <<>>, "agent") /\ ~IsOn("vector")
      \/ Fails
  BY DEF initMemory
<1>3. CASE Fails
  BY <1>1, <1>3, FailsIs
<1>4. CASE Opens({"memory"}, <<"memory">>, "agent")
  <2>0. Deferred("rotator") => Deferred("rotator")'
    BY <1>1, <1>4, PushedStays DEF Opens
  <2>1. StepsDone'
    BY <1>1, <1>4, <2>0 DEF StartupInv, StepsDone, Later, Rest, IsOn, Opens
  <2>2. PICK parts, x : x = "memory" /\ parts = IF x = "rotator" THEN {} ELSE {x}
    OBVIOUS
  <2>3. Opens(parts, <<x>>, "agent")
    BY <1>4, <2>2
  <2> QED BY <1>1, <1>4, <2>1, <2>2, <2>3, EarlyPushes
<1>5. CASE Opens({"memory"}, <<>>, "agent") /\ ~IsOn("vector")
  <2>0. Deferred("rotator") => Deferred("rotator")'
    BY <1>1, <1>5, StoodStays DEF Opens
  <2>1. StepsDone'
    BY <1>1, <1>5, <2>0 DEF StartupInv, StepsDone, Later, Rest, IsOn, Opens
  <2>2. PICK parts : parts = {"memory"}
    OBVIOUS
  <2>3. /\ UNCHANGED <<cfg, turn, curator, outcome, chans, owner, conns>>
        /\ up' = up \cup parts /\ stage' = "agent" /\ cleanups' = cleanups \o <<>>
    BY <1>1, <1>5, <2>2 DEF Opens, Rest
  <2>4. NamesAreKept'
    BY <1>1, <2>3, NamesStay
  <2>5. /\ parts \subseteq Abandoned \cup {"memory", "processes", "redis", "rotator"}
        /\ "redis" \notin parts /\ "processes" \notin parts /\ "rotator" \notin parts
    BY <2>2
  <2> QED BY <1>1, <1>5, <2>1, <2>3, <2>4, <2>5, ChansStay, SkipsKeep
<1> QED BY <1>2, <1>3, <1>4, <1>5

-----------------------------------------------------------------------------
(* From the tools on *)

\* A step after the memory is open, which defers nothing.
LEMMA LaterKeeps ==
    ASSUME StartupInv, UNCHANGED <<cfg, turn, curator, outcome>>,
           chans' = [i \in DOMAIN chans' |-> [type |-> chans'[i].type, is |-> chans'[i].is]],
           NEW parts, up' = up \cup parts, stage \in ({"agent"} \cup Later) \ {"runtime"}, stage' \in Later,
           cleanups' = cleanups \o <<>>,
           parts \subseteq Abandoned \cup {"processes", "redis", "rotator"},
           "redis" \in parts => stage' = "runtime",
           "rotator" \in parts => IsOn("rotation") /\ "encryptor" \in up,
           ShellIsBuiltin', conns' # {} => "mcp" \in up'
    PROVE  StartupInv'
<1>1. /\ stage \in Building \ {"runtime"} /\ stage' \in Building /\ Reached[stage] <= Reached[stage']
      /\ "memory" \notin parts
  BY ReachedIs DEF Building, Later, Abandoned
<1>2. "bus" \in up /\ (IsOn("rotation") /\ "encryptor" \in up => Deferred("rotator"))
  BY DEF StartupInv, StepsDone
<1>3. NamesAreKept'
  BY DEF NamesAreKept, Later
<1>4. "encryptor" \notin parts
  BY DEF Abandoned
<1>5. \A y : Deferred(y) => Deferred(y)'
  BY StoodStays
<1>6. StepsDone'
  BY <1>2, <1>4, <1>5 DEF StartupInv, StepsDone, Later, IsOn
<1> QED BY <1>1, <1>2, <1>3, <1>6, SkipsKeep

\* The builtin tools keep their names whoever registers afterwards.
LEMMA Registers ==
    ASSUME ShellIsBuiltin, NEW names, NEW who, RegisterTool(names, who)
    PROVE  ShellIsBuiltin'
BY DEF ShellIsBuiltin, RegisterTool

\* A later step that opens what need not be closed, or that its cleanup will close.
LEMMA LaterOpens ==
    ASSUME StartupInv, UNCHANGED <<cfg, turn, curator>>,
           chans' = [i \in DOMAIN chans' |-> [type |-> chans'[i].type, is |-> chans'[i].is]],
           NEW parts, NEW next \in Later, Opens(parts, <<>>, next), stage \in ({"agent"} \cup Later) \ {"runtime"},
           parts \subseteq Abandoned \cup {"processes", "redis", "rotator"},
           "redis" \in parts => next = "runtime",
           "rotator" \in parts => IsOn("rotation") /\ "encryptor" \in up,
           ShellIsBuiltin', conns' # {} => "mcp" \in up \cup parts
    PROVE  StartupInv'
<1>1. up' = up \cup parts /\ stage' = next /\ outcome' = outcome /\ cleanups' = cleanups \o <<>>
  BY DEF Opens
<1> QED BY <1>1, LaterKeeps

\* A later step that is skipped.
LEMMA LaterSkips ==
    ASSUME StartupInv, UNCHANGED <<cfg, turn, curator>>,
           chans' = [i \in DOMAIN chans' |-> [type |-> chans'[i].type, is |-> chans'[i].is]],
           NEW next \in Later, Skips(next), stage \in ({"agent"} \cup Later) \ {"runtime"},
           ShellIsBuiltin', conns' # {} => "mcp" \in up
    PROVE  StartupInv'
<1>1. PICK none : none = {}
  OBVIOUS
<1>2. /\ Opens(none, <<>>, next) /\ none \subseteq Abandoned \cup {"processes", "redis", "rotator"}
      /\ "redis" \notin none /\ "rotator" \notin none /\ (conns' # {} => "mcp" \in up \cup none)
  BY <1>1 DEF Skips
<1> QED BY <1>2, LaterOpens

\* What the later steps find.
LEMMA LaterFinds ==
    ASSUME StartupInv, stage \in Later
    PROVE  ShellIsBuiltin /\ (conns # {} => "mcp" \in up)
BY DEF StartupInv, NamesAreKept

\* The agent and the builtin tools.
LEMMA initAgentKeeps ==
    ASSUME StartupInv, initAgent
    PROVE  StartupInv'
<1>1. /\ stage \in ({"agent"} \cup Later) \ {"runtime"} /\ "mcp" \in Later /\ UNCHANGED <<cfg, conns, turn, curator, chans>>
      /\ owner = <<>> /\ (conns # {} => "mcp" \in up)
  BY DEF initAgent, StartupInv, NamesAreKept, Building, Later
<1>2. PICK missing \in SUBSET {f \in MayBeMissing : Has(f)}, browser \in {b \in BOOLEAN : b => Has("browser")} :
        /\ RegisterTool({"filesystem", "shell", "web", "web_search"}
                          \cup {ToolOf[f] : f \in {g \in DOMAIN ToolOf : Has(g)} \ missing}
                          \cup (IF browser THEN {"browser"} ELSE {}), "builtin")
        /\ Opens((IF Has("process") THEN {"processes"} ELSE {}) \cup (IF browser THEN {"browser"} ELSE {}), <<>>, "mcp")
  BY DEF initAgent
<1>3. PICK names, parts :
        /\ names = {"filesystem", "shell", "web", "web_search"}
                     \cup {ToolOf[f] : f \in {g \in DOMAIN ToolOf : Has(g)} \ missing}
                     \cup (IF browser THEN {"browser"} ELSE {})
        /\ parts = (IF Has("process") THEN {"processes"} ELSE {}) \cup (IF browser THEN {"browser"} ELSE {})
  OBVIOUS
<1>4. "filesystem" \in names /\ "shell" \in names
  BY <1>3
<1>5. ShellIsBuiltin'
  <2>1. RegisterTool(names, "builtin")
    BY <1>2, <1>3
  <2>2. DOMAIN owner = {}
    BY <1>1
  <2> QED BY <2>1, <2>2, <1>4 DEF ShellIsBuiltin, RegisterTool
<1>6. /\ parts \subseteq Abandoned \cup {"processes", "redis", "rotator"} /\ "redis" \notin parts /\ "rotator" \notin parts
      /\ Opens(parts, <<>>, "mcp") /\ (conns' # {} => "mcp" \in up \cup parts)
  BY <1>1, <1>2, <1>3 DEF Abandoned
<1> QED BY <1>1, <1>5, <1>6, ChansStay, LaterOpens

\* The MCP bridge and its servers.
LEMMA NewMCPBridgeKeeps ==
    ASSUME StartupInv, NewMCPBridge
    PROVE  StartupInv'
<1>1. /\ stage = "mcp" /\ stage \in ({"agent"} \cup Later) \ {"runtime"} /\ "skills" \in Later
      /\ UNCHANGED <<cfg, turn, curator, chans>>
      /\ ShellIsBuiltin /\ (conns # {} => "mcp" \in up)
  BY LaterFinds DEF NewMCPBridge, Later
<1>2. \/ conns' = {} /\ UNCHANGED owner /\ Skips("skills")
      \/ /\ \E listed \in SUBSET (1 .. Len(cfg.servers)) \ {{}} : discoverTools(listed)
         /\ Opens({"mcp"}, <<>>, "skills")
      \/ Skips("skills") /\ UNCHANGED <<conns, owner>>
  <2>1. ASSUME NEW failing \in 1 .. Len(cfg.servers)
        PROVE  connectServer(failing) = {}
    <3>1. Len(cfg.servers) \in Nat
      BY StartupConstants DEF StartupInv, StartupTypeOK
    <3>2. failing # 0
      BY <3>1
    <3> QED BY <3>2 DEF connectServer
  <2> QED BY <2>1 DEF NewMCPBridge
<1>3. CASE conns' = {} /\ UNCHANGED owner /\ Skips("skills")
  <2>1. ShellIsBuiltin'
    BY <1>1, <1>3 DEF ShellIsBuiltin
  <2> QED BY <1>1, <1>3, <2>1, ChansStay, LaterSkips
<1>4. CASE /\ \E listed \in SUBSET (1 .. Len(cfg.servers)) \ {{}} : discoverTools(listed)
           /\ Opens({"mcp"}, <<>>, "skills")
  <2>1. PICK listed \in SUBSET (1 .. Len(cfg.servers)) \ {{}} : discoverTools(listed)
    BY <1>4
  <2>2. PICK new, given : owner' = [n \in DOMAIN owner \cup new |-> IF n \in DOMAIN owner THEN owner[n] ELSE given[n]]
    <3>1. PICK new : new = UNION {cfg.servers[i].tools : i \in listed}
      OBVIOUS
    <3>2. PICK given : given = [n \in DOMAIN owner \cup new |->
                                  cfg.servers[CHOOSE i \in listed : n \in cfg.servers[i].tools
                                        /\ \A j \in listed : n \in cfg.servers[j].tools => i <= j].id]
      OBVIOUS
    <3>3. owner' = [n \in DOMAIN owner \cup new |-> IF n \in DOMAIN owner THEN owner[n] ELSE
                                  cfg.servers[CHOOSE i \in listed : n \in cfg.servers[i].tools
                                        /\ \A j \in listed : n \in cfg.servers[j].tools => i <= j].id]
      BY <2>1, <3>1 DEF discoverTools
    <3>4. owner' = [n \in DOMAIN owner \cup new |-> IF n \in DOMAIN owner THEN owner[n] ELSE given[n]]
      BY <3>2, <3>3
    <3> QED BY <3>4
  <2>3. ShellIsBuiltin'
    BY <1>1, <2>2 DEF ShellIsBuiltin
  <2>4. PICK parts : parts = {"mcp"}
    OBVIOUS
  <2>5. /\ parts \subseteq Abandoned \cup {"processes", "redis", "rotator"} /\ "redis" \notin parts /\ "rotator" \notin parts
        /\ Opens(parts, <<>>, "skills") /\ "mcp" \in up \cup parts
    BY <1>4, <2>4 DEF Abandoned
  <2> QED BY <1>1, <2>3, <2>5, ChansStay, LaterOpens
<1>5. CASE Skips("skills") /\ UNCHANGED <<conns, owner>>
  <2>1. ShellIsBuiltin' /\ (conns' # {} => "mcp" \in up)
    BY <1>1, <1>5 DEF ShellIsBuiltin
  <2> QED BY <1>1, <1>5, <2>1, ChansStay, LaterSkips
<1> QED BY <1>2, <1>3, <1>4, <1>5

\* The skills.
LEMMA LoadSkillsKeeps ==
    ASSUME StartupInv, LoadSkills
    PROVE  StartupInv'
<1>1. /\ stage = "skills" /\ stage \in ({"agent"} \cup Later) \ {"runtime"} /\ "features" \in Later
      /\ UNCHANGED <<cfg, conns, turn, curator, chans>>
      /\ ShellIsBuiltin /\ (conns # {} => "mcp" \in up) /\ Skips("features")
  BY LaterFinds DEF LoadSkills, Later
<1>2. ShellIsBuiltin'
  <2>1. CASE owner' = owner
    BY <2>1, <1>1 DEF ShellIsBuiltin
  <2>2. CASE RegisterTool(cfg.skills, "skill")
    BY <2>2, <1>1, Registers
  <2> QED BY <2>1, <2>2 DEF LoadSkills
<1>3. conns' # {} => "mcp" \in up
  BY <1>1
<1> QED BY <1>1, <1>2, <1>3, ChansStay, LaterSkips

\* The features.
LEMMA initFeaturesKeeps ==
    ASSUME StartupInv, initFeatures
    PROVE  StartupInv'
<1>1. /\ stage = "features" /\ stage \in ({"agent"} \cup Later) \ {"runtime"} /\ "router" \in Later
      /\ UNCHANGED <<cfg, conns, turn, curator, chans>>
      /\ ShellIsBuiltin /\ (conns # {} => "mcp" \in up)
  BY LaterFinds DEF initFeatures, Later
<1>2. PICK names, parts :
        /\ names = (IF Has("nodes") THEN {"node_invoke", "node_list"} \cup (cfg.on \cap {"camera", "location"}) ELSE {})
        /\ parts = IF Has("nodes") THEN {"heartbeat"} ELSE {}
  OBVIOUS
<1>3. RegisterTool(names, "builtin") /\ Opens(parts, <<>>, "router")
  BY <1>2 DEF initFeatures
<1>4. ShellIsBuiltin'
  BY <1>1, <1>3, Registers
<1>5. /\ parts \subseteq Abandoned \cup {"processes", "redis", "rotator"} /\ "redis" \notin parts /\ "rotator" \notin parts
      /\ (conns' # {} => "mcp" \in up \cup parts)
  BY <1>1, <1>2 DEF Abandoned
<1> QED BY <1>1, <1>3, <1>4, <1>5, ChansStay, LaterOpens

\* The router.
LEMMA NewRouterKeeps ==
    ASSUME StartupInv, NewRouter
    PROVE  StartupInv'
<1>1. /\ stage = "router" /\ stage \in ({"agent"} \cup Later) \ {"runtime"} /\ "channels" \in Later
      /\ UNCHANGED <<cfg, conns, turn, curator, chans>>
      /\ ShellIsBuiltin /\ (conns # {} => "mcp" \in up)
  BY LaterFinds DEF NewRouter, Later
<1>2. ShellIsBuiltin'
  <2>1. CASE owner' = owner
    BY <2>1, <1>1 DEF ShellIsBuiltin
  <2>2. CASE initMultiAgent
    <3>1. PICK names : names = IF Len(cfg.agents) > 1 THEN {"delegate"} ELSE {}
      OBVIOUS
    <3>2. RegisterTool(names, "builtin")
      BY <2>2, <3>1 DEF initMultiAgent
    <3> QED BY <3>2, <1>1, Registers
  <2> QED BY <2>1, <2>2 DEF NewRouter
<1>3. PICK local \in {b \in BOOLEAN : b => IsOn("offline")} :
        Opens((IF local THEN {"offline"} ELSE {})
                \cup (IF IsOn("rotation") /\ "encryptor" \in up THEN {"rotator"} ELSE {}), <<>>, "channels")
  BY DEF NewRouter
<1>4. PICK parts : parts = (IF local THEN {"offline"} ELSE {})
                             \cup (IF IsOn("rotation") /\ "encryptor" \in up THEN {"rotator"} ELSE {})
  OBVIOUS
<1>5. /\ parts \subseteq Abandoned \cup {"processes", "redis", "rotator"} /\ "redis" \notin parts
      /\ ("rotator" \in parts => IsOn("rotation") /\ "encryptor" \in up)
      /\ Opens(parts, <<>>, "channels") /\ (conns' # {} => "mcp" \in up \cup parts)
  BY <1>1, <1>3, <1>4 DEF Abandoned
<1> QED BY <1>1, <1>2, <1>5, ChansStay, LaterOpens

\* The channels that are configured.
LEMMA buildChannelsKeeps ==
    ASSUME StartupInv, buildChannels
    PROVE  StartupInv'
<1>1. /\ stage = "channels" /\ stage \in ({"agent"} \cup Later) \ {"runtime"} /\ "cron" \in Later
      /\ stage \in Building \ {"runtime"}
      /\ UNCHANGED <<cfg, conns, owner, agents, turn, curator>>
      /\ ShellIsBuiltin /\ (conns # {} => "mcp" \in up)
  BY LaterFinds DEF buildChannels, Later, Building
<1>2. \/ Fails /\ chans' = chans
      \/ Skips("cron") /\ \E made : chans' = [i \in DOMAIN made |-> [type |-> made[i].type, is |-> "new"]]
  <2>1. PICK kept : kept = SelectSeq(cfg.entries, Kept)
    OBVIOUS
  <2>2. PICK made : made = IF kept = <<>> THEN <<[type |-> "cli", complete |-> TRUE]>> ELSE kept
    OBVIOUS
  <2>3. \/ Fails /\ chans' = chans
        \/ Skips("cron") /\ chans' = [i \in DOMAIN made |-> [type |-> made[i].type, is |-> "new"]]
    BY <2>1, <2>2 DEF buildChannels
  <2> QED BY <2>3
<1>3. CASE Fails /\ chans' = chans
  BY <1>1, <1>3, FailsIs DEF Rest
<1>4. CASE Skips("cron") /\ \E made : chans' = [i \in DOMAIN made |-> [type |-> made[i].type, is |-> "new"]]
  <2>1. ShellIsBuiltin' /\ (conns' # {} => "mcp" \in up)
    BY <1>1 DEF ShellIsBuiltin
  <2>2. PICK made : chans' = [i \in DOMAIN made |-> [type |-> made[i].type, is |-> "new"]]
    BY <1>4
  <2>3. chans' = [i \in DOMAIN chans' |-> [type |-> chans'[i].type, is |-> chans'[i].is]]
    BY <2>2
  <2> QED BY <1>1, <1>4, <2>1, <2>3, LaterSkips
<1> QED BY <1>2, <1>3, <1>4

\* A manager with a tool of its own.
LEMMA WithToolKeeps ==
    ASSUME StartupInv, NEW f, NEW tool, NEW parts, NEW next \in Later, WithTool(f, tool, parts, next),
           parts \subseteq Abandoned, stage \in Later \ {"runtime"}
    PROVE  StartupInv'
<1>1. /\ stage \in ({"agent"} \cup Later) \ {"runtime"} /\ stage \in Building \ {"runtime"}
      /\ UNCHANGED <<cfg, conns, agents, turn, curator, chans>>
      /\ ShellIsBuiltin /\ (conns # {} => "mcp" \in up)
  BY LaterFinds DEF WithTool, Later, Building
<1>2. \/ Opens(parts, <<>>, next) /\ RegisterTool({tool}, "builtin")
      \/ Fails /\ UNCHANGED owner
      \/ Skips(next) /\ UNCHANGED owner
  BY DEF WithTool
<1>3. CASE Opens(parts, <<>>, next) /\ RegisterTool({tool}, "builtin")
  <2>1. ShellIsBuiltin'
    BY <1>1, <1>3, Registers
  <2>2. /\ parts \subseteq Abandoned \cup {"processes", "redis", "rotator"} /\ "redis" \notin parts /\ "rotator" \notin parts
        /\ (conns' # {} => "mcp" \in up \cup parts)
    BY <1>1 DEF Abandoned
  <2> QED BY <1>1, <1>3, <2>1, <2>2, ChansStay, LaterOpens
<1>4. CASE Fails /\ UNCHANGED owner
  BY <1>1, <1>4, FailsIs DEF Rest
<1>5. CASE Skips(next) /\ UNCHANGED owner
  <2>1. ShellIsBuiltin' /\ (conns' # {} => "mcp" \in up)
    BY <1>1, <1>5 DEF ShellIsBuiltin
  <2> QED BY <1>1, <1>5, <2>1, ChansStay, LaterSkips
<1> QED BY <1>2, <1>3, <1>4, <1>5

\* The cron manager.
LEMMA NewCronKeeps ==
    ASSUME StartupInv, NewCron
    PROVE  StartupInv'
<1>1. "workflow" \in Later /\ "cron" \in Later \ {"runtime"} /\ stage = "cron"
  BY DEF Later, NewCron
<1>2. PICK parts : parts = {}
  OBVIOUS
<1>3. WithTool("cron", "cron", parts, "workflow") /\ parts \subseteq Abandoned
  BY <1>2 DEF NewCron, Abandoned
<1> QED BY <1>1, <1>3, WithToolKeeps

\* The workflow engine.
LEMMA NewWorkflowKeeps ==
    ASSUME StartupInv, NewWorkflow
    PROVE  StartupInv'
<1>1. "voice" \in Later /\ "workflow" \in Later \ {"runtime"} /\ stage = "workflow"
  BY DEF Later, NewWorkflow
<1>2. PICK parts : parts = {}
  OBVIOUS
<1>3. WithTool("workflow", "workflow", parts, "voice") /\ parts \subseteq Abandoned
  BY <1>2 DEF NewWorkflow, Abandoned
<1> QED BY <1>1, <1>3, WithToolKeeps

\* The voice calls.
LEMMA NewVoiceKeeps ==
    ASSUME StartupInv, NewVoice
    PROVE  StartupInv'
<1>1. "tenants" \in Later /\ "voice" \in Later \ {"runtime"} /\ stage = "voice"
  BY DEF Later, NewVoice
<1>2. PICK parts : parts = {"voice"}
  OBVIOUS
<1>3. WithTool("voice", "voice_call", parts, "tenants") /\ parts \subseteq Abandoned
  BY <1>2 DEF NewVoice, Abandoned
<1> QED BY <1>1, <1>3, WithToolKeeps

\* The tenants.
LEMMA NewTenantsKeeps ==
    ASSUME StartupInv, NewTenants
    PROVE  StartupInv'
<1>1. /\ stage = "tenants" /\ stage \in ({"agent"} \cup Later) \ {"runtime"} /\ stage \in Building \ {"runtime"}
      /\ "cluster" \in Later /\ Rest /\ UNCHANGED <<cfg, conns, turn, curator, chans>>
      /\ ShellIsBuiltin /\ (conns # {} => "mcp" \in up)
  BY LaterFinds DEF NewTenants, Later, Building, Rest
<1>2. ShellIsBuiltin' /\ (conns' # {} => "mcp" \in up)
  BY <1>1 DEF ShellIsBuiltin, Rest
<1>3. Opens({"tenants"}, <<>>, "cluster") \/ Fails \/ Skips("cluster")
  BY DEF NewTenants, Optional
<1>4. CASE Opens({"tenants"}, <<>>, "cluster")
  <2>1. PICK parts : parts = {"tenants"}
    OBVIOUS
  <2>2. /\ parts \subseteq Abandoned \cup {"processes", "redis", "rotator"} /\ "rotator" \notin parts
        /\ ("redis" \in parts => "cluster" = "runtime") /\ Opens(parts, <<>>, "cluster")
        /\ (conns' # {} => "mcp" \in up \cup parts)
    BY <1>2, <1>4, <2>1 DEF Abandoned
  <2> QED BY <1>1, <1>2, <2>2, ChansStay, LaterOpens
<1>5. CASE Fails
  BY <1>1, <1>5, FailsIs
<1>6. CASE Skips("cluster")
  BY <1>1, <1>2, <1>6, ChansStay, LaterSkips
<1> QED BY <1>3, <1>4, <1>5, <1>6

\* The coordinator of the cluster.
LEMMA NewClusterKeeps ==
    ASSUME StartupInv, NewCluster
    PROVE  StartupInv'
<1>1. /\ stage = "cluster" /\ stage \in ({"agent"} \cup Later) \ {"runtime"} /\ stage \in Building \ {"runtime"}
      /\ "runtime" \in Later /\ Rest /\ UNCHANGED <<cfg, conns, turn, curator, chans>>
      /\ ShellIsBuiltin /\ (conns # {} => "mcp" \in up)
  BY LaterFinds DEF NewCluster, Later, Building, Rest
<1>2. ShellIsBuiltin' /\ (conns' # {} => "mcp" \in up)
  BY <1>1 DEF ShellIsBuiltin, Rest
<1>3. Opens({"redis"}, <<>>, "runtime") \/ Fails \/ Skips("runtime")
  BY DEF NewCluster, Optional
<1>4. CASE Opens({"redis"}, <<>>, "runtime")
  <2>1. PICK parts : parts = {"redis"}
    OBVIOUS
  <2>2. /\ parts \subseteq Abandoned \cup {"processes", "redis", "rotator"} /\ "rotator" \notin parts
        /\ ("redis" \in parts => "runtime" = "runtime") /\ Opens(parts, <<>>, "runtime")
        /\ (conns' # {} => "mcp" \in up \cup parts)
    BY <1>2, <1>4, <2>1 DEF Abandoned
  <2> QED BY <1>1, <1>2, <2>2, ChansStay, LaterOpens
<1>5. CASE Fails
  BY <1>1, <1>5, FailsIs
<1>6. CASE Skips("runtime")
  BY <1>1, <1>2, <1>6, ChansStay, LaterSkips
<1> QED BY <1>3, <1>4, <1>5, <1>6

\* The last step: everything that the cleanup closes is open, and the cleanup is deferred.
LEMMA initRuntimeKeeps ==
    ASSUME StartupInv, initRuntime
    PROVE  StartupInv'
<1>1. PICK parts, x :
        /\ parts = {"channels", "router"} \cup (IF IsOn("scheduler") \/ IsOn("cron") THEN {"scheduler"} ELSE {})
                                          \cup (IF IsOn("gateway") THEN {"gateway"} ELSE {})
        /\ x = "runtime"
  OBVIOUS
<1>2. /\ stage = "runtime" /\ Rest /\ stage \in Building \cap Later
      /\ up' = up \cup parts /\ cleanups' = cleanups \o <<x>> /\ stage' = "serve" /\ outcome' = outcome
  BY <1>1 DEF initRuntime, Opens, Building, Later
<1>3. x \in Cleanup /\ Reached["runtime"] < Depth[x] /\ Depth[x] <= Reached["serve"]
  <2>1. Reached["runtime"] = 7
    BY <1>2, ReachedIs
  <2> QED BY <2>1, <1>1, ReachedIs, DepthIs
<1>4. cleanups' \in Seq(Cleanup) /\ StackAscends' /\ \A y : Deferred(y)' <=> Deferred(y) \/ y = x
  <2>1. stage' \in Stages \ {"ended"}
    BY <1>2 DEF Stages, Building
  <2> QED BY <1>2, <1>3, <2>1, Pushed DEF StartupInv
<1>5. parts \subseteq {"channels", "router", "scheduler", "gateway"}
  BY <1>1
<1>6. parts \subseteq (Cleanup \cup Abandoned) \ {"runtime"} /\ \A p \in parts : Closes(p)'
  BY <1>1, <1>4, <1>5, DepthIs DEF Closes
<1>7. /\ (IsOn("audit") => "audit" \in up) /\ "bus" \in up /\ "memory" \in up
      /\ (IsOn("encryption") /\ cfg.passkey => "encryptor" \in up)
  BY <1>2 DEF StartupInv, StepsDone
<1>8. /\ \A p \in parts : Uses(p) \subseteq up'
      /\ Uses("channels") \cup Uses("rotator") \subseteq up'
  <2>1. \A p \in {"channels", "scheduler", "gateway"} : Uses(p) \subseteq up
    BY <1>7, UsesAre
  <2>2. Uses("router") = {} /\ Uses("rotator") \subseteq up
    BY <1>7, UsesAre
  <2> QED BY <2>1, <2>2, <1>2, <1>5
<1>9. StepsDone'
  <2>1. "channels" \in parts /\ "router" \in parts
    BY <1>1
  <2> QED BY <1>2, <1>7, <2>1 DEF StepsDone, Rest, IsOn, Later
<1>10. NamesAreKept'
  <2>1. owner' = owner /\ conns' = conns /\ up \subseteq up'
    BY <1>2 DEF Rest
  <2>2. stage \in Later /\ stage' \in Later \cup {"serve"}
    BY <1>2
  <2> QED BY <2>1, <2>2, NamesStay
<1>11. UNCHANGED <<cfg, turn, curator, chans>> /\ stage' \in Building \cup {"serve"} /\ "encryptor" \notin parts
  BY <1>2, <1>5 DEF Rest
<1>12. Deferred("runtime")'
  BY <1>1, <1>4
<1> QED BY <1>2, <1>4, <1>6, <1>8, <1>9, <1>10, <1>11, <1>12, ChansStay, OpensKeep

-----------------------------------------------------------------------------
(* Serving *)

\* While run() serves, or waits for what it has stopped.
LEMMA ServesKeep ==
    ASSUME StartupInv, UNCHANGED <<cfg, up, cleanups, conns, owner>>,
           \/ stage' = stage /\ outcome' = outcome
           \/ stage = "serve" /\ stage' = "unwind" /\ outcome' \in {"ok", "error"},
           turn' \in {"none", "running", "cut"}, curator' \in {"none", "counted", "late"},
           curator' = "counted" => "router" \in up, TurnsHaveChannels'
    PROVE  StartupInv'
<1>1. (\A f : IsOn(f)' <=> IsOn(f)) /\ (\A p : Uses(p)' = Uses(p))
  BY CfgStays
<1>2. (\A p : Closes(p)' <=> Closes(p)) /\ (\A y : Deferred(y)' <=> Deferred(y))
  BY DEF Closes, Deferred
<1>3. StartupTypeOK'
  BY DEF StartupInv, StartupTypeOK, Stages, Building
<1>4. StackAscends'
  <2>1. Reached[stage] <= Reached[stage'] /\ stage' \in Stages
    <3>1. stage \in Stages /\ stage' \in Stages
      BY <1>3 DEF StartupInv, StartupTypeOK
    <3>2. PICK r : r = Reached[stage]
      OBVIOUS
    <3>3. r \in Nat
      BY <3>1, <3>2, ReachedIsNat
    <3>4. CASE stage' = stage
      BY <3>1, <3>2, <3>3, <3>4
    <3>5. CASE stage = "serve" /\ stage' = "unwind"
      <4>1. Reached[stage] = 8 /\ Reached[stage'] = 14
        BY <3>5, ReachedIs
      <4> QED BY <3>1, <4>1
    <3> QED BY <3>4, <3>5
  <2>2. stage' = "ended" => cleanups = <<>>
    BY DEF StartupInv, StackAscends
  <2> QED BY <2>1, <2>2, Stood DEF StartupInv
<1>5. UpIsClosed'
  BY <1>1, <1>2 DEF UpIsClosed, StartupInv, StartupTypeOK, Building
<1>6. StepsDone'
  BY <1>1, <1>2 DEF StepsDone, StartupInv, Later
<1>7. UsesAreUp'
  BY <1>1 DEF UsesAreUp, StartupInv, StartupTypeOK
<1>8. NamesAreKept'
  BY DEF NamesAreKept, ShellIsBuiltin, StartupInv, Building, Later
<1> QED BY <1>3, <1>4, <1>5, <1>6, <1>7, <1>8 DEF StartupInv

\* What a new state of one channel leaves of the others.
LEMMA ChannelSet ==
    ASSUME StartupInv, NEW i \in DOMAIN chans, NEW s, chans' = [chans EXCEPT ![i].is = s]
    PROVE  /\ DOMAIN chans' = DOMAIN chans /\ chans'[i].is = s
           /\ \A j \in DOMAIN chans : j # i => chans'[j] = chans[j]
           /\ chans' = [j \in DOMAIN chans' |-> [type |-> chans'[j].type, is |-> chans'[j].is]]
<1>1. PICK c : c = [j \in DOMAIN chans |-> [type |-> chans[j].type, is |-> chans[j].is]]
  OBVIOUS
<1>2. chans = c
  BY <1>1 DEF StartupInv, TurnsHaveChannels
<1>3. chans' = [j \in DOMAIN c |-> IF j = i THEN [c[i] EXCEPT !.is = s] ELSE c[j]]
  BY <1>1, <1>2
<1>4. PICK d : d = [c[i] EXCEPT !.is = s]
  OBVIOUS
<1>5. d = [type |-> c[i].type, is |-> s]
  <2>1. c[i] = [type |-> chans[i].type, is |-> chans[i].is]
    BY <1>1
  <2> QED BY <2>1, <1>4
<1>6. chans' = [j \in DOMAIN c |-> IF j = i THEN d ELSE c[j]]
  BY <1>3, <1>4
<1>7. DOMAIN chans' = DOMAIN chans /\ chans'[i] = d /\ \A j \in DOMAIN chans : j # i => chans'[j] = chans[j]
  BY <1>2, <1>6
<1>8. \A j \in DOMAIN chans' : chans'[j] = [type |-> chans'[j].type, is |-> chans'[j].is]
  <2> SUFFICES ASSUME NEW j \in DOMAIN chans'
               PROVE  chans'[j] = [type |-> chans'[j].type, is |-> chans'[j].is]
    OBVIOUS
  <2>1. CASE j = i
    BY <2>1, <1>5, <1>7
  <2>2. CASE j # i
    <3>1. c[j] = [type |-> chans[j].type, is |-> chans[j].is]
      BY <1>1, <1>7
    <3> QED BY <3>1, <2>2, <1>2, <1>7
  <2> QED BY <2>1, <2>2
<1>9. chans' = [j \in DOMAIN chans' |-> chans'[j]]
  BY <1>6
<1> QED BY <1>5, <1>7, <1>8, <1>9

\* A channel runs until it ends or fails.
LEMMA RunChannelKeeps ==
    ASSUME StartupInv, NEW i \in DOMAIN chans, RunChannel(i)
    PROVE  StartupInv'
<1>1. /\ stage = "serve" /\ chans[i].is = "new" /\ UNCHANGED <<cfg, up, cleanups, conns, owner, agents, turn, curator>>
      /\ \/ chans' = [chans EXCEPT ![i].is = "up"] /\ UNCHANGED <<stage, outcome>>
         \/ /\ chans' = [chans EXCEPT ![i].is = "failed"]
            /\ IF DOMAIN chans = {i} THEN stage' = "unwind" /\ outcome' = "error" ELSE UNCHANGED <<stage, outcome>>
  BY DEF RunChannel
<1>2. PICK s \in {"up", "failed"} : chans' = [chans EXCEPT ![i].is = s]
  BY <1>1
<1>3. /\ DOMAIN chans' = DOMAIN chans /\ \A j \in DOMAIN chans : j # i => chans'[j] = chans[j]
      /\ chans' = [j \in DOMAIN chans' |-> [type |-> chans'[j].type, is |-> chans'[j].is]]
  BY <1>2, ChannelSet
<1>4. TurnsHaveChannels'
  <2> SUFFICES ASSUME turn' = "running"
               PROVE  stage' = "serve" /\ \E j \in DOMAIN chans' : chans'[j].is \in {"up", "quit"}
    BY <1>3 DEF TurnsHaveChannels
  <2>1. PICK j \in DOMAIN chans : chans[j].is \in {"up", "quit"}
    BY <1>1 DEF StartupInv, TurnsHaveChannels
  <2>2. j # i
    BY <1>1, <2>1
  <2>3. stage' = "serve"
    BY <1>1, <2>2
  <2> QED BY <1>3, <2>1, <2>2, <2>3
<1>5. /\ turn' \in {"none", "running", "cut"} /\ curator' \in {"none", "counted", "late"}
      /\ (curator' = "counted" => "router" \in up)
  BY <1>1 DEF StartupInv, StartupTypeOK, UsesAreUp
<1>6. \/ stage' = stage /\ outcome' = outcome
      \/ stage = "serve" /\ stage' = "unwind" /\ outcome' \in {"ok", "error"}
  BY <1>1
<1> QED BY <1>1, <1>4, <1>5, <1>6, ServesKeep

\* The terminal chat is quit.
LEMMA TuiQuitsKeeps ==
    ASSUME StartupInv, NEW i \in DOMAIN chans, TuiQuits(i)
    PROVE  StartupInv'
<1>1. /\ stage = "serve" /\ UNCHANGED <<cfg, up, cleanups, conns, owner, agents, turn, curator, stage, outcome>>
  BY DEF TuiQuits
<1>2. PICK s : s = "quit" /\ chans' = [chans EXCEPT ![i].is = s]
  BY DEF TuiQuits
<1>3. /\ DOMAIN chans' = DOMAIN chans /\ chans'[i].is = "quit"
      /\ chans' = [j \in DOMAIN chans' |-> [type |-> chans'[j].type, is |-> chans'[j].is]]
  BY <1>2, ChannelSet
<1>4. TurnsHaveChannels'
  BY <1>1, <1>3 DEF TurnsHaveChannels
<1>5. /\ turn' \in {"none", "running", "cut"} /\ curator' \in {"none", "counted", "late"}
      /\ (curator' = "counted" => "router" \in up)
  BY <1>1 DEF StartupInv, StartupTypeOK, UsesAreUp
<1> QED BY <1>1, <1>4, <1>5, ServesKeep

\* The turns and the curation that follows one.
LEMMA TurnsKeep ==
    ASSUME StartupInv, TurnStarts \/ TurnFinishes \/ CuratorEnds \/ Signal
    PROVE  StartupInv'
<1>1. UNCHANGED <<cfg, up, cleanups, conns, owner, chans>>
  BY DEF TurnStarts, TurnFinishes, CuratorEnds, Signal
<1>2. turn' \in {"none", "running", "cut"} /\ curator' \in {"none", "counted", "late"}
  BY DEF TurnStarts, TurnFinishes, CuratorEnds, Signal, StartupInv, StartupTypeOK
<1>3. \/ stage' = stage /\ outcome' = outcome
      \/ stage = "serve" /\ stage' = "unwind" /\ outcome' \in {"ok", "error"}
  BY DEF TurnStarts, TurnFinishes, CuratorEnds, Signal
<1>4. curator' = "counted" => "router" \in up
  BY DEF TurnStarts, TurnFinishes, CuratorEnds, Signal, StartupInv, UsesAreUp
<1>5. TurnsHaveChannels'
  <2>1. turn' = "running" => stage' = "serve" /\ \E i \in DOMAIN chans : chans[i].is \in {"up", "quit"}
    BY DEF TurnStarts, TurnFinishes, CuratorEnds, Signal, StartupInv, StartupTypeOK, TurnsHaveChannels
  <2> QED BY <1>1, <2>1 DEF StartupInv, TurnsHaveChannels
<1> QED BY <1>1, <1>2, <1>3, <1>4, <1>5, ServesKeep

-----------------------------------------------------------------------------
(* Unwinding *)

\* What is somewhere in a sequence.
In(s, y) == \E i \in DOMAIN s : s[i] = y

\* The last cleanup, which is the deepest, and the others.
LEMMA Popped ==
    ASSUME StartupInv, cleanups # <<>>, NEW last, NEW rest,
           last = cleanups[Len(cleanups)], rest = SubSeq(cleanups, 1, Len(cleanups) - 1)
    PROVE  /\ last \in Cleanup /\ rest \in Seq(Cleanup)
           /\ \A i, j \in DOMAIN rest : i < j => Depth[rest[i]] < Depth[rest[j]]
           /\ \A i \in DOMAIN rest : Depth[rest[i]] < Depth[last]
           /\ \A y : Deferred(y) <=> y = last \/ In(rest, y)
<1>1. PICK c, n, m : c = cleanups /\ n = Len(cleanups) /\ m = n - 1
  OBVIOUS
<1>2. c \in Seq(Cleanup) /\ n \in Nat /\ DOMAIN c = 1 .. n
  BY <1>1, LenProperties DEF StartupInv, StartupTypeOK
<1>3. n # 0
  BY <1>1, <1>2, EmptySeq
<1>4. m \in Nat /\ n = m + 1 /\ n \in 1 .. n /\ \A i \in 1 .. m : i \in 1 .. n /\ i < n
  BY <1>1, <1>2, <1>3
<1>5. \A k \in 1 .. n : c[k] \in Cleanup
  BY <1>2, ElementOfSeq
<1>6. rest \in Seq(Cleanup) /\ DOMAIN rest = 1 .. m /\ \A i \in 1 .. m : rest[i] = c[i]
  <2>1. rest = SubSeq(c, 1, m)
    BY <1>1
  <2>2. c \in Seq(Cleanup) /\ 1 \in Int /\ m \in Int /\ \A k \in 1 .. m : c[k] \in Cleanup
    BY <1>2, <1>4, <1>5
  <2>3. /\ SubSeq(c, 1, m) \in Seq(Cleanup) /\ Len(SubSeq(c, 1, m)) = IF 1 <= m THEN m - 1 + 1 ELSE 0
        /\ \A i \in 1 .. m - 1 + 1 : SubSeq(c, 1, m)[i] = c[1 + i - 1]
    BY <2>2, <1>4, SubSeqProperties
  <2>4. Len(rest) = m /\ \A i \in 1 .. m : rest[i] = c[i]
    BY <2>1, <2>3, <1>4
  <2> QED BY <2>1, <2>3, <2>4, LenProperties
<1>7. \A i, j \in 1 .. n : i < j => Depth[c[i]] < Depth[c[j]]
  BY <1>1, <1>2 DEF StartupInv, StackAscends
<1>8. last = c[n]
  BY <1>1
<1>9. \A y : (\E i \in 1 .. n : c[i] = y) <=> y = c[n] \/ \E i \in 1 .. m : rest[i] = y
  <2>1. 1 .. n = 1 .. m \cup {n}
    BY <1>4
  <2> QED BY <2>1, <1>6
<1>10. last \in Cleanup
  BY <1>4, <1>5, <1>8
<1>11. \A i, j \in DOMAIN rest : i < j => Depth[rest[i]] < Depth[rest[j]]
  <2> SUFFICES ASSUME NEW i \in DOMAIN rest, NEW j \in DOMAIN rest, i < j
               PROVE  Depth[rest[i]] < Depth[rest[j]]
    OBVIOUS
  <2>1. i \in 1 .. m /\ j \in 1 .. m /\ i \in 1 .. n /\ j \in 1 .. n
    BY <1>4, <1>6
  <2>2. Depth[c[i]] < Depth[c[j]] /\ rest[i] = c[i] /\ rest[j] = c[j]
    BY <2>1, <1>6, <1>7
  <2> QED BY <2>2
<1>12. \A i \in DOMAIN rest : Depth[rest[i]] < Depth[last]
  BY <1>4, <1>6, <1>7, <1>8
<1>13. \A y : Deferred(y) <=> y = last \/ In(rest, y)
  <2>1. \A y : Deferred(y) <=> \E i \in 1 .. n : c[i] = y
    BY <1>1, <1>2 DEF Deferred
  <2>2. \A y : In(rest, y) <=> \E i \in 1 .. m : rest[i] = y
    BY <1>6 DEF In
  <2> QED BY <2>1, <2>2, <1>8, <1>9
<1> QED BY <1>6, <1>10, <1>11, <1>12, <1>13

\* The cleanup of initRuntime, in the order in which run() would pop its steps.
LEMMA RuntimeSteps ==
    ASSUME NEW e, e = [i \in DOMAIN RuntimeCleanup |-> RuntimeCleanup[Len(RuntimeCleanup) + 1 - i]]
    PROVE  /\ e \in Seq(Cleanup) /\ Len(e) = 6
           /\ e[1] = "channels" /\ e[2] = "router" /\ e[3] = "redis" /\ e[4] = "scheduler" /\ e[5] = "processes"
           /\ e[6] = "gateway"
           /\ \A i \in 1 .. 6 : Depth[e[i]] = 8 + i
<1>1. PICK r : r = RuntimeCleanup
  OBVIOUS
<1>2. /\ DOMAIN r = 1 .. 6 /\ Len(r) = 6 /\ r[1] = "gateway" /\ r[2] = "processes" /\ r[3] = "scheduler" /\ r[4] = "redis"
      /\ r[5] = "router" /\ r[6] = "channels"
  BY <1>1 DEF RuntimeCleanup
<1>3. e = [i \in 1 .. 6 |-> r[7 - i]]
  BY <1>1, <1>2
<1>4. /\ e[1] = "channels" /\ e[2] = "router" /\ e[3] = "redis" /\ e[4] = "scheduler" /\ e[5] = "processes"
      /\ e[6] = "gateway"
  <2>1. \A i \in 1 .. 6 : e[i] = r[7 - i]
    BY <1>3
  <2>2. e[1] = r[6] /\ e[2] = r[5] /\ e[3] = r[4] /\ e[4] = r[3] /\ e[5] = r[2] /\ e[6] = r[1]
    BY <2>1
  <2> QED BY <2>2, <1>2
<1>5. \A i \in 1 .. 6 : i = 1 \/ i = 2 \/ i = 3 \/ i = 4 \/ i = 5 \/ i = 6
  OBVIOUS
<1>6. \A i \in 1 .. 6 : e[i] \in Cleanup /\ Depth[e[i]] = 8 + i
  <2>1. /\ Depth[e[1]] = 9 /\ Depth[e[2]] = 10 /\ Depth[e[3]] = 11 /\ Depth[e[4]] = 12 /\ Depth[e[5]] = 13
        /\ Depth[e[6]] = 14
    BY <1>4, DepthIs
  <2>2. \A i \in 1 .. 6 : e[i] \in {"channels", "router", "redis", "scheduler", "processes", "gateway"}
    BY <1>4, <1>5
  <2>3. {"channels", "router", "redis", "scheduler", "processes", "gateway"} \subseteq Cleanup
    BY DepthIs
  <2>4. \A i \in 1 .. 6 : Depth[e[i]] = 8 + i
    <3> SUFFICES ASSUME NEW i \in 1 .. 6
                 PROVE  Depth[e[i]] = 8 + i
      OBVIOUS
    <3>1. CASE i = 1
      BY <2>1, <3>1
    <3>2. CASE i = 2
      BY <2>1, <3>2
    <3>3. CASE i = 3
      BY <2>1, <3>3
    <3>4. CASE i = 4
      BY <2>1, <3>4
    <3>5. CASE i = 5
      BY <2>1, <3>5
    <3>6. CASE i = 6
      BY <2>1, <3>6
    <3> QED BY <3>1, <3>2, <3>3, <3>4, <3>5, <3>6
  <2> QED BY <2>2, <2>3, <2>4
<1>7. e \in [1 .. 6 -> Cleanup]
  BY <1>3, <1>6
<1>8. e \in Seq(Cleanup) /\ Len(e) = 6
  <2>1. e \in Seq(Cleanup)
    <3>1. 6 \in Nat
      OBVIOUS
    <3> QED BY ONLY <3>1, <1>7, SeqDef
  <2>2. DOMAIN e = 1 .. 6 /\ Len(e) \in Nat /\ DOMAIN e = 1 .. Len(e)
    BY <2>1, <1>7, LenProperties
  <2> QED BY <2>1, <2>2
<1> QED BY <1>4, <1>6, <1>8

\* The cleanup of initRuntime is the six cleanups it stands for.
LEMMA UnwindRuntime ==
    ASSUME StartupInv, stage = "unwind", cleanups # <<>>, NEW rest, NEW e,
           "runtime" = cleanups[Len(cleanups)], rest = SubSeq(cleanups, 1, Len(cleanups) - 1),
           e = [i \in DOMAIN RuntimeCleanup |-> RuntimeCleanup[Len(RuntimeCleanup) + 1 - i]],
           cleanups' = rest \o e, UNCHANGED <<up, chans, cfg, stage, conns, owner, agents, turn, curator, outcome>>
    PROVE  StartupInv'
<1>1. PICK last : last = "runtime" /\ last = cleanups[Len(cleanups)]
  OBVIOUS
<1>2. /\ rest \in Seq(Cleanup)
      /\ \A i, j \in DOMAIN rest : i < j => Depth[rest[i]] < Depth[rest[j]]
      /\ \A i \in DOMAIN rest : Depth[rest[i]] < Depth[last]
      /\ \A y : Deferred(y) <=> y = last \/ In(rest, y)
  BY <1>1, Popped
<1>3. /\ e \in Seq(Cleanup) /\ Len(e) = 6
      /\ e[1] = "channels" /\ e[2] = "router" /\ e[3] = "redis" /\ e[4] = "scheduler" /\ e[5] = "processes"
      /\ e[6] = "gateway"
      /\ \A i \in 1 .. 6 : Depth[e[i]] = 8 + i
  BY RuntimeSteps
<1>4. PICK m, w : m = Len(rest) /\ w = rest \o e
  OBVIOUS
<1>5. m \in Nat /\ DOMAIN rest = 1 .. m
  BY <1>2, <1>4, LenProperties
<1>6. /\ w \in Seq(Cleanup) /\ Len(w) = m + 6
      /\ \A i \in 1 .. m + 6 : w[i] = IF i <= m THEN rest[i] ELSE e[i - m]
  <2>1. rest \in Seq(Cleanup) /\ e \in Seq(Cleanup)
    BY <1>2, <1>3
  <2>2. /\ rest \o e \in Seq(Cleanup) /\ Len(rest \o e) = Len(rest) + Len(e)
        /\ \A i \in 1 .. Len(rest) + Len(e) : (rest \o e)[i] = IF i <= Len(rest) THEN rest[i] ELSE e[i - Len(rest)]
    BY ONLY <2>1, ConcatProperties
  <2>3. Len(e) = 6
    BY <1>3
  <2> QED BY ONLY <2>2, <2>3, <1>4
<1>7. DOMAIN w = 1 .. (m + 6)
  BY <1>6, LenProperties
<1>8. \A i \in 1 .. m : w[i] = rest[i] /\ Depth[rest[i]] \in Nat /\ Depth[rest[i]] < 8
  <2>1. \A i \in 1 .. m : Depth[rest[i]] \in Nat
    BY <1>2, <1>5, ElementOfSeq, DepthIsNat
  <2>2. Depth[last] = 8
    BY <1>1, DepthIs
  <2>3. \A i \in 1 .. m : i \in 1 .. m + 6 /\ i <= m
    BY <1>5
  <2> QED BY <2>1, <2>2, <2>3, <1>2, <1>5, <1>6
<1>9. \A i \in 1 .. m + 6 : i \notin 1 .. m => w[i] = e[i - m] /\ i - m \in 1 .. 6 /\ Depth[w[i]] = 8 + (i - m)
  <2> SUFFICES ASSUME NEW i \in 1 .. m + 6, i \notin 1 .. m
               PROVE  w[i] = e[i - m] /\ i - m \in 1 .. 6 /\ Depth[w[i]] = 8 + (i - m)
    OBVIOUS
  <2>1. PICK k : k = i - m
    OBVIOUS
  <2>2. k \in 1 .. 6 /\ ~(i <= m)
    BY <2>1, <1>5
  <2>3. w[i] = e[k]
    BY <2>1, <2>2, <1>6
  <2> QED BY <2>1, <2>2, <2>3, <1>3
<1>10. \A i, j \in DOMAIN w : i < j => Depth[w[i]] < Depth[w[j]]
  <2> SUFFICES ASSUME NEW i \in 1 .. m + 6, NEW j \in 1 .. m + 6, i < j
               PROVE  Depth[w[i]] < Depth[w[j]]
    BY <1>7
  <2>1. CASE i \in 1 .. m /\ j \in 1 .. m
    BY <2>1, <1>2, <1>5, <1>8
  <2>2. CASE i \in 1 .. m /\ j \notin 1 .. m
    <3>1. PICK a, b : a = Depth[w[i]] /\ b = Depth[w[j]]
      OBVIOUS
    <3>2. a \in Nat /\ a < 8
      BY <2>2, <3>1, <1>8
    <3>3. b = 8 + (j - m) /\ j - m \in 1 .. 6
      BY <2>2, <3>1, <1>9
    <3> QED BY <3>1, <3>2, <3>3
  <2>3. CASE i \notin 1 .. m /\ j \notin 1 .. m
    <3>1. Depth[w[i]] = 8 + (i - m) /\ Depth[w[j]] = 8 + (j - m)
      BY <2>3, <1>9
    <3>2. 8 + (i - m) < 8 + (j - m)
      BY <1>5
    <3> QED BY <3>1, <3>2
  <2>4. i \notin 1 .. m => j \notin 1 .. m
    BY <1>5
  <2> QED BY <2>1, <2>2, <2>3, <2>4
<1>11. \A i \in DOMAIN w : Depth[w[i]] <= 14
  <2> SUFFICES ASSUME NEW i \in 1 .. m + 6
               PROVE  Depth[w[i]] <= 14
    BY <1>7
  <2>1. CASE i \in 1 .. m
    <3>1. PICK a : a = Depth[w[i]]
      OBVIOUS
    <3>2. a \in Nat /\ a < 8
      BY <2>1, <3>1, <1>8
    <3> QED BY <3>1, <3>2
  <2>2. CASE i \notin 1 .. m
    <3>1. PICK k : k = i - m
      OBVIOUS
    <3>2. Depth[w[i]] = 8 + k /\ k \in 1 .. 6
      BY <2>2, <3>1, <1>9
    <3> QED BY <3>2
  <2> QED BY <2>1, <2>2
<1>12. \A y : Deferred(y) /\ y # "runtime" => Deferred(y)'
  <2> SUFFICES ASSUME NEW y, Deferred(y), y # "runtime"
               PROVE  \E i \in 1 .. m + 6 : w[i] = y
    <3>1. cleanups' = w
      BY <1>4
    <3> QED BY <3>1, <1>7 DEF Deferred
  <2>1. PICK i \in 1 .. m : rest[i] = y
    BY <1>1, <1>2, <1>5 DEF In
  <2>2. i \in 1 .. m + 6 /\ w[i] = y
    BY <2>1, <1>5, <1>8
  <2> QED BY <2>2
<1>13. \A y \in {"channels", "router", "redis", "scheduler", "processes", "gateway"} : Deferred(y)'
  <2> SUFFICES ASSUME NEW y \in {"channels", "router", "redis", "scheduler", "processes", "gateway"}
               PROVE  \E i \in 1 .. m + 6 : w[i] = y
    <3>1. cleanups' = w
      BY <1>4
    <3> QED BY <3>1, <1>7 DEF Deferred
  <2>1. PICK k \in 1 .. 6 : e[k] = y
    <3>1. 1 \in 1 .. 6 /\ 2 \in 1 .. 6 /\ 3 \in 1 .. 6 /\ 4 \in 1 .. 6 /\ 5 \in 1 .. 6 /\ 6 \in 1 .. 6
      OBVIOUS
    <3> QED BY <3>1, <1>3
  <2>2. PICK i : i = m + k
    OBVIOUS
  <2>3. i \in 1 .. m + 6 /\ i \notin 1 .. m /\ i - m = k
    BY <2>2, <1>5
  <2> QED BY <2>1, <2>3, <1>9
<1>14. \A p \in up : Closes(p) => Closes(p)'
  <2> SUFFICES ASSUME NEW p \in up, Closes(p)
               PROVE  Closes(p)'
    OBVIOUS
  <2>1. CASE Deferred(p)
    <3>1. p # "runtime"
      BY DEF StartupInv, StartupTypeOK
    <3> QED BY <2>1, <3>1, <1>12 DEF Closes
  <2>2. CASE p \in Cleanup /\ Depth[p] > 8
    <3>1. p \in {"channels", "router", "redis", "scheduler", "processes", "gateway"}
      BY <2>2, DepthIs
    <3> QED BY <3>1, <1>13 DEF Closes
  <2> QED BY <2>1, <2>2 DEF Closes
<1>15. (\A f : IsOn(f)' <=> IsOn(f)) /\ (\A p : Uses(p)' = Uses(p))
  BY CfgStays
<1>16. StackAscends' /\ StartupTypeOK'
  <2>1. Reached[stage'] = 14 /\ stage' # "ended"
    BY ReachedIs
  <2>2. cleanups' = w
    BY <1>4
  <2>3. StackAscends'
    BY <2>1, <2>2, <1>10, <1>11 DEF StackAscends
  <2> QED BY <2>2, <2>3, <1>6 DEF StartupInv, StartupTypeOK
<1>17. UpIsClosed'
  BY <1>14, <1>15 DEF UpIsClosed, StartupInv
<1>18. StepsDone' /\ NamesAreKept' /\ TurnsHaveChannels'
  BY DEF StepsDone, NamesAreKept, ShellIsBuiltin, TurnsHaveChannels, StartupInv, Building, Later
<1>19. UsesAreUp'
  BY <1>15 DEF UsesAreUp, StartupInv
<1> QED BY <1>16, <1>17, <1>18, <1>19 DEF StartupInv

\* Any other cleanup closes its part, and who used it was closed before.
LEMMA UnwindPart ==
    ASSUME StartupInv, stage = "unwind", cleanups # <<>>, NEW last, NEW rest, last # "runtime",
           last = cleanups[Len(cleanups)], rest = SubSeq(cleanups, 1, Len(cleanups) - 1),
           last = "router" => curator # "counted", cleanups' = rest, up' = up \ {last}, TurnsHaveChannels',
           UNCHANGED <<cfg, stage, conns, owner, agents, turn, curator, outcome>>
    PROVE  StartupInv'
<1>1. /\ last \in Cleanup /\ rest \in Seq(Cleanup)
      /\ \A i, j \in DOMAIN rest : i < j => Depth[rest[i]] < Depth[rest[j]]
      /\ \A i \in DOMAIN rest : Depth[rest[i]] < Depth[last]
      /\ \A y : Deferred(y) <=> y = last \/ In(rest, y)
  BY Popped
<1>2. \A y : Deferred(y)' <=> In(rest, y)
  BY DEF Deferred, In
<1>3. \A y : Deferred(y) /\ y # last => Deferred(y)' /\ Depth[y] < Depth[last]
  BY <1>1, <1>2 DEF In
<1>4. \A p : p # last /\ Closes(p) => Closes(p)'
  BY <1>3 DEF Closes
<1>5. (\A f : IsOn(f)' <=> IsOn(f)) /\ (\A p : Uses(p)' = Uses(p))
  BY CfgStays
<1>6. StackAscends' /\ StartupTypeOK'
  <2>1. Reached[stage'] = 14
    BY ReachedIs
  <2>2. \A i \in DOMAIN rest : Depth[rest[i]] <= 14
    <3>1. \A x \in Cleanup : Depth[x] <= 14
      BY ONLY DepthIs
    <3> QED BY <3>1, <1>1, ElementOfSeq, LenProperties
  <2> QED BY <2>1, <2>2, <1>1 DEF StackAscends, StartupInv, StartupTypeOK
<1>7. UpIsClosed'
  BY <1>4, <1>5 DEF UpIsClosed, StartupInv
<1>8. StepsDone' /\ NamesAreKept'
  <2>1. last # "mcp"
    BY <1>1, DepthIs
  <2> QED BY <2>1 DEF StepsDone, NamesAreKept, ShellIsBuiltin, StartupInv, Building, Later
<1>9. \A p \in up \ Abandoned : p # last /\ ~(p = "processes" /\ outcome = "aborted") => last \notin Uses(p)
  <2> SUFFICES ASSUME NEW p \in up \ Abandoned, p # last, ~(p = "processes" /\ outcome = "aborted"),
                      last \in Uses(p)
               PROVE  FALSE
    OBVIOUS
  <2>1. last \in {"encryptor", "bus", "audit", "memory"} /\ Depth[last] <= 7
    BY UsesAre, DepthIs
  <2>2. p \in {"rotator", "processes", "scheduler", "gateway", "channels"}
    BY UsesAre DEF Abandoned
  <2>3. Closes(p)
    BY <2>2 DEF UpIsClosed, StartupInv, Building
  <2>4. CASE Deferred("runtime")
    <3>1. Depth["runtime"] < Depth[last]
      BY <2>4, <1>3
    <3>2. Depth["runtime"] = 8 /\ Depth[last] \in Nat
      BY <1>1, DepthIs, DepthIsNat
    <3> QED BY <3>1, <3>2, <2>1
  <2>5. CASE Deferred(p)
    <3>1. Depth[p] < Depth[last]
      BY <2>5, <1>3
    <3>2. CASE p # "rotator"
      BY <3>1, <3>2, <2>1, <2>2, DepthIs
    <3>3. CASE p = "rotator"
      <4>1. last = "encryptor"
        BY <3>3, UsesAre
      <4> QED BY <3>1, <3>3, <4>1, DepthIs
    <3> QED BY <3>2, <3>3
  <2> QED BY <2>3, <2>4, <2>5 DEF Closes
<1>10. "router" \in up' => last \notin {"encryptor", "bus", "audit", "memory"}
  <2> SUFFICES ASSUME "router" \in up', last \in {"encryptor", "bus", "audit", "memory"}
               PROVE  FALSE
    OBVIOUS
  <2>0. Depth[last] <= 7
    BY DepthIs
  <2>1. Closes("router") /\ Depth[last] <= 7
    <3>1. "router" \in up \ Abandoned
      BY DEF Abandoned
    <3> QED BY <2>0, <3>1 DEF UpIsClosed, StartupInv
  <2>2. CASE Deferred("runtime")
    <3>1. Depth["runtime"] < Depth[last]
      BY <2>2, <1>3
    <3> QED BY <3>1, <2>1, DepthIs
  <2>3. CASE Deferred("router")
    <3>1. Depth["router"] < Depth[last]
      BY <2>3, <1>3
    <3> QED BY <3>1, <2>1, DepthIs
  <2> QED BY <2>1, <2>2, <2>3 DEF Closes
<1>11. UsesAreUp'
  <2>1. \A p \in up' \ Abandoned : Uses(p) \subseteq up' \/ (p = "processes" /\ outcome = "aborted")
    BY <1>9 DEF UsesAreUp, StartupInv
  <2>2. "router" \in up' => Uses("channels") \cup Uses("rotator") \subseteq up'
    BY <1>10, UsesAre DEF UsesAreUp, StartupInv
  <2>3. "encryptor" \in up' => IsOn("encryption") /\ cfg.passkey
    BY DEF UsesAreUp, StartupInv
  <2>4. curator' = "counted" => "router" \in up'
    BY DEF UsesAreUp, StartupInv
  <2> QED BY <2>1, <2>2, <2>3, <2>4, <1>5 DEF UsesAreUp
<1> QED BY <1>6, <1>7, <1>8, <1>11 DEF StartupInv

\* Every cleanup keeps the invariant.
LEMMA UnwindKeeps ==
    ASSUME StartupInv, Unwind
    PROVE  StartupInv'
<1>1. PICK last, rest, e :
        /\ last = cleanups[Len(cleanups)] /\ rest = SubSeq(cleanups, 1, Len(cleanups) - 1)
        /\ e = [i \in DOMAIN RuntimeCleanup |-> RuntimeCleanup[Len(RuntimeCleanup) + 1 - i]]
  OBVIOUS
<1>2. /\ stage = "unwind" /\ cleanups # <<>> /\ UNCHANGED <<cfg, stage, conns, owner, agents, turn, curator, outcome>>
      /\ IF last = "runtime"
         THEN cleanups' = rest \o e /\ UNCHANGED <<up, chans>>
         ELSE /\ last = "router" => curator # "counted"
              /\ cleanups' = rest /\ up' = up \ {last}
              /\ chans' = IF last = "channels"
                          THEN [i \in DOMAIN chans |-> [chans[i] EXCEPT !.is = IF @ = "up" THEN "down" ELSE @]]
                          ELSE chans
  BY <1>1 DEF Unwind
<1>3. CASE last = "runtime"
  BY <1>1, <1>2, <1>3, UnwindRuntime
<1>4. CASE last # "runtime"
  <2>1. TurnsHaveChannels'
    <3>1. turn' # "running"
      BY <1>2 DEF StartupInv, TurnsHaveChannels
    <3>2. CASE chans' = chans
      BY <3>1, <3>2 DEF StartupInv, TurnsHaveChannels
    <3>3. CASE chans' = [i \in DOMAIN chans |-> [chans[i] EXCEPT !.is = IF @ = "up" THEN "down" ELSE @]]
      <4>1. \A i \in DOMAIN chans : chans[i] = [type |-> chans[i].type, is |-> chans[i].is]
        BY DEF StartupInv, TurnsHaveChannels
      <4>2. \A i \in DOMAIN chans : [chans[i] EXCEPT !.is = IF @ = "up" THEN "down" ELSE @]
                                      = [type |-> chans[i].type, is |-> IF chans[i].is = "up" THEN "down" ELSE chans[i].is]
        BY <4>1
      <4>3. chans' = [i \in DOMAIN chans |->
                        [type |-> chans[i].type, is |-> IF chans[i].is = "up" THEN "down" ELSE chans[i].is]]
        BY <3>3, <4>2
      <4>4. chans' = [i \in DOMAIN chans' |-> [type |-> chans'[i].type, is |-> chans'[i].is]]
        BY <4>3
      <4> QED BY <3>1, <4>4 DEF TurnsHaveChannels
    <3> QED BY <3>2, <3>3, <1>2, <1>4
  <2> QED BY <1>1, <1>2, <1>4, <2>1, UnwindPart
<1> QED BY <1>3, <1>4

\* run() returns.
LEMMA EndedKeeps ==
    ASSUME StartupInv, Ended
    PROVE  StartupInv'
<1>1. /\ stage = "unwind" /\ cleanups = <<>> /\ stage' = "ended" /\ turn' = "none" /\ curator' = "none"
      /\ UNCHANGED <<cfg, up, cleanups, conns, owner, agents, chans, outcome>>
  BY DEF Ended
<1>2. (\A f : IsOn(f)' <=> IsOn(f)) /\ (\A p : Uses(p)' = Uses(p))
  BY <1>1, CfgStays
<1>3. (\A p : Closes(p)' <=> Closes(p)) /\ (\A y : Deferred(y)' <=> Deferred(y))
  BY <1>1 DEF Closes, Deferred
<1>4. StartupTypeOK'
  BY <1>1 DEF StartupInv, StartupTypeOK, Stages, Building
<1>5. StackAscends'
  <2>1. stage' \in Stages /\ Reached[stage] <= Reached[stage']
    <3>1. Reached[stage] = 14 /\ Reached[stage'] = 14
      BY <1>1, ReachedIs
    <3>2. stage' \in Stages
      BY <1>4 DEF StartupTypeOK
    <3> QED BY <3>1, <3>2
  <2> QED BY <2>1, <1>1, Stood DEF StartupInv
<1>6. UpIsClosed' /\ StepsDone' /\ UsesAreUp' /\ TurnsHaveChannels' /\ NamesAreKept'
  <2>1. UpIsClosed'
    BY <1>1, <1>2, <1>3 DEF UpIsClosed, StartupInv, Building
  <2>2. UsesAreUp'
    BY <1>1, <1>2 DEF UsesAreUp, StartupInv
  <2>3. StepsDone' /\ TurnsHaveChannels' /\ NamesAreKept'
    BY <1>1 DEF StepsDone, TurnsHaveChannels, NamesAreKept, ShellIsBuiltin, StartupInv, Building, Later
  <2> QED BY <2>1, <2>2, <2>3
<1> QED BY <1>4, <1>5, <1>6 DEF StartupInv

\* Nothing happens.
LEMMA StartupStays ==
    ASSUME StartupInv, UNCHANGED startupVars
    PROVE  StartupInv'
<1>1. /\ UNCHANGED <<cfg, up, cleanups, conns, owner>> /\ stage' = stage /\ outcome' = outcome
      /\ turn' = turn /\ curator' = curator /\ chans' = chans
  BY DEF startupVars
<1>2. TurnsHaveChannels'
  BY <1>1 DEF StartupInv, TurnsHaveChannels
<1>3. /\ turn' \in {"none", "running", "cut"} /\ curator' \in {"none", "counted", "late"}
      /\ (curator' = "counted" => "router" \in up)
  BY <1>1 DEF StartupInv, StartupTypeOK, UsesAreUp
<1> QED BY <1>1, <1>2, <1>3, ServesKeep

\* At the start nothing is open.
LEMMA StartupStarts ==
    ASSUME StartupInit
    PROVE  StartupInv
<1>1. StartupTypeOK
  <2>1. <<>> \in Seq(Cleanup)
    BY EmptySeq
  <2> QED BY <2>1 DEF StartupInit, StartupTypeOK, Stages, Building
<1>2. StackAscends
  <2>1. cleanups = <<>> /\ stage = "config" /\ DOMAIN <<>> = {}
    BY DEF StartupInit
  <2> QED BY <2>1 DEF StackAscends
<1>3. UpIsClosed /\ StepsDone /\ UsesAreUp
  BY DEF StartupInit, UpIsClosed, StepsDone, UsesAreUp, Later
<1>4. TurnsHaveChannels
  <2>1. chans = <<>> /\ turn = "none" /\ DOMAIN <<>> = {}
    BY DEF StartupInit
  <2>2. \A x : <<>> = [i \in DOMAIN <<>> |-> x]
    BY <2>1
  <2> QED BY <2>1 DEF TurnsHaveChannels
<1>5. NamesAreKept
  BY DEF StartupInit, NamesAreKept, Later
<1> QED BY <1>1, <1>2, <1>3, <1>4, <1>5 DEF StartupInv

\* The inductive invariant of the composition root, for every configuration.
THEOREM StartupInvariant == StartupSpec => []StartupInv
<1>1. StartupInit => StartupInv
  BY StartupStarts
<1>2. StartupInv /\ [StartupNext]_startupVars => StartupInv'
  <2> SUFFICES ASSUME StartupInv, [StartupNext]_startupVars
               PROVE  StartupInv'
    OBVIOUS
  <2>1. CASE LoadConfig \/ StartLogger \/ StartTracer \/ NewSandbox \/ NewEncryptor \/ NewAuditLogger
    BY <2>1, LoadConfigKeeps, StartLoggerKeeps, StartTracerKeeps, NewSandboxKeeps, NewEncryptorKeeps,
       NewAuditLoggerKeeps
  <2>2. CASE NewSecretScanner \/ NewKeyRotator \/ initLLM \/ initMemory \/ initAgent
    BY <2>2, NewSecretScannerKeeps, NewKeyRotatorKeeps, initLLMKeeps, initMemoryKeeps, initAgentKeeps
  <2>3. CASE NewMCPBridge \/ LoadSkills \/ initFeatures \/ NewRouter \/ buildChannels
    BY <2>3, NewMCPBridgeKeeps, LoadSkillsKeeps, initFeaturesKeeps, NewRouterKeeps, buildChannelsKeeps
  <2>4. CASE NewCron \/ NewWorkflow \/ NewVoice \/ NewTenants \/ NewCluster \/ initRuntime
    BY <2>4, NewCronKeeps, NewWorkflowKeeps, NewVoiceKeeps, NewTenantsKeeps, NewClusterKeeps, initRuntimeKeeps
  <2>5. CASE \E i \in DOMAIN chans : RunChannel(i) \/ TuiQuits(i)
    BY <2>5, RunChannelKeeps, TuiQuitsKeeps
  <2>6. CASE TurnStarts \/ TurnFinishes \/ CuratorEnds \/ Signal
    BY <2>6, TurnsKeep
  <2>7. CASE Unwind \/ Ended
    BY <2>7, UnwindKeeps, EndedKeeps
  <2>8. CASE Steady \/ UNCHANGED startupVars
    BY <2>8, StartupStays DEF Steady
  <2> QED BY <2>1, <2>2, <2>3, <2>4, <2>5, <2>6, <2>7, <2>8 DEF StartupNext
<1> QED BY <1>1, <1>2, PTL DEF StartupSpec

\* What the inductive invariant says of the start and the end.
LEMMA InvUndoes ==
    ASSUME StartupInv
    PROVE  StartupIsUndone
<1>1. curator = "counted" => Uses("channels") \union Uses("rotator") \subseteq up
  BY DEF StartupInv, UsesAreUp
<1>2. "channels" \in up => Uses("channels") \subseteq up
  BY DEF StartupInv, UsesAreUp, Abandoned
<1>3. (turn = "running" \/ (turn = "cut" /\ "channels" \in up)) => Uses("channels") \subseteq up
  BY <1>2 DEF StartupInv, TurnsHaveChannels, StepsDone
<1>4. stage = "ended" =>
          up \subseteq Abandoned \union {p \in {"memory"} : ~IsOn("vector")}
                       \union {p \in {"processes"} : outcome = "aborted"}
                       \union {p \in {"audit"} : outcome = "aborted" /\ IsOn("retention")}
  <2> SUFFICES ASSUME stage = "ended", NEW p \in up \ Abandoned
               PROVE  \/ p = "memory" /\ ~IsOn("vector")
                      \/ p = "processes" /\ outcome = "aborted"
                      \/ p = "audit" /\ outcome = "aborted" /\ IsOn("retention")
    OBVIOUS
  <2>1. cleanups = <<>> /\ DOMAIN <<>> = {}
    BY DEF StartupInv, StackAscends
  <2>2. ~Closes(p)
    BY <2>1 DEF Closes, Deferred
  <2> QED BY <2>2 DEF StartupInv, UpIsClosed, Building
<1>5. owner # <<>> => \A n \in {"filesystem", "shell"} : owner[n] = "builtin"
  BY DEF StartupInv, NamesAreKept, ShellIsBuiltin
<1> QED BY <1>1, <1>3, <1>4, <1>5 DEF StartupIsUndone, StartupInv, UsesAreUp, NamesAreKept

\* StartupIsUndone: whatever step of run() fails, what was opened is closed by the end,
\* each part before what it uses, except what the process abandons.
THEOREM StartupIsUndoneHolds == StartupSpec => []StartupIsUndone
<1>1. StartupInv => StartupIsUndone
  BY InvUndoes
<1> QED BY <1>1, StartupInvariant, PTL


-----------------------------------------------------------------------------
(* Loading the configuration *)

\* The phases of Load.
Phases == {"read", "include", "env", "env only", "decrypt", "validate", "accepted", "refused"}

\* After the includes, until the configuration is refused.
Layered == {"env", "env only", "decrypt", "validate", "accepted"}

\* What a layer says of the setting.
Says(f) == [is |-> files[f], from |-> f]

\* The types of what Load reads and makes.
ConfigTypeOK ==
    /\ phase \in Phases
    /\ files \in [ConfigFiles -> {"unset", "good", "bad", "cipher"}]
    /\ lists \in [ConfigFiles -> Seq(ConfigFiles)]
    /\ env \in {"unset", "good", "bad", "cipher"} /\ enabled \in BOOLEAN /\ passkey \in BOOLEAN
    /\ frames \in Seq(Seq(ConfigFiles)) /\ merged \in Seq(ConfigFiles)
    /\ \/ visited = {} /\ merged = <<>> /\ phase \notin {"include", "env", "decrypt"}
       \/ visited = {Main} \cup {merged[i] : i \in DOMAIN merged}
    /\ setting \notin decryptSecrets => env # "cipher" /\ \A f \in ConfigFiles : files[f] # "cipher"

\* No file is merged twice.
MergedOnce ==
    /\ \A i \in DOMAIN merged : merged[i] # Main
    /\ \A i, j \in DOMAIN merged : merged[i] = merged[j] => i = j

\* What a merged file includes has been merged, or is still in a list.
Names(l, f) == \E j \in DOMAIN l : l[j] = f

Waiting(f) == \E d \in DOMAIN frames : Names(frames[d], f)

\* While files are merged, what they include is merged or waits; then all of it is merged.
NothingIsForgotten ==
    /\ phase = "include" => \A f \in visited : \A i \in DOMAIN lists[f] : lists[f][i] \in visited \/ Waiting(lists[f][i])
    /\ phase \in Layered => \/ merged = <<>>
                            \/ \A f \in visited : \A i \in DOMAIN lists[f] : lists[f][i] \in visited

\* The value that each phase has of the setting.
ValueIsLayered ==
    /\ phase = "read" => merged = <<>> /\ visited = {} /\ value = Defaults(setting)
    /\ phase = "include" =>
          \/ Saying = {} /\ value = IF files[Main] = "unset" THEN Defaults(setting) ELSE Says(Main)
          \/ \E k \in Saying : (\A j \in Saying : j <= k) /\ value = Says(merged[k])
    /\ phase \in Layered => (SaidByFiles = "cipher" => setting \in decryptSecrets)
    /\ phase \in {"env", "env only"} => value = [is |-> SaidByFiles, from |-> FromFiles]
    /\ phase = "env only" => visited = {}
    /\ phase = "decrypt" => value = [is |-> StrongestSays, from |-> Strongest]
    /\ phase \in {"validate", "accepted"} => value = [is |-> Loads, from |-> Strongest]
    /\ phase = "accepted" => ~(Required(setting) /\ value.is = "bad")

\* The doctor runs when Load has ended, and fails when Load did.
DoctorFails ==
    /\ results # {} => phase \in {"accepted", "refused"}
    /\ phase = "refused" /\ results # {} => "fail" \in results

\* The inductive invariant of Load and the doctor.
ConfigInv == ConfigTypeOK /\ MergedOnce /\ NothingIsForgotten /\ ValueIsLayered /\ DoctorFails

\* DOMAINs of sequences.
LEMMA PlacesOf ==
    ASSUME NEW S, NEW s \in Seq(S)
    PROVE  DOMAIN s = 1..Len(s) /\ Len(s) \in Nat /\ \A i \in DOMAIN s : s[i] \in S
OBVIOUS

\* The environment speaks over what the files say.
LEMMA ApplyIs ==
    ASSUME value = [is |-> SaidByFiles, from |-> FromFiles]
    PROVE  ApplyEnvOverrides(setting, value) = [is |-> StrongestSays, from |-> Strongest]
<1>1. PICK said, heeded : said = SaidByFiles /\ heeded = Heeded(setting, said)
  OBVIOUS
<1>2. value.is = said
  BY <1>1
<1>3. ApplyEnvOverrides(setting, value) = IF heeded THEN [is |-> env, from |-> "env"] ELSE value
  BY <1>1, <1>2 DEF ApplyEnvOverrides
<1>4. Strongest = (IF heeded THEN "env" ELSE FromFiles) /\ StrongestSays = IF heeded THEN env ELSE said
  BY <1>1 DEF Strongest, StrongestSays
<1> QED  BY <1>1, <1>3, <1>4

\* A default comes from the defaults.
LEMMA DefaultIs ==
    ASSUME NEW s
    PROVE  /\ Defaults(s).from = "default" /\ Defaults(s).is \in {"good", "bad"}
           /\ Defaults(s) = [is |-> Defaults(s).is, from |-> "default"]
BY DEF Defaults

\* A validator requires what it lists when its feature is on.
LEMMA ListsAreRequired ==
    ASSUME NEW t \in Validators, enabled, setting \in DOMAIN t
    PROVE  Required(setting)
BY DEF Required

\* What the composition root cannot start without is required by a validator.
LEMMA NeedsAreRequired ==
    ASSUME enabled, setting \in StartNeeds
    PROVE  Required(setting)
<1>1. CASE setting \in DOMAIN validateChannels
  BY <1>1, ListsAreRequired DEF Validators
<1>2. CASE setting \in {"memory_provider"}
  <2>1. "memory_provider" \in DOMAIN validateMemory
    BY DEF validateMemory
  <2> QED  BY <1>2, <2>1, ListsAreRequired DEF Validators
<1>3. CASE setting \in {"provider_type", "default_provider"}
  <2>1. {"provider_type", "default_provider"} \subseteq DOMAIN validateLLM
    BY DEF validateLLM
  <2> QED  BY <1>3, <2>1, ListsAreRequired DEF Validators
<1>4. CASE setting \in {"voice_provider"}
  <2>1. "voice_provider" \in DOMAIN validateVoiceCall
    BY DEF validateVoiceCall
  <2> QED  BY <1>4, <2>1, ListsAreRequired DEF Validators
<1>5. DOMAIN validateChannels =
        {"http_addr", "telegram_token", "discord_token", "slack_bot_token", "slack_app_token", "whatsapp_token",
         "whatsapp_phone_id", "matrix_homeserver", "matrix_access_token", "googlechat_credentials", "teams_app_id",
         "teams_app_secret", "signal_api_url", "signal_phone", "irc_server", "irc_nick"}
  BY DEF validateChannels
<1> QED  BY <1>1, <1>2, <1>3, <1>4, <1>5 DEF StartNeeds

\* The last file that says something is the one FromFiles names.
LEMMA LastSays ==
    ASSUME NEW k \in Saying, \A j \in Saying : j <= k, Saying \subseteq Nat
    PROVE  k = CHOOSE i \in Saying : \A j \in Saying : j <= i
<1>1. PICK i : i = CHOOSE m \in Saying : \A j \in Saying : j <= m
  OBVIOUS
<1>2. i \in Saying /\ \A j \in Saying : j <= i
  BY <1>1
<1>3. i <= k /\ k <= i /\ i \in Nat /\ k \in Nat
  BY <1>2
<1>4. i = k
  BY ONLY <1>3
<1> QED  BY <1>1, <1>4

\* At the start nothing was read.
LEMMA ConfigStart ==
    ASSUME ConfigInit
    PROVE  ConfigInv
<1>1. lists \in [ConfigFiles -> Seq(ConfigFiles)]
  BY ConfigConstants DEF ConfigInit
<1>2. merged = <<>> /\ frames = <<>> /\ phase = "read" /\ visited = {} /\ results = {} /\ value = Defaults(setting)
  BY DEF ConfigInit
<1>3. DOMAIN merged = {} /\ merged \in Seq(ConfigFiles) /\ frames \in Seq(Seq(ConfigFiles))
  BY <1>2
<1>4. ConfigTypeOK
  <2>1. files \in [ConfigFiles -> {"unset", "good", "bad", "cipher"}]
    BY DEF ConfigInit, MaySay
  <2>2. setting \notin decryptSecrets => env # "cipher" /\ \A f \in ConfigFiles : files[f] # "cipher"
    <3>1. setting \notin decryptSecrets => MaySay = {"unset", "good", "bad"}
      BY DEF MaySay, Secret
    <3>2. files \in [ConfigFiles -> MaySay] /\ env \in MaySay
      BY DEF ConfigInit
    <3> QED  BY <3>1, <3>2
  <2>3. env \in {"unset", "good", "bad", "cipher"} /\ enabled \in BOOLEAN /\ passkey \in BOOLEAN
    <3>1. passkey \in (IF Secret THEN BOOLEAN ELSE {FALSE})
      BY DEF ConfigInit
    <3> QED  BY <3>1 DEF ConfigInit, MaySay
  <2> QED  BY <1>1, <1>2, <1>3, <2>1, <2>2, <2>3 DEF ConfigTypeOK, Phases
<1> QED  BY <1>2, <1>3, <1>4 DEF ConfigInv, MergedOnce, NothingIsForgotten, ValueIsLayered, DoctorFails, Layered

\* A refusal leaves what was read.
LEMMA RefusalKeeps ==
    ASSUME ConfigInv, Refuse, UNCHANGED world, UNCHANGED results, results = {}
    PROVE  ConfigInv'
<1> USE DEF Refuse, world, ConfigInv
<1>1. ConfigTypeOK'
  BY DEF ConfigTypeOK, Phases
<1>2. MergedOnce'
  BY DEF MergedOnce
<1> QED  BY <1>1, <1>2 DEF NothingIsForgotten, ValueIsLayered, DoctorFails, Layered

\* The first pass over the main file.
LEMMA ReadMainKeeps ==
    ASSUME ConfigInv, ReadMain
    PROVE  ConfigInv'
<1>0. results = {} /\ UNCHANGED results /\ UNCHANGED world /\ phase = "read"
  BY DEF ReadMain, ConfigInv, DoctorFails
<1>1. CASE Refuse
  BY <1>0, <1>1, RefusalKeeps
<1>2. CASE ~Refuse
  <2>1. UNCHANGED <<merged, setting, enabled, files, lists, env, passkey>>
    BY <1>0, <1>2 DEF ReadMain, world
  <2>2. /\ merged = <<>> /\ visited = {} /\ value = Defaults(setting) /\ DOMAIN merged = {}
        /\ lists[Main] \in Seq(ConfigFiles) /\ files[Main] \in {"unset", "good", "bad", "cipher"}
    <3>1. merged = <<>> /\ visited = {} /\ value = Defaults(setting)
      BY <1>0 DEF ConfigInv, ValueIsLayered
    <3>2. DOMAIN merged = {}
      BY <3>1
    <3> QED  BY <3>1, <3>2 DEF ConfigInv, ConfigTypeOK, ConfigFiles
  <2>3. value' = IF files[Main] = "unset" THEN Defaults(setting) ELSE Says(Main)
    <3>1. CASE Unmarshal(Main)
      BY <3>1, <2>2 DEF Unmarshal, Says
    <3>2. CASE ~Unmarshal(Main)
      <4>1. files[Main] = "unset" /\ UNCHANGED value
        BY <3>2, <1>2 DEF ReadMain
      <4> QED  BY <4>1, <2>2
    <3> QED  BY <3>1, <3>2
  <2>4. Saying' = {} /\ Saying = {}
    BY <2>1, <2>2 DEF Saying
  <2>5. /\ (phase' \in {"env", "include"} /\ visited' = {Main}) \/ (phase' = "env only" /\ visited' = {})
        /\ phase' = "include" => frames' = <<lists[Main]>>
        /\ phase' # "include" => UNCHANGED frames
    <3>1. \/ /\ visited' = {Main}
             /\ \/ phase' = "env" /\ UNCHANGED frames
                \/ phase' = "include" /\ frames' = <<lists[Main]>>
          \/ phase' = "env only" /\ UNCHANGED <<frames, visited>>
      BY <1>2 DEF ReadMain
    <3> QED  BY <3>1, <2>2
  <2>6. frames' \in Seq(Seq(ConfigFiles))
    <3>1. PICK l : l = lists[Main]
      OBVIOUS
    <3>2. l \in Seq(ConfigFiles) /\ (phase' = "include" => frames' = <<l>>)
      BY <2>2, <2>5, <3>1
    <3>3. <<l>> \in Seq(Seq(ConfigFiles))
      BY <3>2
    <3> QED  BY <2>5, <3>2, <3>3 DEF ConfigInv, ConfigTypeOK
  <2>7. ConfigTypeOK'
    <3>1. {Main} = {Main} \cup {merged'[i] : i \in DOMAIN merged'}
      BY <2>1, <2>2
    <3> QED  BY <2>1, <2>2, <2>5, <2>6, <3>1 DEF ConfigInv, ConfigTypeOK, Phases
  <2>8. MergedOnce' /\ DoctorFails'
    BY <1>0, <2>1, <2>2 DEF MergedOnce, DoctorFails
  <2>9. NothingIsForgotten'
    <3>1. ASSUME phase' = "include", NEW i \in DOMAIN lists[Main] PROVE Waiting(lists[Main][i])'
      <4>1. PICK l : l = lists[Main]
        OBVIOUS
      <4>2. frames' = <<l>>
        BY <2>5, <3>1, <4>1
      <4>3. 1 \in DOMAIN frames' /\ frames'[1] = l
        BY <4>2
      <4>4. i \in DOMAIN frames'[1] /\ frames'[1][i] = lists'[Main][i]
        BY <4>1, <4>3, <3>1, <2>1
      <4> QED  BY <4>3, <4>4 DEF Waiting, Names
    <3>2. \A f \in visited' : f = Main
      BY <2>5
    <3> QED  BY <3>1, <3>2, <2>1, <2>2, <2>5 DEF NothingIsForgotten, Layered
  <2>10. FromFiles' = (IF files[Main] # "unset" THEN Main ELSE "default")
    BY <2>1, <2>4 DEF FromFiles
  <2>11. ValueIsLayered'
    <3>1. Main # "default"
      BY ConfigConstants DEF ConfigFiles
    <3>2. SaidByFiles' = IF files[Main] = "unset" THEN Defaults(setting).is ELSE files[Main]
      BY <2>10, <2>1, <3>1 DEF SaidByFiles
    <3>3. value' = [is |-> SaidByFiles', from |-> FromFiles']
      BY <3>2, <2>10, <2>3, DefaultIs DEF Says
    <3>4. SaidByFiles' = "cipher" => setting' \in decryptSecrets
      <4>1. files[Main] = "cipher" => setting \in decryptSecrets
        BY DEF ConfigInv, ConfigTypeOK, ConfigFiles
      <4> QED  BY <4>1, <3>2, DefaultIs, <2>1
    <3>5. phase' = "include" => Saying' = {} /\ value' = IF files[Main]' = "unset" THEN Defaults(setting') ELSE Says(Main)'
      BY <2>4, <2>3, <2>1 DEF Says
    <3>6. phase' \in {"env", "include", "env only"} /\ (phase' = "env only" => visited' = {})
      BY <2>5
    <3> QED  BY <3>3, <3>4, <3>5, <3>6 DEF ValueIsLayered, Layered
  <2> QED  BY <2>7, <2>8, <2>9, <2>11 DEF ConfigInv
<1> QED  BY <1>1, <1>2

\* The innermost list is empty: its frame goes.
LEMMA FrameEndsKeeps ==
    ASSUME ConfigInv, phase = "include", frames # <<>>, frames[Len(frames)] = <<>>,
           frames' = SubSeq(frames, 1, Len(frames) - 1), UNCHANGED <<phase, value, visited, merged>>,
           UNCHANGED world, UNCHANGED results
    PROVE  ConfigInv'
<1>1. frames \in Seq(Seq(ConfigFiles))
  BY DEF ConfigInv, ConfigTypeOK
<1>2. PICK d : d = Len(frames)
  OBVIOUS
<1>3. d \in Nat \ {0} /\ DOMAIN frames = 1..d
  <2>1. d \in Nat /\ DOMAIN frames = 1..d
    BY <1>1, <1>2, PlacesOf
  <2>2. d # 0
    BY <1>1, <1>2
  <2> QED  BY <2>1, <2>2
<1>4. /\ frames' \in Seq(Seq(ConfigFiles)) /\ DOMAIN frames' = 1..(d - 1)
      /\ \A i \in 1..(d - 1) : frames'[i] = frames[i]
  <2>1. PICK f : f = frames
    OBVIOUS
  <2>2. f \in Seq(Seq(ConfigFiles)) /\ frames' = SubSeq(f, 1, d - 1) /\ d = Len(f)
    BY <1>1, <1>2, <2>1
  <2>3. PICK g : g = SubSeq(f, 1, d - 1)
    OBVIOUS
  <2>4. 1 \in 1..(Len(f) + 1) /\ d - 1 \in 0..Len(f)
    BY <1>3, <2>2
  <2>5. /\ g \in Seq(Seq(ConfigFiles)) /\ DOMAIN g = 1..(d - 1)
        /\ \A i \in 1..(d - 1) : g[i] = f[i]
    BY <1>3, <2>2, <2>3
  <2> QED  BY <2>1, <2>2, <2>3, <2>5
<1>5. ASSUME NEW f, Waiting(f) PROVE Waiting(f)'
  <2>1. PICK e \in DOMAIN frames : Names(frames[e], f)
    BY <1>5 DEF Waiting
  <2>2. e # d
    <3>1. DOMAIN frames[d] = {}
      BY <1>2
    <3> QED  BY <2>1, <3>1 DEF Names
  <2>3. e \in 1..(d - 1)
    BY <2>1, <2>2, <1>3
  <2> QED  BY <2>1, <2>3, <1>4 DEF Waiting
<1>6. ConfigTypeOK'
  BY <1>4 DEF ConfigInv, ConfigTypeOK, world
<1>7. MergedOnce' /\ DoctorFails'
  BY DEF ConfigInv, MergedOnce, DoctorFails
<1>8. NothingIsForgotten'
  BY <1>5 DEF ConfigInv, NothingIsForgotten, world, Layered
<1>9. ValueIsLayered'
  <2>1. Saying' = Saying
    BY DEF Saying, world
  <2> QED  BY <2>1 DEF ConfigInv, ValueIsLayered, world, Says, Layered
<1> QED  BY <1>6, <1>7, <1>8, <1>9 DEF ConfigInv

\* The frames after a file f was taken from the innermost list: all that waited still waits,
\* but for f.
LEMMA FramesAfter ==
    ASSUME NEW F \in Seq(Seq(ConfigFiles)), NEW d, d = Len(F), d # 0, F[d] # <<>>,
           NEW left, left = [F EXCEPT ![d] = Tail(F[d])]
    PROVE  /\ left \in Seq(Seq(ConfigFiles)) /\ DOMAIN left = 1..d
           /\ \A e \in DOMAIN F : \A x : Names(F[e], x) => x = Head(F[d]) \/ Names(left[e], x)
<1>1. d \in Nat \ {0} /\ DOMAIN F = 1..d /\ d \in 1..d
  <2>1. d \in Nat /\ DOMAIN F = 1..d
    BY PlacesOf
  <2> QED  BY <2>1
<1>2. PICK l : l = F[d]
  OBVIOUS
<1>3. l \in Seq(ConfigFiles) /\ l # <<>>
  BY <1>1, <1>2, PlacesOf
<1>4. PICK t : t = Tail(l)
  OBVIOUS
<1>5. /\ t \in Seq(ConfigFiles) /\ Len(l) \in Nat \ {0} /\ Len(t) = Len(l) - 1 /\ Head(l) = l[1]
      /\ DOMAIN t = 1..(Len(l) - 1) /\ DOMAIN l = 1..Len(l)
      /\ \A j \in 1..(Len(l) - 1) : t[j] = l[j + 1]
  BY ONLY <1>3, <1>4
<1>6. left = [F EXCEPT ![d] = t] /\ left[d] = t /\ DOMAIN left = 1..d
      /\ \A e \in DOMAIN F : e # d => left[e] = F[e]
  BY <1>1, <1>2, <1>4
<1>7. left \in Seq(Seq(ConfigFiles))
  BY <1>1, <1>5, <1>6
<1>8. ASSUME NEW j \in DOMAIN l, l[j] # Head(l) PROVE \E m \in DOMAIN t : t[m] = l[j]
  <2>1. j \in 1..Len(l) /\ j # 1
    BY <1>5, <1>8
  <2>2. j - 1 \in 1..(Len(l) - 1) /\ (j - 1) + 1 = j
    BY <2>1, <1>5
  <2>3. t[j - 1] = l[j]
    BY <2>2, <1>5
  <2> QED  BY <2>2, <2>3, <1>5
<1>9. ASSUME NEW e \in DOMAIN F, NEW x, Names(F[e], x)
      PROVE  x = Head(F[d]) \/ Names(left[e], x)
  <2>1. CASE e = d
    <3>1. PICK j \in DOMAIN l : l[j] = x
      BY <2>1, <1>2, <1>9 DEF Names
    <3> QED  BY <2>1, <3>1, <1>2, <1>6, <1>8 DEF Names
  <2>2. CASE e # d
    BY <2>2, <1>6, <1>9
  <2> QED  BY <2>1, <2>2
<1> QED  BY <1>6, <1>7, <1>9

\* Merging a file: what waited still waits, or is the file; what it includes waits.
LEMMA WaitsOn ==
    ASSUME ConfigInv, frames # <<>>, NEW d, d = Len(frames), frames[d] # <<>>, NEW f, f = Head(frames[d]),
           NEW left, left = [frames EXCEPT ![d] = Tail(frames[d])],
           frames' = IF lists[f] = <<>> THEN left ELSE Append(left, lists[f]), UNCHANGED lists
    PROVE  /\ f \in ConfigFiles /\ frames' \in Seq(Seq(ConfigFiles))
           /\ \A g : Waiting(g) => g = f \/ Waiting(g)'
           /\ \A i \in DOMAIN lists[f] : Waiting(lists[f][i])'
<1>0. lists \in [ConfigFiles -> Seq(ConfigFiles)]
  BY DEF ConfigInv, ConfigTypeOK
<1>1. PICK F : F = frames
  OBVIOUS
<1>2. F \in Seq(Seq(ConfigFiles)) /\ d = Len(F) /\ d # 0 /\ F[d] # <<>> /\ left = [F EXCEPT ![d] = Tail(F[d])]
  BY <1>1 DEF ConfigInv, ConfigTypeOK
<1>3. /\ left \in Seq(Seq(ConfigFiles)) /\ DOMAIN left = 1..d
      /\ \A e \in DOMAIN F : \A x : Names(F[e], x) => x = Head(F[d]) \/ Names(left[e], x)
  BY <1>2, FramesAfter
<1>4. d \in Nat /\ DOMAIN F = 1..d /\ F[d] \in Seq(ConfigFiles)
  BY <1>2, PlacesOf
<1>5. f \in ConfigFiles
  <2>1. PICK l : l = F[d]
    OBVIOUS
  <2>2. l \in Seq(ConfigFiles) /\ l # <<>> /\ f = Head(l)
    BY <2>1, <1>1, <1>2, <1>4
  <2> QED  BY ONLY <2>2
<1>6. PICK m : m = lists[f]
  OBVIOUS
<1>7. m \in Seq(ConfigFiles)
  BY <1>0, <1>5, <1>6
<1>8. Len(left) = d
  BY <1>3, <1>4
<1>9. PICK G : G = frames'
  OBVIOUS
<1>10. /\ G \in Seq(Seq(ConfigFiles)) /\ \A e \in 1..d : e \in DOMAIN G /\ G[e] = left[e]
       /\ m # <<>> => d + 1 \in DOMAIN G /\ G[d + 1] = m
  <2>1. CASE m = <<>>
    <3>1. G = left
      BY <2>1, <1>6, <1>9
    <3> QED  BY <3>1, <1>3, <2>1
  <2>2. CASE m # <<>>
    <3>1. G = Append(left, m)
      BY <2>2, <1>6, <1>9
    <3> QED  BY ONLY <3>1, <1>3, <1>4, <1>7, <1>8
  <2> QED  BY <2>1, <2>2
<1>11. ASSUME NEW g, Waiting(g) PROVE g = f \/ Waiting(g)'
  <2>1. PICK e \in DOMAIN F : Names(F[e], g)
    BY <1>11, <1>1 DEF Waiting
  <2>3. g = f \/ Names(left[e], g)
    BY <1>1, <1>3, <2>1
  <2>4. e \in DOMAIN G /\ G[e] = left[e]
    BY <1>4, <1>10
  <2> QED  BY <2>3, <2>4, <1>9 DEF Waiting
<1>12. ASSUME NEW i \in DOMAIN lists[f] PROVE Waiting(lists[f][i])'
  <2>1. m # <<>>
    BY <1>12, <1>6
  <2>2. d + 1 \in DOMAIN G /\ G[d + 1] = m
    BY <2>1, <1>10
  <2>3. d + 1 \in DOMAIN frames' /\ i \in DOMAIN frames'[d + 1] /\ frames'[d + 1][i] = lists'[f][i]
    BY <2>2, <1>9, <1>6, <1>12
  <2> QED  BY <2>3 DEF Waiting, Names
<1> QED  BY <1>5, <1>9, <1>10, <1>11, <1>12

\* Merging a file that was not visited, over what was merged.
LEMMA FileMergedKeeps ==
    ASSUME ConfigInv, phase = "include", frames # <<>>, NEW d, d = Len(frames), frames[d] # <<>>,
           NEW f, f = Head(frames[d]), f \notin visited,
           NEW left, left = [frames EXCEPT ![d] = Tail(frames[d])],
           frames' = IF lists[f] = <<>> THEN left ELSE Append(left, lists[f]),
           visited' = visited \cup {f}, merged' = Append(merged, f), Unmarshal(f),
           UNCHANGED phase, UNCHANGED world, UNCHANGED results
    PROVE  ConfigInv'
<1>1. /\ f \in ConfigFiles /\ frames' \in Seq(Seq(ConfigFiles))
      /\ \A g : Waiting(g) => g = f \/ Waiting(g)'
      /\ \A i \in DOMAIN lists[f] : Waiting(lists[f][i])'
  BY WaitsOn DEF world
<1>2. merged \in Seq(ConfigFiles) /\ visited = {Main} \cup {merged[i] : i \in DOMAIN merged}
  BY DEF ConfigInv, ConfigTypeOK
<1>3. PICK n : n = Len(merged)
  OBVIOUS
<1>4. n \in Nat /\ DOMAIN merged = 1..n
  BY <1>2, <1>3, PlacesOf
<1>5. /\ merged' \in Seq(ConfigFiles) /\ DOMAIN merged' = 1..(n + 1) /\ merged'[n + 1] = f
      /\ \A i \in 1..n : merged'[i] = merged[i]
  <2>1. PICK M : M = merged
    OBVIOUS
  <2>2. M \in Seq(ConfigFiles) /\ merged' = Append(M, f) /\ n = Len(M)
    BY <2>1, <1>2, <1>3
  <2>3. PICK N : N = Append(M, f)
    OBVIOUS
  <2>4. /\ N \in Seq(ConfigFiles) /\ DOMAIN N = 1..(n + 1) /\ N[n + 1] = f
        /\ \A i \in 1..n : N[i] = M[i]
    BY ONLY <2>2, <2>3, <1>1, <1>4
  <2> QED  BY <2>1, <2>2, <2>3, <2>4
<1>6. UNCHANGED <<setting, enabled, files, lists, env, passkey>>
  BY DEF world
<1>7. ConfigTypeOK'
  <2>1. visited' = {Main} \cup {merged'[i] : i \in DOMAIN merged'}
    <3>1. \A x : x \in visited' <=> x = Main \/ x = f \/ \E i \in 1..n : merged[i] = x
      BY <1>2, <1>4
    <3>2. \A x : x \in {Main} \cup {merged'[i] : i \in DOMAIN merged'} <=> x = Main \/ \E i \in 1..(n + 1) : merged'[i] = x
      BY <1>5
    <3>3. ASSUME NEW x PROVE (\E i \in 1..(n + 1) : merged'[i] = x) <=> x = f \/ \E i \in 1..n : merged[i] = x
      <4>1. \A i \in 1..(n + 1) : i = n + 1 \/ i \in 1..n
        BY <1>4
      <4>2. n + 1 \in 1..(n + 1) /\ \A i \in 1..n : i \in 1..(n + 1)
        BY <1>4
      <4>3. ASSUME NEW i \in 1..(n + 1), merged'[i] = x PROVE x = f \/ \E k \in 1..n : merged[k] = x
        BY <4>1, <4>3, <1>5
      <4>4. ASSUME NEW k \in 1..n, merged[k] = x PROVE \E i \in 1..(n + 1) : merged'[i] = x
        BY <4>2, <4>4, <1>5
      <4> QED  BY <4>2, <4>3, <4>4, <1>5
    <3>4. PICK A : A = {Main} \cup {merged'[i] : i \in DOMAIN merged'}
      OBVIOUS
    <3>5. ASSUME NEW x PROVE x \in visited' <=> x \in A
      BY <3>1, <3>2, <3>3, <3>4
    <3>6. visited' = A
      BY ONLY <3>5
    <3> QED  BY <3>4, <3>6
  <2> QED  BY <2>1, <1>1, <1>5, <1>6 DEF ConfigInv, ConfigTypeOK
<1>8. MergedOnce'
  <2>1. f # Main /\ \A i \in 1..n : merged[i] # f
    BY <1>2, <1>4
  <2>2. \A i \in 1..(n + 1) : i = n + 1 \/ i \in 1..n
    BY <1>4
  <2> QED  BY <2>1, <2>2, <1>4, <1>5 DEF ConfigInv, MergedOnce
<1>9. NothingIsForgotten'
  <2>1. ASSUME NEW h \in visited', NEW i \in DOMAIN lists'[h]
        PROVE  (lists[h][i] \in visited \/ Waiting(lists[h][i]))'
    <3>1. CASE h = f
      BY <3>1, <1>1, <2>1, <1>6
    <3>2. CASE h \in visited
      <4>1. lists[h][i] \in visited \/ Waiting(lists[h][i])
        BY <3>2, <2>1, <1>6 DEF ConfigInv, NothingIsForgotten
      <4>2. ASSUME NEW g, g = lists[h][i] PROVE g \in visited' \/ Waiting(g)'
        BY <4>1, <4>2, <1>1
      <4> QED  BY <4>2, <1>6
    <3> QED  BY <3>1, <3>2, <2>1
  <2> QED  BY <2>1, <1>6 DEF NothingIsForgotten, Layered
<1>10. ValueIsLayered'
  <2>1. CASE files[f] = "unset"
    <3>1. value' = value
      BY <2>1 DEF Unmarshal
    <3>2. Saying' = Saying /\ Saying \subseteq 1..n
      <4>1. \A i \in 1..(n + 1) : i = n + 1 \/ i \in 1..n
        BY <1>4
      <4>2. \A i \in 1..n : i \in 1..(n + 1) /\ n + 1 \in 1..(n + 1)
        BY <1>4
      <4>3. \A i \in 1..(n + 1) : files[merged'[i]] # "unset" <=> (i \in 1..n /\ files[merged[i]] # "unset")
        <5>1. ~ (n + 1 \in 1..n)
          BY <1>4
        <5> QED  BY <4>1, <4>2, <1>5, <2>1, <5>1
      <4>4. Saying' = {i \in 1..(n + 1) : files[merged'[i]] # "unset"}
        BY <1>5, <1>6 DEF Saying
      <4>5. Saying = {i \in 1..n : files[merged[i]] # "unset"}
        BY <1>4 DEF Saying
      <4> QED  BY <4>2, <4>3, <4>4, <4>5
    <3>3. \A k \in Saying : Says(merged[k])' = Says(merged[k])
      BY <3>2, <1>5, <1>6 DEF Says
    <3>4. /\ Saying = {} => value = IF files[Main] = "unset" THEN Defaults(setting) ELSE Says(Main)
          /\ Saying = {} \/ \E k \in Saying : (\A j \in Saying : j <= k) /\ value = Says(merged[k])
      BY DEF ConfigInv, ValueIsLayered
    <3>5. Says(Main)' = Says(Main)
      BY <1>6 DEF Says
    <3>6. CASE Saying = {}
      BY <3>6, <3>1, <3>2, <3>4, <3>5, <1>6 DEF ValueIsLayered, Layered
    <3>7. CASE Saying # {}
      <4>1. PICK k \in Saying : (\A j \in Saying : j <= k) /\ value = Says(merged[k])
        BY <3>4, <3>7
      <4>2. k \in Saying' /\ (\A j \in Saying' : j <= k) /\ value' = Says(merged[k])'
        BY <4>1, <3>1, <3>2, <3>3
      <4>3. phase' = "include"
        OBVIOUS
      <4> QED  BY <4>2, <4>3 DEF ValueIsLayered, Layered
    <3> QED  BY <3>6, <3>7
  <2>2. CASE files[f] # "unset"
    <3>1. value' = Says(f)
      BY <2>2 DEF Unmarshal, Says
    <3>2. n + 1 \in Saying' /\ \A j \in Saying' : j <= n + 1
      <4>1. n + 1 \in 1..(n + 1) /\ \A j \in 1..(n + 1) : j <= n + 1
        BY <1>4
      <4> QED  BY <4>1, <1>5, <1>6, <2>2 DEF Saying
    <3>3. ASSUME NEW k, k = n + 1 PROVE value' = Says(merged[k])'
      BY <3>1, <3>3, <1>5, <1>6 DEF Says
    <3>4. PICK k : k = n + 1
      OBVIOUS
    <3>5. k \in Saying' /\ (\A j \in Saying' : j <= k) /\ value' = Says(merged[k])'
      BY <3>2, <3>3, <3>4
    <3>6. phase' = "include"
      OBVIOUS
    <3> QED  BY <3>5, <3>6 DEF ValueIsLayered, Layered
  <2> QED  BY <2>1, <2>2
<1>11. DoctorFails'
  BY DEF ConfigInv, DoctorFails
<1> QED  BY <1>7, <1>8, <1>9, <1>10, <1>11 DEF ConfigInv

\* One step of the include lists.
LEMMA MergeIncludeKeeps ==
    ASSUME ConfigInv, MergeInclude
    PROVE  ConfigInv'
<1>0. results = {} /\ UNCHANGED results /\ UNCHANGED world /\ phase = "include" /\ frames # <<>>
  BY DEF MergeInclude, ConfigInv, DoctorFails
<1>1. PICK d : d = Len(frames)
  OBVIOUS
<1>2. CASE Refuse
  BY <1>0, <1>2, RefusalKeeps
<1>3. CASE frames[d] = <<>>
  <2>1. frames' = SubSeq(frames, 1, d - 1) /\ UNCHANGED <<phase, value, visited, merged>>
    BY <1>1, <1>3 DEF MergeInclude
  <2> QED  BY <2>1, <1>0, <1>1, <1>3, FrameEndsKeeps
<1>4. CASE frames[d] # <<>> /\ ~Refuse
  <2>1. PICK f : f = Head(frames[d])
    OBVIOUS
  <2>2. PICK left : left = [frames EXCEPT ![d] = Tail(frames[d])]
    OBVIOUS
  <2>3. /\ f \notin visited
        /\ visited' = visited \cup {f} /\ merged' = Append(merged, f) /\ Unmarshal(f) /\ UNCHANGED phase
        /\ frames' = IF lists[f] = <<>> THEN left ELSE Append(left, lists[f])
    BY <1>1, <1>4, <2>1, <2>2 DEF MergeInclude
  <2> QED  BY <2>1, <2>2, <2>3, <1>0, <1>1, <1>4, FileMergedKeeps
<1> QED  BY <1>2, <1>3, <1>4

\* The includes end: the main file speaks again, over all that was merged.
LEMMA IncludesEndKeeps ==
    ASSUME ConfigInv, IncludesEnd
    PROVE  ConfigInv'
<1>1. /\ phase = "include" /\ frames = <<>> /\ phase' = "env"
      /\ UNCHANGED <<setting, enabled, files, lists, env, passkey, frames, visited, merged, results>>
      /\ value' = IF files[Main] = "unset" THEN value ELSE Says(Main)
  BY DEF IncludesEnd, SecondPass, Unmarshal, world, Says
<1>2. ConfigTypeOK' /\ MergedOnce' /\ DoctorFails'
  BY <1>1 DEF ConfigInv, ConfigTypeOK, MergedOnce, DoctorFails, Phases
<1>3. NothingIsForgotten'
  <2>1. \A g : ~Waiting(g)
    BY <1>1 DEF Waiting
  <2>2. ASSUME NEW h \in visited, NEW i \in DOMAIN lists[h] PROVE lists[h][i] \in visited
    BY <2>1, <1>1 DEF ConfigInv, NothingIsForgotten
  <2> QED  BY <2>2, <1>1 DEF NothingIsForgotten
<1>4. Saying' = Saying /\ FromFiles' = FromFiles /\ SaidByFiles' = SaidByFiles
  BY <1>1 DEF Saying, FromFiles, SaidByFiles
<1>5. /\ value' = [is |-> SaidByFiles, from |-> FromFiles]
      /\ SaidByFiles = "cipher" => setting \in decryptSecrets
  <2>1. files \in [ConfigFiles -> {"unset", "good", "bad", "cipher"}] /\ merged \in Seq(ConfigFiles)
        /\ (setting \notin decryptSecrets => \A f \in ConfigFiles : files[f] # "cipher")
    BY DEF ConfigInv, ConfigTypeOK
  <2>2. Main \in ConfigFiles /\ "default" \notin ConfigFiles
    BY ConfigConstants DEF ConfigFiles
  <2>3. CASE files[Main] # "unset"
    <3>1. FromFiles = Main
      BY <2>3 DEF FromFiles
    <3>2. SaidByFiles = files[Main]
      BY <3>1, <2>2 DEF SaidByFiles
    <3> QED  BY <3>1, <3>2, <2>1, <2>2, <2>3, <1>1 DEF Says
  <2>4. CASE files[Main] = "unset" /\ Saying = {}
    <3>1. FromFiles = "default" /\ value = Defaults(setting)
      BY <2>4, <1>1 DEF FromFiles, ConfigInv, ValueIsLayered
    <3>2. SaidByFiles = Defaults(setting).is
      BY <3>1 DEF SaidByFiles
    <3> QED  BY <3>1, <3>2, <2>4, <1>1, DefaultIs
  <2>5. CASE files[Main] = "unset" /\ Saying # {}
    <3>1. PICK k \in Saying : (\A j \in Saying : j <= k) /\ value = Says(merged[k])
      BY <2>5, <1>1 DEF ConfigInv, ValueIsLayered
    <3>2. Saying \subseteq Nat /\ merged[k] \in ConfigFiles
      <4>1. DOMAIN merged = 1..Len(merged) /\ Len(merged) \in Nat /\ \A i \in DOMAIN merged : merged[i] \in ConfigFiles
        BY <2>1, PlacesOf
      <4> QED  BY <4>1 DEF Saying
    <3>3. k = CHOOSE i \in Saying : \A j \in Saying : j <= i
      BY <3>1, <3>2, LastSays
    <3>4. FromFiles = merged[k]
      BY <3>3, <2>5 DEF FromFiles
    <3>5. SaidByFiles = files[merged[k]]
      BY <3>4, <3>2, <2>2 DEF SaidByFiles
    <3>6. value' = [is |-> files[merged[k]], from |-> merged[k]]
      BY <3>1, <2>5, <1>1 DEF Says
    <3>7. files[merged[k]] = "cipher" => setting \in decryptSecrets
      BY <3>2, <2>1
    <3> QED  BY <3>4, <3>5, <3>6, <3>7
  <2> QED  BY <2>3, <2>4, <2>5
<1>6. ValueIsLayered'
  <2> QED  BY <1>1, <1>4, <1>5 DEF ValueIsLayered, Layered
<1> QED  BY <1>2, <1>3, <1>6 DEF ConfigInv

\* The layers below the environment stay what they said.
LEMMA FilesStay ==
    ASSUME UNCHANGED world, UNCHANGED merged
    PROVE  /\ Saying' = Saying /\ FromFiles' = FromFiles /\ SaidByFiles' = SaidByFiles
           /\ Strongest' = Strongest /\ StrongestSays' = StrongestSays
           /\ UNCHANGED visited => Loads' = Loads
<1>1. UNCHANGED <<files, setting, env, enabled, passkey>>
  BY DEF world
<1>2. Saying' = Saying
  BY <1>1 DEF Saying
<1>3. FromFiles' = FromFiles
  BY <1>1, <1>2 DEF FromFiles
<1>4. SaidByFiles' = SaidByFiles
  BY <1>1, <1>3 DEF SaidByFiles
<1>5. Heeded(setting, SaidByFiles)' = Heeded(setting, SaidByFiles)
  BY <1>1, <1>4 DEF Heeded
<1>6. Strongest' = Strongest /\ StrongestSays' = StrongestSays
  BY <1>1, <1>3, <1>4, <1>5 DEF Strongest, StrongestSays
<1>7. UNCHANGED visited => Loads' = Loads
  BY <1>1, <1>6 DEF Loads
<1> QED  BY <1>2, <1>3, <1>4, <1>6, <1>7

\* The environment speaks.
LEMMA OverridesKeeps ==
    ASSUME ConfigInv, Overrides
    PROVE  ConfigInv'
<1>1. /\ (phase = "env" /\ phase' = "decrypt") \/ (phase = "env only" /\ phase' = "validate")
      /\ UNCHANGED world /\ value' = ApplyEnvOverrides(setting, value)
      /\ UNCHANGED <<setting, enabled, files, lists, env, passkey, frames, visited, merged, results>>
  BY DEF Overrides, world
<1>2. ConfigTypeOK' /\ MergedOnce' /\ DoctorFails'
  BY <1>1 DEF ConfigInv, ConfigTypeOK, MergedOnce, DoctorFails, Phases
<1>3. NothingIsForgotten'
  BY <1>1 DEF ConfigInv, NothingIsForgotten, Layered
<1>4. SaidByFiles' = SaidByFiles /\ Strongest' = Strongest /\ StrongestSays' = StrongestSays /\ Loads' = Loads
  BY <1>1, FilesStay
<1>5. /\ value = [is |-> SaidByFiles, from |-> FromFiles] /\ (SaidByFiles = "cipher" => setting \in decryptSecrets)
      /\ phase = "env only" => visited = {}
  BY <1>1 DEF ConfigInv, ValueIsLayered, Layered
<1>6. value' = [is |-> StrongestSays, from |-> Strongest]
  BY <1>1, <1>5, ApplyIs
<1>7. phase = "env only" => Loads = StrongestSays
  BY <1>5 DEF Loads
<1>8. ValueIsLayered'
  BY <1>1, <1>4, <1>5, <1>6, <1>7 DEF ValueIsLayered, Layered
<1> QED  BY <1>2, <1>3, <1>8 DEF ConfigInv

\* Secrets are decrypted, or the configuration is refused.
LEMMA DecryptKeeps ==
    ASSUME ConfigInv, Decrypt
    PROVE  ConfigInv'
<1>0. results = {} /\ UNCHANGED results /\ UNCHANGED world /\ phase = "decrypt"
  BY DEF Decrypt, ConfigInv, DoctorFails
<1>1. CASE Refuse
  BY <1>0, <1>1, RefusalKeeps
<1>2. CASE ~Refuse
  <2>1. UNCHANGED <<setting, enabled, files, lists, env, passkey, frames, visited, merged, results>> /\ phase' = "validate"
    BY <1>0, <1>2 DEF Decrypt, world
  <2>2. \/ passkey /\ value.is = "cipher" /\ value' = [value EXCEPT !.is = "good"]
        \/ value' = value /\ ~(passkey /\ setting \in decryptSecrets /\ value.is = "cipher")
    BY <1>2 DEF Decrypt, Secret
  <2>3. ConfigTypeOK' /\ MergedOnce' /\ DoctorFails'
    BY <2>1, <1>0 DEF ConfigInv, ConfigTypeOK, MergedOnce, DoctorFails, Phases
  <2>4. NothingIsForgotten'
    BY <2>1, <1>0 DEF ConfigInv, NothingIsForgotten, Layered
  <2>5. SaidByFiles' = SaidByFiles /\ Strongest' = Strongest /\ Loads' = Loads
    BY <1>0, <2>1, FilesStay
  <2>6. /\ value = [is |-> StrongestSays, from |-> Strongest] /\ visited # {}
        /\ SaidByFiles = "cipher" => setting \in decryptSecrets
    <3>1. Main \in {Main} \cup {merged[i] : i \in DOMAIN merged}
      OBVIOUS
    <3>2. visited # {}
      BY <1>0, <3>1 DEF ConfigInv, ConfigTypeOK
    <3> QED  BY <1>0, <3>2 DEF ConfigInv, ValueIsLayered, Layered
  <2>7. StrongestSays = "cipher" => setting \in decryptSecrets
    BY <2>6 DEF StrongestSays, ConfigInv, ConfigTypeOK
  <2>8. value' = [is |-> Loads, from |-> Strongest]
    <3>1. PICK says, there : says = StrongestSays /\ there = Strongest
      OBVIOUS
    <3>2. value = [is |-> says, from |-> there] /\ value.is = says
      BY <2>6, <3>1
    <3>3. Loads = (IF says = "cipher" /\ passkey THEN "good" ELSE says)
      BY <2>6, <3>1 DEF Loads
    <3>4. \/ passkey /\ says = "cipher" /\ value' = [is |-> "good", from |-> there]
          \/ value' = value /\ ~(passkey /\ says = "cipher")
      BY <2>2, <2>7, <3>1, <3>2
    <3> QED  BY <3>1, <3>2, <3>3, <3>4
  <2>9. ValueIsLayered'
    BY <2>1, <2>5, <2>6, <2>8 DEF ValueIsLayered, Layered
  <2> QED  BY <2>3, <2>4, <2>9 DEF ConfigInv
<1> QED  BY <1>1, <1>2

\* The configuration is accepted or refused.
LEMMA ValidateKeeps ==
    ASSUME ConfigInv, Validate
    PROVE  ConfigInv'
<1>0. /\ results = {} /\ UNCHANGED world /\ phase = "validate"
      /\ UNCHANGED <<setting, enabled, files, lists, env, passkey, frames, visited, merged, results, value>>
  BY DEF Validate, ConfigInv, DoctorFails, world
<1>1. phase' \in {"accepted", "refused"} /\ (phase' = "accepted" => ~(Required(setting) /\ value.is = "bad"))
  BY DEF Validate
<1>2. ConfigTypeOK' /\ MergedOnce' /\ DoctorFails'
  BY <1>0, <1>1 DEF ConfigInv, ConfigTypeOK, MergedOnce, DoctorFails, Phases
<1>3. NothingIsForgotten'
  BY <1>0, <1>1 DEF ConfigInv, NothingIsForgotten, Layered
<1>4. SaidByFiles' = SaidByFiles /\ Strongest' = Strongest /\ Loads' = Loads
  BY <1>0, FilesStay
<1>5. Required(setting)' = Required(setting)
  BY <1>0 DEF Required
<1>6. ValueIsLayered'
  BY <1>0, <1>1, <1>4, <1>5 DEF ConfigInv, ValueIsLayered, Layered
<1> QED  BY <1>2, <1>3, <1>6 DEF ConfigInv

\* The layers stay while Load does nothing.
LEMMA ValueStays ==
    ASSUME ConfigInv, UNCHANGED <<phase, value, visited, merged>>, UNCHANGED world
    PROVE  ValueIsLayered'
<1>0. UNCHANGED <<setting, enabled, files, lists, env, passkey>>
  BY DEF world
<1>1. /\ Saying' = Saying /\ FromFiles' = FromFiles /\ SaidByFiles' = SaidByFiles
      /\ Strongest' = Strongest /\ StrongestSays' = StrongestSays /\ Loads' = Loads
  BY FilesStay
<1>2. Required(setting)' = Required(setting)
  BY <1>0 DEF Required
<1> QED  BY <1>0, <1>1, <1>2 DEF ConfigInv, ValueIsLayered, Layered, Says

\* The doctor changes nothing that was loaded, and one of its checks fails without it.
LEMMA RunDoctorKeeps ==
    ASSUME ConfigInv, runDoctor
    PROVE  ConfigInv'
<1>0. /\ phase \in {"accepted", "refused"} /\ UNCHANGED world
      /\ UNCHANGED <<setting, enabled, files, lists, env, passkey, phase, frames, visited, merged, value>>
  BY DEF runDoctor, world
<1>1. phase = "refused" => "fail" \in results'
  <2>1. checkConfigFile \in Checks
    BY DEF Checks
  <2>2. phase = "refused" => checkConfigFile = {"fail"}
    BY DEF checkConfigFile, Loaded
  <2>3. checkConfigFile \cap results' # {}
    BY <2>1 DEF runDoctor
  <2> QED  BY <2>2, <2>3
<1>2. ConfigTypeOK' /\ MergedOnce' /\ DoctorFails'
  BY <1>0, <1>1 DEF ConfigInv, ConfigTypeOK, MergedOnce, DoctorFails, Phases
<1>3. NothingIsForgotten'
  BY <1>0 DEF ConfigInv, NothingIsForgotten, Layered
<1>4. ValueIsLayered'
  BY <1>0, ValueStays
<1> QED  BY <1>2, <1>3, <1>4 DEF ConfigInv

\* Nothing happens.
LEMMA ConfigStands ==
    ASSUME ConfigInv, UNCHANGED configVars
    PROVE  ConfigInv'
<1>0. /\ UNCHANGED world
      /\ UNCHANGED <<setting, enabled, files, lists, env, passkey, phase, frames, visited, merged, value, results>>
  BY DEF configVars, world
<1>1. ConfigTypeOK' /\ MergedOnce' /\ DoctorFails'
  BY <1>0 DEF ConfigInv, ConfigTypeOK, MergedOnce, DoctorFails
<1>2. NothingIsForgotten'
  BY <1>0 DEF ConfigInv, NothingIsForgotten, Waiting
<1>3. ValueIsLayered'
  BY <1>0, ValueStays
<1> QED  BY <1>1, <1>2, <1>3 DEF ConfigInv

\* The inductive invariant of Load and the doctor, whatever the files include and say.
THEOREM ConfigInvariant == ConfigSpec => []ConfigInv
<1>1. ConfigInit => ConfigInv
  BY ConfigStart
<1>2. ConfigInv /\ [ConfigNext]_configVars => ConfigInv'
  BY ReadMainKeeps, MergeIncludeKeeps, IncludesEndKeeps, OverridesKeeps, DecryptKeeps, ValidateKeeps,
     RunDoctorKeeps, ConfigStands DEF ConfigNext
<1> QED  BY <1>1, <1>2, PTL DEF ConfigSpec

\* LoadIsLayered: an accepted configuration holds what the strongest layer says, decrypted if
\* there are a file and a passphrase; nothing is merged twice, nothing a merged file includes is left out, and what the composition root
\* cannot start without is there; the doctor fails whatever configuration Load refuses.
THEOREM LoadIsLayeredHolds == ConfigSpec => []LoadIsLayered
<1>1. ConfigInv => LoadIsLayered
  <2> SUFFICES ASSUME ConfigInv
               PROVE  LoadIsLayered
    OBVIOUS
  <2>1. ASSUME phase = "accepted"
        PROVE  /\ value = [is |-> Loads, from |-> Strongest]
               /\ (enabled /\ setting \in StartNeeds) => value.is # "bad"
    BY <2>1, NeedsAreRequired DEF ConfigInv, ValueIsLayered
  <2>2. \A i, j \in DOMAIN merged : merged[i] = merged[j] => i = j
    BY DEF ConfigInv, MergedOnce
  <2>3. ASSUME phase = "accepted", merged # <<>>
        PROVE  \A f \in visited : \A i \in DOMAIN lists[f] : lists[f][i] \in visited
    BY <2>3 DEF ConfigInv, NothingIsForgotten, Layered
  <2>4. (phase = "refused" /\ results # {}) => "fail" \in results
    BY DEF ConfigInv, DoctorFails
  <2> QED  BY <2>1, <2>2, <2>3, <2>4 DEF LoadIsLayered
<1> QED  BY <1>1, ConfigInvariant, PTL

=============================================================================
