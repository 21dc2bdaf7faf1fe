------------------------------ MODULE Workflow ------------------------------
(***************************************************************************)
(* The workflow engine: internal/usecase/workflow and its tool.  Pipelines *)
(* of steps, approval steps that pause a run until somebody resumes it     *)
(* with the run's token, a limit on running pipelines, and a store of runs *)
(* that is written as a whole and evicts old finished runs.                *)
(*                                                                         *)
(* A run is only stored when it stops: paused, failed, denied, completed.  *)
(* Runs are numbered in the order of their creation.                       *)
(***************************************************************************)
EXTENDS Integers, Sequences, FiniteSets

CONSTANTS WfCallers,       \* goroutines that call Run or Resume, once each
          Pipelines,       \* sequences of steps: type, condition, passes its static checks,
                           \* and fail_on_error
          MaxRunning,
          maxWorkflowRuns,
          NoToken,
          WfBounds         \* bounds: runs, crashes, failed writes

StepTypes == {"exec", "http", "transform", "approval", "tool_call"}

ASSUME WorkflowConstants ==
    /\ Pipelines \subseteq Seq([type : StepTypes, cond : BOOLEAN, valid : BOOLEAN, failOnError : BOOLEAN])
    /\ {MaxRunning, maxWorkflowRuns} \subseteq Nat /\ IsFiniteSet(WfCallers)
    /\ WfBounds \in [runs : Nat, crashes : Nat, failures : Nat]

VARIABLES wfRuns,      \* FileStore.runs: what memory knows of a run
          wfDisk,      \* and what workflow_runs.json does
          running,     \* Manager.running
          wfCall,      \* the locals of every caller
          wfLeft,      \* what the bounds still allow
          history,     \* of every run: its steps, how often each was executed, and how often
                       \* it was passed by an approval or a condition
          promised     \* the runs handed out as paused with a token, and not resumed since

workflowVars == <<wfRuns, wfDisk, running, wfCall, wfLeft, history, promised>>

Ids == 1 .. WfBounds.runs
NoRun == [id |-> 0, steps |-> <<>>, step |-> 0, status |-> "none", token |-> NoToken]
Idle  == [pc |-> "idle", run |-> NoRun, counted |-> FALSE]

WorkflowInit ==
    /\ wfRuns = [r \in Ids |-> NoRun] /\ wfDisk = [r \in Ids |-> NoRun]
    /\ running = 0
    /\ wfCall = [c \in WfCallers |-> Idle]
    /\ wfLeft = WfBounds
    /\ history = [r \in Ids |-> [steps |-> <<>>, executed |-> <<>>, passed |-> <<>>]]
    /\ promised = {}

-----------------------------------------------------------------------------
(* The steps.  The world does its part, answers with a failure (an exit code, *)
(* an HTTP status of 400 or more, a tool's error, a template that does not    *)
(* apply), or cannot be reached in time.                                      *)

World == {"good", "bad", "broken"}

\* The command is on the allowlist and the directory inside the sandbox.
executeExecStep(s, w) == IF s.valid /\ w = "good" THEN "completed" ELSE "failed"

\* The URL and the method are allowed.  A bad status is a result unless fail_on_error.
executeHTTPStep(s, w) ==
    IF s.valid /\ (w = "good" \/ (w = "bad" /\ ~s.failOnError)) THEN "completed" ELSE "failed"

\* The template parses.
executeTransformStep(s, w) == IF s.valid /\ w = "good" THEN "completed" ELSE "failed"

\* The tool executor is there and has the tool, and the tool is not "workflow".
executeToolCallStep(s, w) == IF s.valid /\ w = "good" THEN "completed" ELSE "failed"

executeApprovalStep(s, w) == "paused"

executeStep(s, w) ==
    CASE s.type = "exec"      -> executeExecStep(s, w)
      [] s.type = "http"      -> executeHTTPStep(s, w)
      [] s.type = "transform" -> executeTransformStep(s, w)
      [] s.type = "approval"  -> executeApprovalStep(s, w)
      [] s.type = "tool_call" -> executeToolCallStep(s, w)

\* validatePipeline, for RunInline; a file that fails it is not loaded.
validatePipeline(p) == p # <<>> /\ \A i \in DOMAIN p : p[i].type \in StepTypes

-----------------------------------------------------------------------------
(* The store *)

Finished(run) == run.status \in {"completed", "failed", "denied"}

\* Mutant: the oldest run goes, whatever it is doing.
MutEvictable(runs) == {r \in Ids : runs[r] # NoRun}

\* Only finished runs may go.
Evictable(runs) == {r \in Ids : Finished(runs[r])}

Stored(runs) == {r \in Ids : runs[r] # NoRun}

\* evictOldest: of the runs that may go, the oldest ones, until the limit is met.
Evicted(runs) ==
    {r \in Evictable(runs) :
        Cardinality({q \in Evictable(runs) : q < r}) < Cardinality(Stored(runs)) - maxWorkflowRuns}

evictOldest(runs) == [r \in Ids |-> IF r \in Evicted(runs) THEN NoRun ELSE runs[r]]

\* SaveRun.  The write is atomic (a rename); when it fails the map is ahead of the disk.
SaveRun(run) ==
    /\ wfRuns' = evictOldest([wfRuns EXCEPT ![run.id] = run])
    /\ \/ wfDisk' = wfRuns' /\ UNCHANGED wfLeft
       \/ /\ wfLeft.failures > 0
          /\ wfLeft' = [wfLeft EXCEPT !.failures = @ - 1]
          /\ UNCHANGED wfDisk

\* GetRunByToken.
Resumable(r, token) == wfRuns[r].status = "paused" /\ wfRuns[r].token = token

-----------------------------------------------------------------------------
(* Manager *)

\* executePipeline looks at the counter ...
RunCheck(c) ==
    /\ wfCall[c].pc = "idle"
    /\ wfCall' = [wfCall EXCEPT ![c].pc = IF running >= MaxRunning THEN "refused" ELSE "admitted"]
    /\ UNCHANGED <<wfRuns, wfDisk, running, wfLeft, history, promised>>

\* ... and then adds to it.
RunCount(c) ==
    /\ wfCall[c].pc = "admitted"
    /\ running' = running + 1
    /\ wfCall' = [wfCall EXCEPT ![c].pc = "counted"]
    /\ UNCHANGED <<wfRuns, wfDisk, wfLeft, history, promised>>

\* A required argument is missing: the deferred decrement takes the count back.
RunArgs(c) ==
    /\ wfCall[c].pc = "counted"
    /\ running' = running - 1
    /\ wfCall' = [wfCall EXCEPT ![c].pc = "refused"]
    /\ UNCHANGED <<wfRuns, wfDisk, wfLeft, history, promised>>

RunStart(c, p) ==
    /\ wfCall[c].pc = "counted" /\ validatePipeline(p)
    /\ wfLeft.runs > 0
    /\ LET id == WfBounds.runs - wfLeft.runs + 1
       IN  /\ wfCall' = [wfCall EXCEPT ![c] =
                           [pc |-> "steps", counted |-> TRUE,
                            run |-> [id |-> id, steps |-> p, step |-> 1, status |-> "running", token |-> NoToken]]]
           /\ history' = [history EXCEPT ![id] = [steps |-> p, executed |-> [i \in DOMAIN p |-> 0],
                                                 passed |-> [i \in DOMAIN p |-> 0]]]
    /\ wfLeft' = [wfLeft EXCEPT !.runs = @ - 1]
    /\ UNCHANGED <<wfRuns, wfDisk, running, promised>>

\* Resume reads a copy of the paused run.  Approved, the copy goes on behind the gate;
\* the store keeps the token until the run is saved again.
Resume(c, r, approve) ==
    /\ wfCall[c].pc = "idle" /\ Resumable(r, wfRuns[r].token)
    /\ LET run == [wfRuns[r] EXCEPT !.token = NoToken]
       IN  wfCall' = [wfCall EXCEPT ![c] =
               [pc |-> IF approve THEN "steps" ELSE "save", counted |-> FALSE,
                run |-> IF approve THEN [run EXCEPT !.status = "running", !.step = @ + 1]
                        ELSE [run EXCEPT !.status = "denied"]]]
    /\ history' = IF approve THEN [history EXCEPT ![r].passed[wfRuns[r].step] = @ + 1] ELSE history
    /\ promised' = promised \ {<<r, wfRuns[r].token>>}
    /\ UNCHANGED <<wfRuns, wfDisk, running, wfLeft>>

AtStep(c, i) == wfCall[c].pc = "steps" /\ wfCall[c].run.step = i /\ i <= Len(wfCall[c].run.steps)

\* One round of continueExecution: a condition that does not hold skips the step.
SkipStep(c, i) ==
    /\ AtStep(c, i) /\ wfCall[c].run.steps[i].cond
    /\ wfCall' = [wfCall EXCEPT ![c].run.step = i + 1]
    /\ history' = [history EXCEPT ![wfCall[c].run.id].passed[i] = @ + 1]
    /\ UNCHANGED <<wfRuns, wfDisk, running, wfLeft, promised>>

\* Mutant: the step runs on after an approval step.
MutAfterStep(run, outcome, c) ==
    IF outcome = "failed" THEN [pc |-> "save", run |-> [run EXCEPT !.status = "failed"]]
    ELSE [pc |-> "steps", run |-> [run EXCEPT !.step = @ + 1]]

\* What follows from a step's outcome.  The token of a paused run is a new one.
AfterStep(run, outcome, c) ==
    CASE outcome = "completed" -> [pc |-> "steps", run |-> [run EXCEPT !.step = @ + 1]]
      [] outcome = "failed"    -> [pc |-> "save", run |-> [run EXCEPT !.status = "failed"]]
      [] outcome = "paused"    -> [pc |-> "save", run |-> [run EXCEPT !.status = "paused", !.token = <<c, run.step>>]]

ExecuteStep(c, i, w) ==
    /\ AtStep(c, i)
    /\ LET run  == wfCall[c].run
           next == AfterStep(run, executeStep(run.steps[i], w), c)
       IN  /\ wfCall' = [wfCall EXCEPT ![c].pc = next.pc, ![c].run = next.run]
           /\ history' = [history EXCEPT ![run.id].executed[i] = @ + 1]
    /\ UNCHANGED <<wfRuns, wfDisk, running, wfLeft, promised>>

Complete(c) ==
    /\ wfCall[c].pc = "steps" /\ wfCall[c].run.step > Len(wfCall[c].run.steps)
    /\ wfCall' = [wfCall EXCEPT ![c].pc = "save", ![c].run.status = "completed"]
    /\ UNCHANGED <<wfRuns, wfDisk, running, wfLeft, history, promised>>

\* The run is saved and returned; an error of the save is ignored.  A run that came
\* from Resume was never counted.
Return(c) ==
    /\ wfCall[c].pc = "save"
    /\ LET run == wfCall[c].run
       IN  /\ SaveRun(run)
           /\ promised' = IF run.status # "paused" THEN {t \in promised : t[1] # run.id}
                          ELSE {t \in promised : t[1] # run.id} \cup
                               (IF wfDisk' = wfRuns' THEN {<<run.id, run.token>>} ELSE {})
    /\ running' = IF wfCall[c].counted THEN running - 1 ELSE running
    /\ wfCall' = [wfCall EXCEPT ![c] = [Idle EXCEPT !.pc = "done"]]
    /\ UNCHANGED history

\* The process dies and starts again: NewFileStore loads the file.
WorkflowCrash ==
    /\ wfLeft.crashes > 0
    /\ wfLeft' = [wfLeft EXCEPT !.crashes = @ - 1]
    /\ wfRuns' = wfDisk
    /\ running' = 0
    /\ wfCall' = [c \in WfCallers |-> IF wfCall[c].pc = "idle" THEN Idle ELSE [Idle EXCEPT !.pc = "done"]]
    /\ UNCHANGED <<wfDisk, history, promised>>

WorkflowNext ==
    \/ \E c \in WfCallers :
          \/ RunCheck(c) \/ RunCount(c) \/ RunArgs(c) \/ Complete(c) \/ Return(c)
          \/ \E p \in Pipelines : RunStart(c, p)
          \/ \E r \in Ids, approve \in BOOLEAN : Resume(c, r, approve)
          \/ \E i \in DOMAIN wfCall[c].run.steps : SkipStep(c, i) \/ \E w \in World : ExecuteStep(c, i, w)
    \/ WorkflowCrash

WorkflowSpec == WorkflowInit /\ [][WorkflowNext]_workflowVars

-----------------------------------------------------------------------------
\* The approval steps before step i of run r.
GatesBefore(r, i) == {j \in 1 .. i - 1 : history[r].steps[j].type = "approval"}

\* No step runs behind an approval step that was never approved (or skipped by its
\* condition), be it after a denial, and none more often than the nearest gate before it
\* was: twice only when somebody approved twice, as two Resumes with one token or a crash
\* before the next save allow.  A step before every gate runs once at most.
StepsAreApproved ==
    \A r \in Ids : \A i \in DOMAIN history[r].steps :
        /\ GatesBefore(r, i) = {} => history[r].executed[i] <= 1
        /\ \A j \in GatesBefore(r, i) :
              /\ history[r].executed[i] > 0 => history[r].passed[j] > 0
              /\ (\A k \in GatesBefore(r, i) : k <= j) => history[r].executed[i] <= history[r].passed[j]

\* A run that was returned as paused and whose file was written can be resumed with its
\* token until somebody resumes that run, across restarts and with the store at its limit.
PausedIsKept == \A t \in promised : Resumable(t[1], t[2])

\* What an approval is for, and what a paused run is promised (workflow/manager.go).
WorkflowsAreGated == StepsAreApproved /\ PausedIsKept
=============================================================================
