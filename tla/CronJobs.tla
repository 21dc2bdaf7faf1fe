----------------------------- MODULE CronJobs -----------------------------
(***************************************************************************)
(* Scheduled jobs: cronjob.Manager with its FileStore, and the Scheduler   *)
(* (internal/usecase/scheduling) whose cron runs each fired entry on a     *)
(* goroutine of its own.                                                   *)
(*                                                                         *)
(* A step is one critical section of Manager.mu, Scheduler.mu or           *)
(* FileStore.mu.  Manager.mu is held from the first step of Create, Update *)
(* or Delete to its last; Scheduler.mu is held for longer than a step only *)
(* by Stop.  jobs.json and runs.json are replaced by a rename, so a crash  *)
(* or a failed write leaves the old file whole.                            *)
(***************************************************************************)
EXTENDS Naturals, SequencesExt

CONSTANTS Jobs,           \* the IDs that newID hands out, each of them once
          Firings,        \* goroutines that cron starts
          AtTimes,        \* instants that a one-shot ("at") schedule may name
          NoJob,
          maxRunsPerJob,  \* cap of a job's run log
          MaxCalls, MaxFires, MaxCrashes, MaxFailures   \* bounds of the instance

ASSUME CronBounds == {maxRunsPerJob, MaxCalls, MaxFires, MaxCrashes, MaxFailures} \subseteq Nat
ASSUME CronNames  == /\ IsFiniteSet(Jobs)
                     /\ NoJob \notin [sched : AtTimes \cup {"every"}, enabled : BOOLEAN, count : Nat]

VARIABLES jobs, runs,            \* FileStore's maps; a run log is its length
          diskJobs, diskRuns,    \* jobs.json and runs.json
          failures,              \* writes that failed
          entries,               \* cron's entries; an entry's ID is its index
          dynamicEntries,        \* Scheduler.dynamicEntries, 0 for absent
          phase,                 \* of the process and of its Scheduler
          passed,                \* the at-times that lie in the past
          crashes,
          call,                  \* the call that holds Manager.mu, if any, and its locals
          fire,                  \* the locals of every firing
          asked,                 \* what callers have asked of each job
          calls, fires,
          handled                \* the <<job, schedule>> pairs given to the handler

store   == <<jobs, runs, diskJobs, diskRuns, failures>>
cron    == <<entries, dynamicEntries>>
process == <<phase, passed, crashes>>
manager == <<call, asked, calls>>
firing  == <<fire, fires, handled>>
cronVars    == <<store, cron, process, manager, firing>>

Every     == "every"             \* a recurring schedule: kind "every" or "cron"
Schedules == AtTimes \cup {Every}

Idle    == [pc |-> "idle", op |-> "none", job |-> NoJob, copy |-> NoJob]
Resting == [pc |-> "idle", entry |-> 0, copy |-> NoJob]

NewJob(s) == [sched |-> s, enabled |-> TRUE, count |-> 0]

\* The process is about to start, on the files of an earlier one that had created
\* some of the jobs and run none.
CronInit == /\ diskJobs \in [Jobs -> {NewJob(s) : s \in Schedules} \cup {NoJob}]
            /\ jobs = diskJobs
            /\ runs = [j \in Jobs |-> 0] /\ diskRuns = runs
            /\ entries = <<>>
            /\ dynamicEntries = [j \in Jobs |-> 0]
            /\ phase = "down" /\ passed = {}
            /\ call = Idle
            /\ fire = [f \in Firings |-> Resting]
            /\ asked = [j \in Jobs |-> IF jobs[j] = NoJob THEN {} ELSE {"create", "created"}]
            /\ handled = {}
            /\ calls = 0 /\ fires = 0 /\ crashes = 0 /\ failures = 0

-----------------------------------------------------------------------------
(* FileStore: the map changes first, and stays changed if the write fails. *)

Written(ok) == /\ failures' = IF ok THEN failures ELSE failures + 1
               /\ failures' <= MaxFailures

\* Mutant: the map changes and the file does not.
MutSave(j, job, ok) ==
    /\ jobs' = [jobs EXCEPT ![j] = job]
    /\ Written(ok)
    /\ UNCHANGED <<diskJobs, runs, diskRuns>>

Save(j, job, ok) ==
    /\ jobs' = [jobs EXCEPT ![j] = job]
    /\ diskJobs' = IF ok THEN jobs' ELSE diskJobs
    /\ Written(ok)
    /\ UNCHANGED <<runs, diskRuns>>

\* Mutant: the run log is not cut.
MutUncapped(j, ok) ==
    /\ runs' = [runs EXCEPT ![j] = @ + 1]
    /\ diskRuns' = IF ok THEN runs' ELSE diskRuns
    /\ Written(ok)
    /\ UNCHANGED <<jobs, diskJobs>>

\* Mutant: the run log is not written.
MutSaveRun(j, ok) ==
    /\ runs' = [runs EXCEPT ![j] = IF @ < maxRunsPerJob THEN @ + 1 ELSE @]
    /\ Written(ok)
    /\ UNCHANGED <<jobs, diskJobs, diskRuns>>

SaveRun(j, ok) ==
    /\ runs' = [runs EXCEPT ![j] = IF @ < maxRunsPerJob THEN @ + 1 ELSE @]
    /\ diskRuns' = IF ok THEN runs' ELSE diskRuns
    /\ Written(ok)
    /\ UNCHANGED <<jobs, diskJobs>>

\* Forgets the job and its runs, then writes jobs.json and, if that went well,
\* runs.json; files is the number of files written.
DeleteStored(j, files) ==
    /\ jobs' = [jobs EXCEPT ![j] = NoJob]
    /\ runs' = [runs EXCEPT ![j] = 0]
    /\ diskJobs' = IF files >= 1 THEN jobs' ELSE diskJobs
    /\ diskRuns' = IF files = 2 THEN runs' ELSE diskRuns

-----------------------------------------------------------------------------
(* Scheduler; every operation needs Scheduler.mu, which Stop may hold. *)

SchedulerFree == phase # "stopping"

\* onceSchedule.Next returns its instant once, and only while it is in the future.
Armed(s) == s = Every \/ s \notin passed

NewEntry(j, s) == [job |-> j, sched |-> s, live |-> TRUE, armed |-> Armed(s)]

\* A duplicate is an error, which the manager never meets: it removes first.
AddDynamicTask(j, s) ==
    /\ SchedulerFree
    /\ dynamicEntries[j] = 0
    /\ entries' = Append(entries, NewEntry(j, s))
    /\ dynamicEntries' = [dynamicEntries EXCEPT ![j] = Len(entries')]

\* Mutant: the entry stays in cron.
MutRemoveDynamicTask(j) ==
    /\ SchedulerFree
    /\ dynamicEntries' = [dynamicEntries EXCEPT ![j] = 0]
    /\ UNCHANGED entries

\* Mutant: the name stays in dynamicEntries.
MutKeepName(j) ==
    /\ SchedulerFree
    /\ entries' = IF dynamicEntries[j] = 0 THEN entries
                  ELSE [entries EXCEPT ![dynamicEntries[j]].live = FALSE]
    /\ UNCHANGED dynamicEntries

\* Not found is an error, which the manager ignores.
RemoveDynamicTask(j) ==
    /\ SchedulerFree
    /\ entries' = IF dynamicEntries[j] = 0 THEN entries
                  ELSE [entries EXCEPT ![dynamicEntries[j]].live = FALSE]
    /\ dynamicEntries' = [dynamicEntries EXCEPT ![j] = 0]

\* Scheduler.Stop: cron stops firing, and Scheduler.mu is held from here until
\* every fired job has finished.
StopBegin ==
    /\ phase = "up"
    /\ phase' = "stopping"
    /\ UNCHANGED <<store, cron, passed, crashes, manager, firing>>

StopEnd ==
    /\ phase = "stopping"
    /\ \A f \in Firings : fire[f].pc = "idle"
    /\ phase' = "stopped"
    /\ UNCHANGED <<store, cron, passed, crashes, manager, firing>>

-----------------------------------------------------------------------------
(* Manager.Create, Update and Delete *)

ManagerFree == call.pc = "idle"

\* A call on behalf of the gateway or of the cron tool gets Manager.mu.
Enters(op, j) ==
    /\ phase # "down"
    /\ ManagerFree
    /\ calls < MaxCalls /\ calls' = calls + 1
    /\ asked' = [asked EXCEPT ![j] = @ \cup {op}]

Holds(pc, op, j, copy) == call' = [pc |-> pc, op |-> op, job |-> j, copy |-> copy]

Goes(pc) == call' = [call EXCEPT !.pc = pc] /\ UNCHANGED <<asked, calls>>

\* Mutant: Manager.mu is not unlocked.
MutReturns == call' = [call EXCEPT !.pc = "leaked"] /\ UNCHANGED <<asked, calls>>

Returns == call' = Idle /\ UNCHANGED <<asked, calls>>

\* A new job is enabled.  A failed Save returns an error and leaves the job in
\* the map, unscheduled.
Create(j, s) ==
    /\ asked[j] = {}
    /\ Enters("create", j)
    /\ \/ Save(j, NewJob(s), TRUE) /\ Holds("schedule", "create", j, NewJob(s))
       \/ Save(j, NewJob(s), FALSE) /\ UNCHANGED call
    /\ UNCHANGED <<cron, process, firing>>

\* patch.Enabled and patch.Schedule are each given or not; scheduleChanged
\* decides what follows Save.
UpdateGet(j) ==
    /\ jobs[j] # NoJob
    /\ Enters("update", j)
    /\ \/ \E b \in BOOLEAN :
            Holds(IF b = jobs[j].enabled THEN "save" ELSE "saveChanged", "update", j,
                  [jobs[j] EXCEPT !.enabled = b])
       \/ \E b \in BOOLEAN, s \in Schedules :
            Holds("saveChanged", "update", j, [jobs[j] EXCEPT !.enabled = b, !.sched = s])
    /\ UNCHANGED <<store, cron, process, firing>>

UpdateSave ==
    /\ call.pc \in {"save", "saveChanged"}
    /\ \/ /\ Save(call.job, call.copy, TRUE)
          /\ IF call.pc = "saveChanged" THEN Goes("remove") ELSE Returns
       \/ Save(call.job, call.copy, FALSE) /\ Returns
    /\ UNCHANGED <<cron, process, firing>>

Delete(j) ==
    /\ asked[j] # {}
    /\ Enters("delete", j)
    /\ Holds("remove", "delete", j, NoJob)
    /\ UNCHANGED <<store, cron, process, firing>>

\* Update and Delete drop the old schedule.
Unschedule ==
    /\ call.pc = "remove"
    /\ RemoveDynamicTask(call.job)
    /\ \/ call.op = "delete" /\ Goes("delete")
       \/ call.op = "update" /\ call.copy.enabled /\ Goes("schedule")
       \/ call.op = "update" /\ ~call.copy.enabled /\ Returns
    /\ UNCHANGED <<store, process, firing>>

\* Create and Update add the new one.
scheduleJob ==
    /\ call.pc = "schedule"
    /\ AddDynamicTask(call.job, call.copy.sched)
    /\ call' = Idle
    /\ asked' = [asked EXCEPT ![call.job] = IF call.op = "create" THEN @ \cup {"created"} ELSE @]
    /\ UNCHANGED <<store, process, calls, firing>>

\* Delete reports a job that is not in the store, and a file that is not written.
DeleteStore ==
    /\ call.pc = "delete"
    /\ \/ jobs[call.job] = NoJob /\ UNCHANGED store
       \/ /\ jobs[call.job] # NoJob
          /\ \E files \in 0 .. 2 : DeleteStored(call.job, files) /\ Written(files = 2)
    /\ Returns
    /\ UNCHANGED <<cron, process, firing>>

-----------------------------------------------------------------------------
(* A fired entry: the closure of AddDynamicTask around Manager.executeJob. *)

JobOf(f)   == entries[fire[f].entry].job
OneShot(f) == entries[fire[f].entry].sched # Every

\* Mutant: onceSchedule does not remember that it was asked before.
MutRearmed(s) == TRUE

\* cron asks for the next time as it fires; onceSchedule has none.
Rearmed(s) == s = Every

\* cron starts a goroutine for an entry that is due.
Fire(f, e) ==
    /\ phase = "up"
    /\ fire[f].pc = "idle"
    /\ fires < MaxFires /\ fires' = fires + 1
    /\ entries[e].live /\ entries[e].armed
    /\ entries[e].sched = Every \/ entries[e].sched \in passed
    /\ entries' = [entries EXCEPT ![e].armed = Rearmed(entries[e].sched)]
    /\ fire' = [fire EXCEPT ![f] = [Resting EXCEPT !.pc = "start", !.entry = e]]
    /\ UNCHANGED <<store, dynamicEntries, process, manager, handled>>

Continue(f, pc) == fire' = [fire EXCEPT ![f] = IF pc = "idle" THEN Resting ELSE [@ EXCEPT !.pc = pc]]

\* The closure reads the scheduler's context under Scheduler.mu.
JobStart(f) ==
    /\ fire[f].pc = "start"
    /\ SchedulerFree
    /\ Continue(f, "get")
    /\ UNCHANGED <<store, cron, process, manager, fires, handled>>

\* A job that is gone ends the run.
JobGet(f) ==
    /\ fire[f].pc = "get"
    /\ \/ jobs[JobOf(f)] = NoJob /\ Continue(f, "finish")
       \/ /\ jobs[JobOf(f)] # NoJob
          /\ fire' = [fire EXCEPT ![f].pc = "handle", ![f].copy = jobs[JobOf(f)]]
    /\ UNCHANGED <<store, cron, process, manager, fires, handled>>

\* The handler is read under Manager.mu and then called.
JobHandle(f) ==
    /\ fire[f].pc = "handle"
    /\ ManagerFree
    /\ handled' = handled \cup {<<JobOf(f), fire[f].copy.sched>>}
    /\ Continue(f, "saveRun")
    /\ UNCHANGED <<store, cron, process, manager, fires>>

\* The handler has returned, well or not; errors of the store are ignored.
JobSaveRun(f) ==
    /\ fire[f].pc = "saveRun"
    /\ \E ok \in BOOLEAN : SaveRun(JobOf(f), ok)
    /\ Continue(f, "save")
    /\ UNCHANGED <<cron, process, manager, fires, handled>>

\* The copy read before the handler ran goes back to the store, with its
\* statistics; an "at" job is disabled.
JobSave(f) ==
    LET job == [fire[f].copy EXCEPT !.count = @ + 1, !.enabled = @ /\ fire[f].copy.sched = Every] IN
    /\ fire[f].pc = "save"
    /\ \E ok \in BOOLEAN : Save(JobOf(f), job, ok)
    /\ fire' = [fire EXCEPT ![f].pc = "finish", ![f].copy = NoJob]
    /\ UNCHANGED <<cron, process, manager, fires, handled>>

\* cron.Remove, for a one-shot entry.
JobFinish(f) ==
    /\ fire[f].pc = "finish"
    /\ \/ ~OneShot(f) /\ Continue(f, "idle") /\ UNCHANGED entries
       \/ /\ OneShot(f) /\ Continue(f, "forget")
          /\ entries' = [entries EXCEPT ![fire[f].entry].live = FALSE]
    /\ UNCHANGED <<store, dynamicEntries, process, manager, fires, handled>>

\* delete(dynamicEntries, id), whichever entry the ID has by now.
JobForget(f) ==
    /\ fire[f].pc = "forget"
    /\ SchedulerFree
    /\ dynamicEntries' = [dynamicEntries EXCEPT ![JobOf(f)] = 0]
    /\ Continue(f, "idle")
    /\ UNCHANGED <<store, entries, process, manager, fires, handled>>

-----------------------------------------------------------------------------
(* Time, crashes and restarts *)

TimePasses(t) ==
    /\ t \notin passed
    /\ passed' = passed \cup {t}
    /\ UNCHANGED <<store, cron, phase, crashes, manager, firing>>

Down ==
    /\ phase # "down" /\ phase' = "down"
    /\ crashes < MaxCrashes /\ crashes' = crashes + 1
    /\ entries' = <<>>
    /\ dynamicEntries' = [j \in Jobs |-> 0]
    /\ call' = Idle
    /\ fire' = [f \in Firings |-> Resting]
    /\ UNCHANGED <<passed, asked, calls, fires, handled>>

\* The process dies between two steps, or exits after Stop.
Crash ==
    /\ Down
    /\ UNCHANGED store

\* The process dies between the two writes of FileStore.Delete.
CrashInDelete ==
    /\ call.pc = "delete"
    /\ jobs[call.job] # NoJob
    /\ DeleteStored(call.job, 1)
    /\ Down
    /\ UNCHANGED failures

\* LoadAndSchedule disables "at" jobs whose time has passed.
Expired(job) == job.enabled /\ job.sched \in passed

Loaded(job) == IF job # NoJob /\ Expired(job) THEN [job EXCEPT !.enabled = FALSE] ELSE job

\* NewFileStore loads both files, LoadAndSchedule disables expired jobs (and
\* ignores a failed write) and schedules the enabled ones, Start starts cron;
\* nothing else runs yet.
Restart ==
    LET due   == {j \in Jobs : jobs'[j] # NoJob /\ jobs'[j].enabled}
        order == SetToSeq(due) IN
    /\ phase = "down" /\ phase' = "up"
    /\ jobs' = [j \in Jobs |-> Loaded(diskJobs[j])]
    /\ runs' = diskRuns
    /\ \E ok \in BOOLEAN :
         /\ ok \/ jobs' # diskJobs
         /\ diskJobs' = IF ok THEN jobs' ELSE diskJobs
         /\ Written(ok)
    /\ entries' = [k \in DOMAIN order |-> NewEntry(order[k], jobs'[order[k]].sched)]
    /\ dynamicEntries' = [j \in Jobs |-> IF j \in due
                                         THEN CHOOSE k \in DOMAIN order : order[k] = j
                                         ELSE 0]
    /\ UNCHANGED <<diskRuns, passed, crashes, manager, firing>>

-----------------------------------------------------------------------------
CallStep == UpdateSave \/ Unschedule \/ scheduleJob \/ DeleteStore

FireStep(f) == \/ JobStart(f) \/ JobGet(f) \/ JobHandle(f) \/ JobSaveRun(f)
               \/ JobSave(f) \/ JobFinish(f) \/ JobForget(f)

CronNext == \/ \E j \in Jobs, s \in Schedules : Create(j, s)
            \/ \E j \in Jobs : UpdateGet(j) \/ Delete(j)
            \/ CallStep \/ CrashInDelete
            \/ \E f \in Firings : FireStep(f) \/ \E e \in DOMAIN entries : Fire(f, e)
            \/ \E t \in AtTimes : TimePasses(t)
            \/ StopBegin \/ StopEnd \/ Crash \/ Restart

CronSpec == CronInit /\ [][CronNext]_cronVars

\* A goroutine that can take a step eventually takes it; nobody has to call, a
\* schedule need not come due, and the process need not crash or restart.
CronFairness == /\ WF_cronVars(CallStep)
                /\ \A f \in Firings : WF_cronVars(FireStep(f))
                /\ WF_cronVars(StopEnd)

FairCronSpec == CronSpec /\ CronFairness

-----------------------------------------------------------------------------
(* Properties *)

Stored == [sched : Schedules, enabled : BOOLEAN, count : 0 .. MaxFires] \cup {NoJob}

CronTypeOK ==
    /\ {jobs, diskJobs} \subseteq [Jobs -> Stored]
    /\ {runs, diskRuns} \subseteq [Jobs -> 0 .. maxRunsPerJob]
    /\ \A k \in DOMAIN entries : entries[k] \in
         [job : Jobs, sched : Schedules, live : BOOLEAN, armed : BOOLEAN]
    /\ dynamicEntries \in [Jobs -> 0 .. Len(entries)]
    /\ phase \in {"up", "stopping", "stopped", "down"}
    /\ passed \subseteq AtTimes
    /\ call.copy \in Stored
    /\ \A f \in Firings : /\ fire[f].entry \in 0 .. Len(entries)
                          /\ fire[f].copy \in Stored

\* A job whose Create succeeded and that nobody asked to Delete is in jobs.json,
\* whatever writes fail and wherever the process crashes: FileStore.Save replaces
\* the file as a whole, and executeJob's unlocked Save never loses another job.
CreatedSurvives ==
    \A j \in Jobs : "created" \in asked[j] /\ "delete" \notin asked[j] => diskJobs[j] # NoJob

\* As long as no write failed, jobs.json never counts a run that runs.json does not
\* have (or had, before the cap): executeJob saves the run before the count, so a
\* crash between the two can only lose the count.  Deleted jobs are another matter.
RunsCoverCount ==
    \A j \in Jobs : failures = 0 /\ "delete" \notin asked[j] /\ diskJobs[j] # NoJob
                    => diskJobs[j].count <= diskRuns[j] \/ diskRuns[j] = maxRunsPerJob

\* What jobs.json and runs.json hold is what callers were told, with the types the code
\* gives it: a run log is never longer than maxRunsPerJob (SaveRun).
StoreIsTrue == CronTypeOK /\ CreatedSurvives /\ RunsCoverCount

\* A job that was never one-shot has at most one entry in cron, and dynamicEntries
\* knows it: RemoveDynamicTask can always stop a recurring job.
RecurringIsTracked ==
    \A e \in DOMAIN entries :
        /\ entries[e].live
        /\ \A k \in DOMAIN entries : entries[k].job = entries[e].job => entries[k].sched = Every
        => dynamicEntries[entries[e].job] = e

\* dynamicEntries names an entry that cron no longer has only while the one-shot
\* closure that removed it is about to delete the name too.
TrackedIsLive ==
    \A j \in Jobs : dynamicEntries[j] # 0 =>
        \/ entries[dynamicEntries[j]].live
        \/ \E f \in Firings : fire[f].pc = "forget" /\ fire[f].entry = dynamicEntries[j]

\* dynamicEntries and cron's own entries agree.
ScheduleIsTrue == RecurringIsTracked /\ TrackedIsLive

\* An "at" job that is not patched reaches the handler at most once, also when the
\* process crashes while it runs and LoadAndSchedule finds it enabled.
OneShotOnce ==
    [][\A f \in Firings : LET run == <<JobOf(f), fire[f].copy.sched>> IN
          /\ fire[f].pc = "handle" /\ fire'[f].pc = "saveRun"
          /\ run[2] # Every /\ "update" \notin asked[run[1]]
          => run \notin handled]_cronVars

\* Every call of the manager and every fired job returns, unless Stop holds
\* Scheduler.mu: Manager.mu and Scheduler.mu are always taken in that order.
EveryoneReturns ==
    /\ call.pc # "idle" ~> (call.pc = "idle" \/ phase = "stopping")
    /\ \A f \in Firings : fire[f].pc # "idle" ~> (fire[f].pc = "idle" \/ phase = "stopping")

\* "Stop signals the scheduler to stop and waits for running jobs to finish": Stop
\* returns.  It does not: a job that cron fired just before needs Scheduler.mu.
StopReturns == phase = "stopping" ~> phase # "stopping"

\* "Delete removes a cron job and its schedule": a Delete that went well is final.
\* It is not: executeJob saves its copy of a job that was deleted during its run.
DeleteIsFinal == [][\A j \in Jobs : "delete" \in asked[j] /\ jobs[j] = NoJob
                                    => jobs'[j] = NoJob \/ phase = "down"]_cronVars
=============================================================================
