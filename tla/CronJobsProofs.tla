--------------------------- MODULE CronJobsProofs ---------------------------
(***************************************************************************)
(* Scheduled jobs, for every number of jobs, of goroutines that cron       *)
(* starts and of crashes and failed writes: what jobs.json and runs.json   *)
(* hold is what callers were told, dynamicEntries and cron's entries       *)
(* agree, and an "at" job reaches the handler once.                        *)
(***************************************************************************)
EXTENDS CronJobs, FiniteSetTheorems, TLAPS

-----------------------------------------------------------------------------
(* Types *)

AJob    == [sched : Schedules, enabled : BOOLEAN, count : Nat]
Copies  == AJob \cup {NoJob}
Entries == [job : Jobs, sched : Schedules, live : BOOLEAN, armed : BOOLEAN]

CallPcs == {"idle", "schedule", "save", "saveChanged", "remove", "delete"}
FirePcs == {"idle", "start", "get", "handle", "saveRun", "save", "finish", "forget"}
Ops     == {"create", "created", "update", "delete"}

CallLocals == [pc : CallPcs, op : {"none", "create", "update", "delete"}, job : Jobs \cup {NoJob}, copy : Copies]
FireLocals == [pc : FirePcs, entry : Nat, copy : Copies]

JobsTypeOK ==
    /\ jobs \in [Jobs -> Copies] /\ diskJobs \in [Jobs -> Copies]
    /\ runs \in [Jobs -> 0 .. maxRunsPerJob] /\ diskRuns \in [Jobs -> 0 .. maxRunsPerJob]
    /\ failures \in Nat
    /\ entries \in Seq(Entries)
    /\ dynamicEntries \in [Jobs -> Nat]
    /\ phase \in {"up", "stopping", "stopped", "down"}
    /\ passed \subseteq AtTimes
    /\ call \in CallLocals
    /\ fire \in [Firings -> FireLocals]
    /\ asked \in [Jobs -> SUBSET Ops]
    /\ fires \in 0 .. MaxFires

\* What a call, a firing and dynamicEntries refer to exists.
CallRefers ==
    /\ call.pc # "idle" => call.job \in Jobs
    /\ call.pc \in {"schedule", "save", "saveChanged"} => call.copy \in AJob
    /\ call.pc \in {"save", "saveChanged"} => call.op = "update"
    /\ call.pc = "remove" /\ call.op = "update" => call.copy \in AJob
FiringRefers ==
    \A f \in Firings : /\ fire[f].pc # "idle" => fire[f].entry \in 1 .. Len(entries)
                       /\ fire[f].pc = "idle" => fire[f].entry = 0
                       /\ fire[f].pc \in {"handle", "saveRun", "save"} => fire[f].copy \in AJob
TrackingRefers ==
    \A j \in Jobs : dynamicEntries[j] # 0 => /\ dynamicEntries[j] \in 1 .. Len(entries)
                                             /\ entries[dynamicEntries[j]].job = j
DownIsEmpty ==
    phase = "down" => /\ entries = <<>> /\ call.pc = "idle"
                      /\ \A f \in Firings : fire[f].pc = "idle"
RefersToSomething == CallRefers /\ FiringRefers /\ TrackingRefers /\ DownIsEmpty

CronInv == JobsTypeOK /\ RefersToSomething

\* A firing before its save still owes the count one: what a copy of a job counts, and
\* what is still owed, was fired.
OwingPcs == {"start", "get", "handle", "saveRun", "save"}
Owing    == {f \in Firings : fire[f].pc \in OwingPcs}
Counted(job, owed, fired) == job # NoJob => job.count + owed <= fired
CountedRuns ==
    /\ IsFiniteSet(Owing) /\ Cardinality(Owing) <= fires
    /\ \A j \in Jobs : /\ Counted(jobs[j], Cardinality(Owing), fires)
                       /\ Counted(diskJobs[j], Cardinality(Owing), fires)
    /\ Counted(call.copy, Cardinality(Owing), fires)
    /\ \A f \in Firings : Counted(fire[f].copy, Cardinality(Owing), fires)

\* A job whose Create went well so far, and that nobody asked to delete, is stored.
DeletesWhatIsAsked ==
    /\ call.pc \in {"remove", "delete"} /\ call.op = "delete" => "delete" \in asked[call.job]
    /\ call.pc = "delete" => call.op = "delete"
Creating(j) == call.pc = "schedule" /\ call.op = "create" /\ call.job = j
CreatedIsStored ==
    \A j \in Jobs : ("created" \in asked[j] \/ Creating(j)) /\ "delete" \notin asked[j]
                    => jobs[j] # NoJob /\ diskJobs[j] # NoJob

\* As long as no write failed, the maps are the files while the process is up, and what
\* has been counted for a job, or will be, is in its run log.
Covered(count, log) == count <= log \/ log = maxRunsPerJob
Kept(j)       == failures = 0 /\ "delete" \notin asked[j]
MapsAreFiles  == failures = 0 /\ phase # "down" => jobs = diskJobs /\ runs = diskRuns
FileCovered   == \A j \in Jobs : Kept(j) /\ diskJobs[j] # NoJob => Covered(diskJobs[j].count, diskRuns[j])
CallCovered   == \A j \in Jobs : Kept(j) /\ call.pc \in {"save", "saveChanged"} /\ call.job = j
                                 => Covered(call.copy.count, runs[j])
FiringCovered == \A j \in Jobs, f \in Firings : Kept(j) /\ fire[f].pc # "idle" /\ JobOf(f) = j =>
                    /\ fire[f].pc \in {"handle", "saveRun"} => Covered(fire[f].copy.count, runs[j])
                    /\ fire[f].pc = "save" => Covered(fire[f].copy.count + 1, runs[j])
RunsInv == MapsAreFiles /\ FileCovered /\ CallCovered /\ FiringCovered

ForgetsOneShot == \A f \in Firings : fire[f].pc = "forget" => OneShot(f)
ScheduleInv    == RecurringIsTracked /\ TrackedIsLive /\ ForgetsOneShot

\* A job that was not patched has one entry at most, and keeps the schedule that it was
\* created with, in the maps, in the file, in its entry and in the copies of its firings.
Fixed(j)      == "update" \notin asked[j]
UnknownAbsent == \A j \in Jobs : asked[j] = {} => jobs[j] = NoJob /\ diskJobs[j] = NoJob
OneOfIt       == \A k, m \in DOMAIN entries : Fixed(entries[k].job) /\ entries[k].job = entries[m].job => k = m
NoneYet       == \A k \in DOMAIN entries : Fixed(entries[k].job)
                     => asked[entries[k].job] # {} /\ ~(call.pc = "schedule" /\ call.job = entries[k].job)
NotPatched    == \A j \in Jobs : call.pc # "idle" /\ call.job = j => asked[j] # {} /\ (Fixed(j) => call.op # "update")
Has(j, s)     == /\ jobs[j] # NoJob => jobs[j].sched = s
                 /\ diskJobs[j] # NoJob => diskJobs[j].sched = s
FileSchedule  == \A j \in Jobs : Fixed(j) => \E s \in Schedules : Has(j, s)
EntrySchedule == \A k \in DOMAIN entries, j \in Jobs : Fixed(j) /\ entries[k].job = j => Has(j, entries[k].sched)
CopySchedule  == \A f \in Firings : fire[f].pc \in {"handle", "saveRun", "save"} /\ Fixed(JobOf(f))
                     => fire[f].copy.sched = entries[fire[f].entry].sched
CallSchedule  == \A j \in Jobs : Fixed(j) /\ call.pc = "schedule" /\ call.job = j => Has(j, call.copy.sched)

\* A one-shot entry fires once, and is handled once.
FiredOnce     == \A k \in DOMAIN entries : entries[k].sched # Every =>
                     /\ entries[k].armed => \A f \in Firings : fire[f].entry # k
                     /\ \A f, g \in Firings : fire[f].entry = k /\ fire[g].entry = k => f = g
                     /\ \A f \in Firings : fire[f].entry = k => entries[k].sched \in passed
HandledOnce   == \A k \in DOMAIN entries :
                     /\ entries[k].sched # Every /\ Fixed(entries[k].job)
                     /\ <<entries[k].job, entries[k].sched>> \in handled
                     => /\ ~entries[k].armed
                        /\ \A f \in Firings : fire[f].entry = k => fire[f].pc \notin {"start", "get", "handle"}
HandledPassed == \A j \in Jobs, s \in AtTimes : s # Every /\ Fixed(j) /\ <<j, s>> \in handled => s \in passed

ScheduleOf == /\ UnknownAbsent /\ OneOfIt /\ NoneYet /\ NotPatched /\ FileSchedule /\ EntrySchedule
              /\ CopySchedule /\ CallSchedule
OnceInv    == ScheduleOf /\ FiredOnce /\ HandledOnce /\ HandledPassed

-----------------------------------------------------------------------------
(* What the operations do *)

\* FileStore.Save changes one job in the map, and the file as a whole or not at all.
Stores(j, job, ok) ==
    /\ jobs' \in [Jobs -> Copies] /\ diskJobs' \in [Jobs -> Copies] /\ failures' \in Nat
    /\ jobs'[j] = job /\ \A i \in Jobs : i # j => jobs'[i] = jobs[i]
    /\ \/ ok /\ diskJobs' = jobs' /\ failures' = failures
       \/ ~ok /\ diskJobs' = diskJobs /\ failures' = failures + 1
    /\ runs' = runs /\ diskRuns' = diskRuns

\* What saving a job leaves in memory and on disk.
LEMMA SaveEffect ==
    ASSUME JobsTypeOK, NEW j \in Jobs, NEW job \in AJob, NEW ok \in BOOLEAN, Save(j, job, ok)
    PROVE  Stores(j, job, ok)
<1>1. jobs \in [Jobs -> Copies] /\ diskJobs \in [Jobs -> Copies] /\ failures \in Nat /\ job \in Copies
  BY DEF JobsTypeOK, Copies
<1>2. jobs' = [jobs EXCEPT ![j] = job]
  BY DEF Save
<1>3. jobs' \in [Jobs -> Copies] /\ jobs'[j] = job /\ \A i \in Jobs : i # j => jobs'[i] = jobs[i]
  BY <1>1, <1>2
<1> QED
  BY <1>1, <1>3 DEF Save, Written, Stores

\* FileStore.SaveRun adds a run to the log of one job, up to the cap.
Logs(j, ok) ==
    /\ runs' \in [Jobs -> 0 .. maxRunsPerJob] /\ diskRuns' \in [Jobs -> 0 .. maxRunsPerJob] /\ failures' \in Nat
    /\ runs'[j] = IF runs[j] < maxRunsPerJob THEN runs[j] + 1 ELSE runs[j]
    /\ \A i \in Jobs : i # j => runs'[i] = runs[i]
    /\ \/ ok /\ diskRuns' = runs' /\ failures' = failures
       \/ ~ok /\ diskRuns' = diskRuns /\ failures' = failures + 1
    /\ jobs' = jobs /\ diskJobs' = diskJobs

\* What logging a run leaves in memory and on disk.
LEMMA SaveRunEffect ==
    ASSUME JobsTypeOK, NEW j \in Jobs, NEW ok \in BOOLEAN, SaveRun(j, ok)
    PROVE  Logs(j, ok)
<1>1. /\ runs \in [Jobs -> 0 .. maxRunsPerJob] /\ diskRuns \in [Jobs -> 0 .. maxRunsPerJob] /\ failures \in Nat
      /\ maxRunsPerJob \in Nat
  BY CronBounds DEF JobsTypeOK
<1>2. runs' = [runs EXCEPT ![j] = IF @ < maxRunsPerJob THEN @ + 1 ELSE @]
  BY DEF SaveRun
<1>3. /\ runs' \in [Jobs -> 0 .. maxRunsPerJob] /\ \A i \in Jobs : i # j => runs'[i] = runs[i]
      /\ runs'[j] = IF runs[j] < maxRunsPerJob THEN runs[j] + 1 ELSE runs[j]
  BY <1>1, <1>2
<1> QED
  BY <1>1, <1>3 DEF SaveRun, Written, Logs

\* FileStore.Delete forgets a job and its runs; the files may lag behind.
Forgets(j, files) ==
    /\ jobs' \in [Jobs -> Copies] /\ diskJobs' \in [Jobs -> Copies]
    /\ runs' \in [Jobs -> 0 .. maxRunsPerJob] /\ diskRuns' \in [Jobs -> 0 .. maxRunsPerJob]
    /\ jobs'[j] = NoJob /\ runs'[j] = 0
    /\ \A i \in Jobs : i # j => jobs'[i] = jobs[i] /\ runs'[i] = runs[i]
    /\ diskJobs' = IF files >= 1 THEN jobs' ELSE diskJobs
    /\ diskRuns' = IF files = 2 THEN runs' ELSE diskRuns

\* What deleting a job leaves of it, after none, one or two of its files were written.
LEMMA DeleteEffect ==
    ASSUME JobsTypeOK, NEW j \in Jobs, NEW files \in 0 .. 2, DeleteStored(j, files)
    PROVE  Forgets(j, files)
<1>1. /\ jobs \in [Jobs -> Copies] /\ diskJobs \in [Jobs -> Copies]
      /\ runs \in [Jobs -> 0 .. maxRunsPerJob] /\ diskRuns \in [Jobs -> 0 .. maxRunsPerJob]
      /\ maxRunsPerJob \in Nat /\ NoJob \in Copies
  BY CronBounds DEF JobsTypeOK, Copies
<1>2. /\ jobs' = [jobs EXCEPT ![j] = NoJob] /\ runs' = [runs EXCEPT ![j] = 0]
      /\ diskJobs' = IF files >= 1 THEN jobs' ELSE diskJobs
      /\ diskRuns' = IF files = 2 THEN runs' ELSE diskRuns
  BY DEF DeleteStored
<1>3. /\ jobs' \in [Jobs -> Copies] /\ runs' \in [Jobs -> 0 .. maxRunsPerJob] /\ jobs'[j] = NoJob /\ runs'[j] = 0
      /\ \A i \in Jobs : i # j => jobs'[i] = jobs[i] /\ runs'[i] = runs[i]
  BY <1>1, <1>2
<1> QED
  BY <1>1, <1>2, <1>3 DEF Forgets

\* What stays of an entry whatever happens to it.
SameEntry(k) == entries'[k].job = entries[k].job /\ entries'[k].sched = entries[k].sched

\* Scheduler.AddDynamicTask appends an entry and tracks it.
Adds(j, s) ==
    /\ entries' \in Seq(Entries) /\ Len(entries') = Len(entries) + 1 /\ Len(entries) \in Nat
    /\ \A k \in 1 .. Len(entries) : entries'[k] = entries[k]
    /\ entries'[Len(entries) + 1] = NewEntry(j, s)
    /\ dynamicEntries' \in [Jobs -> Nat] /\ dynamicEntries[j] = 0 /\ dynamicEntries'[j] = Len(entries) + 1
    /\ \A i \in Jobs : i # j => dynamicEntries'[i] = dynamicEntries[i]

\* What scheduling a job adds to cron and to dynamicEntries.
LEMMA AddTaskEffect ==
    ASSUME JobsTypeOK, NEW j \in Jobs, NEW s \in Schedules, AddDynamicTask(j, s)
    PROVE  Adds(j, s)
<1>1. entries \in Seq(Entries) /\ dynamicEntries \in [Jobs -> Nat]
  BY DEF JobsTypeOK
<1> DEFINE x == NewEntry(j, s)
<1>2. x \in Entries
  BY DEF NewEntry, Entries, Armed
<1>3. entries' = Append(entries, x) /\ dynamicEntries[j] = 0 /\ dynamicEntries' = [dynamicEntries EXCEPT ![j] = Len(entries')]
  BY DEF AddDynamicTask
<1> HIDE DEF x
<1>4. /\ entries' \in Seq(Entries) /\ Len(entries') = Len(entries) + 1 /\ Len(entries) \in Nat
      /\ \A k \in 1 .. Len(entries) : entries'[k] = entries[k]
      /\ entries'[Len(entries) + 1] = x
  BY <1>1, <1>2, <1>3
<1>5. /\ dynamicEntries' \in [Jobs -> Nat] /\ dynamicEntries'[j] = Len(entries')
      /\ \A i \in Jobs : i # j => dynamicEntries'[i] = dynamicEntries[i]
  BY <1>1, <1>3, <1>4
<1> QED
  BY <1>3, <1>4, <1>5 DEF x, Adds

\* An entry changes in place.
LEMMA ReplaceEntry ==
    ASSUME NEW es \in Seq(Entries), NEW e \in 1 .. Len(es), NEW x \in Entries, NEW after,
           after = [es EXCEPT ![e] = x]
    PROVE  /\ after \in Seq(Entries) /\ Len(after) = Len(es) /\ after[e] = x
           /\ \A k \in 1 .. Len(es) : k # e => after[k] = es[k]
OBVIOUS

\* An entry is removed from cron.
LEMMA KillEffect ==
    ASSUME JobsTypeOK, NEW e \in 1 .. Len(entries), entries' = [entries EXCEPT ![e].live = FALSE]
    PROVE  /\ entries' \in Seq(Entries) /\ Len(entries') = Len(entries)
           /\ \A k \in 1 .. Len(entries) : SameEntry(k) /\ entries'[k].armed = entries[k].armed
           /\ ~entries'[e].live /\ \A k \in 1 .. Len(entries) : k # e => entries'[k] = entries[k]
<1>1. entries \in Seq(Entries) /\ entries[e] \in Entries /\ e \in 1 .. Len(entries)
  BY DEF JobsTypeOK
<1> DEFINE x == [entries[e] EXCEPT !.live = FALSE]
<1>2. x \in Entries
  BY <1>1 DEF Entries
<1>3. /\ x.job = entries[e].job /\ x.sched = entries[e].sched /\ x.armed = entries[e].armed /\ ~x.live
  BY <1>1 DEF Entries
<1>4. entries' = [entries EXCEPT ![e] = x]
  BY <1>1
<1> HIDE DEF x
<1>5. /\ entries' \in Seq(Entries) /\ Len(entries') = Len(entries) /\ entries'[e] = x
      /\ \A k \in 1 .. Len(entries) : k # e => entries'[k] = entries[k]
  BY ONLY <1>1, <1>2, <1>4, ReplaceEntry
<1> QED
  BY <1>1, <1>3, <1>5 DEF SameEntry

\* cron asks a fired entry for its next time.
LEMMA ArmEffect ==
    ASSUME JobsTypeOK, NEW e \in 1 .. Len(entries), NEW b \in BOOLEAN, entries' = [entries EXCEPT ![e].armed = b]
    PROVE  /\ entries' \in Seq(Entries) /\ Len(entries') = Len(entries)
           /\ \A k \in 1 .. Len(entries) : SameEntry(k) /\ entries'[k].live = entries[k].live
           /\ entries'[e].armed = b /\ \A k \in 1 .. Len(entries) : k # e => entries'[k] = entries[k]
<1>1. entries \in Seq(Entries) /\ entries[e] \in Entries
  BY DEF JobsTypeOK
<1> DEFINE x == [entries[e] EXCEPT !.armed = b]
<1>2. /\ x \in Entries /\ x.job = entries[e].job /\ x.sched = entries[e].sched /\ x.live = entries[e].live /\ x.armed = b
  BY <1>1 DEF Entries
<1>3. entries' = [entries EXCEPT ![e] = x]
  BY <1>1
<1> HIDE DEF x
<1> QED
  BY <1>1, <1>2, <1>3 DEF SameEntry

\* Scheduler.RemoveDynamicTask forgets a job's entry, if it has one.
Removes(j) ==
    /\ entries' \in Seq(Entries) /\ Len(entries') = Len(entries)
    /\ \A k \in 1 .. Len(entries) : SameEntry(k) /\ entries'[k].armed = entries[k].armed
    /\ \A k \in 1 .. Len(entries) : k # dynamicEntries[j] => entries'[k] = entries[k]
    /\ dynamicEntries[j] # 0 => ~entries'[dynamicEntries[j]].live
    /\ dynamicEntries' \in [Jobs -> Nat] /\ dynamicEntries'[j] = 0
    /\ \A i \in Jobs : i # j => dynamicEntries'[i] = dynamicEntries[i]

\* What unscheduling a job takes from cron and from dynamicEntries.
LEMMA RemoveTaskEffect ==
    ASSUME JobsTypeOK, RefersToSomething, NEW j \in Jobs, RemoveDynamicTask(j)
    PROVE  Removes(j)
<1>1. dynamicEntries \in [Jobs -> Nat] /\ dynamicEntries' = [dynamicEntries EXCEPT ![j] = 0] /\ entries \in Seq(Entries)
  BY DEF JobsTypeOK, RemoveDynamicTask
<1>2. /\ dynamicEntries' \in [Jobs -> Nat] /\ dynamicEntries'[j] = 0
      /\ \A i \in Jobs : i # j => dynamicEntries'[i] = dynamicEntries[i]
  BY <1>1
<1>3. CASE dynamicEntries[j] = 0
  <2>1. entries' = entries
    BY <1>3 DEF RemoveDynamicTask
  <2> QED
    BY <1>1, <1>2, <1>3, <2>1 DEF SameEntry, Removes
<1>4. CASE dynamicEntries[j] # 0
  <2>1. dynamicEntries[j] \in 1 .. Len(entries) /\ entries' = [entries EXCEPT ![dynamicEntries[j]].live = FALSE]
    BY <1>4 DEF RemoveDynamicTask, RefersToSomething, CallRefers, FiringRefers, TrackingRefers, DownIsEmpty
  <2> QED
    BY <1>2, <2>1, KillEffect DEF Removes
<1> QED
  BY <1>3, <1>4

\* A firing moves on, or rests.
Moves(f, pc, entry, copy) ==
    /\ fire' \in [Firings -> FireLocals] /\ \A g \in Firings : g # f => fire'[g] = fire[g]
    /\ fire'[f].pc = pc /\ fire'[f].entry = entry /\ fire'[f].copy = copy

\* A firing goes on, and forgets its entry and its copy when it ends.
LEMMA ContinueEffect ==
    ASSUME JobsTypeOK, NEW f \in Firings, NEW pc \in FirePcs, Continue(f, pc)
    PROVE  /\ pc = "idle" => Moves(f, pc, 0, NoJob)
           /\ pc # "idle" => Moves(f, pc, fire[f].entry, fire[f].copy)
<1>1. fire \in [Firings -> FireLocals] /\ fire[f] \in FireLocals
  BY DEF JobsTypeOK
<1> DEFINE l == IF pc = "idle" THEN Resting ELSE [fire[f] EXCEPT !.pc = pc]
<1>2. /\ l \in FireLocals /\ l.pc = pc
      /\ pc = "idle" => l.entry = 0 /\ l.copy = NoJob
      /\ pc # "idle" => l.entry = fire[f].entry /\ l.copy = fire[f].copy
  BY <1>1 DEF FireLocals, Resting, Copies
<1>3. fire' = [fire EXCEPT ![f] = l]
  BY DEF Continue
<1> HIDE DEF l
<1> QED
  BY <1>1, <1>2, <1>3 DEF Moves

\* SetToSeq lists a finite set without repetition.
LEMMA SetToSeqLists ==
    ASSUME NEW S, IsFiniteSet(S)
    PROVE  /\ Cardinality(S) \in Nat
           /\ SetToSeq(S) \in [1 .. Cardinality(S) -> S]
           /\ \A a, b \in 1 .. Cardinality(S) : SetToSeq(S)[a] = SetToSeq(S)[b] => a = b
           /\ \A x \in S : \E k \in 1 .. Cardinality(S) : SetToSeq(S)[k] = x
<1> DEFINE n == Cardinality(S)
           o == SetToSeq(S)
<1>1. n \in Nat /\ ExistsBijection(1 .. n, S)
  BY FS_CardinalityType
<1>2. \E f \in [1 .. n -> S] : IsInjective(f)
  BY <1>1 DEF ExistsBijection, Bijection, Injection, IsInjective
<1>3. o \in [1 .. n -> S] /\ IsInjective(o)
  BY <1>2 DEF SetToSeq
<1>4. \A a, b \in 1 .. n : o[a] = o[b] => a = b
  BY <1>3 DEF IsInjective
<1> HIDE DEF o
<1>5. ASSUME NEW x \in S, \A k \in 1 .. n : o[k] # x PROVE FALSE
  <2>1. o \in [1 .. n -> S \ {x}]
    BY <1>3, <1>5
  <2>2. IsFiniteSet(S \ {x}) /\ Cardinality(S \ {x}) = n - 1
    BY <1>5, FS_RemoveElement
  <2>3. IsFiniteSet(1 .. n) /\ Cardinality(1 .. n) = n
    BY <1>1, FS_Interval
  <2>4. Cardinality(1 .. n) > Cardinality(S \ {x})
    <3> HIDE DEF n
    <3> QED
      BY <1>1, <2>2, <2>3
  <2> HIDE DEF n
  <2>5. \E a, b \in 1 .. n : a # b /\ o[a] = o[b]
    BY <2>1, <2>2, <2>3, <2>4, FS_PigeonHole
  <2> QED
    BY <1>4, <2>5
<1> QED
  BY <1>1, <1>3, <1>4, <1>5 DEF o

\* LoadAndSchedule changes nothing of a job but that it is enabled.
LEMMA LoadedJob ==
    ASSUME NEW job \in Copies
    PROVE  /\ Loaded(job) \in Copies /\ (Loaded(job) = NoJob <=> job = NoJob)
           /\ job # NoJob => Loaded(job).sched = job.sched /\ Loaded(job).count = job.count
<1>1. CASE job = NoJob
  BY <1>1 DEF Loaded
<1>2. CASE job # NoJob
  <2>1. job \in AJob /\ NoJob \notin AJob
    BY <1>2, CronNames DEF Copies, AJob, Schedules, Every
  <2>2. Loaded(job) \in AJob /\ Loaded(job).sched = job.sched /\ Loaded(job).count = job.count
    BY <1>2, <2>1 DEF Loaded, AJob
  <2> QED
    BY <1>2, <2>1, <2>2 DEF Copies
<1> QED
  BY <1>1, <1>2

\* A restart loads both files, and schedules every enabled job once.
LEMMA RestartEffect ==
    ASSUME JobsTypeOK, Restart
    PROVE  /\ jobs' \in [Jobs -> Copies] /\ diskJobs' \in [Jobs -> Copies] /\ failures' \in Nat
           /\ \A j \in Jobs : jobs'[j] = Loaded(diskJobs[j])
           /\ \/ diskJobs' = jobs' /\ failures' = failures
              \/ diskJobs' = diskJobs /\ failures' = failures + 1
           /\ runs' = diskRuns /\ diskRuns' = diskRuns
           /\ entries' \in Seq(Entries) /\ Len(entries') \in Nat
           /\ \A k \in 1 .. Len(entries') : /\ jobs'[entries'[k].job] # NoJob
                                            /\ entries'[k] = NewEntry(entries'[k].job, jobs'[entries'[k].job].sched)
                                            /\ dynamicEntries'[entries'[k].job] = k
           /\ dynamicEntries' \in [Jobs -> Nat]
           /\ \A j \in Jobs : dynamicEntries'[j] # 0 => dynamicEntries'[j] \in 1 .. Len(entries') /\ entries'[dynamicEntries'[j]].job = j
<1>0. diskJobs \in [Jobs -> Copies] /\ failures \in Nat /\ passed \subseteq AtTimes
  BY DEF JobsTypeOK
<1>1. jobs' \in [Jobs -> Copies] /\ \A j \in Jobs : jobs'[j] = Loaded(diskJobs[j])
  <2>1. jobs' = [j \in Jobs |-> Loaded(diskJobs[j])]
    BY DEF Restart
  <2> QED
    BY <1>0, <2>1, LoadedJob
<1>2. /\ diskJobs' \in [Jobs -> Copies] /\ failures' \in Nat
      /\ \/ diskJobs' = jobs' /\ failures' = failures
         \/ diskJobs' = diskJobs /\ failures' = failures + 1
      /\ runs' = diskRuns /\ diskRuns' = diskRuns
  BY <1>0, <1>1 DEF Restart, Written
<1> DEFINE due   == {j \in Jobs : jobs'[j] # NoJob /\ jobs'[j].enabled}
           order == SetToSeq(due)
           n     == Cardinality(due)
<1>3. /\ n \in Nat /\ order \in [1 .. n -> due]
      /\ \A a, b \in 1 .. n : order[a] = order[b] => a = b
      /\ \A j \in due : \E k \in 1 .. n : order[k] = j
  <2>1. IsFiniteSet(due)
    BY CronNames, FS_Subset
  <2> QED
    BY <2>1, SetToSeqLists
<1>4. /\ entries' = [k \in DOMAIN order |-> NewEntry(order[k], jobs'[order[k]].sched)]
      /\ dynamicEntries' = [j \in Jobs |-> IF j \in due THEN CHOOSE k \in DOMAIN order : order[k] = j ELSE 0]
  BY DEF Restart
<1>5. \A j \in due : j \in Jobs /\ jobs'[j] # NoJob /\ jobs'[j].sched \in Schedules
  BY <1>1 DEF Copies, AJob
<1> HIDE DEF due, order, n
<1>6. \A k \in 1 .. n : /\ order[k] \in due /\ NewEntry(order[k], jobs'[order[k]].sched) \in Entries
                        /\ NewEntry(order[k], jobs'[order[k]].sched).job = order[k]
  BY <1>3, <1>5 DEF NewEntry, Entries, Armed
<1>7. /\ entries' \in Seq(Entries) /\ Len(entries') = n
      /\ \A k \in 1 .. n : entries'[k] = NewEntry(order[k], jobs'[order[k]].sched)
  <2> DEFINE new(k) == NewEntry(order[k], jobs'[order[k]].sched)
  <2>1. \A k \in 1 .. n : new(k) \in Entries
    BY <1>6
  <2>2. entries' = [k \in 1 .. n |-> new(k)]
    BY <1>3, <1>4
  <2>3. \A k \in 1 .. n : new(k) = NewEntry(order[k], jobs'[order[k]].sched)
    OBVIOUS
  <2> HIDE DEF new
  <2>4. entries' \in [1 .. n -> Entries]
    BY <2>1, <2>2
  <2>5. entries' \in Seq(Entries) /\ Len(entries') = n
    BY <1>3, <2>2, <2>4
  <2> QED
    BY <2>2, <2>3, <2>5
<1>8. ASSUME NEW j \in due PROVE dynamicEntries'[j] \in 1 .. n /\ order[dynamicEntries'[j]] = j
  BY <1>3, <1>4, <1>5
<1>9. \A k \in 1 .. n : entries'[k].job = order[k] /\ dynamicEntries'[order[k]] = k
  BY <1>3, <1>6, <1>7, <1>8
<1>10. \A j \in Jobs : j \notin due => dynamicEntries'[j] = 0
  BY <1>4
<1>11. dynamicEntries' \in [Jobs -> Nat]
  <2>1. \A j \in Jobs : dynamicEntries'[j] \in Nat
    BY <1>3, <1>8, <1>10
  <2>2. dynamicEntries' = [j \in Jobs |-> dynamicEntries'[j]]
    BY <1>4
  <2> QED
    BY <2>1, <2>2
<1>12. \A k \in 1 .. Len(entries') : /\ jobs'[entries'[k].job] # NoJob
                                     /\ entries'[k] = NewEntry(entries'[k].job, jobs'[entries'[k].job].sched)
                                     /\ dynamicEntries'[entries'[k].job] = k
  BY <1>3, <1>5, <1>6, <1>7, <1>9
<1>13. \A j \in Jobs : dynamicEntries'[j] # 0 => dynamicEntries'[j] \in 1 .. Len(entries') /\ entries'[dynamicEntries'[j]].job = j
  BY <1>7, <1>8, <1>9, <1>10
<1> QED
  BY <1>1, <1>2, <1>3, <1>7, <1>11, <1>12, <1>13

-----------------------------------------------------------------------------
(* What the operations of the manager do *)

\* The locals of the call that holds Manager.mu.
Calls(pc, op, j, copy) ==
    call' \in CallLocals /\ call'.pc = pc /\ call'.op = op /\ call'.job = j /\ call'.copy = copy

\* A call starts.
LEMMA HoldsEffect ==
    ASSUME NEW pc \in CallPcs, NEW op \in {"create", "update", "delete"}, NEW j \in Jobs, NEW copy \in Copies,
           Holds(pc, op, j, copy)
    PROVE  Calls(pc, op, j, copy)
BY DEF Holds, CallLocals, Calls

\* A call moves on.
LEMMA GoesEffect ==
    ASSUME JobsTypeOK, NEW pc \in CallPcs, Goes(pc)
    PROVE  Calls(pc, call.op, call.job, call.copy) /\ asked' = asked
<1>1. call \in CallLocals /\ call' = [call EXCEPT !.pc = pc] /\ asked' = asked
  BY DEF JobsTypeOK, Goes
<1> QED
  BY <1>1 DEF CallLocals, Calls

\* A call unlocks Manager.mu.
LEMMA IdleEffect ==
    ASSUME call' = Idle
    PROVE  Calls("idle", "none", NoJob, NoJob)
BY DEF Idle, CallLocals, CallPcs, Copies, Calls

\* A call is on behalf of somebody who asks.
Asks(j, op) ==
    /\ asked' \in [Jobs -> SUBSET Ops] /\ asked'[j] = asked[j] \cup {op}
    /\ \A i \in Jobs : i # j => asked'[i] = asked[i]
    /\ phase # "down" /\ call.pc = "idle"

\* A call is noted for its job.
LEMMA EnterEffect ==
    ASSUME JobsTypeOK, NEW op \in Ops, NEW j \in Jobs, Enters(op, j)
    PROVE  Asks(j, op)
BY DEF JobsTypeOK, Enters, ManagerFree, Asks

\* What an entry's firing reads.
LEMMA JobOfIsJob ==
    ASSUME CronInv, NEW f \in Firings, fire[f].pc # "idle"
    PROVE  /\ fire[f].entry \in 1 .. Len(entries) /\ entries[fire[f].entry] \in Entries
           /\ JobOf(f) \in Jobs /\ phase # "down"
<1>1. fire[f].entry \in 1 .. Len(entries) /\ entries \in Seq(Entries) /\ phase # "down"
  BY DEF CronInv, JobsTypeOK, RefersToSomething, CallRefers, FiringRefers, TrackingRefers, DownIsEmpty
<1>2. entries[fire[f].entry] \in Entries
  BY <1>1
<1> QED
  BY <1>1, <1>2 DEF JobOf, Entries

\* A job that the manager or a firing writes back is a job.
LEMMA JobNotNone == /\ NoJob \notin AJob
                    /\ \A s \in Schedules : NewJob(s) \in AJob
                    /\ \A job \in Copies : job # NoJob => job \in AJob
BY CronNames DEF AJob, Schedules, Every, NewJob, Copies

\* What executeJob writes back.
Bumped(copy) == [copy EXCEPT !.count = @ + 1, !.enabled = @ /\ copy.sched = Every]

\* A bumped copy is a job of the same schedule with one run more.
LEMMA BumpedJob ==
    ASSUME NEW job \in AJob
    PROVE  Bumped(job) \in AJob /\ Bumped(job).sched = job.sched /\ Bumped(job).count = job.count + 1
<1> DEFINE b == job.enabled /\ job.sched = Every
           c == job.count + 1
<1>1. b \in BOOLEAN /\ c \in Nat /\ Bumped(job) = [job EXCEPT !.count = c, !.enabled = b]
  BY DEF Bumped, AJob
<1> HIDE DEF b, c
<1>2. Bumped(job) \in AJob /\ Bumped(job).sched = job.sched /\ Bumped(job).count = c
  BY <1>1 DEF AJob
<1> QED
  BY <1>2 DEF c

-----------------------------------------------------------------------------
(* What every action does *)

SameStore   == jobs' = jobs /\ runs' = runs /\ diskJobs' = diskJobs /\ diskRuns' = diskRuns /\ failures' = failures
SameCron    == entries' = entries /\ dynamicEntries' = dynamicEntries
SameProcess == phase' = phase /\ passed' = passed
SameManager == call' = call /\ asked' = asked
SameFiring  == fire' = fire /\ fires' = fires /\ handled' = handled

CreateStep(j, s) ==
    /\ asked[j] = {} /\ Asks(j, "create")
    /\ \/ Stores(j, NewJob(s), TRUE) /\ Calls("schedule", "create", j, NewJob(s))
       \/ Stores(j, NewJob(s), FALSE) /\ call' = call
    /\ SameCron /\ SameProcess /\ SameFiring

UpdateGetStep(j) ==
    /\ jobs[j] \in AJob /\ Asks(j, "update")
    /\ \E pc \in {"save", "saveChanged"}, copy \in AJob : Calls(pc, "update", j, copy) /\ copy.count = jobs[j].count
    /\ SameStore /\ SameCron /\ SameProcess /\ SameFiring

DeleteStep(j) ==
    /\ asked[j] # {} /\ Asks(j, "delete")
    /\ Calls("remove", "delete", j, NoJob)
    /\ SameStore /\ SameCron /\ SameProcess /\ SameFiring

Calling(pcs) == call.pc \in pcs /\ call.pc # "idle" /\ call.job \in Jobs /\ phase # "down"

UpdateSaveStep ==
    /\ Calling({"save", "saveChanged"}) /\ call.op = "update" /\ call.copy \in AJob
    /\ asked' = asked
    /\ \E ok \in BOOLEAN : Stores(call.job, call.copy, ok)
    /\ \/ Calls("remove", call.op, call.job, call.copy)
       \/ Calls("idle", "none", NoJob, NoJob)
    /\ SameCron /\ SameProcess /\ SameFiring

UnscheduleStep ==
    /\ Calling({"remove"}) /\ asked' = asked
    /\ Removes(call.job)
    /\ \/ call.op = "delete" /\ Calls("delete", call.op, call.job, call.copy)
       \/ call.op = "update" /\ call.copy \in AJob /\ Calls("schedule", call.op, call.job, call.copy)
       \/ call.op = "update" /\ Calls("idle", "none", NoJob, NoJob)
    /\ SameStore /\ SameProcess /\ SameFiring

ScheduleStep ==
    /\ Calling({"schedule"}) /\ call.copy \in AJob
    /\ Adds(call.job, call.copy.sched)
    /\ Calls("idle", "none", NoJob, NoJob)
    /\ asked' \in [Jobs -> SUBSET Ops] /\ \A i \in Jobs : i # call.job => asked'[i] = asked[i]
    /\ asked'[call.job] = IF call.op = "create" THEN asked[call.job] \cup {"created"} ELSE asked[call.job]
    /\ SameStore /\ SameProcess /\ SameFiring

DeleteStoreStep ==
    /\ Calling({"delete"}) /\ asked' = asked
    /\ \/ SameStore
       \/ \E files \in 0 .. 2 : /\ Forgets(call.job, files)
                                /\ failures' = IF files = 2 THEN failures ELSE failures + 1
    /\ Calls("idle", "none", NoJob, NoJob)
    /\ SameCron /\ SameProcess /\ SameFiring

Firing(f, pc) == /\ fire[f].pc = pc /\ fire[f].entry \in 1 .. Len(entries)
                 /\ entries[fire[f].entry] \in Entries /\ JobOf(f) \in Jobs /\ phase # "down"

GoesOn(f) ==
    /\ \/ Firing(f, "start") /\ Moves(f, "get", fire[f].entry, fire[f].copy)
       \/ Firing(f, "get") /\ Moves(f, "finish", fire[f].entry, fire[f].copy)
       \/ /\ Firing(f, "get") /\ jobs[JobOf(f)] \in AJob
          /\ Moves(f, "handle", fire[f].entry, jobs[JobOf(f)])
    /\ SameStore /\ SameCron /\ SameProcess /\ SameManager /\ fires' = fires /\ handled' = handled

HandleStep(f) ==
    /\ Firing(f, "handle") /\ fire[f].copy \in AJob
    /\ Moves(f, "saveRun", fire[f].entry, fire[f].copy)
    /\ handled' = handled \cup {<<JobOf(f), fire[f].copy.sched>>}
    /\ SameStore /\ SameCron /\ SameProcess /\ SameManager /\ fires' = fires

SaveRunStep(f) ==
    /\ Firing(f, "saveRun") /\ fire[f].copy \in AJob
    /\ \E ok \in BOOLEAN : Logs(JobOf(f), ok)
    /\ Moves(f, "save", fire[f].entry, fire[f].copy)
    /\ SameCron /\ SameProcess /\ SameManager /\ fires' = fires /\ handled' = handled

SaveStep(f) ==
    /\ Firing(f, "save") /\ fire[f].copy \in AJob
    /\ \E ok \in BOOLEAN : Stores(JobOf(f), Bumped(fire[f].copy), ok)
    /\ Moves(f, "finish", fire[f].entry, NoJob)
    /\ SameCron /\ SameProcess /\ SameManager /\ fires' = fires /\ handled' = handled

\* cron no longer has an entry.
Kills(e) ==
    /\ entries' \in Seq(Entries) /\ Len(entries') = Len(entries)
    /\ \A k \in 1 .. Len(entries) : SameEntry(k) /\ entries'[k].armed = entries[k].armed
    /\ ~entries'[e].live /\ \A k \in 1 .. Len(entries) : k # e => entries'[k] = entries[k]

FinishStep(f) ==
    /\ Firing(f, "finish")
    /\ \/ ~OneShot(f) /\ Moves(f, "idle", 0, NoJob) /\ entries' = entries
       \/ OneShot(f) /\ Moves(f, "forget", fire[f].entry, fire[f].copy) /\ Kills(fire[f].entry)
    /\ dynamicEntries' = dynamicEntries
    /\ SameStore /\ SameProcess /\ SameManager /\ fires' = fires /\ handled' = handled

ForgetStep(f) ==
    /\ Firing(f, "forget")
    /\ dynamicEntries' \in [Jobs -> Nat] /\ dynamicEntries'[JobOf(f)] = 0
    /\ \A i \in Jobs : i # JobOf(f) => dynamicEntries'[i] = dynamicEntries[i]
    /\ Moves(f, "idle", 0, NoJob) /\ entries' = entries
    /\ SameStore /\ SameProcess /\ SameManager /\ fires' = fires /\ handled' = handled

FiredStep(f, e) ==
    /\ phase = "up" /\ fire[f].pc = "idle" /\ fires + 1 <= MaxFires /\ fires' = fires + 1
    /\ entries[e].live /\ entries[e].armed /\ (entries[e].sched = Every \/ entries[e].sched \in passed)
    /\ entries' \in Seq(Entries) /\ Len(entries') = Len(entries)
    /\ \A k \in 1 .. Len(entries) : SameEntry(k) /\ entries'[k].live = entries[k].live
    /\ entries'[e].armed => entries[e].sched = Every
    /\ \A k \in 1 .. Len(entries) : k # e => entries'[k] = entries[k]
    /\ Moves(f, "start", e, NoJob)
    /\ dynamicEntries' = dynamicEntries /\ handled' = handled
    /\ SameStore /\ SameProcess /\ SameManager

CrashStep ==
    /\ phase' = "down" /\ passed' = passed /\ asked' = asked /\ fires' = fires /\ handled' = handled
    /\ entries' = <<>> /\ dynamicEntries' \in [Jobs -> Nat] /\ \A j \in Jobs : dynamicEntries'[j] = 0
    /\ Calls("idle", "none", NoJob, NoJob)
    /\ fire' \in [Firings -> FireLocals]
    /\ \A f \in Firings : fire'[f].pc = "idle" /\ fire'[f].entry = 0 /\ fire'[f].copy = NoJob
    /\ \/ SameStore /\ phase # "down"
       \/ Calling({"delete"}) /\ Forgets(call.job, 1) /\ failures' = failures

PhaseStep ==
    /\ phase # "down" /\ phase' \in {"stopping", "stopped"} /\ passed' = passed
    /\ SameStore /\ SameCron /\ SameManager /\ SameFiring

TimeStep ==
    /\ passed' \subseteq AtTimes /\ passed \subseteq passed' /\ phase' = phase
    /\ SameStore /\ SameCron /\ SameManager /\ SameFiring

RestartStep ==
    /\ phase = "down" /\ phase' = "up" /\ passed' = passed
    /\ jobs' \in [Jobs -> Copies] /\ diskJobs' \in [Jobs -> Copies] /\ failures' \in Nat
    /\ \A j \in Jobs : jobs'[j] = Loaded(diskJobs[j])
    /\ \/ diskJobs' = jobs' /\ failures' = failures
       \/ diskJobs' = diskJobs /\ failures' = failures + 1
    /\ runs' = diskRuns /\ diskRuns' = diskRuns
    /\ entries' \in Seq(Entries) /\ Len(entries') \in Nat
    /\ \A k \in 1 .. Len(entries') : /\ jobs'[entries'[k].job] # NoJob
                                     /\ entries'[k] = NewEntry(entries'[k].job, jobs'[entries'[k].job].sched)
                                     /\ dynamicEntries'[entries'[k].job] = k
    /\ dynamicEntries' \in [Jobs -> Nat]
    /\ \A j \in Jobs : dynamicEntries'[j] # 0 => dynamicEntries'[j] \in 1 .. Len(entries') /\ entries'[dynamicEntries'[j]].job = j
    /\ SameManager /\ SameFiring

Steps ==
    \/ \E j \in Jobs, s \in Schedules : CreateStep(j, s)
    \/ \E j \in Jobs : UpdateGetStep(j) \/ DeleteStep(j)
    \/ UpdateSaveStep \/ UnscheduleStep \/ ScheduleStep \/ DeleteStoreStep
    \/ \E f \in Firings : \/ GoesOn(f) \/ HandleStep(f) \/ SaveRunStep(f) \/ SaveStep(f) \/ FinishStep(f) \/ ForgetStep(f)
                          \/ \E e \in 1 .. Len(entries) : FiredStep(f, e)
    \/ CrashStep \/ PhaseStep \/ TimeStep \/ RestartStep
    \/ SameStore /\ SameCron /\ SameProcess /\ SameManager /\ SameFiring

\* Create does what its step says.
LEMMA CreateDoes ==
    ASSUME CronInv, NEW j \in Jobs, NEW s \in Schedules, Create(j, s) PROVE CreateStep(j, s)
<1>1. JobsTypeOK /\ NewJob(s) \in AJob /\ NewJob(s) \in Copies
  BY JobNotNone DEF CronInv, Copies
<1>2. asked[j] = {} /\ Asks(j, "create")
  BY <1>1, EnterEffect DEF Create, Ops
<1>3. SameCron /\ SameProcess /\ SameFiring
  BY DEF Create, cron, process, firing, SameCron, SameProcess, SameFiring
<1>4. CASE Save(j, NewJob(s), TRUE) /\ Holds("schedule", "create", j, NewJob(s))
  BY <1>1, <1>2, <1>3, <1>4, SaveEffect, HoldsEffect DEF CreateStep, CallPcs
<1>5. CASE Save(j, NewJob(s), FALSE) /\ UNCHANGED call
  BY <1>1, <1>2, <1>3, <1>5, SaveEffect DEF CreateStep
<1> QED
  BY <1>4, <1>5 DEF Create

\* The reading step of Update does what its step says.
LEMMA UpdateGetDoes ==
    ASSUME CronInv, NEW j \in Jobs, UpdateGet(j) PROVE UpdateGetStep(j)
<1>1. JobsTypeOK /\ jobs[j] \in AJob
  BY JobNotNone DEF CronInv, JobsTypeOK, UpdateGet
<1>2. Asks(j, "update")
  BY <1>1, EnterEffect DEF UpdateGet, Ops
<1>3. SameStore /\ SameCron /\ SameProcess /\ SameFiring
  BY DEF UpdateGet, store, cron, process, firing, SameStore, SameCron, SameProcess, SameFiring
<1>4. \E pc \in {"save", "saveChanged"}, copy \in AJob : Holds(pc, "update", j, copy) /\ copy.count = jobs[j].count
  <2>1. ASSUME NEW b \in BOOLEAN,
               Holds(IF b = jobs[j].enabled THEN "save" ELSE "saveChanged", "update", j, [jobs[j] EXCEPT !.enabled = b])
        PROVE  <1>4!:
    <3> DEFINE copy == [jobs[j] EXCEPT !.enabled = b]
               pc   == IF b = jobs[j].enabled THEN "save" ELSE "saveChanged"
    <3>1. copy \in AJob /\ copy.count = jobs[j].count
      BY <1>1 DEF AJob
    <3>2. pc \in {"save", "saveChanged"} /\ Holds(pc, "update", j, copy)
      BY <2>1
    <3> HIDE DEF copy, pc
    <3> QED
      BY <3>1, <3>2
  <2>2. ASSUME NEW b \in BOOLEAN, NEW s \in Schedules,
               Holds("saveChanged", "update", j, [jobs[j] EXCEPT !.enabled = b, !.sched = s])
        PROVE  <1>4!:
    <3> DEFINE copy == [jobs[j] EXCEPT !.enabled = b, !.sched = s]
    <3>1. copy \in AJob /\ copy.count = jobs[j].count
      BY <1>1 DEF AJob
    <3>2. Holds("saveChanged", "update", j, copy)
      BY <2>2
    <3> HIDE DEF copy
    <3> QED
      BY <3>1, <3>2
  <2> QED
    BY <2>1, <2>2 DEF UpdateGet
<1>5. \E pc \in {"save", "saveChanged"}, copy \in AJob : Calls(pc, "update", j, copy) /\ copy.count = jobs[j].count
  BY <1>4, HoldsEffect DEF CallPcs, Copies
<1> QED
  BY <1>1, <1>2, <1>3, <1>5 DEF UpdateGetStep

\* The first step of Delete does what its step says.
LEMMA DeleteDoes ==
    ASSUME CronInv, NEW j \in Jobs, Delete(j) PROVE DeleteStep(j)
<1>1. JobsTypeOK /\ NoJob \in Copies
  BY DEF CronInv, Copies
<1>2. asked[j] # {} /\ Asks(j, "delete") /\ Calls("remove", "delete", j, NoJob)
  BY <1>1, EnterEffect, HoldsEffect DEF Delete, Ops, CallPcs
<1>3. SameStore /\ SameCron /\ SameProcess /\ SameFiring
  BY DEF Delete, store, cron, process, firing, SameStore, SameCron, SameProcess, SameFiring
<1> QED
  BY <1>2, <1>3 DEF DeleteStep

\* What the holder of Manager.mu is working on.
LEMMA CallingWhat ==
    ASSUME CronInv, call.pc # "idle"
    PROVE  /\ call.job \in Jobs /\ phase # "down"
           /\ call.pc \in {"schedule", "save", "saveChanged"} => call.copy \in AJob
           /\ call.pc \in {"save", "saveChanged"} => call.op = "update"
           /\ call.pc = "remove" /\ call.op = "update" => call.copy \in AJob
BY DEF CronInv, RefersToSomething, CallRefers, FiringRefers, TrackingRefers, DownIsEmpty

\* The saving step of Update does what its step says.
LEMMA UpdateSaveDoes ==
    ASSUME CronInv, UpdateSave PROVE UpdateSaveStep
<1>1. JobsTypeOK /\ Calling({"save", "saveChanged"}) /\ call.op = "update" /\ call.copy \in AJob
  BY CallingWhat DEF CronInv, UpdateSave, Calling
<1>2. SameCron /\ SameProcess /\ SameFiring
  BY DEF UpdateSave, cron, process, firing, SameCron, SameProcess, SameFiring
<1>3. \E ok \in BOOLEAN : Stores(call.job, call.copy, ok)
  BY <1>1, SaveEffect DEF UpdateSave, Calling
<1>4. Goes("remove") \/ Returns
  BY DEF UpdateSave
<1>5. /\ asked' = asked
      /\ \/ Calls("remove", call.op, call.job, call.copy)
         \/ Calls("idle", "none", NoJob, NoJob)
  BY <1>1, <1>4, GoesEffect, IdleEffect DEF Returns, CallPcs
<1> QED
  BY <1>1, <1>2, <1>3, <1>5 DEF UpdateSaveStep

\* The step of Update or Delete that takes the entry away does what its step says.
LEMMA UnscheduleDoes ==
    ASSUME CronInv, Unschedule PROVE UnscheduleStep
<1>1. JobsTypeOK /\ RefersToSomething /\ Calling({"remove"}) /\ (call.op = "update" => call.copy \in AJob)
  BY CallingWhat DEF CronInv, Unschedule, Calling
<1>2. SameStore /\ SameProcess /\ SameFiring
  BY DEF Unschedule, store, process, firing, SameStore, SameProcess, SameFiring
<1>3. Removes(call.job)
  BY <1>1, RemoveTaskEffect DEF Unschedule, Calling
<1>4. \/ call.op = "delete" /\ Goes("delete")
      \/ call.op = "update" /\ Goes("schedule")
      \/ call.op = "update" /\ Returns
  BY DEF Unschedule
<1>5. /\ asked' = asked
      /\ \/ call.op = "delete" /\ Calls("delete", call.op, call.job, call.copy)
         \/ call.op = "update" /\ Calls("schedule", call.op, call.job, call.copy)
         \/ call.op = "update" /\ Calls("idle", "none", NoJob, NoJob)
  BY <1>1, <1>4, GoesEffect, IdleEffect DEF Returns, CallPcs
<1> QED
  BY <1>1, <1>2, <1>3, <1>5 DEF UnscheduleStep

\* The step of Create or Update that schedules the job does what its step says.
LEMMA ScheduleDoes ==
    ASSUME CronInv, scheduleJob PROVE ScheduleStep
<1>1. JobsTypeOK /\ Calling({"schedule"}) /\ call.copy \in AJob /\ call.copy.sched \in Schedules
  BY CallingWhat DEF CronInv, scheduleJob, Calling, AJob
<1>2. SameStore /\ SameProcess /\ SameFiring
  BY DEF scheduleJob, store, process, firing, SameStore, SameProcess, SameFiring
<1>3. Adds(call.job, call.copy.sched) /\ Calls("idle", "none", NoJob, NoJob)
  BY <1>1, AddTaskEffect, IdleEffect DEF scheduleJob, Calling
<1>4. /\ asked' \in [Jobs -> SUBSET Ops] /\ \A i \in Jobs : i # call.job => asked'[i] = asked[i]
      /\ asked'[call.job] = IF call.op = "create" THEN asked[call.job] \cup {"created"} ELSE asked[call.job]
  <2>1. asked \in [Jobs -> SUBSET Ops] /\ call.job \in Jobs
    BY <1>1 DEF JobsTypeOK, Calling
  <2> DEFINE a == IF call.op = "create" THEN asked[call.job] \cup {"created"} ELSE asked[call.job]
  <2>2. a \in SUBSET Ops /\ asked' = [asked EXCEPT ![call.job] = a]
    BY <2>1 DEF scheduleJob, Ops
  <2> HIDE DEF a
  <2>3. asked' \in [Jobs -> SUBSET Ops] /\ asked'[call.job] = a /\ \A i \in Jobs : i # call.job => asked'[i] = asked[i]
    BY <2>1, <2>2
  <2> QED
    BY <2>3 DEF a
<1> QED
  BY <1>1, <1>2, <1>3, <1>4 DEF ScheduleStep

\* The step of Delete that takes the job from the store does what its step says.
LEMMA DeleteStoreDoes ==
    ASSUME CronInv, DeleteStore PROVE DeleteStoreStep
<1>1. JobsTypeOK /\ Calling({"delete"})
  BY CallingWhat DEF CronInv, DeleteStore, Calling
<1>2. SameCron /\ SameProcess /\ SameFiring
  BY DEF DeleteStore, cron, process, firing, SameCron, SameProcess, SameFiring
<1>3. asked' = asked /\ Calls("idle", "none", NoJob, NoJob)
  BY IdleEffect DEF DeleteStore, Returns
<1>4. \/ SameStore
      \/ \E files \in 0 .. 2 : DeleteStored(call.job, files) /\ Written(files = 2)
  BY DEF DeleteStore, store, SameStore
<1>5. \/ SameStore
      \/ \E files \in 0 .. 2 : /\ Forgets(call.job, files)
                               /\ failures' = IF files = 2 THEN failures ELSE failures + 1
  BY <1>1, <1>4, DeleteEffect DEF Calling, Written
<1> QED
  BY <1>1, <1>2, <1>3, <1>5 DEF DeleteStoreStep

\* What a firing works on.
LEMMA FiringWhat ==
    ASSUME CronInv, NEW f \in Firings, fire[f].pc # "idle"
    PROVE  /\ Firing(f, fire[f].pc) /\ JobsTypeOK /\ fire[f] \in FireLocals
           /\ fire[f].pc \in {"handle", "saveRun", "save"} => fire[f].copy \in AJob
BY JobOfIsJob
DEF Firing, CronInv, RefersToSomething, CallRefers, FiringRefers, TrackingRefers, DownIsEmpty, JobsTypeOK

\* Both locals of a firing change.
LEMMA SetsCopy ==
    ASSUME JobsTypeOK, NEW f \in Firings, NEW pc \in FirePcs, NEW copy \in Copies,
           fire' = [fire EXCEPT ![f].pc = pc, ![f].copy = copy]
    PROVE  Moves(f, pc, fire[f].entry, copy)
<1>1. fire \in [Firings -> FireLocals] /\ fire[f] \in FireLocals
  BY DEF JobsTypeOK
<1> DEFINE l == [fire[f] EXCEPT !.pc = pc, !.copy = copy]
<1>2. l \in FireLocals /\ l.pc = pc /\ l.entry = fire[f].entry /\ l.copy = copy
  BY <1>1 DEF FireLocals
<1>3. fire' = [fire EXCEPT ![f] = l]
  BY <1>1
<1> HIDE DEF l
<1> QED
  BY <1>1, <1>2, <1>3 DEF Moves

\* A firing that reads, skips or ends does what its step says.
LEMMA GoesOnDoes ==
    ASSUME CronInv, NEW f \in Firings, JobStart(f) \/ JobGet(f) PROVE GoesOn(f)
<1>1. fire[f].pc # "idle"
  BY DEF JobStart, JobGet
<1>2. Firing(f, fire[f].pc) /\ JobsTypeOK /\ JobOf(f) \in Jobs
  BY <1>1, FiringWhat DEF Firing
<1>3. SameStore /\ SameCron /\ SameProcess /\ SameManager /\ fires' = fires /\ handled' = handled
  BY DEF JobStart, JobGet, store, cron, process, manager, SameStore, SameCron, SameProcess, SameManager
<1>4. CASE fire[f].pc = "start" /\ Continue(f, "get")
  BY <1>2, <1>3, <1>4, ContinueEffect DEF GoesOn, FirePcs
<1>5. CASE fire[f].pc = "get" /\ Continue(f, "finish")
  BY <1>2, <1>3, <1>5, ContinueEffect DEF GoesOn, FirePcs
<1>6. CASE /\ fire[f].pc = "get" /\ jobs[JobOf(f)] # NoJob
           /\ fire' = [fire EXCEPT ![f].pc = "handle", ![f].copy = jobs[JobOf(f)]]
  <2>1. jobs[JobOf(f)] \in AJob /\ jobs[JobOf(f)] \in Copies /\ "handle" \in FirePcs
    BY <1>2, <1>6, JobNotNone DEF JobsTypeOK, FirePcs
  <2>2. Moves(f, "handle", fire[f].entry, jobs[JobOf(f)])
    BY <1>2, <1>6, <2>1, SetsCopy
  <2> QED
    BY <1>2, <1>3, <1>6, <2>1, <2>2 DEF GoesOn
<1> QED
  BY <1>4, <1>5, <1>6 DEF JobStart, JobGet

\* A firing that calls the handler does what its step says.
LEMMA HandleDoes ==
    ASSUME CronInv, NEW f \in Firings, JobHandle(f) PROVE HandleStep(f)
<1>1. Firing(f, "handle") /\ JobsTypeOK /\ fire[f].copy \in AJob
  BY FiringWhat DEF JobHandle
<1>2. SameStore /\ SameCron /\ SameProcess /\ SameManager /\ fires' = fires
  BY DEF JobHandle, store, cron, process, manager, SameStore, SameCron, SameProcess, SameManager
<1>3. Moves(f, "saveRun", fire[f].entry, fire[f].copy)
  BY <1>1, ContinueEffect DEF JobHandle, FirePcs
<1> QED
  BY <1>1, <1>2, <1>3 DEF HandleStep, JobHandle

\* A firing that logs its run does what its step says.
LEMMA SaveRunDoes ==
    ASSUME CronInv, NEW f \in Firings, JobSaveRun(f) PROVE SaveRunStep(f)
<1>1. Firing(f, "saveRun") /\ JobsTypeOK /\ fire[f].copy \in AJob
  BY FiringWhat DEF JobSaveRun
<1>2. SameCron /\ SameProcess /\ SameManager /\ fires' = fires /\ handled' = handled
  BY DEF JobSaveRun, cron, process, manager, SameCron, SameProcess, SameManager
<1>3. Moves(f, "save", fire[f].entry, fire[f].copy)
  BY <1>1, ContinueEffect DEF JobSaveRun, FirePcs
<1>4. \E ok \in BOOLEAN : Logs(JobOf(f), ok)
  BY <1>1, SaveRunEffect DEF JobSaveRun, Firing
<1> QED
  BY <1>1, <1>2, <1>3, <1>4 DEF SaveRunStep

\* A firing that saves the job does what its step says.
LEMMA SaveDoes ==
    ASSUME CronInv, NEW f \in Firings, JobSave(f) PROVE SaveStep(f)
<1>1. Firing(f, "save") /\ JobsTypeOK /\ fire[f].copy \in AJob
  BY FiringWhat DEF JobSave
<1>2. SameCron /\ SameProcess /\ SameManager /\ fires' = fires /\ handled' = handled
  BY DEF JobSave, cron, process, manager, SameCron, SameProcess, SameManager
<1>3. Moves(f, "finish", fire[f].entry, NoJob)
  BY <1>1, SetsCopy DEF JobSave, FirePcs, Copies
<1>4. Bumped(fire[f].copy) \in AJob
  BY <1>1, BumpedJob
<1>5. \E ok \in BOOLEAN : Save(JobOf(f), Bumped(fire[f].copy), ok)
  BY DEF JobSave, Bumped
<1>6. \E ok \in BOOLEAN : Stores(JobOf(f), Bumped(fire[f].copy), ok)
  BY <1>1, <1>4, <1>5, SaveEffect DEF Firing
<1> QED
  BY <1>1, <1>2, <1>3, <1>6 DEF SaveStep

\* A firing that takes its entry away does what its step says.
LEMMA FinishDoes ==
    ASSUME CronInv, NEW f \in Firings, JobFinish(f) PROVE FinishStep(f)
<1>1. Firing(f, "finish") /\ JobsTypeOK
  BY FiringWhat DEF JobFinish
<1>2. SameStore /\ dynamicEntries' = dynamicEntries /\ SameProcess /\ SameManager /\ fires' = fires /\ handled' = handled
  BY DEF JobFinish, store, process, manager, SameStore, SameProcess, SameManager
<1>3. CASE ~OneShot(f) /\ Continue(f, "idle") /\ UNCHANGED entries
  BY <1>1, <1>2, <1>3, ContinueEffect DEF FinishStep, FirePcs
<1>4. CASE OneShot(f) /\ Continue(f, "forget") /\ entries' = [entries EXCEPT ![fire[f].entry].live = FALSE]
  <2>1. Kills(fire[f].entry)
    BY <1>1, <1>4, KillEffect DEF Firing, Kills
  <2>2. Moves(f, "forget", fire[f].entry, fire[f].copy)
    BY <1>1, <1>4, ContinueEffect DEF FirePcs
  <2> QED
    BY <1>1, <1>2, <1>4, <2>1, <2>2 DEF FinishStep
<1> QED
  BY <1>3, <1>4 DEF JobFinish

\* A firing that forgets its one-shot job does what its step says.
LEMMA ForgetDoes ==
    ASSUME CronInv, NEW f \in Firings, JobForget(f) PROVE ForgetStep(f)
<1>1. Firing(f, "forget") /\ JobsTypeOK
  BY FiringWhat DEF JobForget
<1>2. SameStore /\ entries' = entries /\ SameProcess /\ SameManager /\ fires' = fires /\ handled' = handled
  BY DEF JobForget, store, process, manager, SameStore, SameProcess, SameManager
<1>3. Moves(f, "idle", 0, NoJob)
  BY <1>1, ContinueEffect DEF JobForget, FirePcs
<1>4. dynamicEntries \in [Jobs -> Nat] /\ JobOf(f) \in Jobs /\ dynamicEntries' = [dynamicEntries EXCEPT ![JobOf(f)] = 0]
  BY <1>1 DEF JobForget, JobsTypeOK, Firing
<1> HIDE DEF JobOf
<1>5. /\ dynamicEntries' \in [Jobs -> Nat] /\ dynamicEntries'[JobOf(f)] = 0
      /\ \A i \in Jobs : i # JobOf(f) => dynamicEntries'[i] = dynamicEntries[i]
  BY <1>4
<1> QED
  BY <1>1, <1>2, <1>3, <1>5 DEF ForgetStep

\* The start of a firing takes what is armed and due.
LEMMA FireDoes ==
    ASSUME CronInv, NEW f \in Firings, NEW e \in DOMAIN entries, Fire(f, e)
    PROVE  e \in 1 .. Len(entries) /\ FiredStep(f, e)
<1>1. JobsTypeOK /\ entries \in Seq(Entries) /\ e \in 1 .. Len(entries) /\ fires \in 0 .. MaxFires /\ MaxFires \in Nat
  BY CronBounds DEF CronInv, JobsTypeOK
<1>2. /\ phase = "up" /\ fire[f].pc = "idle" /\ fires + 1 <= MaxFires /\ fires' = fires + 1
      /\ entries[e].live /\ entries[e].armed /\ (entries[e].sched = Every \/ entries[e].sched \in passed)
  BY <1>1 DEF Fire
<1>3. dynamicEntries' = dynamicEntries /\ handled' = handled /\ SameStore /\ SameProcess /\ SameManager
  BY DEF Fire, store, process, manager, SameStore, SameProcess, SameManager
<1> DEFINE b == Rearmed(entries[e].sched)
<1>4. b \in BOOLEAN /\ b = (entries[e].sched = Every) /\ entries' = [entries EXCEPT ![e].armed = b]
  BY DEF Fire, Rearmed
<1> HIDE DEF b
<1>5. /\ entries' \in Seq(Entries) /\ Len(entries') = Len(entries)
      /\ \A k \in 1 .. Len(entries) : SameEntry(k) /\ entries'[k].live = entries[k].live
      /\ entries'[e].armed = b /\ \A k \in 1 .. Len(entries) : k # e => entries'[k] = entries[k]
  BY <1>1, <1>4, ArmEffect
<1>6. Moves(f, "start", e, NoJob)
  <2> DEFINE l == [Resting EXCEPT !.pc = "start", !.entry = e]
  <2>1. e \in Nat /\ "start" \in FirePcs
    BY <1>1 DEF FirePcs
  <2>2. Resting \in FireLocals /\ Resting.copy = NoJob
    BY DEF Resting, FireLocals, FirePcs, Copies
  <2>3. l \in FireLocals /\ l.pc = "start" /\ l.entry = e /\ l.copy = NoJob
    BY <2>1, <2>2 DEF FireLocals
  <2>4. fire \in [Firings -> FireLocals] /\ fire' = [fire EXCEPT ![f] = l]
    BY <1>1 DEF JobsTypeOK, Fire
  <2> HIDE DEF l
  <2> QED
    BY <2>3, <2>4 DEF Moves
<1> QED
  BY <1>1, <1>2, <1>3, <1>4, <1>5, <1>6 DEF FiredStep

\* A crash leaves the files.
LEMMA CrashDoes ==
    ASSUME CronInv, Crash \/ CrashInDelete PROVE CrashStep
<1>1. JobsTypeOK /\ Down
  BY DEF CronInv, Crash, CrashInDelete
<1>2. /\ phase' = "down" /\ passed' = passed /\ asked' = asked /\ fires' = fires /\ handled' = handled
      /\ entries' = <<>> /\ dynamicEntries' \in [Jobs -> Nat] /\ \A j \in Jobs : dynamicEntries'[j] = 0
      /\ phase # "down"
  BY <1>1 DEF Down
<1>3. Calls("idle", "none", NoJob, NoJob)
  BY <1>1, IdleEffect DEF Down
<1>4. Resting \in FireLocals /\ Resting.pc = "idle" /\ Resting.entry = 0 /\ Resting.copy = NoJob
  BY DEF Resting, FireLocals, FirePcs, Copies
<1>5. /\ fire' \in [Firings -> FireLocals]
      /\ \A f \in Firings : fire'[f].pc = "idle" /\ fire'[f].entry = 0 /\ fire'[f].copy = NoJob
  BY <1>1, <1>4 DEF Down
<1>6. CASE Crash
  <2>1. SameStore
    BY <1>6 DEF Crash, store, SameStore
  <2> QED
    BY <1>2, <1>3, <1>5, <2>1 DEF CrashStep
<1>7. CASE CrashInDelete
  <2>1. Calling({"delete"}) /\ failures' = failures
    BY <1>7, CallingWhat DEF CrashInDelete, Calling
  <2>2. Forgets(call.job, 1)
    BY <1>1, <1>7, <2>1, DeleteEffect DEF CrashInDelete, Calling
  <2> QED
    BY <1>2, <1>3, <1>5, <2>1, <2>2 DEF CrashStep
<1> QED
  BY <1>6, <1>7

\* Shutdown changes the phase.
LEMMA PhaseDoes ==
    ASSUME StopBegin \/ StopEnd PROVE PhaseStep
BY DEF StopBegin, StopEnd, PhaseStep, store, cron, manager, firing, SameStore, SameCron, SameManager, SameFiring

\* Time changes nothing but the time.
LEMMA TimeDoes ==
    ASSUME CronInv, NEW t \in AtTimes, TimePasses(t) PROVE TimeStep
BY DEF CronInv, JobsTypeOK, TimePasses, TimeStep, store, cron, manager, firing, SameStore, SameCron,
   SameManager, SameFiring

\* A start of the process empties what was in memory and loads the files.
LEMMA RestartDoes ==
    ASSUME CronInv, Restart PROVE RestartStep
<1>1. JobsTypeOK
  BY DEF CronInv
<1>2. phase = "down" /\ phase' = "up" /\ passed' = passed /\ SameManager /\ SameFiring
  BY DEF Restart, manager, firing, SameManager, SameFiring
<1> QED
  BY <1>1, <1>2, RestartEffect DEF RestartStep

\* Every step of the specification is one of these.
LEMMA StepsAre ==
    ASSUME CronInv, [CronNext]_cronVars PROVE Steps
<1>1. ASSUME UNCHANGED cronVars PROVE Steps
  <2>1. SameStore /\ SameCron /\ SameProcess /\ SameManager /\ SameFiring
    BY <1>1
    DEF cronVars, store, cron, process, manager, firing, SameStore, SameCron, SameProcess, SameManager,
        SameFiring
  <2> QED
    BY <2>1 DEF Steps
<1>2. ASSUME NEW j \in Jobs, NEW s \in Schedules, Create(j, s) PROVE Steps
  BY <1>2, CreateDoes DEF Steps
<1>3. ASSUME NEW j \in Jobs, UpdateGet(j) \/ Delete(j) PROVE Steps
  BY <1>3, UpdateGetDoes, DeleteDoes DEF Steps
<1>4. ASSUME CallStep PROVE Steps
  BY <1>4, UpdateSaveDoes, UnscheduleDoes, ScheduleDoes, DeleteStoreDoes DEF Steps, CallStep
<1>5. ASSUME NEW f \in Firings, FireStep(f) PROVE Steps
  BY <1>5, GoesOnDoes, HandleDoes, SaveRunDoes, SaveDoes, FinishDoes, ForgetDoes DEF Steps, FireStep
<1>6. ASSUME NEW f \in Firings, NEW e \in DOMAIN entries, Fire(f, e) PROVE Steps
  BY <1>6, FireDoes DEF Steps
<1>7. ASSUME CrashInDelete \/ Crash \/ StopBegin \/ StopEnd \/ Restart PROVE Steps
  BY <1>7, CrashDoes, PhaseDoes, RestartDoes DEF Steps
<1>8. ASSUME NEW t \in AtTimes, TimePasses(t) PROVE Steps
  BY <1>8, TimeDoes DEF Steps
<1> QED
  BY <1>1, <1>2, <1>3, <1>4, <1>5, <1>6, <1>7, <1>8 DEF CronNext

-----------------------------------------------------------------------------
(* Types and references are kept *)

\* The types hold, and what is referred to exists, after every kind of step.
LEMMA CreateKeeps ==
    ASSUME CronInv, NEW j \in Jobs, NEW s \in Schedules, CreateStep(j, s) PROVE CronInv'
<1> USE DEF CronInv
<1>1. JobsTypeOK'
  BY DEF JobsTypeOK, CreateStep, Asks, Stores, Calls, SameCron, SameProcess, SameFiring
<1>2. CallRefers'
  BY JobNotNone
  DEF RefersToSomething, CallRefers, JobsTypeOK, CreateStep, Asks, Stores, Calls, SameCron, SameProcess,
      SameFiring
<1>3. FiringRefers'
  BY DEF RefersToSomething, FiringRefers, JobsTypeOK, CreateStep, Asks, Stores, Calls, SameCron, SameProcess,
     SameFiring
<1>4. TrackingRefers'
  BY DEF RefersToSomething, TrackingRefers, JobsTypeOK, CreateStep, Asks, Stores, Calls, SameCron, SameProcess,
     SameFiring
<1>5. DownIsEmpty'
  BY DEF RefersToSomething, DownIsEmpty, JobsTypeOK, CreateStep, Asks, Stores, Calls, SameCron, SameProcess,
     SameFiring
<1> QED
  BY <1>1, <1>2, <1>3, <1>4, <1>5 DEF RefersToSomething

\* The reading step of Update keeps the types and the references.
LEMMA UpdateGetKeeps ==
    ASSUME CronInv, NEW j \in Jobs, UpdateGetStep(j) PROVE CronInv'
<1> USE DEF CronInv
<1>1. JobsTypeOK'
  BY DEF JobsTypeOK, UpdateGetStep, Asks, Calls, SameStore, SameCron, SameProcess, SameFiring
<1>2. CallRefers'
  BY DEF RefersToSomething, CallRefers, JobsTypeOK, UpdateGetStep, Asks, Calls, SameStore, SameCron,
     SameProcess, SameFiring
<1>3. FiringRefers'
  BY DEF RefersToSomething, FiringRefers, JobsTypeOK, UpdateGetStep, Asks, Calls, SameStore, SameCron,
     SameProcess, SameFiring
<1>4. TrackingRefers'
  BY DEF RefersToSomething, TrackingRefers, JobsTypeOK, UpdateGetStep, Asks, Calls, SameStore, SameCron,
     SameProcess, SameFiring
<1>5. DownIsEmpty'
  BY DEF RefersToSomething, DownIsEmpty, JobsTypeOK, UpdateGetStep, Asks, Calls, SameStore, SameCron,
     SameProcess, SameFiring
<1> QED
  BY <1>1, <1>2, <1>3, <1>4, <1>5 DEF RefersToSomething

\* The first step of Delete keeps the types and the references.
LEMMA DeleteKeeps ==
    ASSUME CronInv, NEW j \in Jobs, DeleteStep(j) PROVE CronInv'
<1> USE DEF CronInv
<1>1. JobsTypeOK'
  BY DEF JobsTypeOK, DeleteStep, Asks, Calls, SameStore, SameCron, SameProcess, SameFiring
<1>2. CallRefers'
  BY DEF RefersToSomething, CallRefers, JobsTypeOK, DeleteStep, Asks, Calls, SameStore, SameCron, SameProcess,
     SameFiring
<1>3. FiringRefers'
  BY DEF RefersToSomething, FiringRefers, JobsTypeOK, DeleteStep, Asks, Calls, SameStore, SameCron,
     SameProcess, SameFiring
<1>4. TrackingRefers'
  BY DEF RefersToSomething, TrackingRefers, JobsTypeOK, DeleteStep, Asks, Calls, SameStore, SameCron,
     SameProcess, SameFiring
<1>5. DownIsEmpty'
  BY DEF RefersToSomething, DownIsEmpty, JobsTypeOK, DeleteStep, Asks, Calls, SameStore, SameCron, SameProcess,
     SameFiring
<1> QED
  BY <1>1, <1>2, <1>3, <1>4, <1>5 DEF RefersToSomething

\* The saving step of Update keeps the types and the references.
LEMMA UpdateSaveKeeps ==
    ASSUME CronInv, UpdateSaveStep PROVE CronInv'
<1> USE DEF CronInv
<1>1. JobsTypeOK'
  BY DEF JobsTypeOK, UpdateSaveStep, Calling, Stores, Calls, SameCron, SameProcess, SameFiring
<1>2. CallRefers'
  BY DEF RefersToSomething, CallRefers, JobsTypeOK, UpdateSaveStep, Calling, Stores, Calls, SameCron,
     SameProcess, SameFiring
<1>3. FiringRefers'
  BY DEF RefersToSomething, FiringRefers, JobsTypeOK, UpdateSaveStep, Calling, Stores, Calls, SameCron,
     SameProcess, SameFiring
<1>4. TrackingRefers'
  BY DEF RefersToSomething, TrackingRefers, JobsTypeOK, UpdateSaveStep, Calling, Stores, Calls, SameCron,
     SameProcess, SameFiring
<1>5. DownIsEmpty'
  BY DEF RefersToSomething, DownIsEmpty, JobsTypeOK, UpdateSaveStep, Calling, Stores, Calls, SameCron,
     SameProcess, SameFiring
<1> QED
  BY <1>1, <1>2, <1>3, <1>4, <1>5 DEF RefersToSomething

\* The step of Update or Delete that takes the entry away keeps the types and the references.
LEMMA UnscheduleKeeps ==
    ASSUME CronInv, UnscheduleStep PROVE CronInv'
<1> USE DEF CronInv
<1>1. JobsTypeOK'
  BY DEF JobsTypeOK, UnscheduleStep, Calling, Removes, SameEntry, Calls, SameStore, SameProcess, SameFiring
<1>2. CallRefers'
  BY DEF RefersToSomething, CallRefers, JobsTypeOK, UnscheduleStep, Calling, Removes, SameEntry, Calls,
     SameStore, SameProcess, SameFiring
<1>3. FiringRefers'
  BY DEF RefersToSomething, FiringRefers, JobsTypeOK, UnscheduleStep, Calling, Removes, SameEntry, Calls,
     SameStore, SameProcess, SameFiring
<1>4. TrackingRefers'
  BY DEF RefersToSomething, TrackingRefers, JobsTypeOK, UnscheduleStep, Calling, Removes, SameEntry, Calls,
     SameStore, SameProcess, SameFiring
<1>5. DownIsEmpty'
  BY DEF RefersToSomething, DownIsEmpty, JobsTypeOK, UnscheduleStep, Calling, Removes, SameEntry, Calls,
     SameStore, SameProcess, SameFiring
<1> QED
  BY <1>1, <1>2, <1>3, <1>4, <1>5 DEF RefersToSomething

\* The step of Create or Update that schedules the job keeps the types and the references.
LEMMA ScheduleKeeps ==
    ASSUME CronInv, ScheduleStep PROVE CronInv'
<1> USE DEF CronInv
<1>1. JobsTypeOK'
  BY DEF JobsTypeOK, ScheduleStep, Calling, Adds, NewEntry, Calls, SameStore, SameProcess, SameFiring
<1>2. CallRefers'
  BY DEF RefersToSomething, CallRefers, JobsTypeOK, ScheduleStep, Calling, Adds, NewEntry, Calls, SameStore,
     SameProcess, SameFiring
<1>3. FiringRefers'
  BY DEF RefersToSomething, FiringRefers, JobsTypeOK, ScheduleStep, Calling, Adds, NewEntry, Calls, SameStore,
     SameProcess, SameFiring
<1>4. TrackingRefers'
  BY DEF RefersToSomething, TrackingRefers, JobsTypeOK, ScheduleStep, Calling, Adds, NewEntry, Calls,
     SameStore, SameProcess, SameFiring
<1>5. DownIsEmpty'
  BY DEF RefersToSomething, DownIsEmpty, JobsTypeOK, ScheduleStep, Calling, Adds, NewEntry, Calls, SameStore,
     SameProcess, SameFiring
<1> QED
  BY <1>1, <1>2, <1>3, <1>4, <1>5 DEF RefersToSomething

\* The step of Delete that takes the job from the store keeps the types and the references.
LEMMA DeleteStoreKeeps ==
    ASSUME CronInv, DeleteStoreStep PROVE CronInv'
<1> USE DEF CronInv
<1>1. JobsTypeOK'
  BY DEF JobsTypeOK, DeleteStoreStep, Calling, Forgets, Calls, SameStore, SameCron, SameProcess, SameFiring
<1>2. CallRefers'
  BY DEF RefersToSomething, CallRefers, JobsTypeOK, DeleteStoreStep, Calling, Forgets, Calls, SameStore,
     SameCron, SameProcess, SameFiring
<1>3. FiringRefers'
  BY DEF RefersToSomething, FiringRefers, JobsTypeOK, DeleteStoreStep, Calling, Forgets, Calls, SameStore,
     SameCron, SameProcess, SameFiring
<1>4. TrackingRefers'
  BY DEF RefersToSomething, TrackingRefers, JobsTypeOK, DeleteStoreStep, Calling, Forgets, Calls, SameStore,
     SameCron, SameProcess, SameFiring
<1>5. DownIsEmpty'
  BY DEF RefersToSomething, DownIsEmpty, JobsTypeOK, DeleteStoreStep, Calling, Forgets, Calls, SameStore,
     SameCron, SameProcess, SameFiring
<1> QED
  BY <1>1, <1>2, <1>3, <1>4, <1>5 DEF RefersToSomething

\* A firing that reads, skips or ends keeps the types and the references.
LEMMA GoesOnKeeps ==
    ASSUME CronInv, NEW f \in Firings, GoesOn(f) PROVE CronInv'
<1> USE DEF CronInv
<1>1. JobsTypeOK'
  BY DEF JobsTypeOK, GoesOn, Firing, Moves, SameStore, SameCron, SameProcess, SameManager
<1>2. CallRefers'
  BY DEF RefersToSomething, CallRefers, JobsTypeOK, GoesOn, Firing, Moves, SameStore, SameCron, SameProcess,
     SameManager
<1>3. FiringRefers'
  BY DEF RefersToSomething, FiringRefers, JobsTypeOK, GoesOn, Firing, Moves, SameStore, SameCron, SameProcess,
     SameManager
<1>4. TrackingRefers'
  BY DEF RefersToSomething, TrackingRefers, JobsTypeOK, GoesOn, Firing, Moves, SameStore, SameCron,
     SameProcess, SameManager
<1>5. DownIsEmpty'
  BY DEF RefersToSomething, DownIsEmpty, JobsTypeOK, GoesOn, Firing, Moves, SameStore, SameCron, SameProcess,
     SameManager
<1> QED
  BY <1>1, <1>2, <1>3, <1>4, <1>5 DEF RefersToSomething

\* A firing that calls the handler keeps the types and the references.
LEMMA HandleKeeps ==
    ASSUME CronInv, NEW f \in Firings, HandleStep(f) PROVE CronInv'
<1> USE DEF CronInv
<1>1. JobsTypeOK'
  BY DEF JobsTypeOK, HandleStep, Firing, Moves, SameStore, SameCron, SameProcess, SameManager
<1>2. CallRefers'
  BY DEF RefersToSomething, CallRefers, JobsTypeOK, HandleStep, Firing, Moves, SameStore, SameCron,
     SameProcess, SameManager
<1>3. FiringRefers'
  BY DEF RefersToSomething, FiringRefers, JobsTypeOK, HandleStep, Firing, Moves, SameStore, SameCron,
     SameProcess, SameManager
<1>4. TrackingRefers'
  BY DEF RefersToSomething, TrackingRefers, JobsTypeOK, HandleStep, Firing, Moves, SameStore, SameCron,
     SameProcess, SameManager
<1>5. DownIsEmpty'
  BY DEF RefersToSomething, DownIsEmpty, JobsTypeOK, HandleStep, Firing, Moves, SameStore, SameCron,
     SameProcess, SameManager
<1> QED
  BY <1>1, <1>2, <1>3, <1>4, <1>5 DEF RefersToSomething

\* A firing that logs its run keeps the types and the references.
LEMMA SaveRunKeeps ==
    ASSUME CronInv, NEW f \in Firings, SaveRunStep(f) PROVE CronInv'
<1> USE DEF CronInv
<1>1. JobsTypeOK'
  BY DEF JobsTypeOK, SaveRunStep, Firing, Moves, Logs, SameCron, SameProcess, SameManager
<1>2. CallRefers'
  BY DEF RefersToSomething, CallRefers, JobsTypeOK, SaveRunStep, Firing, Moves, Logs, SameCron, SameProcess,
     SameManager
<1>3. FiringRefers'
  BY DEF RefersToSomething, FiringRefers, JobsTypeOK, SaveRunStep, Firing, Moves, Logs, SameCron, SameProcess,
     SameManager
<1>4. TrackingRefers'
  BY DEF RefersToSomething, TrackingRefers, JobsTypeOK, SaveRunStep, Firing, Moves, Logs, SameCron,
     SameProcess, SameManager
<1>5. DownIsEmpty'
  BY DEF RefersToSomething, DownIsEmpty, JobsTypeOK, SaveRunStep, Firing, Moves, Logs, SameCron, SameProcess,
     SameManager
<1> QED
  BY <1>1, <1>2, <1>3, <1>4, <1>5 DEF RefersToSomething

\* A firing that saves the job keeps the types and the references.
LEMMA SaveKeeps ==
    ASSUME CronInv, NEW f \in Firings, SaveStep(f) PROVE CronInv'
<1> USE DEF CronInv
<1>1. JobsTypeOK'
  BY DEF JobsTypeOK, SaveStep, Firing, Moves, Stores, SameCron, SameProcess, SameManager
<1>2. CallRefers'
  BY DEF RefersToSomething, CallRefers, JobsTypeOK, SaveStep, Firing, Moves, Stores, SameCron, SameProcess,
     SameManager
<1>3. FiringRefers'
  BY DEF RefersToSomething, FiringRefers, JobsTypeOK, SaveStep, Firing, Moves, Stores, SameCron, SameProcess,
     SameManager
<1>4. TrackingRefers'
  BY DEF RefersToSomething, TrackingRefers, JobsTypeOK, SaveStep, Firing, Moves, Stores, SameCron, SameProcess,
     SameManager
<1>5. DownIsEmpty'
  BY DEF RefersToSomething, DownIsEmpty, JobsTypeOK, SaveStep, Firing, Moves, Stores, SameCron, SameProcess,
     SameManager
<1> QED
  BY <1>1, <1>2, <1>3, <1>4, <1>5 DEF RefersToSomething

\* A firing that takes its entry away keeps the types and the references.
LEMMA FinishKeeps ==
    ASSUME CronInv, NEW f \in Firings, FinishStep(f) PROVE CronInv'
<1> USE DEF CronInv
<1>1. JobsTypeOK'
  BY DEF JobsTypeOK, FinishStep, Firing, Moves, Kills, SameEntry, SameStore, SameProcess, SameManager
<1>2. CallRefers'
  BY DEF RefersToSomething, CallRefers, JobsTypeOK, FinishStep, Firing, Moves, Kills, SameEntry, SameStore,
     SameProcess, SameManager
<1>3. FiringRefers'
  BY DEF RefersToSomething, FiringRefers, JobsTypeOK, FinishStep, Firing, Moves, Kills, SameEntry, SameStore,
     SameProcess, SameManager
<1>4. TrackingRefers'
  BY DEF RefersToSomething, TrackingRefers, JobsTypeOK, FinishStep, Firing, Moves, Kills, SameEntry, SameStore,
     SameProcess, SameManager
<1>5. DownIsEmpty'
  BY DEF RefersToSomething, DownIsEmpty, JobsTypeOK, FinishStep, Firing, Moves, Kills, SameEntry, SameStore,
     SameProcess, SameManager
<1> QED
  BY <1>1, <1>2, <1>3, <1>4, <1>5 DEF RefersToSomething

\* A firing that forgets its one-shot job keeps the types and the references.
LEMMA ForgetKeeps ==
    ASSUME CronInv, NEW f \in Firings, ForgetStep(f) PROVE CronInv'
<1> USE DEF CronInv
<1>1. JobsTypeOK'
  BY DEF JobsTypeOK, ForgetStep, Firing, Moves, SameStore, SameProcess, SameManager
<1>2. CallRefers'
  BY DEF RefersToSomething, CallRefers, JobsTypeOK, ForgetStep, Firing, Moves, SameStore, SameProcess, SameManager
<1>3. FiringRefers'
  BY DEF RefersToSomething, FiringRefers, JobsTypeOK, ForgetStep, Firing, Moves, SameStore, SameProcess,
     SameManager
<1>4. TrackingRefers'
  BY DEF RefersToSomething, TrackingRefers, JobsTypeOK, ForgetStep, Firing, Moves, SameStore, SameProcess,
     SameManager
<1>5. DownIsEmpty'
  BY DEF RefersToSomething, DownIsEmpty, JobsTypeOK, ForgetStep, Firing, Moves, SameStore, SameProcess, SameManager
<1> QED
  BY <1>1, <1>2, <1>3, <1>4, <1>5 DEF RefersToSomething

\* The start of a firing keeps the types and the references.
LEMMA FiredKeeps ==
    ASSUME CronInv, NEW f \in Firings, NEW e \in 1 .. Len(entries), FiredStep(f, e) PROVE CronInv'
<1> USE DEF CronInv
<1>1. JobsTypeOK'
  BY DEF JobsTypeOK, FiredStep, Moves, SameEntry, SameStore, SameProcess, SameManager
<1>2. CallRefers'
  BY DEF RefersToSomething, CallRefers, JobsTypeOK, FiredStep, Moves, SameEntry, SameStore, SameProcess,
     SameManager
<1>3. FiringRefers'
  BY ZenonT(60)
  DEF RefersToSomething, FiringRefers, JobsTypeOK, FiredStep, Moves, SameEntry, SameStore, SameProcess,
     SameManager
<1>4. TrackingRefers'
  <2>1. /\ dynamicEntries' = dynamicEntries /\ Len(entries') = Len(entries)
        /\ \A k \in 1 .. Len(entries) : entries'[k].job = entries[k].job
    BY DEF FiredStep, SameEntry
  <2>2. TrackingRefers
    BY DEF RefersToSomething
  <2> QED
    BY <2>1, <2>2 DEF TrackingRefers
<1>5. DownIsEmpty'
  BY DEF RefersToSomething, DownIsEmpty, JobsTypeOK, FiredStep, Moves, SameEntry, SameStore, SameProcess,
     SameManager
<1> QED
  BY <1>1, <1>2, <1>3, <1>4, <1>5 DEF RefersToSomething

\* A crash keeps the types and the references.
LEMMA CrashKeeps ==
    ASSUME CronInv, CrashStep PROVE CronInv'
<1> USE DEF CronInv
<1>1. JobsTypeOK'
  BY DEF JobsTypeOK, CrashStep, Calls, Forgets, SameStore
<1>2. CallRefers'
  BY DEF RefersToSomething, CallRefers, JobsTypeOK, CrashStep, Calls, Forgets, SameStore
<1>3. FiringRefers'
  BY DEF RefersToSomething, FiringRefers, JobsTypeOK, CrashStep, Calls, Forgets, SameStore
<1>4. TrackingRefers'
  BY DEF RefersToSomething, TrackingRefers, JobsTypeOK, CrashStep, Calls, Forgets, SameStore
<1>5. DownIsEmpty'
  BY DEF RefersToSomething, DownIsEmpty, JobsTypeOK, CrashStep, Calls, Forgets, SameStore
<1> QED
  BY <1>1, <1>2, <1>3, <1>4, <1>5 DEF RefersToSomething

\* A start of the process keeps the types and the references.
LEMMA RestartKeeps ==
    ASSUME CronInv, RestartStep PROVE CronInv'
<1> USE DEF CronInv
<1>1. JobsTypeOK'
  BY DEF JobsTypeOK, RestartStep, SameManager, SameFiring
<1>2. CallRefers'
  BY DEF RefersToSomething, CallRefers, JobsTypeOK, RestartStep, SameManager, SameFiring
<1>3. FiringRefers'
  BY DEF RefersToSomething, FiringRefers, DownIsEmpty, JobsTypeOK, RestartStep, SameManager, SameFiring
<1>4. TrackingRefers'
  BY DEF RefersToSomething, TrackingRefers, JobsTypeOK, RestartStep, SameManager, SameFiring
<1>5. DownIsEmpty'
  BY DEF RefersToSomething, DownIsEmpty, JobsTypeOK, RestartStep, SameManager, SameFiring
<1> QED
  BY <1>1, <1>2, <1>3, <1>4, <1>5 DEF RefersToSomething

\* Shutdown, time and a stutter keep the types and the references.
LEMMA QuietKeeps ==
    ASSUME CronInv, PhaseStep \/ TimeStep \/ (SameStore /\ SameCron /\ SameProcess /\ SameManager /\ SameFiring)
    PROVE  CronInv'
<1> USE DEF CronInv, PhaseStep, TimeStep, SameStore, SameCron, SameProcess, SameManager, SameFiring
<1>1. JobsTypeOK'
  BY DEF JobsTypeOK
<1>2. RefersToSomething'
  BY DEF RefersToSomething, CallRefers, FiringRefers, TrackingRefers, DownIsEmpty
<1> QED
  BY <1>1, <1>2

\* Every step keeps the types and the references.
LEMMA CronInvKept ==
    ASSUME CronInv, Steps PROVE CronInv'
BY CreateKeeps, UpdateGetKeeps, DeleteKeeps, UpdateSaveKeeps, UnscheduleKeeps, ScheduleKeeps, DeleteStoreKeeps,
   GoesOnKeeps,
   HandleKeeps, SaveRunKeeps, SaveKeeps, FinishKeeps, ForgetKeeps, FiredKeeps, CrashKeeps, RestartKeeps, QuietKeeps DEF Steps

\* In the first state too.
LEMMA CronInvInit ==
    ASSUME CronInit PROVE CronInv
<1>1. \A s \in Schedules : NewJob(s) \in AJob
  BY JobNotNone
<1>2. diskJobs \in [Jobs -> Copies] /\ jobs = diskJobs
  BY <1>1 DEF CronInit, Copies
<1>3. Idle \in CallLocals /\ Idle.pc = "idle" /\ Resting \in FireLocals /\ Resting.pc = "idle" /\ Resting.entry = 0
  BY DEF Idle, Resting, CallLocals, FireLocals, CallPcs, FirePcs, Copies
<1>4. maxRunsPerJob \in Nat /\ MaxFires \in Nat
  BY CronBounds
<1>5. asked \in [Jobs -> SUBSET Ops]
  BY DEF CronInit, Ops
<1>6. /\ runs \in [Jobs -> 0 .. maxRunsPerJob] /\ diskRuns \in [Jobs -> 0 .. maxRunsPerJob]
      /\ failures \in Nat /\ entries \in Seq(Entries) /\ dynamicEntries \in [Jobs -> Nat]
      /\ phase = "down" /\ passed \subseteq AtTimes /\ fires \in 0 .. MaxFires
  BY <1>4 DEF CronInit
<1>7. call = Idle /\ fire \in [Firings -> FireLocals] /\ \A f \in Firings : fire[f].pc = "idle" /\ fire[f].entry = 0
  BY <1>3 DEF CronInit
<1>8. JobsTypeOK
  BY <1>2, <1>3, <1>5, <1>6, <1>7 DEF JobsTypeOK
<1>9. RefersToSomething
  BY <1>3, <1>7 DEF RefersToSomething, CallRefers, FiringRefers, TrackingRefers, DownIsEmpty, CronInit
<1> QED
  BY <1>8, <1>9 DEF CronInv

-----------------------------------------------------------------------------
(* Counts *)

\* A job that counts no more than was fired still does when more was fired than is owed.
LEMMA CountedMono ==
    ASSUME NEW job \in Copies, NEW o \in Nat, NEW m \in Nat, NEW p \in Nat, NEW n \in Nat,
           Counted(job, o, m), p + m <= o + n
    PROVE  Counted(job, p, n)
<1>1. CASE job = NoJob
  BY <1>1 DEF Counted
<1>2. CASE job # NoJob
  <2>1. job.count \in Nat
    BY <1>2, JobNotNone DEF AJob
  <2> QED
    BY <1>2, <2>1 DEF Counted
<1> QED
  BY <1>1, <1>2

\* What a step adds to what is owed was fired in it.
OwesLess == IsFiniteSet(Owing') /\ Cardinality(Owing') + fires <= Cardinality(Owing) + fires'

\* What is owed is a number, and was fired.
LEMMA OwesTypes ==
    ASSUME CronInv, CronInv', CountedRuns, OwesLess
    PROVE  /\ Cardinality(Owing) \in Nat /\ Cardinality(Owing') \in Nat /\ fires \in Nat /\ fires' \in Nat
           /\ Cardinality(Owing') + fires <= Cardinality(Owing) + fires'
           /\ Cardinality(Owing) <= fires /\ IsFiniteSet(Owing') /\ Cardinality(Owing') <= fires'
<1> DEFINE o == Cardinality(Owing)
           p == Cardinality(Owing')
<1>1. o \in Nat /\ p \in Nat
  BY FS_CardinalityType DEF CountedRuns, OwesLess
<1>2. fires \in Nat /\ fires' \in Nat
  BY CronBounds DEF CronInv, JobsTypeOK
<1>3. p + fires <= o + fires' /\ o <= fires
  BY DEF CountedRuns, OwesLess
<1>4. IsFiniteSet(Owing')
  BY DEF OwesLess
<1>5. \A a, b, c, d \in Nat : b + c <= a + d /\ a <= c => b <= d
  OBVIOUS
<1> HIDE DEF o, p
<1>6. p <= fires'
  BY <1>1, <1>2, <1>3, <1>5
<1> QED
  BY <1>1, <1>2, <1>3, <1>4, <1>6 DEF o, p

\* A step of one firing.
LEMMA MovesOwing ==
    ASSUME CronInv, IsFiniteSet(Owing), NEW f \in Firings, NEW pc, NEW entry, NEW copy, Moves(f, pc, entry, copy)
    PROVE  /\ IsFiniteSet(Owing') /\ Cardinality(Owing) \in Nat
           /\ pc \in OwingPcs /\ f \in Owing => Cardinality(Owing') = Cardinality(Owing)
           /\ pc \in OwingPcs /\ f \notin Owing => Cardinality(Owing') = Cardinality(Owing) + 1
           /\ pc \notin OwingPcs /\ f \in Owing => Cardinality(Owing') = Cardinality(Owing) - 1
           /\ pc \notin OwingPcs /\ f \notin Owing => Cardinality(Owing') = Cardinality(Owing)
<1>1. \A g \in Firings : g # f => fire'[g] = fire[g]
  BY DEF Moves
<1>2. fire'[f].pc = pc
  BY DEF Moves
<1>3. CASE pc \in OwingPcs
  <2>1. Owing' = Owing \cup {f}
    BY <1>1, <1>2, <1>3 DEF Owing
  <2> QED
    BY <1>3, <2>1, FS_AddElement, FS_CardinalityType
<1>4. CASE pc \notin OwingPcs
  <2>1. Owing' = Owing \ {f}
    BY <1>1, <1>2, <1>4 DEF Owing
  <2> QED
    BY <1>4, <2>1, FS_RemoveElement, FS_CardinalityType
<1> QED
  BY <1>3, <1>4

\* A step that leaves the firings alone owes what was owed.
LEMMA SameOwing ==
    ASSUME CronInv, IsFiniteSet(Owing), fire' = fire, fires' = fires PROVE OwesLess
<1>1. Owing' = Owing
  BY DEF Owing
<1>2. Cardinality(Owing) \in Nat /\ fires \in Nat
  BY FS_CardinalityType, CronBounds DEF CronInv, JobsTypeOK
<1> QED
  BY <1>1, <1>2 DEF OwesLess

\* A crash owes nothing.
LEMMA CrashOwing ==
    ASSUME CronInv, IsFiniteSet(Owing), CrashStep PROVE OwesLess
<1>1. Owing' = {} /\ fires' = fires
  BY DEF CrashStep, Owing, OwingPcs
<1>2. IsFiniteSet({}) /\ Cardinality({}) = 0
  BY FS_EmptySet
<1>3. Cardinality(Owing) \in Nat /\ fires \in Nat
  BY FS_CardinalityType, CronBounds DEF CronInv, JobsTypeOK
<1> QED
  BY <1>1, <1>2, <1>3 DEF OwesLess

\* Every step owes at most what was owed and what it fires.
LEMMA OwingKept ==
    ASSUME CronInv, IsFiniteSet(Owing), Steps PROVE OwesLess
<1>0. fires \in Nat
  BY CronBounds DEF CronInv, JobsTypeOK
<1>1. ASSUME NEW j \in Jobs, NEW s \in Schedules, CreateStep(j, s) PROVE OwesLess
  BY <1>1, SameOwing DEF CreateStep, SameFiring
<1>2. ASSUME NEW j \in Jobs, UpdateGetStep(j) \/ DeleteStep(j) PROVE OwesLess
  BY <1>2, SameOwing DEF UpdateGetStep, DeleteStep, SameFiring
<1>3. ASSUME UpdateSaveStep \/ UnscheduleStep \/ ScheduleStep \/ DeleteStoreStep PROVE OwesLess
  BY <1>3, SameOwing DEF UpdateSaveStep, UnscheduleStep, ScheduleStep, DeleteStoreStep, SameFiring
<1>4. ASSUME NEW f \in Firings, GoesOn(f) PROVE OwesLess
  <2>1. PICK pc, entry, copy : pc \in {"get", "finish", "handle"} /\ Moves(f, pc, entry, copy)
    BY <1>4 DEF GoesOn
  <2>2. f \in Owing /\ fires' = fires
    BY <1>4 DEF GoesOn, Firing, Owing, OwingPcs
  <2> QED
    BY <1>0, <2>1, <2>2, MovesOwing DEF OwesLess
<1>5. ASSUME NEW f \in Firings, HandleStep(f) \/ SaveRunStep(f) \/ SaveStep(f) PROVE OwesLess
  <2>1. PICK pc, entry, copy : pc \in {"saveRun", "save", "finish"} /\ Moves(f, pc, entry, copy)
    BY <1>5 DEF HandleStep, SaveRunStep, SaveStep
  <2>2. f \in Owing /\ fires' = fires
    BY <1>5 DEF HandleStep, SaveRunStep, SaveStep, Firing, Owing, OwingPcs
  <2> QED
    BY <1>0, <2>1, <2>2, MovesOwing DEF OwesLess
<1>6. ASSUME NEW f \in Firings, FinishStep(f) \/ ForgetStep(f) PROVE OwesLess
  <2>1. PICK pc, entry, copy : pc \in {"idle", "forget"} /\ Moves(f, pc, entry, copy)
    BY <1>6 DEF FinishStep, ForgetStep
  <2>2. f \notin Owing /\ pc \notin OwingPcs /\ fires' = fires
    BY <1>6, <2>1 DEF FinishStep, ForgetStep, Firing, Owing, OwingPcs
  <2> QED
    BY <1>0, <2>1, <2>2, MovesOwing DEF OwesLess
<1>7. ASSUME NEW f \in Firings, NEW e \in 1 .. Len(entries), FiredStep(f, e) PROVE OwesLess
  <2>1. f \notin Owing /\ Moves(f, "start", e, NoJob) /\ fires' = fires + 1 /\ "start" \in OwingPcs
    BY <1>7 DEF FiredStep, Owing, OwingPcs
  <2>2. IsFiniteSet(Owing') /\ Cardinality(Owing) \in Nat /\ Cardinality(Owing') = Cardinality(Owing) + 1
    BY <2>1, MovesOwing
  <2> DEFINE o == Cardinality(Owing)
             p == Cardinality(Owing')
  <2> HIDE DEF o, p
  <2>3. p + fires <= o + fires'
    BY <1>0, <2>1, <2>2 DEF o, p
  <2> QED
    BY <2>2, <2>3 DEF OwesLess, o, p
<1>8. ASSUME PhaseStep \/ TimeStep \/ RestartStep \/ SameFiring PROVE OwesLess
  BY <1>8, SameOwing DEF PhaseStep, TimeStep, RestartStep, SameFiring
<1> QED
  BY <1>1, <1>2, <1>3, <1>4, <1>5, <1>6, <1>7, <1>8, CrashOwing DEF Steps

\* Every copy of a job after a step counts what one before it counted, or nothing; a save
\* counts the run that was owed.
LEMMA CreateCounts ==
    ASSUME CronInv, CronInv', CountedRuns, NEW j \in Jobs, NEW s \in Schedules, CreateStep(j, s), OwesLess
    PROVE  CountedRuns'
<1> DEFINE o == Cardinality(Owing)
           p == Cardinality(Owing')
<1>1. /\ o \in Nat /\ p \in Nat /\ fires \in Nat /\ fires' \in Nat /\ p + fires <= o + fires' /\ o <= fires
      /\ IsFiniteSet(Owing') /\ p <= fires'
  BY OwesTypes
<1>2. /\ \A i \in Jobs : /\ jobs[i] \in Copies /\ Counted(jobs[i], o, fires)
                         /\ diskJobs[i] \in Copies /\ Counted(diskJobs[i], o, fires)
      /\ call.copy \in Copies /\ Counted(call.copy, o, fires)
      /\ \A f \in Firings : fire[f].copy \in Copies /\ Counted(fire[f].copy, o, fires)
  BY DEF CountedRuns, CronInv, JobsTypeOK, CallLocals, FireLocals
<1> HIDE DEF o, p
<1>3. /\ \A i \in Jobs : /\ jobs[i] \in Copies /\ Counted(jobs[i], p, fires')
                         /\ diskJobs[i] \in Copies /\ Counted(diskJobs[i], p, fires')
      /\ call.copy \in Copies /\ Counted(call.copy, p, fires')
      /\ \A f \in Firings : fire[f].copy \in Copies /\ Counted(fire[f].copy, p, fires')
  BY <1>1, <1>2, CountedMono
<1>4. Counted(NoJob, p, fires')
  BY DEF Counted
<1>5. Counted(NewJob(s), p, fires')
  BY <1>1 DEF Counted, NewJob
<1>6. /\ \A i \in Jobs : Counted(jobs'[i], p, fires') /\ Counted(diskJobs'[i], p, fires')
      /\ Counted(call'.copy, p, fires')
      /\ \A g \in Firings : Counted(fire'[g].copy, p, fires')
  BY <1>3, <1>4, <1>5 DEF CreateStep, Stores, Calls, SameFiring
<1> QED
  BY <1>1, <1>6 DEF CountedRuns, p

\* The reading step of Update keeps the counts below what was fired.
LEMMA UpdateGetCounts ==
    ASSUME CronInv, CronInv', CountedRuns, NEW j \in Jobs, UpdateGetStep(j), OwesLess PROVE CountedRuns'
<1> DEFINE o == Cardinality(Owing)
           p == Cardinality(Owing')
<1>1. /\ o \in Nat /\ p \in Nat /\ fires \in Nat /\ fires' \in Nat /\ p + fires <= o + fires' /\ o <= fires
      /\ IsFiniteSet(Owing') /\ p <= fires'
  BY OwesTypes
<1>2. /\ \A i \in Jobs : /\ jobs[i] \in Copies /\ Counted(jobs[i], o, fires)
                         /\ diskJobs[i] \in Copies /\ Counted(diskJobs[i], o, fires)
      /\ call.copy \in Copies /\ Counted(call.copy, o, fires)
      /\ \A f \in Firings : fire[f].copy \in Copies /\ Counted(fire[f].copy, o, fires)
  BY DEF CountedRuns, CronInv, JobsTypeOK, CallLocals, FireLocals
<1> HIDE DEF o, p
<1>3. /\ \A i \in Jobs : /\ jobs[i] \in Copies /\ Counted(jobs[i], p, fires')
                         /\ diskJobs[i] \in Copies /\ Counted(diskJobs[i], p, fires')
      /\ call.copy \in Copies /\ Counted(call.copy, p, fires')
      /\ \A f \in Firings : fire[f].copy \in Copies /\ Counted(fire[f].copy, p, fires')
  BY <1>1, <1>2, CountedMono
<1>4. Counted(NoJob, p, fires')
  BY DEF Counted
<1>5. \A copy \in AJob : copy.count = jobs[j].count => Counted(copy, p, fires')
  BY <1>1, <1>3, JobNotNone DEF UpdateGetStep, Counted, AJob
<1>6. /\ \A i \in Jobs : Counted(jobs'[i], p, fires') /\ Counted(diskJobs'[i], p, fires')
      /\ Counted(call'.copy, p, fires')
      /\ \A g \in Firings : Counted(fire'[g].copy, p, fires')
  BY <1>3, <1>4, <1>5 DEF UpdateGetStep, Calls, SameStore, SameFiring
<1> QED
  BY <1>1, <1>6 DEF CountedRuns, p

\* The first step of Delete keeps the counts below what was fired.
LEMMA DeleteCounts ==
    ASSUME CronInv, CronInv', CountedRuns, NEW j \in Jobs, DeleteStep(j), OwesLess PROVE CountedRuns'
<1> DEFINE o == Cardinality(Owing)
           p == Cardinality(Owing')
<1>1. /\ o \in Nat /\ p \in Nat /\ fires \in Nat /\ fires' \in Nat /\ p + fires <= o + fires' /\ o <= fires
      /\ IsFiniteSet(Owing') /\ p <= fires'
  BY OwesTypes
<1>2. /\ \A i \in Jobs : /\ jobs[i] \in Copies /\ Counted(jobs[i], o, fires)
                         /\ diskJobs[i] \in Copies /\ Counted(diskJobs[i], o, fires)
      /\ call.copy \in Copies /\ Counted(call.copy, o, fires)
      /\ \A f \in Firings : fire[f].copy \in Copies /\ Counted(fire[f].copy, o, fires)
  BY DEF CountedRuns, CronInv, JobsTypeOK, CallLocals, FireLocals
<1> HIDE DEF o, p
<1>3. /\ \A i \in Jobs : /\ jobs[i] \in Copies /\ Counted(jobs[i], p, fires')
                         /\ diskJobs[i] \in Copies /\ Counted(diskJobs[i], p, fires')
      /\ call.copy \in Copies /\ Counted(call.copy, p, fires')
      /\ \A f \in Firings : fire[f].copy \in Copies /\ Counted(fire[f].copy, p, fires')
  BY <1>1, <1>2, CountedMono
<1>4. Counted(NoJob, p, fires')
  BY DEF Counted
<1>6. /\ \A i \in Jobs : Counted(jobs'[i], p, fires') /\ Counted(diskJobs'[i], p, fires')
      /\ Counted(call'.copy, p, fires')
      /\ \A g \in Firings : Counted(fire'[g].copy, p, fires')
  BY <1>3, <1>4 DEF DeleteStep, Calls, SameStore, SameFiring
<1> QED
  BY <1>1, <1>6 DEF CountedRuns, p

\* A step of Update or Delete that leaves the counts keeps the counts below what was fired.
LEMMA CallCounts ==
    ASSUME CronInv, CronInv', CountedRuns, UpdateSaveStep \/ UnscheduleStep \/ ScheduleStep \/ DeleteStoreStep,
           OwesLess
    PROVE  CountedRuns'
<1> DEFINE o == Cardinality(Owing)
           p == Cardinality(Owing')
<1>1. /\ o \in Nat /\ p \in Nat /\ fires \in Nat /\ fires' \in Nat /\ p + fires <= o + fires' /\ o <= fires
      /\ IsFiniteSet(Owing') /\ p <= fires'
  BY OwesTypes
<1>2. /\ \A j \in Jobs : /\ jobs[j] \in Copies /\ Counted(jobs[j], o, fires)
                         /\ diskJobs[j] \in Copies /\ Counted(diskJobs[j], o, fires)
      /\ call.copy \in Copies /\ Counted(call.copy, o, fires)
      /\ \A f \in Firings : fire[f].copy \in Copies /\ Counted(fire[f].copy, o, fires)
  BY DEF CountedRuns, CronInv, JobsTypeOK, CallLocals, FireLocals
<1> HIDE DEF o, p
<1>3. /\ \A j \in Jobs : /\ jobs[j] \in Copies /\ Counted(jobs[j], p, fires')
                         /\ diskJobs[j] \in Copies /\ Counted(diskJobs[j], p, fires')
      /\ call.copy \in Copies /\ Counted(call.copy, p, fires')
      /\ \A f \in Firings : fire[f].copy \in Copies /\ Counted(fire[f].copy, p, fires')
  BY <1>1, <1>2, CountedMono
<1>4. Counted(NoJob, p, fires')
  BY DEF Counted
<1>6. /\ \A i \in Jobs : Counted(jobs'[i], p, fires') /\ Counted(diskJobs'[i], p, fires')
      /\ Counted(call'.copy, p, fires')
      /\ \A g \in Firings : Counted(fire'[g].copy, p, fires')
  <2>1. CASE UpdateSaveStep
    BY <2>1, <1>3, <1>4 DEF UpdateSaveStep, Stores, Calls, SameFiring
  <2>2. CASE UnscheduleStep
    BY <2>2, <1>3, <1>4 DEF UnscheduleStep, Calls, SameStore, SameFiring
  <2>3. CASE ScheduleStep
    BY <2>3, <1>3, <1>4 DEF ScheduleStep, Calls, SameStore, SameFiring
  <2>4. CASE DeleteStoreStep
    BY <2>4, <1>3, <1>4 DEF DeleteStoreStep, Forgets, Calls, SameStore, SameFiring
  <2> QED
    BY <2>1, <2>2, <2>3, <2>4
<1> QED
  BY <1>1, <1>6 DEF CountedRuns, p

\* A firing that reads, skips or ends keeps the counts below what was fired.
LEMMA GoesOnCounts ==
    ASSUME CronInv, CronInv', CountedRuns, NEW f \in Firings,
           GoesOn(f) \/ HandleStep(f) \/ SaveRunStep(f) \/ FinishStep(f) \/ ForgetStep(f), OwesLess
    PROVE  CountedRuns'
<1> DEFINE o == Cardinality(Owing)
           p == Cardinality(Owing')
<1>1. /\ o \in Nat /\ p \in Nat /\ fires \in Nat /\ fires' \in Nat /\ p + fires <= o + fires' /\ o <= fires
      /\ IsFiniteSet(Owing') /\ p <= fires'
  BY OwesTypes
<1>2. /\ \A j \in Jobs : /\ jobs[j] \in Copies /\ Counted(jobs[j], o, fires)
                         /\ diskJobs[j] \in Copies /\ Counted(diskJobs[j], o, fires)
      /\ call.copy \in Copies /\ Counted(call.copy, o, fires)
      /\ \A g \in Firings : fire[g].copy \in Copies /\ Counted(fire[g].copy, o, fires)
  BY DEF CountedRuns, CronInv, JobsTypeOK, CallLocals, FireLocals
<1> HIDE DEF o, p
<1>3. /\ \A j \in Jobs : /\ jobs[j] \in Copies /\ Counted(jobs[j], p, fires')
                         /\ diskJobs[j] \in Copies /\ Counted(diskJobs[j], p, fires')
      /\ call.copy \in Copies /\ Counted(call.copy, p, fires')
      /\ \A g \in Firings : fire[g].copy \in Copies /\ Counted(fire[g].copy, p, fires')
  BY <1>1, <1>2, CountedMono
<1>4. Counted(NoJob, p, fires')
  BY DEF Counted
<1>6. /\ \A i \in Jobs : Counted(jobs'[i], p, fires') /\ Counted(diskJobs'[i], p, fires')
      /\ Counted(call'.copy, p, fires')
      /\ \A g \in Firings : Counted(fire'[g].copy, p, fires')
  BY <1>3, <1>4
  DEF GoesOn, HandleStep, SaveRunStep, FinishStep, ForgetStep, Firing, Moves, Logs, SameStore, SameManager
<1> QED
  BY <1>1, <1>6 DEF CountedRuns, p

\* The start of a firing keeps the counts below what was fired.
LEMMA FiredCounts ==
    ASSUME CronInv, CronInv', CountedRuns, NEW f \in Firings, NEW e \in 1 .. Len(entries), FiredStep(f, e),
           OwesLess
    PROVE  CountedRuns'
<1> DEFINE o == Cardinality(Owing)
           p == Cardinality(Owing')
<1>1. /\ o \in Nat /\ p \in Nat /\ fires \in Nat /\ fires' \in Nat /\ p + fires <= o + fires' /\ o <= fires
      /\ IsFiniteSet(Owing') /\ p <= fires'
  BY OwesTypes
<1>2. /\ \A j \in Jobs : /\ jobs[j] \in Copies /\ Counted(jobs[j], o, fires)
                         /\ diskJobs[j] \in Copies /\ Counted(diskJobs[j], o, fires)
      /\ call.copy \in Copies /\ Counted(call.copy, o, fires)
      /\ \A g \in Firings : fire[g].copy \in Copies /\ Counted(fire[g].copy, o, fires)
  BY DEF CountedRuns, CronInv, JobsTypeOK, CallLocals, FireLocals
<1> HIDE DEF o, p
<1>3. /\ \A j \in Jobs : /\ jobs[j] \in Copies /\ Counted(jobs[j], p, fires')
                         /\ diskJobs[j] \in Copies /\ Counted(diskJobs[j], p, fires')
      /\ call.copy \in Copies /\ Counted(call.copy, p, fires')
      /\ \A g \in Firings : fire[g].copy \in Copies /\ Counted(fire[g].copy, p, fires')
  BY <1>1, <1>2, CountedMono
<1>4. Counted(NoJob, p, fires')
  BY DEF Counted
<1>6. /\ \A i \in Jobs : Counted(jobs'[i], p, fires') /\ Counted(diskJobs'[i], p, fires')
      /\ Counted(call'.copy, p, fires')
      /\ \A g \in Firings : Counted(fire'[g].copy, p, fires')
  BY <1>3, <1>4 DEF FiredStep, Moves, SameStore, SameManager
<1> QED
  BY <1>1, <1>6 DEF CountedRuns, p

\* A crash keeps the counts below what was fired.
LEMMA CrashCounts ==
    ASSUME CronInv, CronInv', CountedRuns, CrashStep, OwesLess PROVE CountedRuns'
<1> DEFINE o == Cardinality(Owing)
           p == Cardinality(Owing')
<1>1. /\ o \in Nat /\ p \in Nat /\ fires \in Nat /\ fires' \in Nat /\ p + fires <= o + fires' /\ o <= fires
      /\ IsFiniteSet(Owing') /\ p <= fires'
  BY OwesTypes
<1>2. /\ \A j \in Jobs : /\ jobs[j] \in Copies /\ Counted(jobs[j], o, fires)
                         /\ diskJobs[j] \in Copies /\ Counted(diskJobs[j], o, fires)
      /\ call.copy \in Copies /\ Counted(call.copy, o, fires)
      /\ \A f \in Firings : fire[f].copy \in Copies /\ Counted(fire[f].copy, o, fires)
  BY DEF CountedRuns, CronInv, JobsTypeOK, CallLocals, FireLocals
<1> HIDE DEF o, p
<1>3. /\ \A j \in Jobs : /\ jobs[j] \in Copies /\ Counted(jobs[j], p, fires')
                         /\ diskJobs[j] \in Copies /\ Counted(diskJobs[j], p, fires')
      /\ call.copy \in Copies /\ Counted(call.copy, p, fires')
      /\ \A f \in Firings : fire[f].copy \in Copies /\ Counted(fire[f].copy, p, fires')
  BY <1>1, <1>2, CountedMono
<1>4. Counted(NoJob, p, fires')
  BY DEF Counted
<1>6. /\ \A i \in Jobs : Counted(jobs'[i], p, fires') /\ Counted(diskJobs'[i], p, fires')
      /\ Counted(call'.copy, p, fires')
      /\ \A g \in Firings : Counted(fire'[g].copy, p, fires')
  BY <1>3, <1>4 DEF CrashStep, Calling, Forgets, Calls, SameStore
<1> QED
  BY <1>1, <1>6 DEF CountedRuns, p

\* A start of the process keeps the counts below what was fired.
LEMMA RestartCounts ==
    ASSUME CronInv, CronInv', CountedRuns, RestartStep, OwesLess PROVE CountedRuns'
<1> DEFINE o == Cardinality(Owing)
           p == Cardinality(Owing')
<1>1. /\ o \in Nat /\ p \in Nat /\ fires \in Nat /\ fires' \in Nat /\ p + fires <= o + fires' /\ o <= fires
      /\ IsFiniteSet(Owing') /\ p <= fires'
  BY OwesTypes
<1>2. /\ \A j \in Jobs : /\ jobs[j] \in Copies /\ Counted(jobs[j], o, fires)
                         /\ diskJobs[j] \in Copies /\ Counted(diskJobs[j], o, fires)
      /\ call.copy \in Copies /\ Counted(call.copy, o, fires)
      /\ \A f \in Firings : fire[f].copy \in Copies /\ Counted(fire[f].copy, o, fires)
  BY DEF CountedRuns, CronInv, JobsTypeOK, CallLocals, FireLocals
<1> HIDE DEF o, p
<1>3. /\ \A j \in Jobs : /\ jobs[j] \in Copies /\ Counted(jobs[j], p, fires')
                         /\ diskJobs[j] \in Copies /\ Counted(diskJobs[j], p, fires')
      /\ call.copy \in Copies /\ Counted(call.copy, p, fires')
      /\ \A f \in Firings : fire[f].copy \in Copies /\ Counted(fire[f].copy, p, fires')
  BY <1>1, <1>2, CountedMono
<1>4. Counted(NoJob, p, fires')
  BY DEF Counted
<1>5. \A j \in Jobs : Counted(Loaded(diskJobs[j]), p, fires')
  BY <1>3, LoadedJob DEF Counted
<1>6. /\ \A i \in Jobs : Counted(jobs'[i], p, fires') /\ Counted(diskJobs'[i], p, fires')
      /\ Counted(call'.copy, p, fires')
      /\ \A g \in Firings : Counted(fire'[g].copy, p, fires')
  BY <1>3, <1>4, <1>5 DEF RestartStep, SameManager, SameFiring
<1> QED
  BY <1>1, <1>6 DEF CountedRuns, p

\* Shutdown, time and a stutter keep the counts below what was fired.
LEMMA QuietCounts ==
    ASSUME CronInv, CronInv', CountedRuns,
           PhaseStep \/ TimeStep \/ (SameStore /\ SameCron /\ SameProcess /\ SameManager /\ SameFiring),
           OwesLess
    PROVE  CountedRuns'
<1> DEFINE o == Cardinality(Owing)
           p == Cardinality(Owing')
<1>1. /\ o \in Nat /\ p \in Nat /\ fires \in Nat /\ fires' \in Nat /\ p + fires <= o + fires' /\ o <= fires
      /\ IsFiniteSet(Owing') /\ p <= fires'
  BY OwesTypes
<1>2. /\ \A j \in Jobs : /\ jobs[j] \in Copies /\ Counted(jobs[j], o, fires)
                         /\ diskJobs[j] \in Copies /\ Counted(diskJobs[j], o, fires)
      /\ call.copy \in Copies /\ Counted(call.copy, o, fires)
      /\ \A f \in Firings : fire[f].copy \in Copies /\ Counted(fire[f].copy, o, fires)
  BY DEF CountedRuns, CronInv, JobsTypeOK, CallLocals, FireLocals
<1> HIDE DEF o, p
<1>3. /\ \A j \in Jobs : /\ jobs[j] \in Copies /\ Counted(jobs[j], p, fires')
                         /\ diskJobs[j] \in Copies /\ Counted(diskJobs[j], p, fires')
      /\ call.copy \in Copies /\ Counted(call.copy, p, fires')
      /\ \A f \in Firings : fire[f].copy \in Copies /\ Counted(fire[f].copy, p, fires')
  BY <1>1, <1>2, CountedMono
<1>4. Counted(NoJob, p, fires')
  BY DEF Counted
<1>6. /\ \A i \in Jobs : Counted(jobs'[i], p, fires') /\ Counted(diskJobs'[i], p, fires')
      /\ Counted(call'.copy, p, fires')
      /\ \A g \in Firings : Counted(fire'[g].copy, p, fires')
  BY <1>3 DEF PhaseStep, TimeStep, SameStore, SameManager, SameFiring
<1> QED
  BY <1>1, <1>6 DEF CountedRuns, p

\* A firing that saves the job keeps the counts below what was fired.
LEMMA SaveCounts ==
    ASSUME CronInv, CronInv', CountedRuns, NEW f \in Firings, SaveStep(f), OwesLess PROVE CountedRuns'
<1> DEFINE o == Cardinality(Owing)
           p == Cardinality(Owing')
<1>1. /\ o \in Nat /\ p \in Nat /\ fires \in Nat /\ fires' \in Nat /\ p + fires <= o + fires' /\ o <= fires
      /\ IsFiniteSet(Owing') /\ p <= fires'
  BY OwesTypes
<1>2. /\ \A j \in Jobs : /\ jobs[j] \in Copies /\ Counted(jobs[j], o, fires)
                         /\ diskJobs[j] \in Copies /\ Counted(diskJobs[j], o, fires)
      /\ call.copy \in Copies /\ Counted(call.copy, o, fires)
      /\ \A g \in Firings : fire[g].copy \in Copies /\ Counted(fire[g].copy, o, fires)
  BY DEF CountedRuns, CronInv, JobsTypeOK, CallLocals, FireLocals
<1> HIDE DEF o, p
<1>3. /\ \A j \in Jobs : /\ jobs[j] \in Copies /\ Counted(jobs[j], p, fires')
                         /\ diskJobs[j] \in Copies /\ Counted(diskJobs[j], p, fires')
      /\ call.copy \in Copies /\ Counted(call.copy, p, fires')
      /\ \A g \in Firings : fire[g].copy \in Copies /\ Counted(fire[g].copy, p, fires')
  BY <1>1, <1>2, CountedMono
<1>4. Counted(NoJob, p, fires')
  BY DEF Counted
<1>5. Counted(Bumped(fire[f].copy), p, fires')
  <2>1. fire[f].copy \in AJob /\ f \in Owing /\ Moves(f, "finish", fire[f].entry, NoJob) /\ fires' = fires /\ IsFiniteSet(Owing)
    BY DEF SaveStep, Firing, Owing, OwingPcs, CountedRuns
  <2>2. p = o - 1
    BY <2>1, MovesOwing DEF OwingPcs, o, p
  <2>3. fire[f].copy.count \in Nat /\ fire[f].copy.count + o <= fires
    BY <1>2, <2>1, JobNotNone DEF Counted, AJob
  <2>4. Bumped(fire[f].copy).count = fire[f].copy.count + 1
    BY <2>1, BumpedJob
  <2>5. Bumped(fire[f].copy).count + p <= fires'
    BY <1>1, <2>1, <2>2, <2>3, <2>4
  <2> QED
    BY <2>5 DEF Counted
<1>6. /\ \A i \in Jobs : Counted(jobs'[i], p, fires') /\ Counted(diskJobs'[i], p, fires')
      /\ Counted(call'.copy, p, fires')
      /\ \A g \in Firings : Counted(fire'[g].copy, p, fires')
  BY <1>3, <1>4, <1>5 DEF SaveStep, Firing, Moves, Stores, SameManager
<1> QED
  BY <1>1, <1>6 DEF CountedRuns, p

\* Every step keeps the counts below what was fired.
LEMMA CountedKept ==
    ASSUME CronInv, CronInv', CountedRuns, Steps PROVE CountedRuns'
<1>1. OwesLess
  BY OwingKept DEF CountedRuns
<1> QED
  BY <1>1, CreateCounts, UpdateGetCounts, DeleteCounts, CallCounts, GoesOnCounts, FiredCounts, CrashCounts,
     RestartCounts,
     QuietCounts, SaveCounts DEF Steps

\* Nothing is counted at first.
LEMMA CountedInit ==
    ASSUME CronInit PROVE CountedRuns
<1>1. Owing = {} /\ fires = 0
  BY DEF CronInit, Owing, OwingPcs, Resting
<1>2. IsFiniteSet(Owing) /\ Cardinality(Owing) = 0
  BY <1>1, FS_EmptySet
<1>3. \A j \in Jobs : diskJobs[j] # NoJob => diskJobs[j].count = 0
  BY DEF CronInit, NewJob
<1>4. jobs = diskJobs /\ call.copy = NoJob /\ \A f \in Firings : fire[f].copy = NoJob
  BY DEF CronInit, Idle, Resting
<1> QED
  BY <1>1, <1>2, <1>3, <1>4 DEF CountedRuns, Counted

-----------------------------------------------------------------------------
(* What was created is stored *)

\* Delete's call is on behalf of somebody who asked for it.
LEMMA DeletesKept ==
    ASSUME CronInv, DeletesWhatIsAsked, Steps PROVE DeletesWhatIsAsked'
<1> USE DEF DeletesWhatIsAsked
<1>1. ASSUME NEW j \in Jobs, NEW s \in Schedules, CreateStep(j, s) PROVE DeletesWhatIsAsked'
  BY <1>1 DEF CreateStep, Asks, Calls, CronInv, JobsTypeOK
<1>2. ASSUME NEW j \in Jobs, UpdateGetStep(j) PROVE DeletesWhatIsAsked'
  BY <1>2 DEF UpdateGetStep, Asks, Calls, CronInv, JobsTypeOK
<1>3. ASSUME NEW j \in Jobs, DeleteStep(j) PROVE DeletesWhatIsAsked'
  BY <1>3 DEF DeleteStep, Asks, Calls, CronInv, JobsTypeOK
<1>4. ASSUME UpdateSaveStep PROVE DeletesWhatIsAsked'
  BY <1>4 DEF UpdateSaveStep, Calls, CronInv, JobsTypeOK
<1>5. ASSUME UnscheduleStep PROVE DeletesWhatIsAsked'
  BY <1>5 DEF UnscheduleStep, Calls, Calling, CronInv, JobsTypeOK
<1>6. ASSUME ScheduleStep PROVE DeletesWhatIsAsked'
  BY <1>6 DEF ScheduleStep, Calls, CronInv, JobsTypeOK
<1>7. ASSUME DeleteStoreStep PROVE DeletesWhatIsAsked'
  BY <1>7 DEF DeleteStoreStep, Calls, CronInv, JobsTypeOK
<1>8. ASSUME NEW f \in Firings,
             GoesOn(f) \/ HandleStep(f) \/ SaveRunStep(f) \/ SaveStep(f) \/ FinishStep(f) \/ ForgetStep(f)
      PROVE  DeletesWhatIsAsked'
  BY <1>8 DEF GoesOn, HandleStep, SaveRunStep, SaveStep, FinishStep, ForgetStep, SameManager, CronInv, JobsTypeOK
<1>9. ASSUME NEW f \in Firings, NEW e \in 1 .. Len(entries), FiredStep(f, e) PROVE DeletesWhatIsAsked'
  BY <1>9 DEF FiredStep, SameManager, CronInv, JobsTypeOK
<1>10. ASSUME CrashStep PROVE DeletesWhatIsAsked'
  BY <1>10 DEF CrashStep, Calls, CronInv, JobsTypeOK
<1>11. ASSUME PhaseStep \/ TimeStep \/ RestartStep \/ SameManager PROVE DeletesWhatIsAsked'
  BY <1>11 DEF PhaseStep, TimeStep, RestartStep, SameManager, CronInv, JobsTypeOK
<1> QED
  BY <1>1, <1>2, <1>3, <1>4, <1>5, <1>6, <1>7, <1>8, <1>9, <1>10, <1>11 DEF Steps

\* What was created is stored after every kind of step.
LEMMA CreateKeepsStored ==
    ASSUME CronInv, DeletesWhatIsAsked, CreatedIsStored, NEW j \in Jobs, NEW s \in Schedules, CreateStep(j, s)
    PROVE  CreatedIsStored'
<1> SUFFICES ASSUME NEW i \in Jobs, "created" \in asked'[i] \/ Creating(i)', "delete" \notin asked'[i]
             PROVE  jobs'[i] # NoJob /\ diskJobs'[i] # NoJob
  BY DEF CreatedIsStored
<1>1. CASE i = j
  <2>1. "created" \notin asked'[j]
    BY DEF CreateStep, Asks
  <2>2. call'.pc = "schedule" /\ call.pc = "idle"
    BY <1>1, <2>1 DEF Creating, CreateStep, Asks
  <2>3. jobs'[j] = NewJob(s) /\ diskJobs' = jobs'
    BY <2>2 DEF CreateStep, Stores
  <2> QED
    BY <1>1, <2>3, JobNotNone
<1>2. CASE i # j
  <2>1. asked'[i] = asked[i] /\ ~Creating(i)'
    BY <1>2 DEF CreateStep, Asks, Calls, Creating
  <2>2. jobs[i] # NoJob /\ diskJobs[i] # NoJob
    BY <2>1 DEF CreatedIsStored
  <2> QED
    BY <1>2, <2>2 DEF CreateStep, Stores
<1> QED
  BY <1>1, <1>2

\* The reading step of Update keeps what was created stored.
LEMMA UpdateGetKeepsStored ==
    ASSUME CronInv, DeletesWhatIsAsked, CreatedIsStored, NEW j \in Jobs, UpdateGetStep(j) PROVE CreatedIsStored'
<1> SUFFICES ASSUME NEW i \in Jobs, "created" \in asked'[i] \/ Creating(i)', "delete" \notin asked'[i]
             PROVE  jobs'[i] # NoJob /\ diskJobs'[i] # NoJob
  BY DEF CreatedIsStored
<1>1. "created" \in asked[i] /\ "delete" \notin asked[i]
  BY DEF UpdateGetStep, Asks, Calls, Creating
<1> QED
  BY <1>1 DEF UpdateGetStep, SameStore, CreatedIsStored

\* The first step of Delete keeps what was created stored.
LEMMA DeleteKeepsStored ==
    ASSUME CronInv, DeletesWhatIsAsked, CreatedIsStored, NEW j \in Jobs, DeleteStep(j) PROVE CreatedIsStored'
<1> SUFFICES ASSUME NEW i \in Jobs, "created" \in asked'[i] \/ Creating(i)', "delete" \notin asked'[i]
             PROVE  jobs'[i] # NoJob /\ diskJobs'[i] # NoJob
  BY DEF CreatedIsStored
<1>1. "created" \in asked[i] /\ "delete" \notin asked[i]
  BY DEF DeleteStep, Asks, Calls, Creating
<1> QED
  BY <1>1 DEF DeleteStep, SameStore, CreatedIsStored

\* The saving step of Update keeps what was created stored.
LEMMA UpdateSaveKeepsStored ==
    ASSUME CronInv, DeletesWhatIsAsked, CreatedIsStored, UpdateSaveStep PROVE CreatedIsStored'
BY JobNotNone, BumpedJob, LoadedJob, SMTT(30)
DEF CronInv, JobsTypeOK, DeletesWhatIsAsked, CreatedIsStored, Creating, UpdateSaveStep, Calling, Stores, Calls,
    SameCron, SameProcess, SameFiring

\* The step of Update or Delete that takes the entry away keeps what was created stored.
LEMMA UnscheduleKeepsStored ==
    ASSUME CronInv, DeletesWhatIsAsked, CreatedIsStored, UnscheduleStep PROVE CreatedIsStored'
BY DEF CronInv, JobsTypeOK, DeletesWhatIsAsked, CreatedIsStored, Creating, UnscheduleStep, Calling, Removes,
   SameEntry, Calls, SameStore, SameProcess, SameFiring

\* The step of Create or Update that schedules the job keeps what was created stored.
LEMMA ScheduleKeepsStored ==
    ASSUME CronInv, DeletesWhatIsAsked, CreatedIsStored, ScheduleStep PROVE CreatedIsStored'
BY DEF CronInv, JobsTypeOK, DeletesWhatIsAsked, CreatedIsStored, Creating, ScheduleStep, Calling, Adds,
   NewEntry, Calls, SameStore, SameProcess, SameFiring

\* The step of Delete that takes the job from the store keeps what was created stored.
LEMMA DeleteStoreKeepsStored ==
    ASSUME CronInv, DeletesWhatIsAsked, CreatedIsStored, DeleteStoreStep PROVE CreatedIsStored'
BY SMTT(30)
DEF CronInv, JobsTypeOK, DeletesWhatIsAsked, CreatedIsStored, Creating, DeleteStoreStep, Calling, Forgets,
   Calls, SameStore, SameCron, SameProcess, SameFiring

\* A firing that reads, skips or ends keeps what was created stored.
LEMMA GoesOnKeepsStored ==
    ASSUME CronInv, DeletesWhatIsAsked, CreatedIsStored, NEW f \in Firings, GoesOn(f) PROVE CreatedIsStored'
BY DEF CronInv, JobsTypeOK, DeletesWhatIsAsked, CreatedIsStored, Creating, GoesOn, Firing, Moves, SameStore,
   SameCron, SameProcess, SameManager

\* A firing that calls the handler keeps what was created stored.
LEMMA HandleKeepsStored ==
    ASSUME CronInv, DeletesWhatIsAsked, CreatedIsStored, NEW f \in Firings, HandleStep(f) PROVE CreatedIsStored'
BY DEF CronInv, JobsTypeOK, DeletesWhatIsAsked, CreatedIsStored, Creating, HandleStep, Firing, Moves,
   SameStore, SameCron, SameProcess, SameManager

\* A firing that logs its run keeps what was created stored.
LEMMA SaveRunKeepsStored ==
    ASSUME CronInv, DeletesWhatIsAsked, CreatedIsStored, NEW f \in Firings, SaveRunStep(f) PROVE CreatedIsStored'
BY DEF CronInv, JobsTypeOK, DeletesWhatIsAsked, CreatedIsStored, Creating, SaveRunStep, Firing, Moves, Logs,
   SameCron, SameProcess, SameManager

\* A firing that saves the job keeps what was created stored.
LEMMA SaveKeepsStored ==
    ASSUME CronInv, DeletesWhatIsAsked, CreatedIsStored, NEW f \in Firings, SaveStep(f) PROVE CreatedIsStored'
BY JobNotNone, BumpedJob, LoadedJob, SMTT(30)
DEF CronInv, JobsTypeOK, DeletesWhatIsAsked, CreatedIsStored, Creating, SaveStep, Firing, Moves, Stores,
    SameCron, SameProcess, SameManager

\* A firing that takes its entry away keeps what was created stored.
LEMMA FinishKeepsStored ==
    ASSUME CronInv, DeletesWhatIsAsked, CreatedIsStored, NEW f \in Firings, FinishStep(f) PROVE CreatedIsStored'
BY DEF CronInv, JobsTypeOK, DeletesWhatIsAsked, CreatedIsStored, Creating, FinishStep, Firing, Moves, Kills,
   SameEntry, SameStore, SameProcess, SameManager

\* A firing that forgets its one-shot job keeps what was created stored.
LEMMA ForgetKeepsStored ==
    ASSUME CronInv, DeletesWhatIsAsked, CreatedIsStored, NEW f \in Firings, ForgetStep(f) PROVE CreatedIsStored'
BY DEF CronInv, JobsTypeOK, DeletesWhatIsAsked, CreatedIsStored, Creating, ForgetStep, Firing, Moves,
   SameStore, SameProcess, SameManager

\* The start of a firing keeps what was created stored.
LEMMA FiredKeepsStored ==
    ASSUME CronInv, DeletesWhatIsAsked, CreatedIsStored, NEW f \in Firings, NEW e \in 1 .. Len(entries),
           FiredStep(f, e)
    PROVE  CreatedIsStored'
BY DEF CronInv, JobsTypeOK, DeletesWhatIsAsked, CreatedIsStored, Creating, FiredStep, Moves, SameEntry,
   SameStore, SameProcess, SameManager

\* A crash keeps what was created stored.
LEMMA CrashKeepsStored ==
    ASSUME CronInv, DeletesWhatIsAsked, CreatedIsStored, CrashStep PROVE CreatedIsStored'
<1> SUFFICES ASSUME NEW i \in Jobs, "created" \in asked'[i] \/ Creating(i)', "delete" \notin asked'[i]
             PROVE  jobs'[i] # NoJob /\ diskJobs'[i] # NoJob
  BY DEF CreatedIsStored
<1>1. "created" \in asked[i] /\ "delete" \notin asked[i]
  BY DEF CrashStep, Calls, Creating
<1>2. jobs[i] # NoJob /\ diskJobs[i] # NoJob
  BY <1>1 DEF CreatedIsStored
<1>3. CASE SameStore
  BY <1>2, <1>3 DEF SameStore
<1>4. CASE Calling({"delete"}) /\ Forgets(call.job, 1)
  <2>1. call.job # i
    BY <1>1, <1>4 DEF Calling, DeletesWhatIsAsked
  <2> QED
    BY <1>2, <1>4, <2>1 DEF Forgets
<1> QED
  BY <1>3, <1>4 DEF CrashStep

\* A start of the process keeps what was created stored.
LEMMA RestartKeepsStored ==
    ASSUME CronInv, DeletesWhatIsAsked, CreatedIsStored, RestartStep PROVE CreatedIsStored'
BY JobNotNone, BumpedJob, LoadedJob
DEF CronInv, JobsTypeOK, DeletesWhatIsAsked, CreatedIsStored, Creating, RestartStep, SameManager, SameFiring

\* Shutdown, time and a stutter keep what was created stored.
LEMMA QuietKeepsStored ==
    ASSUME CronInv, DeletesWhatIsAsked, CreatedIsStored,
           PhaseStep \/ TimeStep \/ (SameStore /\ SameCron /\ SameProcess /\ SameManager /\ SameFiring)
    PROVE  CreatedIsStored'
BY DEF CronInv, JobsTypeOK, DeletesWhatIsAsked, CreatedIsStored, Creating, PhaseStep, TimeStep, SameStore,
   SameCron, SameProcess, SameManager, SameFiring

\* Every step keeps what was created stored.
LEMMA StoredKept ==
    ASSUME CronInv, DeletesWhatIsAsked, CreatedIsStored, Steps PROVE CreatedIsStored'
BY CreateKeepsStored, UpdateGetKeepsStored, DeleteKeepsStored, UpdateSaveKeepsStored, UnscheduleKeepsStored,
   ScheduleKeepsStored, DeleteStoreKeepsStored, GoesOnKeepsStored, HandleKeepsStored, SaveRunKeepsStored,
   SaveKeepsStored, FinishKeepsStored, ForgetKeepsStored, FiredKeepsStored, CrashKeepsStored,
   RestartKeepsStored, QuietKeepsStored DEF Steps

-----------------------------------------------------------------------------
(* What was counted is logged *)

\* The count and the log of a stored job are numbers.
LEMMA CountsAreNumbers ==
    ASSUME CronInv
    PROVE  /\ \A j \in Jobs : runs[j] \in Nat /\ runs[j] <= maxRunsPerJob /\ diskRuns[j] \in Nat /\ diskRuns[j] <= maxRunsPerJob
           /\ maxRunsPerJob \in Nat /\ failures \in Nat
           /\ \A j \in Jobs : diskJobs[j] # NoJob => diskJobs[j].count \in Nat
           /\ \A j \in Jobs : jobs[j] # NoJob => jobs[j].count \in Nat
BY JobNotNone, CronBounds DEF CronInv, JobsTypeOK, AJob

\* A firing works on the job whose entry fired, whatever happens to the entries.
LEMMA SameJobOf ==
    ASSUME CronInv, NEW g \in Firings, fire[g].pc # "idle", fire'[g].entry = fire[g].entry,
           \A k \in 1 .. Len(entries) : entries'[k].job = entries[k].job
    PROVE  JobOf(g)' = JobOf(g)
BY DEF CronInv, RefersToSomething, FiringRefers, JobOf

\* The maps are the files, and the files cover what is counted, after every kind of step.
LEMMA CreateCovers ==
    ASSUME CronInv, CronInv', DeletesWhatIsAsked, RunsInv, NEW j \in Jobs, NEW s \in Schedules,
           CreateStep(j, s)
    PROVE  RunsInv'
<1> USE CountsAreNumbers DEF RunsInv
<1>1. MapsAreFiles'
  BY DEF MapsAreFiles, CreateStep, Asks, Stores, Calls, SameCron, SameProcess, SameFiring
<1>2. FileCovered'
  <2> SUFFICES ASSUME NEW i \in Jobs, Kept(i)', diskJobs'[i] # NoJob
               PROVE  Covered(diskJobs'[i].count, diskRuns'[i])
    BY DEF FileCovered
  <2>1. failures = 0 /\ "delete" \notin asked[i] /\ jobs = diskJobs /\ runs = diskRuns
    BY DEF CreateStep, Asks, Stores, Kept, MapsAreFiles
  <2>2. diskJobs' = jobs' /\ runs' = runs /\ diskRuns' = diskRuns
    BY <2>1 DEF CreateStep, Asks, Stores, Kept
  <2>3. CASE i = j
    <3>1. Covered(jobs'[i].count, runs[i])
      BY <2>3 DEF CreateStep, Stores, NewJob, Covered
    <3> QED
      BY <2>1, <2>2, <3>1
  <2>4. CASE i # j
    <3>1. jobs'[i] = jobs[i]
      BY <2>4 DEF CreateStep, Asks, Stores
    <3> QED
      BY <2>1, <2>2, <3>1 DEF FileCovered, Kept
  <2> QED
    BY <2>3, <2>4
<1>3. CallCovered'
  BY DEF CallCovered, FileCovered, MapsAreFiles, Kept, CreateStep, Asks, Stores, Calls, SameCron, SameProcess,
     SameFiring
<1>4. FiringCovered'
  <2> SUFFICES ASSUME NEW j0 \in Jobs, NEW g \in Firings, Kept(j0)', fire'[g].pc # "idle", JobOf(g)' = j0
               PROVE  /\ fire'[g].pc \in {"handle", "saveRun"} => Covered(fire'[g].copy.count, runs'[j0])
                      /\ fire'[g].pc = "save" => Covered(fire'[g].copy.count + 1, runs'[j0])
    BY DEF FiringCovered
  <2> QED
    BY SameJobOf
    DEF FiringCovered, FileCovered, MapsAreFiles, Kept, CreateStep, Asks, Stores, Calls, SameCron, SameProcess,
        SameFiring
<1> QED
  BY <1>1, <1>2, <1>3, <1>4

\* The reading step of Update keeps counted runs logged.
LEMMA UpdateGetCovers ==
    ASSUME CronInv, CronInv', DeletesWhatIsAsked, RunsInv, NEW j \in Jobs, UpdateGetStep(j) PROVE RunsInv'
<1> USE CountsAreNumbers DEF RunsInv
<1>1. MapsAreFiles'
  BY DEF MapsAreFiles, UpdateGetStep, Asks, Calls, SameStore, SameCron, SameProcess, SameFiring
<1>2. FileCovered'
  BY DEF FileCovered, MapsAreFiles, Kept, UpdateGetStep, Asks, Calls, SameStore, SameCron, SameProcess, SameFiring
<1>3. CallCovered'
  <2> SUFFICES ASSUME NEW i \in Jobs, Kept(i)', call'.pc \in {"save", "saveChanged"}, call'.job = i
               PROVE  Covered(call'.copy.count, runs'[i])
    BY DEF CallCovered
  <2>1. i = j /\ call'.copy.count = jobs[j].count /\ jobs[j] # NoJob
    BY JobNotNone DEF UpdateGetStep, Calls
  <2>2. failures = 0 /\ "delete" \notin asked[j] /\ runs' = runs /\ jobs = diskJobs /\ runs = diskRuns
    BY <2>1 DEF UpdateGetStep, Asks, SameStore, Kept, MapsAreFiles
  <2> QED
    BY <2>1, <2>2 DEF FileCovered, Kept
<1>4. FiringCovered'
  <2> SUFFICES ASSUME NEW j0 \in Jobs, NEW g \in Firings, Kept(j0)', fire'[g].pc # "idle", JobOf(g)' = j0
               PROVE  /\ fire'[g].pc \in {"handle", "saveRun"} => Covered(fire'[g].copy.count, runs'[j0])
                      /\ fire'[g].pc = "save" => Covered(fire'[g].copy.count + 1, runs'[j0])
    BY DEF FiringCovered
  <2> QED
    BY SameJobOf
    DEF FiringCovered, FileCovered, MapsAreFiles, Kept, UpdateGetStep, Asks, Calls, SameStore, SameCron,
        SameProcess, SameFiring
<1> QED
  BY <1>1, <1>2, <1>3, <1>4

\* The first step of Delete keeps counted runs logged.
LEMMA DeleteCovers ==
    ASSUME CronInv, CronInv', DeletesWhatIsAsked, RunsInv, NEW j \in Jobs, DeleteStep(j) PROVE RunsInv'
<1> USE CountsAreNumbers DEF RunsInv
<1>1. MapsAreFiles'
  BY DEF MapsAreFiles, DeleteStep, Asks, Calls, SameStore, SameCron, SameProcess, SameFiring
<1>2. FileCovered'
  BY DEF FileCovered, MapsAreFiles, Kept, DeleteStep, Asks, Calls, SameStore, SameCron, SameProcess, SameFiring
<1>3. CallCovered'
  BY DEF CallCovered, FileCovered, MapsAreFiles, Kept, DeleteStep, Asks, Calls, SameStore, SameCron,
     SameProcess, SameFiring
<1>4. FiringCovered'
  <2> SUFFICES ASSUME NEW j0 \in Jobs, NEW g \in Firings, Kept(j0)', fire'[g].pc # "idle", JobOf(g)' = j0
               PROVE  /\ fire'[g].pc \in {"handle", "saveRun"} => Covered(fire'[g].copy.count, runs'[j0])
                      /\ fire'[g].pc = "save" => Covered(fire'[g].copy.count + 1, runs'[j0])
    BY DEF FiringCovered
  <2> QED
    BY SameJobOf
    DEF FiringCovered, FileCovered, MapsAreFiles, Kept, DeleteStep, Asks, Calls, SameStore, SameCron,
        SameProcess, SameFiring
<1> QED
  BY <1>1, <1>2, <1>3, <1>4

\* The saving step of Update keeps counted runs logged.
LEMMA UpdateSaveCovers ==
    ASSUME CronInv, CronInv', DeletesWhatIsAsked, RunsInv, UpdateSaveStep PROVE RunsInv'
<1> USE CountsAreNumbers DEF RunsInv
<1>1. MapsAreFiles'
  BY DEF MapsAreFiles, UpdateSaveStep, Calling, Stores, Calls, SameCron, SameProcess, SameFiring
<1>2. FileCovered'
  <2> SUFFICES ASSUME NEW i \in Jobs, Kept(i)', diskJobs'[i] # NoJob
               PROVE  Covered(diskJobs'[i].count, diskRuns'[i])
    BY DEF FileCovered
  <2>1. failures = 0 /\ "delete" \notin asked[i] /\ jobs = diskJobs /\ runs = diskRuns
    BY DEF UpdateSaveStep, Calling, Stores, Kept, MapsAreFiles
  <2>2. diskJobs' = jobs' /\ runs' = runs /\ diskRuns' = diskRuns
    BY <2>1 DEF UpdateSaveStep, Calling, Stores, Kept
  <2>3. CASE i = call.job
    <3>1. Covered(jobs'[i].count, runs[i])
      BY <2>1, <2>3 DEF UpdateSaveStep, Calling, Stores, CallCovered, Kept
    <3> QED
      BY <2>1, <2>2, <3>1
  <2>4. CASE i # call.job
    <3>1. jobs'[i] = jobs[i]
      BY <2>4 DEF UpdateSaveStep, Calling, Stores
    <3> QED
      BY <2>1, <2>2, <3>1 DEF FileCovered, Kept
  <2> QED
    BY <2>3, <2>4
<1>3. CallCovered'
  BY DEF CallCovered, FileCovered, MapsAreFiles, Kept, UpdateSaveStep, Calling, Stores, Calls, SameCron,
     SameProcess, SameFiring
<1>4. FiringCovered'
  <2> SUFFICES ASSUME NEW j0 \in Jobs, NEW g \in Firings, Kept(j0)', fire'[g].pc # "idle", JobOf(g)' = j0
               PROVE  /\ fire'[g].pc \in {"handle", "saveRun"} => Covered(fire'[g].copy.count, runs'[j0])
                      /\ fire'[g].pc = "save" => Covered(fire'[g].copy.count + 1, runs'[j0])
    BY DEF FiringCovered
  <2> QED
    BY SameJobOf
    DEF FiringCovered, FileCovered, MapsAreFiles, Kept, UpdateSaveStep, Calling, Stores, Calls, SameCron,
        SameProcess, SameFiring
<1> QED
  BY <1>1, <1>2, <1>3, <1>4

\* The step of Update or Delete that takes the entry away keeps counted runs logged.
LEMMA UnscheduleCovers ==
    ASSUME CronInv, CronInv', DeletesWhatIsAsked, RunsInv, UnscheduleStep PROVE RunsInv'
<1> USE CountsAreNumbers DEF RunsInv
<1>1. MapsAreFiles'
  BY DEF MapsAreFiles, UnscheduleStep, Calling, Removes, SameEntry, Calls, SameStore, SameProcess, SameFiring
<1>2. FileCovered'
  BY DEF FileCovered, MapsAreFiles, Kept, UnscheduleStep, Calling, Removes, SameEntry, Calls, SameStore,
     SameProcess, SameFiring
<1>3. CallCovered'
  BY DEF CallCovered, FileCovered, MapsAreFiles, Kept, UnscheduleStep, Calling, Removes, SameEntry, Calls,
     SameStore, SameProcess, SameFiring
<1>4. FiringCovered'
  <2> SUFFICES ASSUME NEW j0 \in Jobs, NEW g \in Firings, Kept(j0)', fire'[g].pc # "idle", JobOf(g)' = j0
               PROVE  /\ fire'[g].pc \in {"handle", "saveRun"} => Covered(fire'[g].copy.count, runs'[j0])
                      /\ fire'[g].pc = "save" => Covered(fire'[g].copy.count + 1, runs'[j0])
    BY DEF FiringCovered
  <2> QED
    BY SameJobOf
    DEF FiringCovered, FileCovered, MapsAreFiles, Kept, UnscheduleStep, Calling, Removes, SameEntry, Calls,
        SameStore, SameProcess, SameFiring
<1> QED
  BY <1>1, <1>2, <1>3, <1>4

\* The step of Create or Update that schedules the job keeps counted runs logged.
LEMMA ScheduleCovers ==
    ASSUME CronInv, CronInv', DeletesWhatIsAsked, RunsInv, ScheduleStep PROVE RunsInv'
<1> USE CountsAreNumbers DEF RunsInv
<1>1. MapsAreFiles'
  BY DEF MapsAreFiles, ScheduleStep, Calling, Adds, NewEntry, Calls, SameStore, SameProcess, SameFiring
<1>2. FileCovered'
  BY DEF FileCovered, MapsAreFiles, Kept, ScheduleStep, Calling, Adds, NewEntry, Calls, SameStore, SameProcess,
     SameFiring
<1>3. CallCovered'
  BY DEF CallCovered, FileCovered, MapsAreFiles, Kept, ScheduleStep, Calling, Adds, NewEntry, Calls, SameStore,
     SameProcess, SameFiring
<1>4. FiringCovered'
  <2> SUFFICES ASSUME NEW j0 \in Jobs, NEW g \in Firings, Kept(j0)', fire'[g].pc # "idle", JobOf(g)' = j0
               PROVE  /\ fire'[g].pc \in {"handle", "saveRun"} => Covered(fire'[g].copy.count, runs'[j0])
                      /\ fire'[g].pc = "save" => Covered(fire'[g].copy.count + 1, runs'[j0])
    BY DEF FiringCovered
  <2> QED
    BY SameJobOf
    DEF FiringCovered, FileCovered, MapsAreFiles, Kept, ScheduleStep, Calling, Adds, NewEntry, Calls,
        SameStore, SameProcess, SameFiring
<1> QED
  BY <1>1, <1>2, <1>3, <1>4

\* The step of Delete that takes the job from the store keeps counted runs logged.
LEMMA DeleteStoreCovers ==
    ASSUME CronInv, CronInv', DeletesWhatIsAsked, RunsInv, DeleteStoreStep PROVE RunsInv'
<1> USE CountsAreNumbers DEF RunsInv
<1>1. MapsAreFiles'
  BY DEF MapsAreFiles, DeleteStoreStep, Calling, Forgets, Calls, SameStore, SameCron, SameProcess, SameFiring
<1>2. FileCovered'
  BY DEF FileCovered, MapsAreFiles, Kept, DeleteStoreStep, Calling, Forgets, Calls, SameStore, SameCron,
     SameProcess, SameFiring
<1>3. CallCovered'
  BY DEF CallCovered, FileCovered, MapsAreFiles, Kept, DeleteStoreStep, Calling, Forgets, Calls, SameStore,
     SameCron, SameProcess, SameFiring
<1>4. FiringCovered'
  <2> SUFFICES ASSUME NEW j0 \in Jobs, NEW g \in Firings, Kept(j0)', fire'[g].pc # "idle", JobOf(g)' = j0
               PROVE  /\ fire'[g].pc \in {"handle", "saveRun"} => Covered(fire'[g].copy.count, runs'[j0])
                      /\ fire'[g].pc = "save" => Covered(fire'[g].copy.count + 1, runs'[j0])
    BY DEF FiringCovered
  <2>1. /\ fire' = fire /\ JobOf(g) = j0
        /\ failures = 0 /\ "delete" \notin asked[j0] /\ call.job # j0
    BY DEF DeleteStoreStep, SameFiring, SameCron, JobOf, Kept, SameStore, Calling, DeletesWhatIsAsked
  <2>2. runs'[j0] = runs[j0]
    BY <2>1 DEF DeleteStoreStep, SameStore, Forgets
  <2> QED
    BY <2>1, <2>2 DEF FiringCovered, Kept
<1> QED
  BY <1>1, <1>2, <1>3, <1>4

\* A firing that reads, skips or ends keeps counted runs logged.
LEMMA GoesOnCovers ==
    ASSUME CronInv, CronInv', DeletesWhatIsAsked, RunsInv, NEW f \in Firings, GoesOn(f) PROVE RunsInv'
<1> USE CountsAreNumbers DEF RunsInv
<1>1. MapsAreFiles'
  BY DEF MapsAreFiles, GoesOn, Firing, Moves, SameStore, SameCron, SameProcess, SameManager
<1>2. FileCovered'
  BY DEF FileCovered, MapsAreFiles, Kept, GoesOn, Firing, Moves, SameStore, SameCron, SameProcess, SameManager
<1>3. CallCovered'
  BY DEF CallCovered, FileCovered, MapsAreFiles, Kept, GoesOn, Firing, Moves, SameStore, SameCron, SameProcess,
     SameManager
<1>4. FiringCovered'
  <2> SUFFICES ASSUME NEW j0 \in Jobs, NEW g \in Firings, Kept(j0)', fire'[g].pc # "idle", JobOf(g)' = j0
               PROVE  /\ fire'[g].pc \in {"handle", "saveRun"} => Covered(fire'[g].copy.count, runs'[j0])
                      /\ fire'[g].pc = "save" => Covered(fire'[g].copy.count + 1, runs'[j0])
    BY DEF FiringCovered
  <2>1. /\ failures = 0 /\ "delete" \notin asked[j0] /\ jobs = diskJobs /\ runs = diskRuns /\ runs' = runs
        /\ fire'[g].entry = fire[g].entry /\ fire[g].pc # "idle" /\ JobOf(g) = j0
    BY DEF GoesOn, Firing, Moves, SameStore, SameManager, SameCron, Kept, MapsAreFiles, JobOf
  <2>2. CASE g # f
    BY <2>1, <2>2 DEF GoesOn, Moves, FiringCovered, Kept
  <2>3. CASE g = f /\ fire'[f].pc = "handle"
    <3>1. fire'[f].copy = jobs[j0] /\ jobs[j0] \in AJob
      BY <2>1, <2>3 DEF GoesOn, Moves
    <3>2. Covered(jobs[j0].count, runs[j0])
      BY <2>1, <3>1, JobNotNone DEF FileCovered, Kept
    <3> QED
      BY <2>1, <2>3, <3>1, <3>2
  <2>4. CASE g = f /\ fire'[f].pc # "handle"
    BY <2>4 DEF GoesOn, Moves
  <2> QED
    BY <2>2, <2>3, <2>4
<1> QED
  BY <1>1, <1>2, <1>3, <1>4

\* A firing that calls the handler keeps counted runs logged.
LEMMA HandleCovers ==
    ASSUME CronInv, CronInv', DeletesWhatIsAsked, RunsInv, NEW f \in Firings, HandleStep(f) PROVE RunsInv'
<1> USE CountsAreNumbers DEF RunsInv
<1>1. MapsAreFiles'
  BY DEF MapsAreFiles, HandleStep, Firing, Moves, SameStore, SameCron, SameProcess, SameManager
<1>2. FileCovered'
  BY DEF FileCovered, MapsAreFiles, Kept, HandleStep, Firing, Moves, SameStore, SameCron, SameProcess, SameManager
<1>3. CallCovered'
  BY DEF CallCovered, FileCovered, MapsAreFiles, Kept, HandleStep, Firing, Moves, SameStore, SameCron,
     SameProcess, SameManager
<1>4. FiringCovered'
  <2> SUFFICES ASSUME NEW j0 \in Jobs, NEW g \in Firings, Kept(j0)', fire'[g].pc # "idle", JobOf(g)' = j0
               PROVE  /\ fire'[g].pc \in {"handle", "saveRun"} => Covered(fire'[g].copy.count, runs'[j0])
                      /\ fire'[g].pc = "save" => Covered(fire'[g].copy.count + 1, runs'[j0])
    BY DEF FiringCovered
  <2> QED
    BY SameJobOf
    DEF FiringCovered, FileCovered, MapsAreFiles, Kept, HandleStep, Firing, Moves, SameStore, SameCron,
        SameProcess, SameManager
<1> QED
  BY <1>1, <1>2, <1>3, <1>4

\* A firing that logs its run keeps counted runs logged.
LEMMA SaveRunCovers ==
    ASSUME CronInv, CronInv', DeletesWhatIsAsked, RunsInv, NEW f \in Firings, SaveRunStep(f) PROVE RunsInv'
<1> USE CountsAreNumbers DEF RunsInv
<1>1. MapsAreFiles'
  BY DEF MapsAreFiles, SaveRunStep, Firing, Moves, Logs, SameCron, SameProcess, SameManager
<1>2. FileCovered'
  <2> SUFFICES ASSUME NEW i \in Jobs, Kept(i)', diskJobs'[i] # NoJob
               PROVE  Covered(diskJobs'[i].count, diskRuns'[i])
    BY DEF FileCovered
  <2>1. failures = 0 /\ "delete" \notin asked[i] /\ jobs = diskJobs /\ runs = diskRuns
    BY DEF SaveRunStep, Logs, Kept, SameManager, MapsAreFiles, Firing
  <2>2. runs[i] \in Nat /\ runs[i] <= maxRunsPerJob /\ maxRunsPerJob \in Nat
    OBVIOUS
  <2>3. runs'[i] = runs[i] \/ (runs[i] < maxRunsPerJob /\ runs'[i] = runs[i] + 1)
    BY <2>2 DEF SaveRunStep, Logs
  <2>4. diskRuns' = runs' /\ diskJobs' = diskJobs
    BY <2>1 DEF SaveRunStep, Logs, Kept
  <2>5. diskJobs[i].count \in Nat /\ Covered(diskJobs[i].count, runs[i])
    BY <2>1, <2>4 DEF FileCovered, Kept
  <2> QED
    BY <2>2, <2>3, <2>4, <2>5 DEF Covered
<1>3. CallCovered'
  <2> SUFFICES ASSUME NEW i \in Jobs, Kept(i)', call'.pc \in {"save", "saveChanged"}, call'.job = i
               PROVE  Covered(call'.copy.count, runs'[i])
    BY DEF CallCovered
  <2>1. failures = 0 /\ "delete" \notin asked[i] /\ jobs = diskJobs /\ runs = diskRuns
    BY DEF SaveRunStep, Logs, Kept, SameManager, MapsAreFiles, Firing
  <2>2. runs[i] \in Nat /\ runs[i] <= maxRunsPerJob /\ maxRunsPerJob \in Nat
    OBVIOUS
  <2>3. runs'[i] = runs[i] \/ (runs[i] < maxRunsPerJob /\ runs'[i] = runs[i] + 1)
    BY <2>2 DEF SaveRunStep, Logs
  <2>4. call' = call /\ call.copy \in AJob /\ Covered(call.copy.count, runs[i])
    BY <2>1, CallingWhat DEF SaveRunStep, SameManager, CallCovered, Kept
  <2>5. call.copy.count \in Nat
    BY <2>4 DEF AJob
  <2> QED
    BY <2>2, <2>3, <2>4, <2>5 DEF Covered
<1>4. FiringCovered'
  <2> SUFFICES ASSUME NEW j0 \in Jobs, NEW g \in Firings, Kept(j0)', fire'[g].pc # "idle", JobOf(g)' = j0
               PROVE  /\ fire'[g].pc \in {"handle", "saveRun"} => Covered(fire'[g].copy.count, runs'[j0])
                      /\ fire'[g].pc = "save" => Covered(fire'[g].copy.count + 1, runs'[j0])
    BY DEF FiringCovered
  <2>1. failures = 0 /\ "delete" \notin asked[j0] /\ jobs = diskJobs /\ runs = diskRuns
    BY DEF SaveRunStep, Logs, Kept, SameManager, MapsAreFiles, Firing
  <2>2. runs[j0] \in Nat /\ runs[j0] <= maxRunsPerJob /\ maxRunsPerJob \in Nat
    OBVIOUS
  <2>3. runs'[j0] = runs[j0] \/ (runs[j0] < maxRunsPerJob /\ runs'[j0] = runs[j0] + 1)
    BY <2>2 DEF SaveRunStep, Logs
  <2>4. SameEntry(fire[g].entry) /\ fire'[g].entry = fire[g].entry /\ fire'[g].copy = fire[g].copy /\ fire[g].pc # "idle"
    BY DEF SaveRunStep, Moves, SameCron, SameEntry, Firing
  <2>5. JobOf(g) = j0
    BY <2>4 DEF JobOf, SameEntry
  <2>6. CASE g = f
    <3>1. fire[f].copy \in AJob /\ Covered(fire[f].copy.count, runs[j0]) /\ fire'[f].pc = "save"
      BY <2>1, <2>5, <2>6 DEF SaveRunStep, Firing, Moves, FiringCovered, Kept
    <3>2. fire[f].copy.count \in Nat /\ runs'[j0] = IF runs[j0] < maxRunsPerJob THEN runs[j0] + 1 ELSE runs[j0]
      BY <2>5, <2>6, <3>1 DEF AJob, SaveRunStep, Logs
    <3>3. Covered(fire[f].copy.count + 1, runs'[j0])
      BY <2>2, <3>1, <3>2 DEF Covered
    <3> QED
      BY <2>4, <2>6, <3>1, <3>3
  <2>7. CASE g # f
    <3>1. fire'[g] = fire[g] /\ fire[g].copy \in Copies
      BY <2>7 DEF SaveRunStep, Moves, CronInv, JobsTypeOK, FireLocals
    <3>2. CASE fire[g].pc \in {"handle", "saveRun", "save"}
      <4>1. fire[g].copy.count \in Nat
        <5>1. fire[g].copy \in AJob \/ fire[g].pc = "save"
          BY <3>2, FiringWhat
        <5>2. fire[g].copy \in AJob
          BY <3>2 DEF CronInv, RefersToSomething, FiringRefers
        <5> QED
          BY <5>2 DEF AJob
      <4>2. /\ fire[g].pc \in {"handle", "saveRun"} => Covered(fire[g].copy.count, runs[j0])
            /\ fire[g].pc = "save" => Covered(fire[g].copy.count + 1, runs[j0])
        BY <2>1, <2>4, <2>5 DEF FiringCovered, Kept
      <4> QED
        BY <2>2, <2>3, <3>1, <4>1, <4>2 DEF Covered
    <3> QED
      BY <3>1, <3>2
  <2> QED
    BY <2>6, <2>7
<1> QED
  BY <1>1, <1>2, <1>3, <1>4

\* A firing that saves the job keeps counted runs logged.
LEMMA SaveCovers ==
    ASSUME CronInv, CronInv', DeletesWhatIsAsked, RunsInv, NEW f \in Firings, SaveStep(f) PROVE RunsInv'
<1> USE CountsAreNumbers DEF RunsInv
<1>1. MapsAreFiles'
  BY DEF MapsAreFiles, SaveStep, Firing, Moves, Stores, SameCron, SameProcess, SameManager
<1>2. FileCovered'
  <2> SUFFICES ASSUME NEW i \in Jobs, Kept(i)', diskJobs'[i] # NoJob
               PROVE  Covered(diskJobs'[i].count, diskRuns'[i])
    BY DEF FileCovered
  <2>1. failures = 0 /\ "delete" \notin asked[i] /\ jobs = diskJobs /\ runs = diskRuns
    BY DEF SaveStep, Firing, SameManager, Stores, Kept, MapsAreFiles
  <2>2. diskJobs' = jobs' /\ runs' = runs /\ diskRuns' = diskRuns
    BY <2>1 DEF SaveStep, Firing, SameManager, Stores, Kept
  <2>3. CASE i = JobOf(f)
    <3>1. Covered(jobs'[i].count, runs[i])
      <4>1. jobs'[i] = Bumped(fire[f].copy) /\ Bumped(fire[f].copy).count = fire[f].copy.count + 1
        BY <2>3, BumpedJob DEF SaveStep, Stores
      <4>2. Covered(fire[f].copy.count + 1, runs[i])
        BY <2>1, <2>3 DEF FiringCovered, Kept, SaveStep, Firing
      <4> QED
        BY <4>1, <4>2
    <3> QED
      BY <2>1, <2>2, <3>1
  <2>4. CASE i # JobOf(f)
    <3>1. jobs'[i] = jobs[i]
      BY <2>4 DEF SaveStep, Firing, SameManager, Stores
    <3> QED
      BY <2>1, <2>2, <3>1 DEF FileCovered, Kept
  <2> QED
    BY <2>3, <2>4
<1>3. CallCovered'
  BY DEF CallCovered, FileCovered, MapsAreFiles, Kept, SaveStep, Firing, Moves, Stores, SameCron, SameProcess,
     SameManager
<1>4. FiringCovered'
  <2> SUFFICES ASSUME NEW j0 \in Jobs, NEW g \in Firings, Kept(j0)', fire'[g].pc # "idle", JobOf(g)' = j0
               PROVE  /\ fire'[g].pc \in {"handle", "saveRun"} => Covered(fire'[g].copy.count, runs'[j0])
                      /\ fire'[g].pc = "save" => Covered(fire'[g].copy.count + 1, runs'[j0])
    BY DEF FiringCovered
  <2> QED
    BY SameJobOf
    DEF FiringCovered, FileCovered, MapsAreFiles, Kept, SaveStep, Firing, Moves, Stores, SameCron, SameProcess,
        SameManager
<1> QED
  BY <1>1, <1>2, <1>3, <1>4

\* A firing that takes its entry away keeps counted runs logged.
LEMMA FinishCovers ==
    ASSUME CronInv, CronInv', DeletesWhatIsAsked, RunsInv, NEW f \in Firings, FinishStep(f) PROVE RunsInv'
<1> USE CountsAreNumbers DEF RunsInv
<1>1. MapsAreFiles'
  BY DEF MapsAreFiles, FinishStep, Firing, Moves, Kills, SameEntry, SameStore, SameProcess, SameManager
<1>2. FileCovered'
  BY DEF FileCovered, MapsAreFiles, Kept, FinishStep, Firing, Moves, Kills, SameEntry, SameStore, SameProcess,
     SameManager
<1>3. CallCovered'
  BY DEF CallCovered, FileCovered, MapsAreFiles, Kept, FinishStep, Firing, Moves, Kills, SameEntry, SameStore,
     SameProcess, SameManager
<1>4. FiringCovered'
  <2> SUFFICES ASSUME NEW j0 \in Jobs, NEW g \in Firings, Kept(j0)', fire'[g].pc # "idle", JobOf(g)' = j0
               PROVE  /\ fire'[g].pc \in {"handle", "saveRun"} => Covered(fire'[g].copy.count, runs'[j0])
                      /\ fire'[g].pc = "save" => Covered(fire'[g].copy.count + 1, runs'[j0])
    BY DEF FiringCovered
  <2> QED
    BY SameJobOf
    DEF FiringCovered, FileCovered, MapsAreFiles, Kept, FinishStep, Firing, Moves, Kills, SameEntry, SameStore,
        SameProcess, SameManager
<1> QED
  BY <1>1, <1>2, <1>3, <1>4

\* A firing that forgets its one-shot job keeps counted runs logged.
LEMMA ForgetCovers ==
    ASSUME CronInv, CronInv', DeletesWhatIsAsked, RunsInv, NEW f \in Firings, ForgetStep(f) PROVE RunsInv'
<1> USE CountsAreNumbers DEF RunsInv
<1>1. MapsAreFiles'
  BY DEF MapsAreFiles, ForgetStep, Firing, Moves, SameStore, SameProcess, SameManager
<1>2. FileCovered'
  BY DEF FileCovered, MapsAreFiles, Kept, ForgetStep, Firing, Moves, SameStore, SameProcess, SameManager
<1>3. CallCovered'
  BY DEF CallCovered, FileCovered, MapsAreFiles, Kept, ForgetStep, Firing, Moves, SameStore, SameProcess,
     SameManager
<1>4. FiringCovered'
  <2> SUFFICES ASSUME NEW j0 \in Jobs, NEW g \in Firings, Kept(j0)', fire'[g].pc # "idle", JobOf(g)' = j0
               PROVE  /\ fire'[g].pc \in {"handle", "saveRun"} => Covered(fire'[g].copy.count, runs'[j0])
                      /\ fire'[g].pc = "save" => Covered(fire'[g].copy.count + 1, runs'[j0])
    BY DEF FiringCovered
  <2> QED
    BY SameJobOf
    DEF FiringCovered, FileCovered, MapsAreFiles, Kept, ForgetStep, Firing, Moves, SameStore, SameProcess,
        SameManager
<1> QED
  BY <1>1, <1>2, <1>3, <1>4

\* The start of a firing keeps counted runs logged.
LEMMA FiredCovers ==
    ASSUME CronInv, CronInv', DeletesWhatIsAsked, RunsInv, NEW f \in Firings, NEW e \in 1 .. Len(entries),
           FiredStep(f, e)
    PROVE  RunsInv'
<1> USE CountsAreNumbers DEF RunsInv
<1>1. MapsAreFiles'
  BY DEF MapsAreFiles, FiredStep, Moves, SameEntry, SameStore, SameProcess, SameManager
<1>2. FileCovered'
  BY DEF FileCovered, MapsAreFiles, Kept, FiredStep, Moves, SameEntry, SameStore, SameProcess, SameManager
<1>3. CallCovered'
  BY DEF CallCovered, FileCovered, MapsAreFiles, Kept, FiredStep, Moves, SameEntry, SameStore, SameProcess,
     SameManager
<1>4. FiringCovered'
  <2> SUFFICES ASSUME NEW j0 \in Jobs, NEW g \in Firings, Kept(j0)', fire'[g].pc # "idle", JobOf(g)' = j0
               PROVE  /\ fire'[g].pc \in {"handle", "saveRun"} => Covered(fire'[g].copy.count, runs'[j0])
                      /\ fire'[g].pc = "save" => Covered(fire'[g].copy.count + 1, runs'[j0])
    BY DEF FiringCovered
  <2> QED
    BY SameJobOf
    DEF FiringCovered, FileCovered, MapsAreFiles, Kept, FiredStep, Moves, SameEntry, SameStore, SameProcess,
        SameManager
<1> QED
  BY <1>1, <1>2, <1>3, <1>4

\* A crash keeps counted runs logged.
LEMMA CrashCovers ==
    ASSUME CronInv, CronInv', DeletesWhatIsAsked, RunsInv, CrashStep PROVE RunsInv'
<1> USE CountsAreNumbers DEF RunsInv
<1>1. MapsAreFiles'
  BY DEF MapsAreFiles, CrashStep, Calling, Calls, Forgets, SameStore
<1>2. FileCovered'
  BY DEF FileCovered, MapsAreFiles, Kept, CrashStep, Calling, Calls, Forgets, SameStore
<1>3. CallCovered'
  BY DEF CallCovered, FileCovered, MapsAreFiles, Kept, CrashStep, Calling, Calls, Forgets, SameStore
<1>4. FiringCovered'
  <2> SUFFICES ASSUME NEW j0 \in Jobs, NEW g \in Firings, Kept(j0)', fire'[g].pc # "idle", JobOf(g)' = j0
               PROVE  /\ fire'[g].pc \in {"handle", "saveRun"} => Covered(fire'[g].copy.count, runs'[j0])
                      /\ fire'[g].pc = "save" => Covered(fire'[g].copy.count + 1, runs'[j0])
    BY DEF FiringCovered
  <2> QED
    BY SameJobOf DEF FiringCovered, FileCovered, MapsAreFiles, Kept, CrashStep, Calling, Calls, Forgets, SameStore
<1> QED
  BY <1>1, <1>2, <1>3, <1>4

\* A start of the process keeps counted runs logged.
LEMMA RestartCovers ==
    ASSUME CronInv, CronInv', DeletesWhatIsAsked, RunsInv, RestartStep PROVE RunsInv'
<1> USE CountsAreNumbers DEF RunsInv
<1>1. MapsAreFiles'
  BY DEF MapsAreFiles, RestartStep, SameManager, SameFiring
<1>2. FileCovered'
  <2> SUFFICES ASSUME NEW i \in Jobs, Kept(i)', diskJobs'[i] # NoJob
               PROVE  Covered(diskJobs'[i].count, diskRuns'[i])
    BY DEF FileCovered
  <2>1. failures = 0 /\ "delete" \notin asked[i] /\ diskJobs' = jobs' /\ diskRuns' = diskRuns
    BY DEF RestartStep, SameManager, Kept
  <2>2. jobs'[i] = Loaded(diskJobs[i]) /\ diskJobs[i] \in Copies
    BY DEF RestartStep, CronInv, JobsTypeOK
  <2>3. diskJobs[i] # NoJob /\ diskJobs'[i].count = diskJobs[i].count
    BY <2>1, <2>2, LoadedJob
  <2> QED
    BY <2>1, <2>3 DEF FileCovered, Kept
<1>3. CallCovered'
  <2>1. call'.pc = "idle"
    BY DEF RestartStep, SameManager, CronInv, RefersToSomething, DownIsEmpty
  <2> QED
    BY <2>1 DEF CallCovered
<1>4. FiringCovered'
  <2> SUFFICES ASSUME NEW j0 \in Jobs, NEW g \in Firings, Kept(j0)', fire'[g].pc # "idle", JobOf(g)' = j0
               PROVE  /\ fire'[g].pc \in {"handle", "saveRun"} => Covered(fire'[g].copy.count, runs'[j0])
                      /\ fire'[g].pc = "save" => Covered(fire'[g].copy.count + 1, runs'[j0])
    BY DEF FiringCovered
  <2>1. fire'[g].pc = "idle"
    BY DEF RestartStep, SameFiring, CronInv, RefersToSomething, DownIsEmpty
  <2> QED
    BY <2>1
<1> QED
  BY <1>1, <1>2, <1>3, <1>4

\* Shutdown, time and a stutter keep counted runs logged.
LEMMA QuietCovers ==
    ASSUME CronInv, CronInv', DeletesWhatIsAsked, RunsInv,
           PhaseStep \/ TimeStep \/ (SameStore /\ SameCron /\ SameProcess /\ SameManager /\ SameFiring)
    PROVE  RunsInv'
<1> USE CountsAreNumbers DEF RunsInv
<1>1. MapsAreFiles'
  BY DEF MapsAreFiles, PhaseStep, TimeStep, SameStore, SameCron, SameProcess, SameManager, SameFiring
<1>2. FileCovered'
  BY DEF FileCovered, MapsAreFiles, Kept, PhaseStep, TimeStep, SameStore, SameCron, SameProcess, SameManager,
     SameFiring
<1>3. CallCovered'
  BY DEF CallCovered, FileCovered, MapsAreFiles, Kept, PhaseStep, TimeStep, SameStore, SameCron, SameProcess,
     SameManager, SameFiring
<1>4. FiringCovered'
  <2> SUFFICES ASSUME NEW j0 \in Jobs, NEW g \in Firings, Kept(j0)', fire'[g].pc # "idle", JobOf(g)' = j0
               PROVE  /\ fire'[g].pc \in {"handle", "saveRun"} => Covered(fire'[g].copy.count, runs'[j0])
                      /\ fire'[g].pc = "save" => Covered(fire'[g].copy.count + 1, runs'[j0])
    BY DEF FiringCovered
  <2> QED
    BY SameJobOf
    DEF FiringCovered, FileCovered, MapsAreFiles, Kept, PhaseStep, TimeStep, SameStore, SameCron, SameProcess,
        SameManager, SameFiring
<1> QED
  BY <1>1, <1>2, <1>3, <1>4

\* Every step keeps counted runs logged.
LEMMA CoversKept ==
    ASSUME CronInv, CronInv', DeletesWhatIsAsked, RunsInv, Steps PROVE RunsInv'
BY CreateCovers, UpdateGetCovers, DeleteCovers, UpdateSaveCovers, UnscheduleCovers, ScheduleCovers,
   DeleteStoreCovers, GoesOnCovers, HandleCovers, SaveRunCovers, SaveCovers, FinishCovers, ForgetCovers,
   FiredCovers, CrashCovers, RestartCovers, QuietCovers DEF Steps

-----------------------------------------------------------------------------
(* dynamicEntries and the entries agree *)

\* The entries are a sequence, whose entries keep their job and their schedule.
LEMMA EntriesAre ==
    ASSUME CronInv
    PROVE  entries \in Seq(Entries) /\ Len(entries) \in Nat /\ DOMAIN entries = 1 .. Len(entries)
BY DEF CronInv, JobsTypeOK

\* Every kind of step keeps them in agreement.
LEMMA CreateSchedules ==
    ASSUME CronInv, CronInv', ScheduleInv, NEW j \in Jobs, NEW s \in Schedules, CreateStep(j, s) PROVE ScheduleInv'
<1> USE EntriesAre DEF ScheduleInv, CronInv
<1>1. RecurringIsTracked'
  BY DEF RecurringIsTracked, CreateStep, Asks, Stores, Calls, SameCron, SameProcess, SameFiring
<1>2. TrackedIsLive'
  BY DEF TrackedIsLive, RefersToSomething, TrackingRefers, CreateStep, Asks, Stores, Calls, SameCron,
     SameProcess, SameFiring
<1>3. ForgetsOneShot'
  BY DEF ForgetsOneShot, OneShot, RefersToSomething, FiringRefers, CreateStep, Asks, Stores, Calls, SameCron,
     SameProcess, SameFiring
<1> QED
  BY <1>1, <1>2, <1>3

\* The reading step of Update keeps dynamicEntries and the entries in agreement.
LEMMA UpdateGetSchedules ==
    ASSUME CronInv, CronInv', ScheduleInv, NEW j \in Jobs, UpdateGetStep(j) PROVE ScheduleInv'
<1> USE EntriesAre DEF ScheduleInv, CronInv
<1>1. RecurringIsTracked'
  BY DEF RecurringIsTracked, UpdateGetStep, Asks, Calls, SameStore, SameCron, SameProcess, SameFiring
<1>2. TrackedIsLive'
  BY DEF TrackedIsLive, RefersToSomething, TrackingRefers, UpdateGetStep, Asks, Calls, SameStore, SameCron,
     SameProcess, SameFiring
<1>3. ForgetsOneShot'
  BY DEF ForgetsOneShot, OneShot, RefersToSomething, FiringRefers, UpdateGetStep, Asks, Calls, SameStore,
     SameCron, SameProcess, SameFiring
<1> QED
  BY <1>1, <1>2, <1>3

\* The first step of Delete keeps dynamicEntries and the entries in agreement.
LEMMA DeleteSchedules ==
    ASSUME CronInv, CronInv', ScheduleInv, NEW j \in Jobs, DeleteStep(j) PROVE ScheduleInv'
<1> USE EntriesAre DEF ScheduleInv, CronInv
<1>1. RecurringIsTracked'
  BY DEF RecurringIsTracked, DeleteStep, Asks, Calls, SameStore, SameCron, SameProcess, SameFiring
<1>2. TrackedIsLive'
  BY DEF TrackedIsLive, RefersToSomething, TrackingRefers, DeleteStep, Asks, Calls, SameStore, SameCron,
     SameProcess, SameFiring
<1>3. ForgetsOneShot'
  BY DEF ForgetsOneShot, OneShot, RefersToSomething, FiringRefers, DeleteStep, Asks, Calls, SameStore,
     SameCron, SameProcess, SameFiring
<1> QED
  BY <1>1, <1>2, <1>3

\* The saving step of Update keeps dynamicEntries and the entries in agreement.
LEMMA UpdateSaveSchedules ==
    ASSUME CronInv, CronInv', ScheduleInv, UpdateSaveStep PROVE ScheduleInv'
<1> USE EntriesAre DEF ScheduleInv, CronInv
<1>1. RecurringIsTracked'
  BY DEF RecurringIsTracked, UpdateSaveStep, Calling, Stores, Calls, SameCron, SameProcess, SameFiring
<1>2. TrackedIsLive'
  BY DEF TrackedIsLive, RefersToSomething, TrackingRefers, UpdateSaveStep, Calling, Stores, Calls, SameCron,
     SameProcess, SameFiring
<1>3. ForgetsOneShot'
  BY DEF ForgetsOneShot, OneShot, RefersToSomething, FiringRefers, UpdateSaveStep, Calling, Stores, Calls,
     SameCron, SameProcess, SameFiring
<1> QED
  BY <1>1, <1>2, <1>3

\* The step of Update or Delete that takes the entry away keeps dynamicEntries and the entries in agreement.
LEMMA UnscheduleSchedules ==
    ASSUME CronInv, CronInv', ScheduleInv, UnscheduleStep PROVE ScheduleInv'
<1> USE EntriesAre DEF ScheduleInv, CronInv
<1>1. RecurringIsTracked'
  <2> SUFFICES ASSUME NEW e0 \in DOMAIN entries', entries'[e0].live,
                      \A k \in DOMAIN entries' : entries'[k].job = entries'[e0].job => entries'[k].sched = Every
               PROVE  dynamicEntries'[entries'[e0].job] = e0
    BY DEF RecurringIsTracked
  <2>1. DOMAIN entries' = 1 .. Len(entries) /\ e0 \in 1 .. Len(entries) /\ e0 # 0
    BY DEF UnscheduleStep, Removes
  <2>2. \A k \in 1 .. Len(entries) : entries'[k].job = entries[k].job /\ entries'[k].sched = entries[k].sched
    BY DEF UnscheduleStep, Removes, SameEntry
  <2>3. e0 # dynamicEntries[call.job] /\ entries'[e0] = entries[e0]
    BY <2>1 DEF UnscheduleStep, Removes
  <2>4. dynamicEntries[entries[e0].job] = e0 /\ entries[e0] \in Entries
    BY <2>1, <2>2, <2>3 DEF RecurringIsTracked
  <2>5. entries[e0].job # call.job /\ entries[e0].job \in Jobs
    BY <2>3, <2>4 DEF Entries
  <2> QED
    BY <2>3, <2>4, <2>5 DEF UnscheduleStep, Removes
<1>2. TrackedIsLive'
  BY DEF TrackedIsLive, RefersToSomething, TrackingRefers, UnscheduleStep, Calling, Removes, SameEntry, Calls,
     SameStore, SameProcess, SameFiring
<1>3. ForgetsOneShot'
  BY DEF ForgetsOneShot, OneShot, RefersToSomething, FiringRefers, UnscheduleStep, Calling, Removes, SameEntry,
     Calls, SameStore, SameProcess, SameFiring
<1> QED
  BY <1>1, <1>2, <1>3

\* The step of Create or Update that schedules the job keeps dynamicEntries and the entries in agreement.
LEMMA ScheduleSchedules ==
    ASSUME CronInv, CronInv', ScheduleInv, ScheduleStep PROVE ScheduleInv'
<1> USE EntriesAre DEF ScheduleInv, CronInv
<1>1. RecurringIsTracked'
  <2> SUFFICES ASSUME NEW e0 \in DOMAIN entries', entries'[e0].live,
                      \A k \in DOMAIN entries' : entries'[k].job = entries'[e0].job => entries'[k].sched = Every
               PROVE  dynamicEntries'[entries'[e0].job] = e0
    BY DEF RecurringIsTracked
  <2>1. /\ DOMAIN entries' = 1 .. Len(entries) + 1 /\ Len(entries) \in Nat
        /\ \A k \in 1 .. Len(entries) : entries'[k] = entries[k]
    BY DEF ScheduleStep, Adds
  <2>2. CASE e0 = Len(entries) + 1
    BY <2>2 DEF ScheduleStep, Adds, NewEntry
  <2>3. CASE e0 \in 1 .. Len(entries)
    <3>1. entries'[e0] = entries[e0] /\ entries[e0] \in Entries
      BY <2>1, <2>3
    <3>2. \A k \in 1 .. Len(entries) : entries[k].job = entries[e0].job => entries[k].sched = Every
      BY <2>1, <3>1
    <3>3. dynamicEntries[entries[e0].job] = e0 /\ entries[e0].job \in Jobs
      BY <2>3, <3>1, <3>2 DEF RecurringIsTracked, Entries
    <3>4. entries[e0].job # call.job
      BY <2>3, <3>3 DEF ScheduleStep, Adds
    <3> QED
      BY <3>1, <3>3, <3>4 DEF ScheduleStep, Adds
  <2> QED
    BY <2>1, <2>2, <2>3
<1>2. TrackedIsLive'
  BY DEF TrackedIsLive, RefersToSomething, TrackingRefers, ScheduleStep, Calling, Adds, NewEntry, Calls,
     SameStore, SameProcess, SameFiring
<1>3. ForgetsOneShot'
  BY DEF ForgetsOneShot, OneShot, RefersToSomething, FiringRefers, ScheduleStep, Calling, Adds, NewEntry,
     Calls, SameStore, SameProcess, SameFiring
<1> QED
  BY <1>1, <1>2, <1>3

\* The step of Delete that takes the job from the store keeps dynamicEntries and the entries in agreement.
LEMMA DeleteStoreSchedules ==
    ASSUME CronInv, CronInv', ScheduleInv, DeleteStoreStep PROVE ScheduleInv'
<1> USE EntriesAre DEF ScheduleInv, CronInv
<1>1. RecurringIsTracked'
  BY DEF RecurringIsTracked, DeleteStoreStep, Calling, Forgets, Calls, SameStore, SameCron, SameProcess, SameFiring
<1>2. TrackedIsLive'
  BY DEF TrackedIsLive, RefersToSomething, TrackingRefers, DeleteStoreStep, Calling, Forgets, Calls, SameStore,
     SameCron, SameProcess, SameFiring
<1>3. ForgetsOneShot'
  BY DEF ForgetsOneShot, OneShot, RefersToSomething, FiringRefers, DeleteStoreStep, Calling, Forgets, Calls,
     SameStore, SameCron, SameProcess, SameFiring
<1> QED
  BY <1>1, <1>2, <1>3

\* A firing that reads, skips or ends keeps dynamicEntries and the entries in agreement.
LEMMA GoesOnSchedules ==
    ASSUME CronInv, CronInv', ScheduleInv, NEW f \in Firings, GoesOn(f) PROVE ScheduleInv'
<1> USE EntriesAre DEF ScheduleInv, CronInv
<1>1. RecurringIsTracked'
  BY DEF RecurringIsTracked, GoesOn, Firing, Moves, SameStore, SameCron, SameProcess, SameManager
<1>2. TrackedIsLive'
  BY DEF TrackedIsLive, RefersToSomething, TrackingRefers, GoesOn, Firing, Moves, SameStore, SameCron,
     SameProcess, SameManager
<1>3. ForgetsOneShot'
  BY DEF ForgetsOneShot, OneShot, RefersToSomething, FiringRefers, GoesOn, Firing, Moves, SameStore, SameCron,
     SameProcess, SameManager
<1> QED
  BY <1>1, <1>2, <1>3

\* A firing that calls the handler keeps dynamicEntries and the entries in agreement.
LEMMA HandleSchedules ==
    ASSUME CronInv, CronInv', ScheduleInv, NEW f \in Firings, HandleStep(f) PROVE ScheduleInv'
<1> USE EntriesAre DEF ScheduleInv, CronInv
<1>1. RecurringIsTracked'
  BY DEF RecurringIsTracked, HandleStep, Firing, Moves, SameStore, SameCron, SameProcess, SameManager
<1>2. TrackedIsLive'
  BY DEF TrackedIsLive, RefersToSomething, TrackingRefers, HandleStep, Firing, Moves, SameStore, SameCron,
     SameProcess, SameManager
<1>3. ForgetsOneShot'
  BY DEF ForgetsOneShot, OneShot, RefersToSomething, FiringRefers, HandleStep, Firing, Moves, SameStore,
     SameCron, SameProcess, SameManager
<1> QED
  BY <1>1, <1>2, <1>3

\* A firing that logs its run keeps dynamicEntries and the entries in agreement.
LEMMA SaveRunSchedules ==
    ASSUME CronInv, CronInv', ScheduleInv, NEW f \in Firings, SaveRunStep(f) PROVE ScheduleInv'
<1> USE EntriesAre DEF ScheduleInv, CronInv
<1>1. RecurringIsTracked'
  BY DEF RecurringIsTracked, SaveRunStep, Firing, Moves, Logs, SameCron, SameProcess, SameManager
<1>2. TrackedIsLive'
  BY SMTT(30) DEF TrackedIsLive, RefersToSomething, TrackingRefers, SaveRunStep, Firing, Moves, Logs, SameCron,
     SameProcess, SameManager
<1>3. ForgetsOneShot'
  BY DEF ForgetsOneShot, OneShot, RefersToSomething, FiringRefers, SaveRunStep, Firing, Moves, Logs, SameCron,
     SameProcess, SameManager
<1> QED
  BY <1>1, <1>2, <1>3

\* A firing that saves the job keeps dynamicEntries and the entries in agreement.
LEMMA SaveSchedules ==
    ASSUME CronInv, CronInv', ScheduleInv, NEW f \in Firings, SaveStep(f) PROVE ScheduleInv'
<1> USE EntriesAre DEF ScheduleInv, CronInv
<1>1. RecurringIsTracked'
  BY DEF RecurringIsTracked, SaveStep, Firing, Moves, Stores, SameCron, SameProcess, SameManager
<1>2. TrackedIsLive'
  BY DEF TrackedIsLive, RefersToSomething, TrackingRefers, SaveStep, Firing, Moves, Stores, SameCron,
     SameProcess, SameManager
<1>3. ForgetsOneShot'
  BY DEF ForgetsOneShot, OneShot, RefersToSomething, FiringRefers, SaveStep, Firing, Moves, Stores, SameCron,
     SameProcess, SameManager
<1> QED
  BY <1>1, <1>2, <1>3

\* A firing that takes its entry away keeps dynamicEntries and the entries in agreement.
LEMMA FinishSchedules ==
    ASSUME CronInv, CronInv', ScheduleInv, NEW f \in Firings, FinishStep(f) PROVE ScheduleInv'
<1> USE EntriesAre DEF ScheduleInv, CronInv
<1>1. RecurringIsTracked'
  BY DEF RecurringIsTracked, FinishStep, Firing, Moves, Kills, SameEntry, SameStore, SameProcess, SameManager
<1>2. TrackedIsLive'
  BY DEF TrackedIsLive, RefersToSomething, TrackingRefers, FinishStep, Firing, Moves, Kills, SameEntry,
     SameStore, SameProcess, SameManager
<1>3. ForgetsOneShot'
  BY DEF ForgetsOneShot, OneShot, RefersToSomething, FiringRefers, FinishStep, Firing, Moves, Kills, SameEntry,
     SameStore, SameProcess, SameManager
<1> QED
  BY <1>1, <1>2, <1>3

\* A firing that forgets its one-shot job keeps dynamicEntries and the entries in agreement.
LEMMA ForgetSchedules ==
    ASSUME CronInv, CronInv', ScheduleInv, NEW f \in Firings, ForgetStep(f) PROVE ScheduleInv'
<1> USE EntriesAre DEF ScheduleInv, CronInv
<1>1. RecurringIsTracked'
  <2> SUFFICES ASSUME NEW e0 \in DOMAIN entries', entries'[e0].live,
                      \A k \in DOMAIN entries' : entries'[k].job = entries'[e0].job => entries'[k].sched = Every
               PROVE  dynamicEntries'[entries'[e0].job] = e0
    BY DEF RecurringIsTracked
  <2>a. entries' = entries
    BY DEF ForgetStep
  <2>b. entries[e0] \in Entries
    BY <2>a
  <2>1. entries' = entries /\ entries[e0] \in Entries /\ entries[e0].job \in Jobs
    BY <2>a, <2>b DEF Entries
  <2>2. dynamicEntries[entries[e0].job] = e0
    BY <2>1 DEF RecurringIsTracked
  <2>3. entries[e0].job # JobOf(f)
    BY <2>1 DEF ForgetStep, Firing, ForgetsOneShot, OneShot, JobOf
  <2> QED
    BY <2>1, <2>2, <2>3 DEF ForgetStep
<1>2. TrackedIsLive'
  <2> SUFFICES ASSUME NEW i \in Jobs, dynamicEntries'[i] # 0
               PROVE  \/ entries'[dynamicEntries'[i]].live
                      \/ \E g \in Firings : fire'[g].pc = "forget" /\ fire'[g].entry = dynamicEntries'[i]
    BY DEF TrackedIsLive
  <2>1. entries' = entries /\ i # JobOf(f) /\ dynamicEntries'[i] = dynamicEntries[i]
    BY DEF ForgetStep
  <2>2. dynamicEntries[i] # 0 /\ entries[dynamicEntries[i]].job = i
    BY <2>1 DEF RefersToSomething, TrackingRefers
  <2>3. CASE entries[dynamicEntries[i]].live
    BY <2>1, <2>3
  <2>4. ASSUME NEW g \in Firings, fire[g].pc = "forget", fire[g].entry = dynamicEntries[i]
        PROVE  fire'[g].pc = "forget" /\ fire'[g].entry = dynamicEntries'[i]
    <3>1. g # f
      BY <2>1, <2>2, <2>4 DEF JobOf
    <3> QED
      BY <2>1, <2>4, <3>1 DEF ForgetStep, Moves
  <2> QED
    BY <2>2, <2>3, <2>4 DEF TrackedIsLive
<1>3. ForgetsOneShot'
  BY DEF ForgetsOneShot, OneShot, RefersToSomething, FiringRefers, ForgetStep, Firing, Moves, SameStore,
     SameProcess, SameManager
<1> QED
  BY <1>1, <1>2, <1>3

\* The start of a firing keeps dynamicEntries and the entries in agreement.
LEMMA FiredSchedules ==
    ASSUME CronInv, CronInv', ScheduleInv, NEW f \in Firings, NEW e \in 1 .. Len(entries), FiredStep(f, e)
    PROVE  ScheduleInv'
<1> USE EntriesAre DEF ScheduleInv, CronInv
<1>1. RecurringIsTracked'
  BY DEF RecurringIsTracked, FiredStep, Moves, SameEntry, SameStore, SameProcess, SameManager
<1>2. TrackedIsLive'
  BY SMTT(30)
  DEF TrackedIsLive, RefersToSomething, TrackingRefers, FiredStep, Moves, SameEntry, SameStore, SameProcess,
     SameManager
<1>3. ForgetsOneShot'
  BY DEF ForgetsOneShot, OneShot, RefersToSomething, FiringRefers, FiredStep, Moves, SameEntry, SameStore,
     SameProcess, SameManager
<1> QED
  BY <1>1, <1>2, <1>3

\* A crash keeps dynamicEntries and the entries in agreement.
LEMMA CrashSchedules ==
    ASSUME CronInv, CronInv', ScheduleInv, CrashStep PROVE ScheduleInv'
<1> USE EntriesAre DEF ScheduleInv, CronInv
<1>1. RecurringIsTracked'
  BY DEF RecurringIsTracked, CrashStep, Calling, Calls, Forgets, SameStore
<1>2. TrackedIsLive'
  BY DEF TrackedIsLive, RefersToSomething, TrackingRefers, CrashStep, Calling, Calls, Forgets, SameStore
<1>3. ForgetsOneShot'
  BY DEF ForgetsOneShot, OneShot, RefersToSomething, FiringRefers, CrashStep, Calling, Calls, Forgets, SameStore
<1> QED
  BY <1>1, <1>2, <1>3

\* A start of the process keeps dynamicEntries and the entries in agreement.
LEMMA RestartSchedules ==
    ASSUME CronInv, CronInv', ScheduleInv, RestartStep PROVE ScheduleInv'
<1> USE EntriesAre DEF ScheduleInv, CronInv
<1>1. RecurringIsTracked'
  <2> SUFFICES ASSUME NEW e0 \in DOMAIN entries', entries'[e0].live,
                      \A k \in DOMAIN entries' : entries'[k].job = entries'[e0].job => entries'[k].sched = Every
               PROVE  dynamicEntries'[entries'[e0].job] = e0
    BY DEF RecurringIsTracked
  <2>1. e0 \in 1 .. Len(entries')
    BY DEF RestartStep
  <2> QED
    BY <2>1 DEF RestartStep
<1>2. TrackedIsLive'
  <2> SUFFICES ASSUME NEW i \in Jobs, dynamicEntries'[i] # 0
               PROVE  \/ entries'[dynamicEntries'[i]].live
                      \/ \E g \in Firings : fire'[g].pc = "forget" /\ fire'[g].entry = dynamicEntries'[i]
    BY DEF TrackedIsLive
  <2>1. dynamicEntries'[i] \in 1 .. Len(entries')
    BY DEF RestartStep
  <2>2. PICK k \in 1 .. Len(entries') : k = dynamicEntries'[i]
    BY <2>1
  <2>3. PICK x, y : entries'[k] = NewEntry(x, y)
    BY DEF RestartStep
  <2>4. entries'[k].live
    BY <2>3 DEF NewEntry
  <2> QED
    BY <2>2, <2>4
<1>3. ForgetsOneShot'
  <2>1. \A g \in Firings : fire'[g].pc = "idle"
    BY DEF RestartStep, SameFiring, RefersToSomething, DownIsEmpty
  <2> QED
    BY <2>1 DEF ForgetsOneShot
<1> QED
  BY <1>1, <1>2, <1>3

\* Shutdown, time and a stutter keep dynamicEntries and the entries in agreement.
LEMMA QuietSchedules ==
    ASSUME CronInv, CronInv', ScheduleInv,
           PhaseStep \/ TimeStep \/ (SameStore /\ SameCron /\ SameProcess /\ SameManager /\ SameFiring)
    PROVE  ScheduleInv'
<1> USE EntriesAre DEF ScheduleInv, CronInv
<1>1. RecurringIsTracked'
  BY DEF RecurringIsTracked, PhaseStep, TimeStep, SameStore, SameCron, SameProcess, SameManager, SameFiring
<1>2. TrackedIsLive'
  BY DEF TrackedIsLive, RefersToSomething, TrackingRefers, PhaseStep, TimeStep, SameStore, SameCron,
     SameProcess, SameManager, SameFiring
<1>3. ForgetsOneShot'
  BY DEF ForgetsOneShot, OneShot, RefersToSomething, FiringRefers, PhaseStep, TimeStep, SameStore, SameCron,
     SameProcess, SameManager, SameFiring
<1> QED
  BY <1>1, <1>2, <1>3

\* Every step keeps dynamicEntries and the entries in agreement.
LEMMA SchedulesKept ==
    ASSUME CronInv, CronInv', ScheduleInv, Steps PROVE ScheduleInv'
BY CreateSchedules, UpdateGetSchedules, DeleteSchedules, UpdateSaveSchedules, UnscheduleSchedules,
   ScheduleSchedules, DeleteStoreSchedules, GoesOnSchedules, HandleSchedules, SaveRunSchedules, SaveSchedules,
   FinishSchedules, ForgetSchedules, FiredSchedules, CrashSchedules, RestartSchedules, QuietSchedules DEF Steps

-----------------------------------------------------------------------------
(* The theorems on the store and on the schedule *)

\* What the process starts on.
LEMMA FirstState ==
    ASSUME CronInit PROVE DeletesWhatIsAsked /\ CreatedIsStored /\ RunsInv /\ ScheduleInv
<1>1. call.pc = "idle" /\ entries = <<>> /\ phase = "down" /\ \A f \in Firings : fire[f].pc = "idle"
  BY DEF CronInit, Idle, Resting
<1>2. jobs = diskJobs /\ \A j \in Jobs : /\ diskRuns[j] = 0 /\ dynamicEntries[j] = 0
                                         /\ "created" \in asked[j] => jobs[j] # NoJob
                                         /\ diskJobs[j] # NoJob => diskJobs[j].count = 0
  BY DEF CronInit, NewJob
<1>3. DeletesWhatIsAsked /\ CreatedIsStored
  BY <1>1, <1>2 DEF DeletesWhatIsAsked, CreatedIsStored, Creating
<1>4. RunsInv
  BY <1>1, <1>2 DEF RunsInv, MapsAreFiles, FileCovered, CallCovered, FiringCovered, Covered
<1>5. ScheduleInv
  BY <1>1, <1>2 DEF ScheduleInv, RecurringIsTracked, TrackedIsLive, ForgetsOneShot
<1> QED
  BY <1>3, <1>4, <1>5

\* Types, references, counts, stored jobs, logs and the schedule, together.
JobsInv == CronInv /\ CountedRuns /\ DeletesWhatIsAsked /\ CreatedIsStored /\ RunsInv /\ ScheduleInv

\* Scheduled jobs keep their invariant: calls, firings and dynamicEntries refer to jobs and
\* entries that exist, no copy counts more runs than were fired, what was created is stored,
\* counted runs are logged, and dynamicEntries and cron's entries agree.
THEOREM CronInvariant == CronSpec => []JobsInv
<1>1. CronInit => JobsInv
  BY CronInvInit, CountedInit, FirstState DEF JobsInv
<1>2. ASSUME JobsInv, [CronNext]_cronVars PROVE JobsInv'
  <2>1. CronInv /\ Steps
    BY <1>2, StepsAre DEF JobsInv
  <2>2. CronInv'
    BY <2>1, CronInvKept
  <2>3. CountedRuns' /\ DeletesWhatIsAsked' /\ CreatedIsStored' /\ RunsInv' /\ ScheduleInv'
    BY <1>2, <2>1, <2>2, CountedKept, DeletesKept, StoredKept, CoversKept, SchedulesKept DEF JobsInv
  <2> QED
    BY <2>2, <2>3 DEF JobsInv
<1> QED
  BY <1>1, <1>2, PTL DEF CronSpec

\* A job that was counted within the bound is one that may be stored.
LEMMA CountedIsStored ==
    ASSUME CronInv, CountedRuns, NEW job \in Copies, Counted(job, Cardinality(Owing), fires)
    PROVE  job \in Stored
<1>1. Cardinality(Owing) \in Nat /\ fires \in Nat /\ fires <= MaxFires /\ MaxFires \in Nat
  BY FS_CardinalityType, CronBounds DEF CountedRuns, CronInv, JobsTypeOK
<1>2. CASE job = NoJob
  BY <1>2 DEF Stored
<1>3. CASE job # NoJob
  <2>1. job \in AJob
    BY <1>3, JobNotNone
  <2>2. job.count \in Nat /\ job.count + Cardinality(Owing) <= fires
    BY <1>3, <2>1 DEF Counted, AJob
  <2>3. job.count \in 0 .. MaxFires
    BY <1>1, <2>2
  <2> QED
    BY <2>1, <2>3 DEF Stored, AJob
<1> QED
  BY <1>2, <1>3

\* What jobs.json and runs.json hold is what callers were told: jobs whose Create
\* succeeded are there until somebody asks for their Delete, and runs.json has the runs
\* that jobs.json counts, as long as no write failed.
THEOREM StoreIsTrueHolds == CronSpec => []StoreIsTrue
<1>1. ASSUME JobsInv PROVE StoreIsTrue
  <2> USE <1>1 DEF JobsInv
  <2>1. \A j \in Jobs : jobs[j] \in Stored /\ diskJobs[j] \in Stored
    BY CountedIsStored DEF CountedRuns, CronInv, JobsTypeOK
  <2>2. call.copy \in Stored /\ \A f \in Firings : fire[f].copy \in Stored
    BY CountedIsStored DEF CountedRuns, CronInv, JobsTypeOK, CallLocals, FireLocals
  <2>3. {jobs, diskJobs} \subseteq [Jobs -> Stored]
    BY <2>1 DEF CronInv, JobsTypeOK
  <2>4. {runs, diskRuns} \subseteq [Jobs -> 0 .. maxRunsPerJob]
    BY DEF CronInv, JobsTypeOK
  <2>5. entries \in Seq(Entries) /\ Len(entries) \in Nat /\ DOMAIN entries = 1 .. Len(entries)
    BY EntriesAre
  <2>6. \A k \in DOMAIN entries : entries[k] \in [job : Jobs, sched : Schedules, live : BOOLEAN, armed : BOOLEAN]
    <3>1. \A k \in DOMAIN entries : entries[k] \in Entries
      BY <2>5
    <3> QED
      BY <3>1 DEF Entries
  <2>7. dynamicEntries \in [Jobs -> 0 .. Len(entries)]
    <3>1. \A j \in Jobs : dynamicEntries[j] \in 0 .. Len(entries)
      BY <2>5 DEF CronInv, RefersToSomething, TrackingRefers
    <3> QED
      BY <3>1 DEF CronInv, JobsTypeOK
  <2>8. \A f \in Firings : fire[f].entry \in 0 .. Len(entries)
    BY <2>5 DEF CronInv, RefersToSomething, FiringRefers
  <2>9. phase \in {"up", "stopping", "stopped", "down"} /\ passed \subseteq AtTimes
    BY DEF CronInv, JobsTypeOK
  <2>10. CronTypeOK
    BY <2>2, <2>3, <2>4, <2>6, <2>7, <2>8, <2>9 DEF CronTypeOK
  <2>11. CreatedSurvives
    BY DEF CreatedIsStored, CreatedSurvives
  <2>12. RunsCoverCount
    BY DEF RunsInv, FileCovered, Covered, Kept, RunsCoverCount
  <2> QED
    BY <2>10, <2>11, <2>12 DEF StoreIsTrue
<1> QED
  BY <1>1, CronInvariant, PTL

\* A recurring job's live entry is the one that dynamicEntries names, and the names of
\* entries that cron dropped are about to be deleted.
THEOREM ScheduleIsTrueHolds == CronSpec => []ScheduleIsTrue
<1>1. JobsInv => ScheduleIsTrue
  BY DEF JobsInv, ScheduleInv, ScheduleIsTrue
<1> QED
  BY <1>1, CronInvariant, PTL

-----------------------------------------------------------------------------
(* One schedule, one firing *)

\* What the entries are, and which of them the firings have.
LEMMA EntryTypes ==
    ASSUME CronInv
    PROVE  /\ Len(entries) \in Nat /\ DOMAIN entries = 1 .. Len(entries)
           /\ \A k \in 1 .. Len(entries) : entries[k].job \in Jobs /\ entries[k].sched \in Schedules
           /\ \A f \in Firings : /\ fire[f].pc # "idle" => fire[f].entry \in 1 .. Len(entries) /\ JobOf(f) \in Jobs
                                 /\ fire[f].pc = "idle" => fire[f].entry = 0
           /\ asked \in [Jobs -> SUBSET Ops]
<1>1. entries \in Seq(Entries) /\ Len(entries) \in Nat /\ DOMAIN entries = 1 .. Len(entries)
  BY EntriesAre
<1>2. \A k \in 1 .. Len(entries) : entries[k] \in Entries
  BY <1>1
<1>3. \A k \in 1 .. Len(entries) : entries[k].job \in Jobs /\ entries[k].sched \in Schedules
  BY <1>2 DEF Entries
<1>4. \A f \in Firings : fire[f].pc # "idle" => fire[f].entry \in 1 .. Len(entries)
  BY DEF CronInv, RefersToSomething, FiringRefers
<1> QED
  BY <1>1, <1>3, <1>4 DEF CronInv, RefersToSomething, FiringRefers, JobOf, JobsTypeOK

\* A save keeps the schedules, if it saves a job with the schedule that it had.
LEMMA StoresHas ==
    ASSUME NEW j \in Jobs, NEW job \in AJob, NEW ok \in BOOLEAN, Stores(j, job, ok), NEW i \in Jobs
    PROVE  /\ i # j /\ jobs[i] = NoJob /\ diskJobs[i] = NoJob => jobs'[i] = NoJob /\ diskJobs'[i] = NoJob
           /\ \A s \in Schedules : Has(i, s) /\ (i = j => job.sched = s) => Has(i, s)'
<1>1. jobs'[i] = IF i = j THEN job ELSE jobs[i]
  BY DEF Stores
<1>2. diskJobs' = jobs' \/ diskJobs' = diskJobs
  BY DEF Stores
<1> QED
  BY <1>1, <1>2 DEF Has

\* So does what FileStore.Delete leaves.
LEMMA ForgetsHas ==
    ASSUME NEW j \in Jobs, NEW files \in 0 .. 2, Forgets(j, files), NEW i \in Jobs
    PROVE  /\ jobs[i] = NoJob /\ diskJobs[i] = NoJob => jobs'[i] = NoJob /\ diskJobs'[i] = NoJob
           /\ \A s \in Schedules : Has(i, s) => Has(i, s)'
<1>1. jobs'[i] = IF i = j THEN NoJob ELSE jobs[i]
  BY DEF Forgets
<1>2. diskJobs' = jobs' \/ diskJobs' = diskJobs
  BY DEF Forgets
<1> QED
  BY <1>1, <1>2 DEF Has

\* And a restart.
LEMMA RestartHas ==
    ASSUME CronInv, RestartStep, NEW i \in Jobs
    PROVE  /\ diskJobs[i] = NoJob => jobs'[i] = NoJob /\ diskJobs'[i] = NoJob
           /\ \A s \in Schedules : Has(i, s) => Has(i, s)'
           /\ \A s \in Schedules : jobs'[i] # NoJob /\ jobs'[i].sched = s => Has(i, s)'
<1>1. diskJobs[i] \in Copies /\ jobs'[i] = Loaded(diskJobs[i]) /\ jobs'[i] \in Copies
  BY DEF CronInv, JobsTypeOK, RestartStep
<1>2. diskJobs' = jobs' \/ diskJobs' = diskJobs
  BY DEF RestartStep
<1>3. /\ jobs'[i] = NoJob <=> diskJobs[i] = NoJob
      /\ diskJobs[i] # NoJob => jobs'[i].sched = diskJobs[i].sched
  BY <1>1, LoadedJob
<1>4. diskJobs'[i] = jobs'[i] \/ diskJobs'[i] = diskJobs[i]
  BY <1>2
<1> QED
  BY <1>3, <1>4 DEF Has

Early == {"start", "get", "handle"}

\* A step that fires and handles nothing, and keeps the entries' jobs and schedules.
Frame ==
    /\ DOMAIN entries' = DOMAIN entries
    /\ \A k \in DOMAIN entries : SameEntry(k) /\ (entries'[k].armed => entries[k].armed)
    /\ \A g \in Firings, k \in DOMAIN entries : fire'[g].entry = k =>
          fire[g].entry = k /\ (fire'[g].pc \in Early => fire[g].pc \in Early)
    /\ handled' = handled /\ passed \subseteq passed' /\ \A j \in Jobs : Fixed(j)' => Fixed(j)

\* A step that leaves entries, firings and the handler alone keeps what is known of a one-shot job.
LEMMA FrameKeeps ==
    ASSUME CronInv, OneOfIt, FiredOnce, HandledOnce, HandledPassed, Frame
    PROVE  OneOfIt' /\ FiredOnce' /\ HandledOnce' /\ HandledPassed'
<1> USE EntryTypes DEF Frame, SameEntry
<1>1. OneOfIt'
  BY DEF OneOfIt, Fixed
<1>2. FiredOnce'
  BY DEF FiredOnce
<1>3. HandledOnce'
  <2> SUFFICES ASSUME NEW k \in DOMAIN entries, entries'[k].sched # Every, Fixed(entries[k].job)',
                      <<entries[k].job, entries[k].sched>> \in handled
               PROVE  /\ ~entries'[k].armed
                      /\ \A f \in Firings : fire'[f].entry = k => fire'[f].pc \notin Early
    BY DEF HandledOnce, Early, Fixed
  <2>1. Fixed(entries[k].job)
    OBVIOUS
  <2> QED
    BY <2>1 DEF HandledOnce, Early
<1>4. HandledPassed'
  BY DEF HandledPassed
<1> QED
  BY <1>1, <1>2, <1>3, <1>4

\* Every kind of step leaves the jobs that were not patched their schedule, and their
\* one-shot entries their one firing.
LEMMA CreateKeepsOnce ==
    ASSUME CronInv, CronInv', OnceInv, NEW j \in Jobs, NEW s \in Schedules, CreateStep(j, s) PROVE OnceInv'
<1> USE EntryTypes DEF OnceInv, ScheduleOf
<1>0. Frame
  BY DEF Frame, Fixed, SameEntry, Early, CreateStep, Asks, Stores, Calls, SameCron, SameProcess, SameFiring
<1>a. PICK ok \in BOOLEAN : Stores(j, NewJob(s), ok)
  BY DEF CreateStep
<1>b. jobs[j] = NoJob /\ diskJobs[j] = NoJob /\ NewJob(s) \in AJob /\ NewJob(s).sched = s
  BY JobNotNone DEF CreateStep, UnknownAbsent, NewJob
<1>c. \A i \in Jobs : Fixed(i)' => Fixed(i)
  BY DEF CreateStep, Asks, Fixed
<1>1. UnknownAbsent'
  <2> SUFFICES ASSUME NEW i \in Jobs, asked'[i] = {} PROVE jobs'[i] = NoJob /\ diskJobs'[i] = NoJob
    BY DEF UnknownAbsent
  <2>1. i # j /\ asked[i] = {}
    BY DEF CreateStep, Asks
  <2> QED
    BY <1>a, <1>b, <2>1, StoresHas DEF UnknownAbsent
<1>2. OneOfIt'
  BY <1>0, FrameKeeps
<1>3. NoneYet'
  BY DEF NoneYet, Fixed, CreateStep, Asks, Stores, Calls, SameCron, SameProcess, SameFiring
<1>4. NotPatched'
  BY DEF NotPatched, Fixed, CreateStep, Asks, Stores, Calls, SameCron, SameProcess, SameFiring
<1>5. FileSchedule'
  <2> SUFFICES ASSUME NEW i \in Jobs, Fixed(i)' PROVE \E x \in Schedules : Has(i, x)'
    BY DEF FileSchedule
  <2>1. CASE i = j
    BY <1>a, <1>b, <2>1, StoresHas DEF Has
  <2>2. CASE i # j
    BY <1>a, <1>b, <1>c, <2>2, StoresHas DEF FileSchedule
  <2> QED
    BY <2>1, <2>2
<1>6. EntrySchedule'
  <2> SUFFICES ASSUME NEW k \in DOMAIN entries', NEW i \in Jobs, NEW s0, Fixed(i)', entries'[k].job = i,
                      entries'[k].sched = s0
               PROVE  Has(i, s0)'
    BY DEF EntrySchedule, Has
  <2>1. entries' = entries /\ Fixed(i) /\ i # j
    BY <1>c DEF CreateStep, SameCron, NoneYet, Fixed
  <2>2. Has(i, entries[k].sched) /\ entries[k].sched \in Schedules
    BY <2>1 DEF EntrySchedule
  <2> QED
    BY <1>a, <1>b, <2>1, <2>2, StoresHas
<1>7. CopySchedule'
  BY DEF CopySchedule, Fixed, JobOf, CreateStep, Asks, Stores, Calls, SameCron, SameProcess, SameFiring
<1>8. CallSchedule'
  <2> SUFFICES ASSUME NEW i \in Jobs, NEW s0, Fixed(i)', call'.pc = "schedule", call'.job = i,
                      call'.copy.sched = s0
               PROVE  Has(i, s0)'
    BY DEF CallSchedule, Has
  <2>1. i = j /\ call'.copy = NewJob(s)
    BY DEF CreateStep, Calls, Asks
  <2>2. Has(j, s)
    BY <1>b DEF Has
  <2> QED
    BY <1>a, <1>b, <2>1, <2>2, StoresHas
<1>9. FiredOnce'
  BY <1>0, FrameKeeps
<1>10. HandledOnce'
  BY <1>0, FrameKeeps
<1>11. HandledPassed'
  BY <1>0, FrameKeeps
<1> QED
  BY <1>1, <1>2, <1>3, <1>4, <1>5, <1>6, <1>7, <1>8, <1>9, <1>10, <1>11

\* The reading step of Update keeps one schedule and one firing of a one-shot job.
LEMMA UpdateGetKeepsOnce ==
    ASSUME CronInv, CronInv', OnceInv, NEW j \in Jobs, UpdateGetStep(j) PROVE OnceInv'
<1> USE EntryTypes DEF OnceInv, ScheduleOf
<1>0. Frame
  BY DEF Frame, Fixed, SameEntry, Early, UpdateGetStep, Asks, Calls, SameStore, SameCron, SameProcess, SameFiring
<1>1. UnknownAbsent'
  BY DEF UnknownAbsent, Fixed, UpdateGetStep, Asks, Calls, SameStore, SameCron, SameProcess, SameFiring
<1>2. OneOfIt'
  BY <1>0, FrameKeeps
<1>3. NoneYet'
  BY DEF NoneYet, Fixed, UpdateGetStep, Asks, Calls, SameStore, SameCron, SameProcess, SameFiring
<1>4. NotPatched'
  BY DEF NotPatched, Fixed, UpdateGetStep, Asks, Calls, SameStore, SameCron, SameProcess, SameFiring
<1>5. FileSchedule'
  BY DEF FileSchedule, Fixed, Has, UpdateGetStep, Asks, Calls, SameStore, SameCron, SameProcess, SameFiring
<1>6. EntrySchedule'
  BY DEF EntrySchedule, Fixed, Has, UpdateGetStep, Asks, Calls, SameStore, SameCron, SameProcess, SameFiring
<1>7. CopySchedule'
  BY DEF CopySchedule, Fixed, JobOf, UpdateGetStep, Asks, Calls, SameStore, SameCron, SameProcess, SameFiring
<1>8. CallSchedule'
  BY DEF CallSchedule, Fixed, Has, UpdateGetStep, Asks, Calls, SameStore, SameCron, SameProcess, SameFiring
<1>9. FiredOnce'
  BY <1>0, FrameKeeps
<1>10. HandledOnce'
  BY <1>0, FrameKeeps
<1>11. HandledPassed'
  BY <1>0, FrameKeeps
<1> QED
  BY <1>1, <1>2, <1>3, <1>4, <1>5, <1>6, <1>7, <1>8, <1>9, <1>10, <1>11

\* The first step of Delete keeps one schedule and one firing of a one-shot job.
LEMMA DeleteKeepsOnce ==
    ASSUME CronInv, CronInv', OnceInv, NEW j \in Jobs, DeleteStep(j) PROVE OnceInv'
<1> USE EntryTypes DEF OnceInv, ScheduleOf
<1>0. Frame
  BY DEF Frame, Fixed, SameEntry, Early, DeleteStep, Asks, Calls, SameStore, SameCron, SameProcess, SameFiring
<1>1. UnknownAbsent'
  BY DEF UnknownAbsent, Fixed, DeleteStep, Asks, Calls, SameStore, SameCron, SameProcess, SameFiring
<1>2. OneOfIt'
  BY <1>0, FrameKeeps
<1>3. NoneYet'
  BY DEF NoneYet, Fixed, DeleteStep, Asks, Calls, SameStore, SameCron, SameProcess, SameFiring
<1>4. NotPatched'
  BY DEF NotPatched, Fixed, DeleteStep, Asks, Calls, SameStore, SameCron, SameProcess, SameFiring
<1>5. FileSchedule'
  BY DEF FileSchedule, Fixed, Has, DeleteStep, Asks, Calls, SameStore, SameCron, SameProcess, SameFiring
<1>6. EntrySchedule'
  BY DEF EntrySchedule, Fixed, Has, DeleteStep, Asks, Calls, SameStore, SameCron, SameProcess, SameFiring
<1>7. CopySchedule'
  BY DEF CopySchedule, Fixed, JobOf, DeleteStep, Asks, Calls, SameStore, SameCron, SameProcess, SameFiring
<1>8. CallSchedule'
  BY DEF CallSchedule, Fixed, Has, DeleteStep, Asks, Calls, SameStore, SameCron, SameProcess, SameFiring
<1>9. FiredOnce'
  BY <1>0, FrameKeeps
<1>10. HandledOnce'
  BY <1>0, FrameKeeps
<1>11. HandledPassed'
  BY <1>0, FrameKeeps
<1> QED
  BY <1>1, <1>2, <1>3, <1>4, <1>5, <1>6, <1>7, <1>8, <1>9, <1>10, <1>11

\* The saving step of Update keeps one schedule and one firing of a one-shot job.
LEMMA UpdateSaveKeepsOnce ==
    ASSUME CronInv, CronInv', OnceInv, UpdateSaveStep PROVE OnceInv'
<1> USE EntryTypes DEF OnceInv, ScheduleOf
<1>0. Frame
  BY DEF Frame, Fixed, SameEntry, Early, UpdateSaveStep, Calling, Stores, Calls, SameCron, SameProcess, SameFiring
<1>a. PICK ok \in BOOLEAN : Stores(call.job, call.copy, ok)
  BY DEF UpdateSaveStep
<1>b. call.job \in Jobs /\ call.copy \in AJob /\ ~Fixed(call.job) /\ asked' = asked /\ entries' = entries
  BY DEF UpdateSaveStep, Calling, NotPatched, SameCron
<1>1. UnknownAbsent'
  <2> SUFFICES ASSUME NEW i \in Jobs, asked'[i] = {} PROVE jobs'[i] = NoJob /\ diskJobs'[i] = NoJob
    BY DEF UnknownAbsent
  <2>1. i # call.job /\ asked[i] = {}
    BY <1>b DEF Fixed
  <2> QED
    BY <1>a, <1>b, <2>1, StoresHas DEF UnknownAbsent
<1>2. OneOfIt'
  BY <1>0, FrameKeeps
<1>3. NoneYet'
  BY DEF NoneYet, Fixed, UpdateSaveStep, Calling, Stores, Calls, SameCron, SameProcess, SameFiring
<1>4. NotPatched'
  BY DEF NotPatched, Fixed, UpdateSaveStep, Calling, Stores, Calls, SameCron, SameProcess, SameFiring
<1>5. FileSchedule'
  <2> SUFFICES ASSUME NEW i \in Jobs, Fixed(i)' PROVE \E x \in Schedules : Has(i, x)'
    BY DEF FileSchedule
  <2>1. i # call.job /\ Fixed(i)
    BY <1>b DEF Fixed
  <2> QED
    BY <1>a, <1>b, <2>1, StoresHas DEF FileSchedule
<1>6. EntrySchedule'
  <2> SUFFICES ASSUME NEW k \in DOMAIN entries', NEW i \in Jobs, NEW s0, Fixed(i)', entries'[k].job = i,
                      entries'[k].sched = s0
               PROVE  Has(i, s0)'
    BY DEF EntrySchedule, Has
  <2>1. i # call.job /\ Fixed(i)
    BY <1>b DEF Fixed
  <2>2. Has(i, entries[k].sched) /\ entries[k].sched \in Schedules
    BY <1>b, <2>1 DEF EntrySchedule
  <2> QED
    BY <1>a, <1>b, <2>1, <2>2, StoresHas
<1>7. CopySchedule'
  BY DEF CopySchedule, Fixed, JobOf, UpdateSaveStep, Calling, Stores, Calls, SameCron, SameProcess, SameFiring
<1>8. CallSchedule'
  <2>1. call'.pc # "schedule"
    BY DEF UpdateSaveStep, Calls
  <2> QED
    BY <2>1 DEF CallSchedule
<1>9. FiredOnce'
  BY <1>0, FrameKeeps
<1>10. HandledOnce'
  BY <1>0, FrameKeeps
<1>11. HandledPassed'
  BY <1>0, FrameKeeps
<1> QED
  BY <1>1, <1>2, <1>3, <1>4, <1>5, <1>6, <1>7, <1>8, <1>9, <1>10, <1>11

\* The step of Update or Delete that takes the entry away keeps one schedule and one firing of a one-shot job.
LEMMA UnscheduleKeepsOnce ==
    ASSUME CronInv, CronInv', OnceInv, UnscheduleStep PROVE OnceInv'
<1> USE EntryTypes DEF OnceInv, ScheduleOf
<1>0. Frame
  BY DEF Frame, Fixed, SameEntry, Early, UnscheduleStep, Calling, Removes, Calls, SameStore, SameProcess,
     SameFiring
<1>a. call'.pc = "schedule" => call'.job = call.job /\ ~Fixed(call.job)
  BY DEF UnscheduleStep, Calls, Calling, NotPatched
<1>b. asked' = asked /\ \A i \in Jobs : Fixed(i)' => Fixed(i)
  BY DEF UnscheduleStep, Fixed
<1>1. UnknownAbsent'
  BY DEF UnknownAbsent, Fixed, UnscheduleStep, Calling, Removes, SameEntry, Calls, SameStore, SameProcess,
     SameFiring
<1>2. OneOfIt'
  BY <1>0, FrameKeeps
<1>3. NoneYet'
  <2> SUFFICES ASSUME NEW k \in DOMAIN entries, Fixed(entries[k].job)
               PROVE  asked[entries[k].job] # {} /\ ~(call'.pc = "schedule" /\ call'.job = entries[k].job)
    BY <1>0, <1>b DEF NoneYet, Frame, SameEntry
  <2> QED
    BY <1>a DEF NoneYet
<1>4. NotPatched'
  BY DEF NotPatched, Fixed, UnscheduleStep, Calling, Removes, SameEntry, Calls, SameStore, SameProcess, SameFiring
<1>5. FileSchedule'
  BY DEF FileSchedule, Fixed, Has, UnscheduleStep, Calling, Removes, SameEntry, Calls, SameStore, SameProcess,
     SameFiring
<1>6. EntrySchedule'
  BY DEF EntrySchedule, Fixed, Has, UnscheduleStep, Calling, Removes, SameEntry, Calls, SameStore, SameProcess,
     SameFiring
<1>7. CopySchedule'
  BY DEF CopySchedule, Fixed, JobOf, UnscheduleStep, Calling, Removes, SameEntry, Calls, SameStore,
     SameProcess, SameFiring
<1>8. CallSchedule'
  BY <1>a, <1>b DEF CallSchedule
<1>9. FiredOnce'
  BY <1>0, FrameKeeps
<1>10. HandledOnce'
  BY <1>0, FrameKeeps
<1>11. HandledPassed'
  BY <1>0, FrameKeeps
<1> QED
  BY <1>1, <1>2, <1>3, <1>4, <1>5, <1>6, <1>7, <1>8, <1>9, <1>10, <1>11

\* The step of Create or Update that schedules the job keeps one schedule and one firing of a one-shot job.
LEMMA ScheduleKeepsOnce ==
    ASSUME CronInv, CronInv', OnceInv, ScheduleStep PROVE OnceInv'
<1> USE EntryTypes DEF OnceInv, ScheduleOf
<1>a. /\ call.job \in Jobs /\ call.copy \in AJob /\ call.pc = "schedule" /\ call'.pc = "idle" /\ call'.op = "none"
      /\ DOMAIN entries' = 1 .. Len(entries) + 1 /\ \A k \in 1 .. Len(entries) : entries'[k] = entries[k]
      /\ entries'[Len(entries) + 1] = NewEntry(call.job, call.copy.sched)
  BY DEF ScheduleStep, Calling, Adds, Calls
<1>b. SameStore /\ fire' = fire /\ handled' = handled /\ passed' = passed
  BY DEF ScheduleStep, SameFiring, SameProcess
<1>c. \A i \in Jobs : (Fixed(i)' => Fixed(i)) /\ ("update" \notin asked'[i] => Fixed(i)) /\ asked[i] \subseteq asked'[i]
  BY <1>a DEF ScheduleStep, Fixed
<1>d. call.copy.sched \in Schedules
  BY <1>a DEF AJob
<1> DEFINE n == Len(entries) + 1
           x == entries'[n]
<1>e. x.job = call.job /\ x.sched = call.copy.sched /\ x.armed = Armed(call.copy.sched)
  BY <1>a DEF NewEntry
<1>f. n \notin 1 .. Len(entries) /\ DOMAIN entries' = (1 .. Len(entries)) \cup {n} /\ \A g \in Firings : fire[g].entry # n
  BY <1>a
<1>h. Fixed(call.job) => asked[call.job] # {}
  BY <1>a DEF NotPatched, ScheduleStep, Fixed, UnknownAbsent
<1> HIDE DEF n, x
<1>1. UnknownAbsent'
  BY DEF UnknownAbsent, Fixed, ScheduleStep, Calling, Adds, NewEntry, Calls, SameStore, SameProcess, SameFiring
<1>2. OneOfIt'
  <2> SUFFICES ASSUME NEW k \in DOMAIN entries', NEW m \in DOMAIN entries',
                      "update" \notin asked'[entries'[k].job],
                      entries'[k].job = entries'[m].job
               PROVE  k = m
    BY DEF OneOfIt, Fixed
  <2>1. CASE k = n /\ m # n
    BY <1>a, <1>c, <1>e, <1>f, <2>1 DEF NoneYet, x, Fixed
  <2>2. CASE k # n /\ m = n
    BY <1>a, <1>c, <1>e, <1>f, <2>2 DEF NoneYet, x, Fixed
  <2>3. CASE k # n /\ m # n
    <3>1. /\ k \in 1 .. Len(entries) /\ entries'[k] = entries[k] /\ entries[k].job \in Jobs
          /\ m \in 1 .. Len(entries) /\ entries'[m] = entries[m]
      BY <1>a, <1>f, <2>3
    <3>2. Fixed(entries[k].job)
      BY <1>c, <3>1
    <3> QED
      BY <3>1, <3>2 DEF OneOfIt
  <2> QED
    BY <2>1, <2>2, <2>3
<1>3. NoneYet'
  <2> SUFFICES ASSUME NEW k \in DOMAIN entries', "update" \notin asked'[entries'[k].job]
               PROVE  asked'[entries'[k].job] # {}
    BY <1>a DEF NoneYet, Fixed
  <2>1. CASE k = n
    BY <1>a, <1>c, <1>e, <1>h, <2>1 DEF x, Fixed
  <2>2. CASE k # n
    <3>1. k \in 1 .. Len(entries) /\ entries'[k] = entries[k] /\ entries[k].job \in Jobs
      BY <1>a, <1>f, <2>2
    <3> QED
      BY <1>c, <3>1 DEF NoneYet, Fixed
  <2> QED
    BY <2>1, <2>2
<1>4. NotPatched'
  BY DEF NotPatched, Fixed, ScheduleStep, Calling, Adds, NewEntry, Calls, SameStore, SameProcess, SameFiring
<1>5. FileSchedule'
  BY SMTT(30)
  DEF FileSchedule, Fixed, Has, ScheduleStep, Calling, Adds, NewEntry, Calls, SameStore, SameProcess,
      SameFiring
<1>6. EntrySchedule'
  <2> SUFFICES ASSUME NEW k \in DOMAIN entries', NEW i \in Jobs, NEW s0, Fixed(i)', entries'[k].job = i,
                      entries'[k].sched = s0
               PROVE  Has(i, s0)'
    BY DEF EntrySchedule, Has
  <2>1. CASE k = n
    BY <1>a, <1>b, <1>c, <1>e, <2>1 DEF CallSchedule, x, Has, SameStore
  <2>2. CASE k # n
    <3>1. k \in 1 .. Len(entries) /\ entries'[k] = entries[k] /\ Fixed(i)
      BY <1>a, <1>c, <1>f, <2>2
    <3>2. Has(i, s0)
      BY <3>1 DEF EntrySchedule
    <3> QED
      BY <1>b, <3>2 DEF Has, SameStore
  <2> QED
    BY <2>1, <2>2
<1>7. CopySchedule'
  <2> SUFFICES ASSUME NEW g \in Firings, fire[g].pc \in {"handle", "saveRun", "save"}, Fixed(JobOf(g))'
               PROVE  fire[g].copy.sched = entries'[fire[g].entry].sched
    BY <1>b DEF CopySchedule
  <2>1. fire[g].entry \in 1 .. Len(entries) /\ entries'[fire[g].entry] = entries[fire[g].entry] /\ JobOf(g) \in Jobs
    BY <1>a
  <2>2. JobOf(g)' = JobOf(g)
    BY <1>b, <2>1 DEF JobOf
  <2> QED
    BY <1>c, <2>1, <2>2 DEF CopySchedule, Fixed
<1>8. CallSchedule'
  BY DEF CallSchedule, Fixed, Has, ScheduleStep, Calling, Adds, NewEntry, Calls, SameStore, SameProcess, SameFiring
<1>9. FiredOnce'
  <2> SUFFICES ASSUME NEW k \in DOMAIN entries', entries'[k].sched # Every
               PROVE  /\ entries'[k].armed => \A g \in Firings : fire[g].entry # k
                      /\ \A g, h \in Firings : fire[g].entry = k /\ fire[h].entry = k => g = h
                      /\ \A g \in Firings : fire[g].entry = k => entries'[k].sched \in passed
    BY <1>b DEF FiredOnce
  <2>1. CASE k = n
    BY <1>f, <2>1
  <2>2. CASE k # n
    BY <1>a, <1>f, <2>2 DEF FiredOnce
  <2> QED
    BY <2>1, <2>2
<1>10. HandledOnce'
  <2> SUFFICES ASSUME NEW k \in DOMAIN entries', entries'[k].sched # Every,
                      "update" \notin asked'[entries'[k].job],
                      <<entries'[k].job, entries'[k].sched>> \in handled
               PROVE  /\ ~entries'[k].armed
                      /\ \A g \in Firings : fire[g].entry = k => fire[g].pc \notin {"start", "get", "handle"}
    BY <1>b DEF HandledOnce, Fixed
  <2>1. CASE k = n
    <3>1. call.copy.sched \in AtTimes /\ call.copy.sched # Every /\ Fixed(call.job)
      BY <1>a, <1>c, <1>d, <1>e, <2>1 DEF Schedules, x, Fixed
    <3>2. call.copy.sched \in passed
      BY <1>a, <1>e, <2>1, <3>1 DEF HandledPassed, x
    <3>3. ~x.armed
      BY <1>e, <2>1, <3>2 DEF Armed, x
    <3> QED
      BY <1>f, <2>1, <3>3 DEF x
  <2>2. CASE k # n
    <3>1. k \in 1 .. Len(entries) /\ entries'[k] = entries[k] /\ entries[k].job \in Jobs
      BY <1>a, <1>f, <2>2
    <3>2. Fixed(entries[k].job)
      BY <1>c, <3>1 DEF Fixed
    <3> QED
      BY <3>1, <3>2 DEF HandledOnce
  <2> QED
    BY <2>1, <2>2
<1>11. HandledPassed'
  BY DEF HandledPassed, Fixed, ScheduleStep, Calling, Adds, NewEntry, Calls, SameStore, SameProcess, SameFiring
<1> QED
  BY <1>1, <1>2, <1>3, <1>4, <1>5, <1>6, <1>7, <1>8, <1>9, <1>10, <1>11

\* The step of Delete that takes the job from the store keeps one schedule and one firing of a one-shot job.
LEMMA DeleteStoreKeepsOnce ==
    ASSUME CronInv, CronInv', OnceInv, DeleteStoreStep PROVE OnceInv'
<1> USE EntryTypes DEF OnceInv, ScheduleOf
<1>0. Frame
  BY DEF Frame, Fixed, SameEntry, Early, DeleteStoreStep, Calling, Forgets, Calls, SameStore, SameCron,
     SameProcess, SameFiring
<1>a. /\ \A i \in Jobs : jobs[i] = NoJob /\ diskJobs[i] = NoJob => jobs'[i] = NoJob /\ diskJobs'[i] = NoJob
      /\ \A i \in Jobs, s \in Schedules : Has(i, s) => Has(i, s)'
  BY ForgetsHas DEF DeleteStoreStep, Calling, SameStore, Has
<1>b. asked' = asked /\ entries' = entries /\ call'.pc = "idle"
  BY DEF DeleteStoreStep, SameCron, Calls
<1>1. UnknownAbsent'
  BY <1>a, <1>b DEF UnknownAbsent
<1>2. OneOfIt'
  BY <1>0, FrameKeeps
<1>3. NoneYet'
  BY DEF NoneYet, Fixed, DeleteStoreStep, Calling, Forgets, Calls, SameStore, SameCron, SameProcess, SameFiring
<1>4. NotPatched'
  BY DEF NotPatched, Fixed, DeleteStoreStep, Calling, Forgets, Calls, SameStore, SameCron, SameProcess, SameFiring
<1>5. FileSchedule'
  BY <1>a, <1>b DEF FileSchedule, Fixed
<1>6. EntrySchedule'
  BY <1>a, <1>b DEF EntrySchedule, Fixed
<1>7. CopySchedule'
  BY DEF CopySchedule, Fixed, JobOf, DeleteStoreStep, Calling, Forgets, Calls, SameStore, SameCron,
     SameProcess, SameFiring
<1>8. CallSchedule'
  BY <1>b DEF CallSchedule
<1>9. FiredOnce'
  BY <1>0, FrameKeeps
<1>10. HandledOnce'
  BY <1>0, FrameKeeps
<1>11. HandledPassed'
  BY <1>0, FrameKeeps
<1> QED
  BY <1>1, <1>2, <1>3, <1>4, <1>5, <1>6, <1>7, <1>8, <1>9, <1>10, <1>11

\* A firing that reads, skips or ends keeps one schedule and one firing of a one-shot job.
LEMMA GoesOnKeepsOnce ==
    ASSUME CronInv, CronInv', OnceInv, NEW f \in Firings, GoesOn(f) PROVE OnceInv'
<1> USE EntryTypes DEF OnceInv, ScheduleOf
<1>0. Frame
  BY DEF Frame, Fixed, SameEntry, Early, GoesOn, Firing, Moves, SameStore, SameCron, SameProcess, SameManager
<1>1. UnknownAbsent'
  BY DEF UnknownAbsent, Fixed, GoesOn, Firing, Moves, SameStore, SameCron, SameProcess, SameManager
<1>2. OneOfIt'
  BY <1>0, FrameKeeps
<1>3. NoneYet'
  BY DEF NoneYet, Fixed, GoesOn, Firing, Moves, SameStore, SameCron, SameProcess, SameManager
<1>4. NotPatched'
  BY DEF NotPatched, Fixed, GoesOn, Firing, Moves, SameStore, SameCron, SameProcess, SameManager
<1>5. FileSchedule'
  BY DEF FileSchedule, Fixed, Has, GoesOn, Firing, Moves, SameStore, SameCron, SameProcess, SameManager
<1>6. EntrySchedule'
  BY DEF EntrySchedule, Fixed, Has, GoesOn, Firing, Moves, SameStore, SameCron, SameProcess, SameManager
<1>7. CopySchedule'
  <2> SUFFICES ASSUME NEW g \in Firings, fire'[g].pc \in {"handle", "saveRun", "save"}, Fixed(JobOf(g))'
               PROVE  fire'[g].copy.sched = entries'[fire'[g].entry].sched
    BY DEF CopySchedule
  <2>1. entries' = entries /\ fire'[g].entry = fire[g].entry /\ JobOf(g)' = JobOf(g) /\ asked' = asked
    BY DEF GoesOn, SameCron, Moves, Firing, JobOf, SameManager
  <2>2. CASE g # f
    BY <2>1, <2>2 DEF GoesOn, Moves, CopySchedule, Fixed
  <2>3. CASE g = f
    <3>1. Firing(f, "get") /\ jobs[JobOf(f)] \in AJob /\ fire'[f].copy = jobs[JobOf(f)]
      BY <2>3 DEF GoesOn, Moves
    <3>2. /\ fire[f].entry \in DOMAIN entries /\ JobOf(f) \in Jobs /\ entries[fire[f].entry].job = JobOf(f)
          /\ Fixed(JobOf(f)) /\ jobs[JobOf(f)] # NoJob
      BY <2>1, <2>3, <3>1, JobNotNone DEF Firing, JobOf, Fixed
    <3> QED
      BY <2>1, <2>3, <3>1, <3>2 DEF EntrySchedule, Has
  <2> QED
    BY <2>2, <2>3
<1>8. CallSchedule'
  BY DEF CallSchedule, Fixed, Has, GoesOn, Firing, Moves, SameStore, SameCron, SameProcess, SameManager
<1>9. FiredOnce'
  BY <1>0, FrameKeeps
<1>10. HandledOnce'
  BY <1>0, FrameKeeps
<1>11. HandledPassed'
  BY <1>0, FrameKeeps
<1> QED
  BY <1>1, <1>2, <1>3, <1>4, <1>5, <1>6, <1>7, <1>8, <1>9, <1>10, <1>11

\* A firing that calls the handler keeps one schedule and one firing of a one-shot job.
LEMMA HandleKeepsOnce ==
    ASSUME CronInv, CronInv', OnceInv, NEW f \in Firings, HandleStep(f) PROVE OnceInv'
<1> USE EntryTypes DEF OnceInv, ScheduleOf
<1>a. /\ fire[f].entry \in 1 .. Len(entries) /\ JobOf(f) \in Jobs /\ entries[fire[f].entry].job = JobOf(f)
      /\ fire[f].pc = "handle" /\ fire[f].copy \in AJob
  BY DEF HandleStep, Firing, JobOf
<1>b. entries' = entries /\ passed' = passed /\ asked' = asked /\ handled' = handled \cup {<<JobOf(f), fire[f].copy.sched>>}
  BY DEF HandleStep, SameCron, SameProcess, SameManager
<1>c. fire'[f].entry = fire[f].entry /\ fire'[f].pc = "saveRun" /\ \A g \in Firings : g # f => fire'[g] = fire[g]
  BY DEF HandleStep, Moves
<1>d. Fixed(JobOf(f)) => fire[f].copy.sched = entries[fire[f].entry].sched
  BY <1>a DEF CopySchedule
<1>1. UnknownAbsent'
  BY DEF UnknownAbsent, Fixed, HandleStep, Firing, Moves, SameStore, SameCron, SameProcess, SameManager
<1>2. OneOfIt'
  BY DEF OneOfIt, Fixed, HandleStep, Firing, Moves, SameStore, SameCron, SameProcess, SameManager
<1>3. NoneYet'
  BY DEF NoneYet, Fixed, HandleStep, Firing, Moves, SameStore, SameCron, SameProcess, SameManager
<1>4. NotPatched'
  BY DEF NotPatched, Fixed, HandleStep, Firing, Moves, SameStore, SameCron, SameProcess, SameManager
<1>5. FileSchedule'
  BY DEF FileSchedule, Fixed, Has, HandleStep, Firing, Moves, SameStore, SameCron, SameProcess, SameManager
<1>6. EntrySchedule'
  BY DEF EntrySchedule, Fixed, Has, HandleStep, Firing, Moves, SameStore, SameCron, SameProcess, SameManager
<1>7. CopySchedule'
  BY DEF CopySchedule, Fixed, JobOf, HandleStep, Firing, Moves, SameStore, SameCron, SameProcess, SameManager
<1>8. CallSchedule'
  BY DEF CallSchedule, Fixed, Has, HandleStep, Firing, Moves, SameStore, SameCron, SameProcess, SameManager
<1>9. FiredOnce'
  BY DEF FiredOnce, Fixed, HandleStep, Firing, Moves, SameStore, SameCron, SameProcess, SameManager
<1>10. HandledOnce'
  <2> SUFFICES ASSUME NEW k \in DOMAIN entries, entries[k].sched # Every, Fixed(entries[k].job),
                      <<entries[k].job, entries[k].sched>> \in handled'
               PROVE  /\ ~entries[k].armed
                      /\ \A g \in Firings : fire'[g].entry = k => fire'[g].pc \notin {"start", "get", "handle"}
    BY <1>b DEF HandledOnce, Fixed
  <2>1. CASE <<entries[k].job, entries[k].sched>> \in handled
    BY <1>c, <2>1 DEF HandledOnce
  <2>2. CASE <<entries[k].job, entries[k].sched>> = <<JobOf(f), fire[f].copy.sched>>
    <3>1. k = fire[f].entry
      BY <1>a, <2>2 DEF OneOfIt
    <3>2. ~entries[k].armed /\ \A g \in Firings : fire[g].entry = k => g = f
      BY <3>1 DEF FiredOnce
    <3> QED
      BY <1>c, <3>1, <3>2
  <2> QED
    BY <1>b, <2>1, <2>2
<1>11. HandledPassed'
  <2> SUFFICES ASSUME NEW j \in Jobs, NEW s \in AtTimes, s # Every, Fixed(j), <<j, s>> \in handled'
               PROVE  s \in passed
    BY <1>b DEF HandledPassed, Fixed
  <2>1. CASE <<j, s>> \in handled
    BY <2>1 DEF HandledPassed
  <2>2. CASE <<j, s>> = <<JobOf(f), fire[f].copy.sched>>
    <3>1. s = entries[fire[f].entry].sched
      BY <1>d, <2>2
    <3> QED
      BY <1>a, <3>1 DEF FiredOnce
  <2> QED
    BY <1>b, <2>1, <2>2
<1> QED
  BY <1>1, <1>2, <1>3, <1>4, <1>5, <1>6, <1>7, <1>8, <1>9, <1>10, <1>11

\* A firing that logs its run keeps one schedule and one firing of a one-shot job.
LEMMA SaveRunKeepsOnce ==
    ASSUME CronInv, CronInv', OnceInv, NEW f \in Firings, SaveRunStep(f) PROVE OnceInv'
<1> USE EntryTypes DEF OnceInv, ScheduleOf
<1>0. Frame
  BY DEF Frame, Fixed, SameEntry, Early, SaveRunStep, Firing, Moves, Logs, SameCron, SameProcess, SameManager
<1>1. UnknownAbsent'
  BY DEF UnknownAbsent, Fixed, SaveRunStep, Firing, Moves, Logs, SameCron, SameProcess, SameManager
<1>2. OneOfIt'
  BY <1>0, FrameKeeps
<1>3. NoneYet'
  BY DEF NoneYet, Fixed, SaveRunStep, Firing, Moves, Logs, SameCron, SameProcess, SameManager
<1>4. NotPatched'
  BY DEF NotPatched, Fixed, SaveRunStep, Firing, Moves, Logs, SameCron, SameProcess, SameManager
<1>5. FileSchedule'
  BY DEF FileSchedule, Fixed, Has, SaveRunStep, Firing, Moves, Logs, SameCron, SameProcess, SameManager
<1>6. EntrySchedule'
  BY DEF EntrySchedule, Fixed, Has, SaveRunStep, Firing, Moves, Logs, SameCron, SameProcess, SameManager
<1>7. CopySchedule'
  BY SMTT(30), ZenonT(60) DEF CopySchedule, Fixed, JobOf, SaveRunStep, Firing, Moves, Logs, SameCron, SameProcess, SameManager
<1>8. CallSchedule'
  BY DEF CallSchedule, Fixed, Has, SaveRunStep, Firing, Moves, Logs, SameCron, SameProcess, SameManager
<1>9. FiredOnce'
  BY <1>0, FrameKeeps
<1>10. HandledOnce'
  BY <1>0, FrameKeeps
<1>11. HandledPassed'
  BY <1>0, FrameKeeps
<1> QED
  BY <1>1, <1>2, <1>3, <1>4, <1>5, <1>6, <1>7, <1>8, <1>9, <1>10, <1>11

\* A firing that saves the job keeps one schedule and one firing of a one-shot job.
LEMMA SaveKeepsOnce ==
    ASSUME CronInv, CronInv', OnceInv, NEW f \in Firings, SaveStep(f) PROVE OnceInv'
<1> USE EntryTypes DEF OnceInv, ScheduleOf
<1>0. Frame
  BY DEF Frame, Fixed, SameEntry, Early, SaveStep, Firing, Moves, Stores, SameCron, SameProcess, SameManager
<1>a. PICK ok \in BOOLEAN : Stores(JobOf(f), Bumped(fire[f].copy), ok)
  BY DEF SaveStep
<1>b. /\ JobOf(f) \in Jobs /\ fire[f].entry \in 1 .. Len(entries) /\ entries[fire[f].entry].job = JobOf(f)
      /\ fire[f].copy \in AJob /\ fire[f].pc = "save"
  BY DEF SaveStep, Firing, JobOf
<1>c. Bumped(fire[f].copy) \in AJob /\ Bumped(fire[f].copy).sched = fire[f].copy.sched
  BY <1>b, BumpedJob
<1>d. asked' = asked /\ entries' = entries /\ call' = call /\ \A i \in Jobs : Fixed(i)' => Fixed(i)
  BY DEF SaveStep, SameManager, SameCron, Fixed
<1>e. Fixed(JobOf(f)) => asked[JobOf(f)] # {} /\ fire[f].copy.sched = entries[fire[f].entry].sched
                         /\ ~(call.pc = "schedule" /\ call.job = JobOf(f))
  BY <1>b DEF NoneYet, CopySchedule
<1>f. fire[f].copy.sched \in Schedules
  BY <1>b DEF AJob
<1>1. UnknownAbsent'
  <2> SUFFICES ASSUME NEW i \in Jobs, asked'[i] = {} PROVE jobs'[i] = NoJob /\ diskJobs'[i] = NoJob
    BY DEF UnknownAbsent
  <2>1. i # JobOf(f) /\ asked[i] = {}
    BY <1>d, <1>e DEF Fixed
  <2> QED
    BY <1>a, <1>b, <1>c, <2>1, StoresHas DEF UnknownAbsent
<1>2. OneOfIt'
  BY <1>0, FrameKeeps
<1>3. NoneYet'
  BY DEF NoneYet, Fixed, SaveStep, Firing, Moves, Stores, SameCron, SameProcess, SameManager
<1>4. NotPatched'
  BY DEF NotPatched, Fixed, SaveStep, Firing, Moves, Stores, SameCron, SameProcess, SameManager
<1>5. FileSchedule'
  <2> SUFFICES ASSUME NEW i \in Jobs, Fixed(i)' PROVE \E x \in Schedules : Has(i, x)'
    BY DEF FileSchedule
  <2>1. CASE i # JobOf(f)
    BY <1>a, <1>b, <1>c, <1>d, <2>1, StoresHas DEF FileSchedule
  <2>2. CASE i = JobOf(f)
    <3>1. Has(i, fire[f].copy.sched)
      BY <1>b, <1>d, <1>e, <2>2 DEF EntrySchedule
    <3> QED
      BY <1>a, <1>b, <1>c, <1>f, <2>2, <3>1, StoresHas
  <2> QED
    BY <2>1, <2>2
<1>6. EntrySchedule'
  <2> SUFFICES ASSUME NEW k \in DOMAIN entries', NEW i \in Jobs, NEW s0, Fixed(i)', entries'[k].job = i,
                      entries'[k].sched = s0
               PROVE  Has(i, s0)'
    BY DEF EntrySchedule, Has
  <2>1. Has(i, entries[k].sched) /\ entries[k].sched \in Schedules /\ Fixed(i)
    BY <1>d DEF EntrySchedule
  <2>2. i = JobOf(f) => Bumped(fire[f].copy).sched = entries[k].sched
    BY <1>b, <1>c, <1>d, <1>e, <2>1 DEF OneOfIt
  <2> QED
    BY <1>a, <1>b, <1>c, <1>d, <2>1, <2>2, StoresHas
<1>7. CopySchedule'
  BY DEF CopySchedule, Fixed, JobOf, SaveStep, Firing, Moves, Stores, SameCron, SameProcess, SameManager
<1>8. CallSchedule'
  <2> SUFFICES ASSUME NEW i \in Jobs, NEW s0, Fixed(i)', call'.pc = "schedule", call'.job = i,
                      call'.copy.sched = s0
               PROVE  Has(i, s0)'
    BY DEF CallSchedule, Has
  <2>1. i # JobOf(f) /\ Has(i, call.copy.sched) /\ call.copy \in AJob
    BY <1>d, <1>e, CallingWhat DEF CallSchedule
  <2>2. call.copy.sched \in Schedules
    BY <2>1 DEF AJob
  <2> QED
    BY <1>a, <1>b, <1>c, <1>d, <2>1, <2>2, StoresHas
<1>9. FiredOnce'
  BY <1>0, FrameKeeps
<1>10. HandledOnce'
  BY <1>0, FrameKeeps
<1>11. HandledPassed'
  BY <1>0, FrameKeeps
<1> QED
  BY <1>1, <1>2, <1>3, <1>4, <1>5, <1>6, <1>7, <1>8, <1>9, <1>10, <1>11

\* A firing that takes its entry away keeps one schedule and one firing of a one-shot job.
LEMMA FinishKeepsOnce ==
    ASSUME CronInv, CronInv', OnceInv, NEW f \in Firings, FinishStep(f) PROVE OnceInv'
<1> USE EntryTypes DEF OnceInv, ScheduleOf
<1>0. Frame
  BY DEF Frame, Fixed, SameEntry, Early, FinishStep, Firing, Moves, Kills, SameStore, SameProcess, SameManager
<1>1. UnknownAbsent'
  BY DEF UnknownAbsent, Fixed, FinishStep, Firing, Moves, Kills, SameEntry, SameStore, SameProcess, SameManager
<1>2. OneOfIt'
  BY <1>0, FrameKeeps
<1>3. NoneYet'
  BY DEF NoneYet, Fixed, FinishStep, Firing, Moves, Kills, SameEntry, SameStore, SameProcess, SameManager
<1>4. NotPatched'
  BY DEF NotPatched, Fixed, FinishStep, Firing, Moves, Kills, SameEntry, SameStore, SameProcess, SameManager
<1>5. FileSchedule'
  BY DEF FileSchedule, Fixed, Has, FinishStep, Firing, Moves, Kills, SameEntry, SameStore, SameProcess, SameManager
<1>6. EntrySchedule'
  BY DEF EntrySchedule, Fixed, Has, FinishStep, Firing, Moves, Kills, SameEntry, SameStore, SameProcess,
     SameManager
<1>7. CopySchedule'
  BY DEF CopySchedule, Fixed, JobOf, FinishStep, Firing, Moves, Kills, SameEntry, SameStore, SameProcess,
     SameManager
<1>8. CallSchedule'
  BY DEF CallSchedule, Fixed, Has, FinishStep, Firing, Moves, Kills, SameEntry, SameStore, SameProcess, SameManager
<1>9. FiredOnce'
  BY <1>0, FrameKeeps
<1>10. HandledOnce'
  BY <1>0, FrameKeeps
<1>11. HandledPassed'
  BY <1>0, FrameKeeps
<1> QED
  BY <1>1, <1>2, <1>3, <1>4, <1>5, <1>6, <1>7, <1>8, <1>9, <1>10, <1>11

\* A firing that forgets its one-shot job keeps one schedule and one firing of a one-shot job.
LEMMA ForgetKeepsOnce ==
    ASSUME CronInv, CronInv', OnceInv, NEW f \in Firings, ForgetStep(f) PROVE OnceInv'
<1> USE EntryTypes DEF OnceInv, ScheduleOf
<1>0. Frame
  BY DEF Frame, Fixed, SameEntry, Early, ForgetStep, Firing, Moves, SameStore, SameProcess, SameManager
<1>1. UnknownAbsent'
  BY DEF UnknownAbsent, Fixed, ForgetStep, Firing, Moves, SameStore, SameProcess, SameManager
<1>2. OneOfIt'
  BY <1>0, FrameKeeps
<1>3. NoneYet'
  BY DEF NoneYet, Fixed, ForgetStep, Firing, Moves, SameStore, SameProcess, SameManager
<1>4. NotPatched'
  BY DEF NotPatched, Fixed, ForgetStep, Firing, Moves, SameStore, SameProcess, SameManager
<1>5. FileSchedule'
  BY DEF FileSchedule, Fixed, Has, ForgetStep, Firing, Moves, SameStore, SameProcess, SameManager
<1>6. EntrySchedule'
  BY DEF EntrySchedule, Fixed, Has, ForgetStep, Firing, Moves, SameStore, SameProcess, SameManager
<1>7. CopySchedule'
  BY DEF CopySchedule, Fixed, JobOf, ForgetStep, Firing, Moves, SameStore, SameProcess, SameManager
<1>8. CallSchedule'
  BY DEF CallSchedule, Fixed, Has, ForgetStep, Firing, Moves, SameStore, SameProcess, SameManager
<1>9. FiredOnce'
  BY <1>0, FrameKeeps
<1>10. HandledOnce'
  BY <1>0, FrameKeeps
<1>11. HandledPassed'
  BY <1>0, FrameKeeps
<1> QED
  BY <1>1, <1>2, <1>3, <1>4, <1>5, <1>6, <1>7, <1>8, <1>9, <1>10, <1>11

\* The start of a firing keeps one schedule and one firing of a one-shot job.
LEMMA FiredKeepsOnce ==
    ASSUME CronInv, CronInv', OnceInv, NEW f \in Firings, NEW e \in 1 .. Len(entries), FiredStep(f, e)
    PROVE  OnceInv'
<1> USE EntryTypes DEF OnceInv, ScheduleOf
<1>a. /\ (entries[e].sched = Every \/ entries[e].sched \in passed) /\ entries[e].armed
      /\ (entries'[e].armed => entries[e].sched = Every) /\ \A k \in 1 .. Len(entries) : k # e => entries'[k] = entries[k]
      /\ handled' = handled /\ passed' = passed /\ asked' = asked
  <2>1. handled' = handled /\ passed' = passed /\ asked' = asked
    BY DEF FiredStep, SameProcess, SameManager
  <2> QED
    BY <2>1 DEF FiredStep
<1>b. \A k \in 1 .. Len(entries) : entries'[k].job = entries[k].job /\ entries'[k].sched = entries[k].sched
  BY DEF FiredStep, SameEntry
<1>c. fire'[f].entry = e /\ \A g \in Firings : g # f => fire'[g] = fire[g]
  BY DEF FiredStep, Moves
<1>d. entries' \in Seq(Entries) /\ Len(entries') = Len(entries)
  BY DEF FiredStep
<1>e. DOMAIN entries' = DOMAIN entries
  BY <1>d
<1>1. UnknownAbsent'
  BY DEF UnknownAbsent, Fixed, FiredStep, Moves, SameEntry, SameStore, SameProcess, SameManager
<1>2. OneOfIt'
  BY SMTT(30) DEF OneOfIt, Fixed, FiredStep, Moves, SameEntry, SameStore, SameProcess, SameManager
<1>3. NoneYet'
  BY DEF NoneYet, Fixed, FiredStep, Moves, SameEntry, SameStore, SameProcess, SameManager
<1>4. NotPatched'
  BY DEF NotPatched, Fixed, FiredStep, Moves, SameEntry, SameStore, SameProcess, SameManager
<1>5. FileSchedule'
  BY DEF FileSchedule, Fixed, Has, FiredStep, Moves, SameEntry, SameStore, SameProcess, SameManager
<1>6. EntrySchedule'
  BY DEF EntrySchedule, Fixed, Has, FiredStep, Moves, SameEntry, SameStore, SameProcess, SameManager
<1>7. CopySchedule'
  BY SMTT(30) DEF CopySchedule, Fixed, JobOf, FiredStep, Moves, SameEntry, SameStore, SameProcess, SameManager
<1>8. CallSchedule'
  BY DEF CallSchedule, Fixed, Has, FiredStep, Moves, SameEntry, SameStore, SameProcess, SameManager
<1>9. FiredOnce'
  <2> SUFFICES ASSUME NEW k \in 1 .. Len(entries), entries[k].sched # Every
               PROVE  /\ entries'[k].armed => \A g \in Firings : fire'[g].entry # k
                      /\ \A g, h \in Firings : fire'[g].entry = k /\ fire'[h].entry = k => g = h
                      /\ \A g \in Firings : fire'[g].entry = k => entries[k].sched \in passed
    BY <1>a, <1>b, <1>e DEF FiredOnce
  <2>1. CASE k = e
    <3>1. \A g \in Firings : fire[g].entry # e
      BY <1>a, <2>1 DEF FiredOnce
    <3> QED
      BY <1>a, <1>c, <2>1, <3>1
  <2>2. CASE k # e
    BY <1>a, <1>c, <2>2 DEF FiredOnce
  <2> QED
    BY <2>1, <2>2
<1>10. HandledOnce'
  <2> SUFFICES ASSUME NEW k \in 1 .. Len(entries), entries[k].sched # Every, Fixed(entries[k].job),
                      <<entries[k].job, entries[k].sched>> \in handled
               PROVE  /\ ~entries'[k].armed
                      /\ \A g \in Firings : fire'[g].entry = k => fire'[g].pc \notin {"start", "get", "handle"}
    BY <1>a, <1>b, <1>e DEF HandledOnce, Fixed
  <2>1. k # e
    BY <1>a DEF HandledOnce
  <2> QED
    BY <1>a, <1>c, <2>1 DEF HandledOnce
<1>11. HandledPassed'
  BY DEF HandledPassed, Fixed, FiredStep, Moves, SameEntry, SameStore, SameProcess, SameManager
<1> QED
  BY <1>1, <1>2, <1>3, <1>4, <1>5, <1>6, <1>7, <1>8, <1>9, <1>10, <1>11

\* A crash keeps one schedule and one firing of a one-shot job.
LEMMA CrashKeepsOnce ==
    ASSUME CronInv, CronInv', OnceInv, CrashStep PROVE OnceInv'
<1> USE EntryTypes DEF OnceInv, ScheduleOf
<1>a. /\ \A i \in Jobs : jobs[i] = NoJob /\ diskJobs[i] = NoJob => jobs'[i] = NoJob /\ diskJobs'[i] = NoJob
      /\ \A i \in Jobs, s \in Schedules : Has(i, s) => Has(i, s)'
  BY ForgetsHas DEF CrashStep, Calling, SameStore, Has
<1>b. asked' = asked /\ entries' = <<>> /\ call'.pc = "idle"
  BY DEF CrashStep, Calls
<1>1. UnknownAbsent'
  BY <1>a, <1>b DEF UnknownAbsent
<1>2. OneOfIt'
  BY DEF OneOfIt, Fixed, CrashStep, Calling, Calls, Forgets, SameStore
<1>3. NoneYet'
  BY DEF NoneYet, Fixed, CrashStep, Calling, Calls, Forgets, SameStore
<1>4. NotPatched'
  BY DEF NotPatched, Fixed, CrashStep, Calling, Calls, Forgets, SameStore
<1>5. FileSchedule'
  BY <1>a, <1>b DEF FileSchedule, Fixed
<1>6. EntrySchedule'
  BY <1>b DEF EntrySchedule
<1>7. CopySchedule'
  BY DEF CopySchedule, Fixed, JobOf, CrashStep, Calling, Calls, Forgets, SameStore
<1>8. CallSchedule'
  BY <1>b DEF CallSchedule
<1>9. FiredOnce'
  BY DEF FiredOnce, Fixed, CrashStep, Calling, Calls, Forgets, SameStore
<1>10. HandledOnce'
  BY DEF HandledOnce, Fixed, CrashStep, Calling, Calls, Forgets, SameStore
<1>11. HandledPassed'
  BY DEF HandledPassed, Fixed, CrashStep, Calling, Calls, Forgets, SameStore
<1> QED
  BY <1>1, <1>2, <1>3, <1>4, <1>5, <1>6, <1>7, <1>8, <1>9, <1>10, <1>11

\* A start of the process keeps one schedule and one firing of a one-shot job.
LEMMA RestartKeepsOnce ==
    ASSUME CronInv, CronInv', OnceInv, RestartStep PROVE OnceInv'
<1> USE EntryTypes DEF OnceInv, ScheduleOf
<1>a. /\ \A i \in Jobs : asked'[i] = asked[i] /\ (Fixed(i)' => Fixed(i))
      /\ call'.pc = "idle" /\ passed' = passed /\ handled' = handled
      /\ \A g \in Firings : fire'[g].pc = "idle" /\ fire'[g].entry = 0
  BY DEF RestartStep, SameManager, SameFiring, CronInv, RefersToSomething, DownIsEmpty, FiringRefers, Fixed
<1>b. entries' \in Seq(Entries) /\ Len(entries') \in Nat /\ DOMAIN entries' = 1 .. Len(entries')
  BY DEF RestartStep
<1>c. \A k \in 1 .. Len(entries') : entries'[k] \in Entries
  BY <1>b
<1>d. \A k \in 1 .. Len(entries') : entries'[k].job \in Jobs /\ entries'[k].sched \in Schedules
  BY <1>c DEF Entries
<1>e. \A k \in 1 .. Len(entries') : /\ jobs'[entries'[k].job] # NoJob /\ dynamicEntries'[entries'[k].job] = k
                                    /\ entries'[k] = NewEntry(entries'[k].job, jobs'[entries'[k].job].sched)
  BY DEF RestartStep
<1>f. \A k \in 1 .. Len(entries') : /\ entries'[k].sched = jobs'[entries'[k].job].sched
                                    /\ entries'[k].armed = Armed(entries'[k].sched)
  <2> TAKE k \in 1 .. Len(entries')
  <2> DEFINE y == entries'[k]
  <2>1. y = NewEntry(y.job, jobs'[y.job].sched)
    BY <1>e
  <2> HIDE DEF y
  <2>2. y.sched = jobs'[y.job].sched /\ y.armed = Armed(jobs'[y.job].sched)
    BY <2>1 DEF NewEntry
  <2> QED
    BY <2>2 DEF y
<1>1. UnknownAbsent'
  BY <1>a, RestartHas DEF UnknownAbsent
<1>2. OneOfIt'
  BY <1>b, <1>e DEF OneOfIt
<1>3. NoneYet'
  BY <1>a, <1>b, <1>d, <1>e, RestartHas DEF NoneYet, UnknownAbsent
<1>4. NotPatched'
  BY DEF NotPatched, Fixed, RestartStep, SameManager, SameFiring
<1>5. FileSchedule'
  BY <1>a, RestartHas DEF FileSchedule
<1>6. EntrySchedule'
  <2> SUFFICES ASSUME NEW k \in DOMAIN entries', NEW i \in Jobs, NEW s0, Fixed(i)', entries'[k].job = i,
                      entries'[k].sched = s0
               PROVE  Has(i, s0)'
    BY DEF EntrySchedule, Has
  <2>1. jobs'[i] # NoJob /\ entries'[k].sched = jobs'[i].sched
    BY <1>b, <1>e, <1>f
  <2> QED
    BY <1>b, <1>d, <2>1, RestartHas
<1>7. CopySchedule'
  BY <1>a DEF CopySchedule
<1>8. CallSchedule'
  BY <1>a DEF CallSchedule
<1>9. FiredOnce'
  BY <1>a, <1>b DEF FiredOnce
<1>10. HandledOnce'
  <2> SUFFICES ASSUME NEW k \in 1 .. Len(entries'), entries'[k].sched # Every,
                      "update" \notin asked'[entries'[k].job],
                      <<entries'[k].job, entries'[k].sched>> \in handled
               PROVE  ~entries'[k].armed
    BY <1>a, <1>b DEF HandledOnce, Fixed
  <2>1. entries'[k].job \in Jobs /\ entries'[k].sched \in AtTimes
    BY <1>d DEF Schedules
  <2>2. Fixed(entries'[k].job)
    BY <1>a, <2>1 DEF Fixed
  <2>3. entries'[k].sched \in passed
    BY <2>1, <2>2 DEF HandledPassed
  <2> QED
    BY <1>a, <1>f, <2>3 DEF Armed
<1>11. HandledPassed'
  BY DEF HandledPassed, Fixed, RestartStep, SameManager, SameFiring
<1> QED
  BY <1>1, <1>2, <1>3, <1>4, <1>5, <1>6, <1>7, <1>8, <1>9, <1>10, <1>11

\* Shutdown, time and a stutter keep one schedule and one firing of a one-shot job.
LEMMA QuietKeepsOnce ==
    ASSUME CronInv, CronInv', OnceInv,
           PhaseStep \/ TimeStep \/ (SameStore /\ SameCron /\ SameProcess /\ SameManager /\ SameFiring)
    PROVE  OnceInv'
<1> USE EntryTypes DEF OnceInv, ScheduleOf
<1>0. Frame
  BY DEF Frame, Fixed, SameEntry, Early, PhaseStep, TimeStep, SameStore, SameCron, SameProcess, SameManager,
     SameFiring
<1>1. UnknownAbsent'
  BY DEF UnknownAbsent, Fixed, PhaseStep, TimeStep, SameStore, SameCron, SameProcess, SameManager, SameFiring
<1>2. OneOfIt'
  BY <1>0, FrameKeeps
<1>3. NoneYet'
  BY DEF NoneYet, Fixed, PhaseStep, TimeStep, SameStore, SameCron, SameProcess, SameManager, SameFiring
<1>4. NotPatched'
  BY DEF NotPatched, Fixed, PhaseStep, TimeStep, SameStore, SameCron, SameProcess, SameManager, SameFiring
<1>5. FileSchedule'
  BY DEF FileSchedule, Fixed, Has, PhaseStep, TimeStep, SameStore, SameCron, SameProcess, SameManager, SameFiring
<1>6. EntrySchedule'
  BY DEF EntrySchedule, Fixed, Has, PhaseStep, TimeStep, SameStore, SameCron, SameProcess, SameManager, SameFiring
<1>7. CopySchedule'
  BY DEF CopySchedule, Fixed, JobOf, PhaseStep, TimeStep, SameStore, SameCron, SameProcess, SameManager, SameFiring
<1>8. CallSchedule'
  BY DEF CallSchedule, Fixed, Has, PhaseStep, TimeStep, SameStore, SameCron, SameProcess, SameManager, SameFiring
<1>9. FiredOnce'
  BY <1>0, FrameKeeps
<1>10. HandledOnce'
  BY <1>0, FrameKeeps
<1>11. HandledPassed'
  BY <1>0, FrameKeeps
<1> QED
  BY <1>1, <1>2, <1>3, <1>4, <1>5, <1>6, <1>7, <1>8, <1>9, <1>10, <1>11

\* Every step keeps one schedule and one firing of a one-shot job.
LEMMA OnceKept ==
    ASSUME CronInv, CronInv', OnceInv, Steps PROVE OnceInv'
BY CreateKeepsOnce, UpdateGetKeepsOnce, DeleteKeepsOnce, UpdateSaveKeepsOnce, UnscheduleKeepsOnce,
   ScheduleKeepsOnce, DeleteStoreKeepsOnce, GoesOnKeepsOnce, HandleKeepsOnce, SaveRunKeepsOnce, SaveKeepsOnce,
   FinishKeepsOnce, ForgetKeepsOnce, FiredKeepsOnce, CrashKeepsOnce, RestartKeepsOnce, QuietKeepsOnce DEF Steps

\* Nothing has an entry, and nothing was handled, at first.
LEMMA OnceInit ==
    ASSUME CronInit PROVE OnceInv
<1>1. /\ call.pc = "idle" /\ entries = <<>> /\ handled = {} /\ jobs = diskJobs
      /\ \A f \in Firings : fire[f].pc = "idle"
      /\ \A j \in Jobs : asked[j] = {} => jobs[j] = NoJob
  BY DEF CronInit, Idle, Resting
<1>2. \A j \in Jobs : \E s \in Schedules : jobs[j] # NoJob => jobs[j].sched = s
  <2> TAKE j \in Jobs
  <2>1. jobs[j] = NoJob \/ \E s \in Schedules : jobs[j] = NewJob(s)
    BY DEF CronInit
  <2>2. Every \in Schedules /\ \A s \in Schedules : NewJob(s).sched = s
    BY DEF Schedules, NewJob
  <2> QED
    BY <2>1, <2>2
<1>3. FileSchedule
  BY <1>1, <1>2 DEF FileSchedule, Has
<1> QED
  BY <1>1, <1>3 DEF OnceInv, ScheduleOf, UnknownAbsent, OneOfIt, NoneYet, NotPatched, EntrySchedule, CopySchedule,
                    CallSchedule, FiredOnce, HandledOnce, HandledPassed

\* A job that nobody updates has one schedule at most, and an "at" job fires and reaches the
\* handler once, whatever crashes and starts of the process come between.
THEOREM OnceInvariant == CronSpec => [](JobsInv /\ OnceInv)
<1>1. CronInit => OnceInv
  BY OnceInit
<1>2. ASSUME JobsInv, JobsInv', OnceInv, [CronNext]_cronVars PROVE OnceInv'
  BY <1>2, StepsAre, OnceKept DEF JobsInv
<1> QED
  BY <1>1, <1>2, CronInvariant, PTL DEF CronSpec

\* An "at" job that nobody patches reaches the handler at most once, whatever crashes and
\* restarts happen before, between and after: its entry fires once, and a restart arms an
\* entry only for an instant that has not passed.
THEOREM OneShotOnceHolds == CronSpec => OneShotOnce
<1> DEFINE run(f) == <<JobOf(f), fire[f].copy.sched>>
           once   == \A f \in Firings :
                         /\ fire[f].pc = "handle" /\ fire'[f].pc = "saveRun"
                         /\ run(f)[2] # Every /\ "update" \notin asked[run(f)[1]]
                         => run(f) \notin handled
<1>1. ASSUME JobsInv /\ OnceInv PROVE once
  <2> SUFFICES ASSUME NEW f \in Firings, fire[f].pc = "handle", fire[f].copy.sched # Every,
                      "update" \notin asked[JobOf(f)],
                      <<JobOf(f), fire[f].copy.sched>> \in handled
               PROVE  FALSE
    OBVIOUS
  <2>1. fire[f].entry \in DOMAIN entries /\ JobOf(f) = entries[fire[f].entry].job
    BY <1>1, EntryTypes DEF JobsInv, JobOf
  <2>2. fire[f].copy.sched = entries[fire[f].entry].sched
    BY <1>1 DEF OnceInv, ScheduleOf, CopySchedule, Fixed
  <2>3. fire[f].pc # "handle"
    BY <1>1, <2>1, <2>2 DEF OnceInv, HandledOnce, Fixed
  <2> QED
    BY <2>3
<1>2. [](JobsInv /\ OnceInv) => OneShotOnce
  <2>1. JobsInv /\ OnceInv => [once]_cronVars
    BY <1>1
  <2>2. [](JobsInv /\ OnceInv) => [][once]_cronVars
    BY <2>1, PTL
  <2> QED
    BY <2>2 DEF OneShotOnce
<1> QED
  BY <1>2, OnceInvariant, PTL

=============================================================================
