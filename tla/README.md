# A TLA+ verification of alfred-ai

alfred-ai is a personal-assistant server in Go: chat channels and a WebSocket
gateway feed messages to an agent that talks to a language model and runs tools.
This directory holds TLA+ models of its logic, the TLC runs that check them on
small instances, and TLAPS proofs of what holds for every instance.
`PROJECT.json` lists the components, the runs, the mutants, the source lines of
every definition, the hazards, the findings and the theorems.

Check a run with `tlc -workers 2 -config <cfg> <module>` (the pairs are in section 3),
the proofs with `tlapm <module>`, for each of the modules of section 4.

## 1. The system

### Inventory

| Component | State | Hard part | What makes it correct | Module |
|---|---|---|---|---|
| Session lock (`session_lock.go`) | table session → mutex with a count | the entry goes and comes while calls wait and give up | exclusion; exact table; no lost waiter | `SessionLocker`, `SessionMutex` |
| Transcript repair, context builder | none (pure) | broken histories; budgets smaller than a group | every call answered once and in place, nothing else dropped | `Transcript` |
| Agent loop, guard, compressor | `session.Msgs`, a turn's locals | concurrent turns; a copy that goes stale during a model call | newest input is sent; compression loses nothing; turns return | `AgentTurn` |
| Session store (`session.go`) | objects in memory, a file per session | writes and removals outside the lock; torn files | what was answered is kept, what was deleted stays gone | `SessionStore` |
| Router, onboarding, `chat.*` of the gateway | active requests, contacts | requests of one session side by side, abort, delete, reaper, crash | abort hits a running request; one welcome | `Requests` |
| Cron jobs, scheduler | job and run maps, two files, cron entries | three locks, runs that overlap calls, crashes, failed writes | jobs survive; one-shots run once; nothing waits forever | `CronJobs` |
| Background processes | table, ring buffers, read offsets | output during a poll; a kill racing the end | output in order and once; one end; none escapes | `ProcessManager` |
| Event bus, gateway clients | subscriptions, goroutines, queues | Publish racing Close; slow clients | Close drains and returns | `Delivery` |
| Sub-agents | semaphore | parents hold the slots their children wait for | every spawn returns | `SubAgents` |
| Gateway calls, roles, tenants, audit log | rows, directories, log file | read-modify-write; retention; lines cut by failures and crashes | the guard is exact; tenants and trail are kept | `Gateway` |
| Workflow engine | runs, tokens, `running` | double resume; crash before a save; eviction | nothing behind a gate runs unapproved; paused runs are kept | `Workflow` |
| Voice calls | call store, log, waiters, streams | late and reordered webhooks, lost wake-ups | lines are accounted for | `VoiceCall` |
| Channels (nine platforms) | cursors, batches, handlers | redelivery, crash, shutdown, lost connection | every message handled, and once | `Channels` |
| HTTP channel | pending answers by session | two requests of one session | each gets its own answer | `HTTPChannel` |
| LLM providers, failover, breakers | breaker states, stream accumulator | four wire formats, broken streams | a reply comes back to the model as it was | `Providers` |
| Edge nodes | tokens, nodes, shared connections | revocation during registration; a failure closing a shared connection | revoked stays out; connections are found again | `Nodes` |
| Cluster lock | a Redis key with an expiry | expiry between two requests | one holder | `Cluster` |
| Offline mode | queue files, monitor | a drain meeting a file in the making; failing writes and removals; a crash in the drain | what was queued is at one place | `Offline` |
| Notes, canvas | files without a lock | check, then write | reports are true; the limit holds | `Documents` |
| MQTT, serial, GPIO, BLE | channels, buffers, pins | full channels with a mutex held | order, nothing twice | `Devices` |
| Browser | tabs, active tab | the replacement of the last tab fails; pages close by themselves | there is a tab, and it is the right one | `Browser` |
| Tools | limiters, caches, calendar | borders of windows; a calendar without a lock | limits hold; the calendar has what it was told, until changes overlap | `Tools` |
| Composition root | parts that are up, cleanups | a failure or a signal at every step | what was opened is undone in order | `Startup` |
| Configuration, doctor | layers of values | chains, diamonds and circles of includes; some 120 variables in six manners; encrypted values | the strongest layer wins, the environment first | `Config` |
| Memory, encryption, privacy | files, rows, embeddings, keys | two places to keep together; load races; key changes | stored is found, deleted is not | `Memory` |
| Terminal chat | messages, stream, generations | cancelled requests whose answers still come; texts of the message tool among the answers | answers find their request and are whole | `Tui` |

A channel or the gateway hands a message to the router, which loads the session
and calls `Agent.HandleMessage`. The agent appends the user message and loops: build
a prompt, call the model, append the reply, run the requested tools in parallel,
append their results. The context guard may force a compression at two points of the
loop, an overflow error at a third, the end of the turn at a fourth. The router then
saves the session, welcomes a newcomer and lets the curator store what is worth
remembering. Cron jobs call the same router. Tools reach processes, workflows, nodes,
calls, files, devices and the browser; everything publishes events on the bus, which
the gateway forwards to its clients.

### How the modules fit together

`Requests` extends `SessionStore`; `AgentTurn` extends `Transcript` and uses the
abstract lock that `SessionLocker` is proved to implement. The other modules model
components that share no state in the program, so they are composed side by side:
`MCComponents`, `MCFiles` and `MCWaiting` choose a component (`part`) at the start,
let it run and keep the others in their initial state. A behaviour of the composition
is a behaviour of one component, and an invariant of it is an invariant of each. Where
components do interact, the interaction is inside one module: requests, store, contacts
and curator; bus and gateway clients; cron manager, store and scheduler; tenants and
audit log; store, keys and erasure; configuration and doctor; startup and registry.

## 2. How the models correspond to the code

**SessionLocker.** `locks`, `refCount` and `owner` are the fields of
`SessionLocker`, `sessionMutex` and its `sync.Mutex`. A call has a program
counter `pc` (the select of `Lock`, holding, cancelled, releasing) and a `helper`,
the goroutine that blocks in `sm.mu.Lock()`. Mutex objects are allocated from a set and
garbage-collected (`Unreferenced`), so an identity can come back for another session,
as a Go address can. When the mutex is acquired and the context has ended, both cases
of the select are enabled.

**Transcript.** A message is its role, its name, its tool-call IDs and a body. Go
iterates over the pending-call map in any order, so `RepairTranscript` and `Build`
are the *set* of results they may return. `WellFormed` and `WithoutOrphans` are
written independently of the algorithm: by positions, not by a loop.

**AgentTurn.** One session, several turns. A step is one access to the session, one
outcome of an external call, or one finished tool. `deps` records which optional
dependencies are wired. The model may reply, fail, fail retryably or overflow at will.
The token count of the guard is abstracted to the number of messages.

**SessionStore, Requests.** A session object outlives its place in the table for as
long as a request holds it, so objects have names of their own. A file is written as
`os.WriteFile` does: truncated, then filled. A request goes through the gateway's
`ActiveRequests`, the router, two messages of the agent, the count, the contact check,
`Save` in four steps and the curator. `excused` and `gone` record which losses the
properties allow, each with its reason.

**CronJobs.** `jobs`/`runs` are the maps of `FileStore`, `diskJobs`/`diskRuns` its
files; a write may fail (the map stays changed) and the process may die between any
two steps. `entries` is cron's list, `dynamicEntries` names them. `call` is the manager
call that holds `Manager.mu`; fired jobs run beside it. `Scheduler.mu` is held across
steps only by `Stop`. An instant that has passed is in `passed`.

**ProcessManager.** `entry` is the `processEntry` of every process ever started
(goroutines keep a pointer to it when the table has forgotten it). Poll, Kill, Remove
and Stop let go of `Manager.mu` in the middle and are split there. `cmd.Wait` returns
only when the process has ended *and* nobody has the output pipe open (`held`), since
`Stdout` is a buffer and `WaitDelay` is zero. Bytes are numbered.

**Delivery, SubAgents.** A publish copies the subscriptions under the lock and starts
a goroutine per subscription; the gateway's handler visits the clients and drops
the event when a queue is full. A spawn holds its slot while its children run.

**Workflow.** A run is stored only when it stops. `history` counts how often each step
ran and was passed by an approval; the crash loads the file again.

**VoiceCall.** Every operation of `CallStore` is one critical section and one step;
`line` is the provider's side. `loose` are lines the tool gave up knowing no better.

**Channels.** One module for nine platforms, which differ in when they let go of a
message: Telegram when the next poll asks for later ones, Matrix never, signal-cli when
it answers a poll, Slack when acknowledged, the webhooks when they answer, IRC and
Discord at once. `gone` is that; the rest is one receive path.

**HTTPChannel, Nodes, Cluster, Offline, Documents, Devices, Browser, Tools.** One step
per critical section, request to Redis or file operation; calls that hold one mutex
throughout are one step. In `Offline` each file operation of `Enqueue` and of the drain
may fail, and a crash may come between any two; `offLedger` counts for every message what
`Drain` returned, which removals failed and what a crash took from a drain. In `Browser`
a page may close or crash by itself or by a script while the backend has a context for it
(`selfClosed`); its entry stays, as in `b.tabs`. `Tools` has a table (`Dispatch`) of the
actions of every tool with the fields their handlers insist on; create, update and delete
of the calendar read the list in one step and write it back in another, and `toolRaced` is
set as soon as two of them overlap.

**Providers.** A reply is a sequence of texts and tool calls, whose arguments arrive in
two fragments. A stream brings one delta per step and may break between any two. Each wire format is the deltas it makes of a reply, what the accumulator
makes of the deltas, and what the next request makes of the message.

**Startup, Config.** `Startup` is the list of steps of `run` with what each opens, uses
and defers, under six configurations. `Config` follows one setting through defaults,
files, environment, decryption and validation, for any include graph. Files and the
environment may give a secret in clear or encrypted; every setting with an environment
variable is in `OverrideTables`, with the manner in which it takes the variable.

**Memory.** A body on disk has the key it was sealed with; the markdown index, the rows
and the index of embeddings are separate and are changed in the order of the code.

**Tui.** The Bubble Tea loop takes one message at a time; whatever is under way arrives
in any order. `Send` tags a text with the generation at that moment, be it the answer of a
handler or what the message tool of any agent sends. A tick of the stream adds `ChunkOf`
the speed, which is nothing at instant speed, and asks for the next.

**Gateway.** The table of methods with permission and needed fields; `requirePerm`;
tenants as a row and directories; the log as a sequence of lines, of which each may have
been cut (`parses`) and the last may lack its end (`ended`), after a write or a copy that
failed or a crash. What is written behind a line without its end becomes part of it:
`spoiled` are the events whose own lines were cut, `swallowed` those written behind one.

## 3. The runs

| Run | Module, config | Instance | Shows |
|---|---|---|---|
| `session_lock` | `SessionLocker` | 3 calls, 2 sessions, 2 mutex objects | exclusion, exact table, `Lock` returns, refinement of `SessionMutex` |
| `agent_turn` | `MCAgentTurn`, `AgentTurn.cfg` | 2 turns, 3 iterations, 2 attempts, all 16 wirings with the lock; all histories of up to 5 messages | prompts, compression, termination |
| `files` | `MCFiles`, `Files.cfg` | 3 requests of a session, delete, reaper, abort, failure, crash; 1 job, 2 calls, 2 firings, failure, crash | what is kept in files is true |
| `waiting` | `MCWaiting`, `Waiting.cfg` | the cron locks; 1 event, 2 subscribers, a full queue; 4 nested spawns with 2 slots | nobody waits forever |
| `process` | `MCProcessManager`, `ProcessManager.cfg` | 2 processes, 2 agents, 2 killers; buffer of 2 bytes, writes of 1 and 3 | output, ends, limit |
| `components` | `MCComponents`, `Components.cfg` | one component at a time, section 1 | one property per component |
| `agent_turn_shipped` | `MCAgentTurn`, `AgentTurnShipped.cfg` | the wiring of `cmd/agent` | **violation**: compression drops unsummarised messages |
| `cron_stop` | `CronJobs`, `CronStop.cfg` | 1 firing | **violation**: `Stop` and a job wait for each other |
| `cron_delete` | `CronJobs`, `CronDelete.cfg` | 1 firing, 1 call | **violation**: a deleted job is written back |
| `process_poll` | `MCProcessManager`, `ProcessPoll.cfg` | as `process` | **violation**: output is skipped |
| `process_stop` | `MCProcessManager`, `ProcessStop.cfg` | descendants may keep the pipe | **violation**: `Stop` leaves processes alive |
| `memory_erasure` | `MCMemory`, `MemoryErasure.cfg` | 2 entries, default limit 1 | **violation**: an erasure leaves entries |

Every property is stated in a comment in its module. What the exceptions in them say
is part of the result: a property that allows a loss "unless two saves overlapped" says
exactly when the code loses something.

*Bounds.* Three calls are what the lock's races need: a holder, a waiter or cancelled
call, and a newcomer who finds or recreates the entry. Five messages contain a call
with two results, a summary before it and a message behind it. In `agent_turn` the
budget of 2 is smaller than a reply with two results, and the guard's limit, the threshold
and the retained messages are such that each of the four compressions happens. Requests
get one session, since sessions share nothing. One cron job suffices because jobs share
only the files, which are written as a whole; the cap of the run log is 1. Two processes
let one be killed while `Stop` or `Clear` handles both. Four spawns with two slots fill the
semaphore with parents. In `components` limits are at 1 or 2 so that they are reached
(`MaxRunning`, stored runs, concurrent calls, canvases, queue and buffer sizes, the rate
limit, messages on the screen), and faults, crashes and restarts are counted by
named bounds in the guards; several bounds (voice, devices, memory, chat, gateway) are
sets of smaller workloads, each of which has what one part of the property needs.

*Fairness.* Goroutines that can run do run (weak fairness of their steps). `sync.Mutex`
hands itself over in FIFO order once a waiter starves, hence strong fairness of
`AcquireMutex`. Model calls and tools return: their clients have timeouts. A spawn's
timeout ends. Nobody must call, cancel, fire or crash. A process that gets SIGKILL ends;
that its descendants let go of its output pipe is assumed for `KilledEnds` only
(`FairPipeSpec`), and `process_stop` shows what happens otherwise. In `MCWaiting` the
fairness of all parts is assumed together; none of the fair actions of a part that does
not run is enabled in its initial state. The histories in `MCAgentTurn` are not fair to
turns, and no temporal property speaks about them. `MCComponents` and `MCFiles` have no
fairness and no liveness property.

*Deadlock* checking is off where calls, firings and processes are bounded and the program
may come to rest; it is on for the session lock.

*Symmetry* is used in `MCComponents` only, for callers and identifiers that no definition
tells apart; no property there is temporal.

*Mutants.* Each property of a passing run has a mutant of a mapped definition that breaks
it (`Mut…` before the definition): a dropped check, a swapped order, a missing reset.

### Findings

1. **Compression without the lock** (`agent_turn_shipped`). `compress` summarises a
   copy and then cuts the session as it is after the model answered. `SessionLocker`
   would exclude the other turn, but `init_agent.go` does not wire it.
2. **`Scheduler.Stop`** (`cron_stop`) waits for running jobs while holding `s.mu`; a job
   that cron has just fired needs `s.mu` to read its context.
3. **`Manager.Delete`** (`cron_delete`) is undone by `executeJob`, which saves the copy
   it read before the run.
4. **`Manager.Poll`** (`process_poll`) reads the new output and the new index in two
   critical sections of the buffer. What is written in between is counted as read.
5. **`Manager.Stop`** (`process_stop`) marks all processes, then signals and awaits them
   one by one. If a descendant of the first keeps its output pipe open, the others are
   never signalled, and `Kill` refuses them because they are marked already.
6. **Erasure** (`memory_erasure`). `DeleteUserData` and `DeleteAll` ask the memory for
   all entries with a limit of 0, which the vector store takes for 10.

Met while modelling, in the models as the code has them, and named in the properties
as exceptions where one is touched:

- `Router.handleInner` uses `GetOrCreate`, which passes no tenant, although its comment says
  that new sessions are stamped with the context's tenant.
- `requirePerm` treats a token without *known* roles as admin, also when its roles are
  misspelt: `StringsToAuthRoles` drops them, and nothing validates them.
- `EnforceRetention` that cannot open the log again leaves it closed for good, and ignores
  the errors of its copy (`audit.go:211-215`). A line without its end, after a failing write
  (`audit.go:66`), such a copy or a crash, swallows the next event, whose `Log` succeeds.
- `tenant.update` reads and writes in two steps; a tenant whose directories cannot be made
  keeps its row.
- A markdown entry sealed with another key (the salt is new in every process) cannot be
  read, and an erasure skips it; ByteRover's query fails as a whole on one such entry.
- `TUIChannel.Send` reads the generation when it sends, so the late answer of a cancelled
  request is accepted as that of the next one. A text of the message tool
  (`init_runtime.go:265`, `channel.go:119`) is taken for the answer that is waited for.
- Switching to instant speed during a stream leaves its ticks adding nothing and asking for
  the next one for ever (`streaming.go:44`, `model.go:622`): the chat hangs until `/speed`
  or a cancellation.
- The telephone waiter registers after its check; an entry in between wakes nobody.
- A mention-only Telegram bot whose `getMe` failed hears nobody; IRC does not reconnect; the
  first Matrix sync replays old messages.
- `Drain` returns messages that `Sync` then only counts. `Enqueue` that fails is a warning in
  the log, and the user is answered as if the message were queued; `Drain` ignores the error
  of `os.Remove` (`offline.go:182`) and returns the message again.
- A page that closes by itself keeps its entry in `b.tabs`, and may stay the active tab.
- The mock calendar is read and written back without a lock (`calendar.go:124-151`): changes
  that overlap lose or revive events. (Two goroutines in one Go map may also end the process,
  which is not modelled.) The cache of `list_repos` has one place for all pages
  (`github.go:266-283`), so page 2 may be answered with page 1.
- `Load` without a file does not decrypt what the environment gives (`config.go:751-757`).
- All agents share one `delegate` tool with the default agent's ID, so two agents that
  delegate with the same session ID share the session.
- `NeedsApproval` looks at the approve list alone: a tool on both lists is not denied.

## 4. Proofs

Each module below is checked by `tlapm` and proves its theorems for all values of the
constants that satisfy the named `ASSUME`s of the models. Those ask only for what Go
gives: finite sets where the model counts (calls of the lock, requests, pollers, jobs,
callers of a workflow, telephone calls, documents, entries of the memory), null values
that are not members (`NoCall`, `NoJob`, `Nobody`, `NoTurn`...), natural bounds, and
requests of the shapes that the code can make (an erasure queries with words, a markdown
entry has a length). `ConfigConstants` asks more, as its proof below says; `KeepsAGroup`
(a reply and its results fit in what compression keeps) does too, but no proof uses it.
TLC evaluates each in the runs of its module.

| Module | States, for every instance | Inductive invariant, and what it adds |
|---|---|---|
| `SessionLockerProofs` | `MutualExclusion`, `TableIsExact`, refinement of `SessionMutex` | `IInv`: the entry of a session is the mutex of each of its users, counts are exact, the owner of a mutex is a user past `sm.mu.Lock()` |
| `RequestsProofs` | `AbortHitsRunning`, `DeletedStaysGone`, `TurnsAreKept`, `Remembered` | `ReqInv`, `AbortInv`, `GoneInv`, `TurnInv`, `WelcomeInv`: what is in every object, image and file that may still be read or written |
| | `GatewayIsGuarded` | `GatewayInv`: a call past its guard may be there; rows, directories and the lock agree; each line of the log is the event of one call, and whole or that of a failure |
| `CronJobsProofs` | `StoreIsTrue`, `ScheduleIsTrue`, the action property `OneShotOnce` | `JobsInv`: what each call and firing still owes to maps and files. `OnceInv`: all copies of a job have its one schedule, and a handled instant has passed |
| `ProcessManagerProofs` | `EndsOnce`, `NoProcessEscapes`, `OutputIsTrue` | `EndInv`: a process marked killed has one owner at most, and is signalled or still owned. `TableInv`, `BufferInv`, `PollInv` |
| `WorkflowProofs` | `WorkflowsAreGated` | `WorkflowInv`: executions of a step plus calls that may still come to it are at most the passings of its nearest gate |
| | `DeliveryIsExact` | `ChannelsInv`: a batch is in order, what was let go was settled, dropped or is in hand, and what was taken is past or comes again |
| | `StartupIsUndone`, `LoadIsLayered` | `StartupInv`: the cleanups are a stack, and whoever is up is closed by one of them. `ConfigInv`: what merged files include is merged or waits, and the value is that of the last layer that spoke |
| `ServicesProofs` | `OneHolder`, `AnswerIsMine`, `QueuedIsKept`, `CloseDrains`, `NodesAreTrusted` | one for each service: grants are numbered; a shared entry is seen by both; a turn's place, the failed removals and the crashes determine how many copies of its message there are; late publishes are known; tokens are numbered |
| | `DevicesInOrder`, `ChatIsTrue` | `DevicesInv`: what waits for a subscriber is behind what it saw. `TuiInv`: what is on its way carries the generation it was sent in, and what is streamed is the awaited answer or was taken for it |
| `ToolsProofs` | `BrowserIsWhole`, `CallsAreAccounted` | `BrowserInv`: an undisturbed session sees in the active tab what it was told of, or that tab closed by itself. `VoiceInv`: what each caller, webhook and stream knows of a record that others change |
| | `ToolsAreGoverned`, `ReplyComesBack` | `ToolsInv`: a limiter remembers the end of what it let through, and until a race one call at most changes the calendar. `ProvidersInv`: what the accumulator has is what the deltas before the next one say |
| `RecordsProofs` | `DocumentsAreTrue`, `MemoryIsTrue` | `DocsInv`: a call that met no other is as far with its document as its step says. `MemInv`: what a call remembers stays true while others store and delete |
| | `CompressionLosesNothing` | `SerialInv`: under the lock one turn at a time is past its entry, and its copy is the session it replaces |

The arguments, where they are more than a case split:

- **Lock.** Mutual exclusion is not inductive. With `IInv`, two holders of one session share
  the mutex of the entry, and it has one owner. In `DropRef` a count of 1 means
  that the dropping call is the only user (`OnlyUser`), so deleting the entry disturbs
  nobody. A grant maps to a grant of `SessionMutex` because the invariant makes the newcomer
  the owner (`GrantIsExclusive`).
- **Requests.** An answered turn is in the object, in every image that a save will still
  write, and in the file, in this order. The one write that could put back an older image
  is a save that overlaps another, and `excused` has those. Welcomes are bounded by counting: a
  newborn object carries one token, which passes to the request that finds it empty, then to
  the one that saw a count of one, and is spent on the welcome.
- **Cron.** A firing before its save *owes* a count, and one before `saveRun` owes a log line;
  counted plus owed is at most fired, and counted is at most logged while no write failed. `OneShotOnce` needs that
  cron's entry disarms when it fires, and that a restart arms only instants to come.
- **Processes.** Kill, Remove, Stop and the natural end agree through the status: whoever set
  it to killed owns the event, so two events would need two owners.
- **Workflows.** A call that walks between two gates holds one passing of the gate behind it.
  The attempt to prove an earlier form of `StepsAreApproved`, which compared a step with
  *every* gate before it, failed: of two gates, the second may be resumed twice (with one
  token at once, or around a crash) while the first was passed once. The property
  speaks of the nearest gate now, and `MCComponents` has a pipeline with two gates.
- **Memory.** Between reading a directory and reading its files an entry may go and another
  come. `MemGrows` says what never goes back while the process runs, and each call's beliefs
  are stated in terms that `MemGrows` preserves; a step of another call then costs one lemma.

- **Compression** is proved for the wirings in which every turn takes the lock
  (`w.locker = TRUE`): the theorem has this hypothesis, and the run `agent_turn_shipped`
  shows that the property fails without it.
- **Channels.** Telegram's offset is the one thing by which the platform lets messages go: it
  moves past a message only when that was settled. On the other platforms a message that
  was let go is settled, in hand, or was dropped by a full queue, a disconnect or a crash.
- **Startup.** A step that opens a part defers its cleanup deeper than all before it, and a
  part is opened after what it uses; so closing from the top closes users first. The six parts
  that the process abandons are named in the property (`Abandoned`).
- **Configuration.** From the two assumptions that no file includes the main file and that no file is called
  as a layer is. A file is merged when it is first met, so what merged files include is merged
  or waits in a list; when the lists are empty, everything is merged, up to the depth limit.
- **Gateway.** The guard holds because a call carries the roles it came with. Tenants: a row without
  directories has a call that holds the lock or failed. The log: retention keeps the lines that are
  young enough by their places, so a young line that is gone had a full file behind it. Swallowed
  events, with the one that a line without its end is about to swallow, are at most the failures and
  crashes met (`TearsInv`).
- **Limits.** What a limiter remembers is the end of what it ever let through, and what it
  forgot is past the window. So the call `Limit` places later is a window later, and no window
  holds more than `Limit`, at any border.
- **Replies.** A stream loses nothing because after each delta the text is the texts of
  the parts before, in order, and the one call has the arguments that came so far. That
  places in order grow at their end is proved from cardinalities, without induction.

Out of the prover's reach, and left to TLC:

- *Liveness*: `LockReturns`, `EveryTurnReturns`, `EveryoneReturns`, `CloseReturns`,
  `SpawnsReturn`, `KilledEnds` need fairness and ENABLED.
- *Induction over sequences*: `RepairIsExact` and `BuildIsWellFormed` are about folds over a
  history, and `NewestInputIsSent` about what these folds leave at its end.

Every other invariant and action property of a passing run is the statement of a theorem.

## 5. Not modelled

- *Text*: prompts, summaries, error matching, help pages, rendering, the splitting
  of long answers.
- *Predicates without state*: path and address checks, cipher, signatures, schedule and
  size parsing, routing rules.
- *Views and wizards*: dashboard, setup; one goroutine, and nobody else reads their state.
- *Plugins*: `cmd/agent` only lists what it discovers; loading them is wired nowhere. The
  plugin command removes the old version before it downloads the new one.
- *Code that is not wired*: tenant quotas, tenant-scoped and cached memory.
- *Multi-agent delegation*: a table filled at startup, lookups, and a turn of another agent,
  which is `AgentTurn` again.
- *Static tasks* of the scheduler: they run the closure of the dynamic ones.
- *Audio coding, speech services, mDNS, generated code, SDKs.*
