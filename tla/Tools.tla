-------------------------------- MODULE Tools --------------------------------
(***************************************************************************)
(* The tools that put a handler in front of a service: GitHub, email,      *)
(* calendar, smart home, messages, cron, processes, workflows, cameras,    *)
(* location, the web, the shell, files and LLM tasks                       *)
(* (internal/adapter/tool).  A call is looked up in the registry, checked  *)
(* against its schema, decoded, dispatched, checked by its handler and     *)
(* only then handed on; what callers share on the way are the rate         *)
(* limiters, the answers that are cached, and the calendar, which the      *)
(* program keeps in memory without a lock.                                 *)
(***************************************************************************)
EXTENDS Integers, Sequences, FiniteSets

CONSTANTS ToolCallers,           \* goroutines that execute tool calls
          InputsOf,              \* of every caller: the parameters it may come with
          Registered,            \* the tools in the registry
          Compiled,              \* those whose schema compiles: the others are not validated
          Limit,                 \* of every rate limiter, calls in a window
          RateWindow, CacheTTL,  \* in clock ticks
          ConnectedChannels,
          ToolBounds             \* bounds: clock ticks and calls

ASSUME ToolConstants ==
    /\ Limit \in Nat /\ RateWindow \in Nat \ {0} /\ CacheTTL \in Nat
    /\ Compiled \subseteq Registered
    /\ ToolBounds \in [ticks : Nat, calls : Nat]

Limiters == {"github", "email", "smart_home"}

VARIABLES clock, limiter,  \* of every limiter: the times it remembers
          admitted,        \* and, kept for the property, all it ever let through
          toolCache,       \* key -> when the answer was kept
          events, nextID,  \* the calendar: what an event says is how often it was revised
          made,            \* history: the events as created and updated and not deleted
          toolRaced,       \* two changes of the calendar have overlapped
          toolCall,        \* of every caller: its call
          toolsLeft

toolVars == <<clock, limiter, admitted, toolCache, events, nextID, made, toolRaced, toolCall, toolsLeft>>

\* A call's locals: the kind and the key of its answer; the number, the place and the list
\* it read from the calendar; the channels it has yet to send to.
NoToolCall == [pc |-> "idle", kind |-> "none", key |-> "none", id |-> 0, at |-> 0, base |-> <<>>, pending |-> {}]

ToolsInit ==
    /\ clock = 0
    /\ limiter = [l \in Limiters |-> <<>>] /\ admitted = [l \in Limiters |-> <<>>]
    /\ toolCache = [k \in {} |-> 0]
    /\ events = <<>> /\ nextID = 1 /\ made = {} /\ toolRaced = FALSE
    /\ toolCall = [c \in ToolCallers |-> NoToolCall]
    /\ toolsLeft = ToolBounds

-----------------------------------------------------------------------------
(* What each handler asks for before it goes on: fields that are there and *)
(* checks that hold.                                                       *)

requireRepo == {"owner", "repo"}

githubListRepos   == {}
githubListIssues  == requireRepo
githubGetIssue    == requireRepo \cup {"number > 0"}
githubCreateIssue == requireRepo \cup {"title"}
githubListPRs     == requireRepo
githubGetPR       == requireRepo \cup {"number > 0"}
githubCreatePR    == requireRepo \cup {"title", "head", "base"}
githubSearchCode  == {"query"}

checkDomain == {"allowed domain"}

emailList   == {}
emailRead   == {"id"}
emailSearch == {"query"}
emailDraft  == {"to", "subject", "body"} \cup checkDomain
emailSend   == {"confirm", "to", "subject", "body"} \cup checkDomain
emailReply  == {"confirm", "message_id", "body"}   \* to whoever wrote: no domain is checked

validateISO8601 == {"valid times"}

calendarListCalendars == {}
calendarListEvents    == {"calendar_id"} \cup validateISO8601
calendarGetEvent      == {"calendar_id", "event_id"}
calendarCreateEvent   == {"calendar_id", "title", "start", "end"} \cup validateISO8601
calendarUpdateEvent   == {"calendar_id", "event_id"} \cup validateISO8601
calendarDeleteEvent   == {"calendar_id", "event_id"}

smartListEntities      == {}
smartGetEntity         == {"entity_id"}
smartCallService       == {"domain", "service", "entity_id"}
smartGetHistory        == {"entity_id"}
smartListAutomations   == {}
smartTriggerAutomation == {"automation_id"}

messageSend         == {"channel", "content"}
messageListChannels == {}
messageBroadcast    == {"content"}
messageReply        == {"channel", "content", "thread or message"}

cronCreate == {"schedule", "message"}
cronList   == {}
cronGet    == {"job_id"}
cronUpdate == {"job_id"}
cronDelete == {"job_id"}
cronRuns   == {"job_id"}

processList   == {}
processPoll   == {"session_id"}
processLog    == {"session_id"}
processWrite  == {"session_id", "input"}
processKill   == {"session_id"}
processClear  == {}
processRemove == {"session_id"}

workflowRun    == {"pipeline or steps"}
workflowResume == {"resume_token", "approve"}
workflowList   == {}
workflowStatus == {"run_id"}

cameraSnap         == {"node_id", "valid facing", "ranges"}
cameraClip         == {"node_id", "valid facing", "duration in range"}
cameraListDevices  == {"node_id"}
cameraScreenRecord == {"node_id", "duration in range", "ranges"}
locationGet        == {"node_id", "valid accuracy", "ranges"}

webFetch  == {"safe url", "GET or HEAD", "one-line headers"}
webSearch == {"query", "valid time range"}

validateCommand == {"allowed command"}
shellRun        == validateCommand \cup {"path in sandbox", "process manager"}

resolvePath == {"path in sandbox"}
fsRead      == resolvePath
fsWrite     == resolvePath
fsList      == resolvePath

isModelAllowed == {"allowed model"}
llmTask        == {"prompt", "sizes in range", "known provider"} \cup isModelAllowed

(* Dispatch: the handlers of a tool, by action.  A tool without actions    *)
(* has one.                                                                *)
Dispatch ==
    [github |-> [list_repos |-> githubListRepos, list_issues |-> githubListIssues,
                 get_issue |-> githubGetIssue, create_issue |-> githubCreateIssue,
                 list_prs |-> githubListPRs, get_pr |-> githubGetPR,
                 create_pr |-> githubCreatePR, search_code |-> githubSearchCode],
     email |-> [list |-> emailList, read |-> emailRead, search |-> emailSearch,
                draft |-> emailDraft, send |-> emailSend, reply |-> emailReply],
     calendar |-> [list_calendars |-> calendarListCalendars, list_events |-> calendarListEvents,
                   get_event |-> calendarGetEvent, create_event |-> calendarCreateEvent,
                   update_event |-> calendarUpdateEvent, delete_event |-> calendarDeleteEvent],
     smart_home |-> [list_entities |-> smartListEntities, get_entity |-> smartGetEntity,
                     call_service |-> smartCallService, get_history |-> smartGetHistory,
                     list_automations |-> smartListAutomations,
                     trigger_automation |-> smartTriggerAutomation],
     message |-> [send |-> messageSend, list_channels |-> messageListChannels,
                  broadcast |-> messageBroadcast, reply |-> messageReply],
     cron |-> [create |-> cronCreate, list |-> cronList, get |-> cronGet,
               update |-> cronUpdate, delete |-> cronDelete, runs |-> cronRuns],
     process |-> [list |-> processList, poll |-> processPoll, log |-> processLog,
                  write |-> processWrite, kill |-> processKill, clear |-> processClear,
                  remove |-> processRemove],
     workflow |-> [run |-> workflowRun, resume |-> workflowResume, list |-> workflowList,
                   status |-> workflowStatus],
     camera |-> [snap |-> cameraSnap, clip |-> cameraClip, list_devices |-> cameraListDevices,
                 screen_record |-> cameraScreenRecord],
     location |-> [get |-> locationGet],
     web_fetch |-> [run |-> webFetch], web_search |-> [run |-> webSearch],
     shell |-> [run |-> shellRun],
     filesystem |-> [read |-> fsRead, write |-> fsWrite, list |-> fsList],
     llm_task |-> [run |-> llmTask]]

(* Registry.Get, the wrapper WithSchemaValidation made, the decoding of    *)
(* Execute, and Dispatch: in that order, and each ends the call.           *)
RegistryGet(p)          == p.tool \in Registered
SchemaValidation(p)     == p.tool \in Compiled => p.form = "valid"
Decoded(p)              == p.form # "undecodable"
KnownAction(p)          == p.action \in DOMAIN Dispatch[p.tool]
Satisfied(p)            == Dispatch[p.tool][p.action] \subseteq p.has

Reaches(p) == RegistryGet(p) /\ SchemaValidation(p) /\ Decoded(p) /\ KnownAction(p)

LimitedFirst(p) == p.tool \in {"github", "smart_home"}
LimitedLast(p)  == p.tool = "email" /\ p.action \in {"send", "reply"}

(* Where the handlers lead: to a list or a search whose answer is kept, to *)
(* the calendar, to a broadcast, or to a service that is just asked.       *)
Kind(p) ==
    CASE p.tool = "github" /\ p.action = "list_repos"        -> "list"
      [] p.tool = "smart_home" /\ p.action = "list_entities" -> "list"
      [] p.tool = "web_search"                               -> "search"
      [] p.tool = "calendar" /\ p.action \in {"create_event", "update_event", "delete_event"} -> p.action
      [] p.tool = "calendar" /\ p.action = "get_event"      -> "one event"
      [] p.tool = "message" /\ p.action = "broadcast"        -> "broadcast"
      [] OTHER                                               -> "plain"

FirstStep(kind) ==
    CASE kind \in {"list", "search"} -> "cache"
      [] kind \in {"create_event", "update_event", "delete_event", "one event"} -> "calendar"
      [] kind = "broadcast" -> "broadcast"
      [] kind = "plain"     -> "backend"

(* The key of a search names the search; the list of repositories has one  *)
(* place, whatever the page, and so have the entities.                     *)
CacheKey(p) ==
    CASE Kind(p) = "search" -> p.key [] Kind(p) = "list" -> p.tool [] OTHER -> "none"

-----------------------------------------------------------------------------
(* RateLimiter.Allow. *)

Unexpired(l) == {i \in DOMAIN limiter[l] : limiter[l][i] > clock - RateWindow}

\* The entries that are left move to the front, in their order.
Trimmed(l) ==
    [n \in 1 .. Cardinality(Unexpired(l)) |->
        limiter[l][CHOOSE i \in Unexpired(l) : Cardinality({j \in Unexpired(l) : j <= i}) = n]]

\* Mutant: one call too many.
MutAllow(l) == Len(Trimmed(l)) <= Limit

Allow(l) == Len(Trimmed(l)) < Limit

CheckRateLimit(l) ==
    /\ limiter' = [limiter EXCEPT ![l] = IF Allow(l) THEN Append(Trimmed(l), clock) ELSE Trimmed(l)]
    /\ admitted' = [admitted EXCEPT ![l] = IF Allow(l) THEN Append(@, clock) ELSE @]

-----------------------------------------------------------------------------
(* A call. *)

ToolAt(c, pc) == toolCall[c].pc = pc

ToolMoved(c, pc) == toolCall' = [toolCall EXCEPT ![c].pc = pc]

(* The call is over: the text for its caller (formatResult, or Execute's   *)
(* error) is left out.                                                     *)
ToolEnds(c) == toolCall' = [toolCall EXCEPT ![c] = NoToolCall]

Start(c, p, pc) ==
    toolCall' = [toolCall EXCEPT ![c] =
        IF pc = "idle" THEN NoToolCall
        ELSE [NoToolCall EXCEPT !.pc = pc, !.kind = Kind(p), !.key = CacheKey(p),
                            !.pending = IF pc = "broadcast" THEN ConnectedChannels ELSE {}]]

CallTool(c, p) ==
    /\ ToolAt(c, "idle") /\ toolsLeft.calls > 0
    /\ toolsLeft' = [toolsLeft EXCEPT !.calls = @ - 1]
    /\ \/ /\ Reaches(p) /\ LimitedFirst(p)
          /\ CheckRateLimit(p.tool)
          /\ Start(c, p, IF Allow(p.tool) /\ Satisfied(p) THEN FirstStep(Kind(p)) ELSE "idle")
       \/ /\ Reaches(p) /\ LimitedLast(p) /\ Satisfied(p)
          /\ CheckRateLimit("email")
          /\ Start(c, p, IF Allow("email") THEN "backend" ELSE "idle")
       \/ /\ Reaches(p) /\ ~LimitedFirst(p) /\ ~LimitedLast(p) /\ Satisfied(p)
          /\ Start(c, p, FirstStep(Kind(p)))
          /\ UNCHANGED <<limiter, admitted>>
       \/ /\ ~(Reaches(p) /\ (LimitedFirst(p) \/ Satisfied(p)))
          /\ Start(c, p, "idle")
          /\ UNCHANGED <<limiter, admitted>>
    /\ UNCHANGED <<clock, toolCache, events, nextID, made, toolRaced>>

(* The answer that is kept, if it is not too old: a list is good while its *)
(* age is below the time to live, a search (getCached) up to and including *)
(* it, and a search that is too old is thrown away.                        *)
Fresh(c, k) ==
    IF toolCall[c].kind = "search" THEN clock <= toolCache[k] + CacheTTL
                                   ELSE clock - toolCache[k] < CacheTTL

CacheHit(c) == toolCall[c].key \in DOMAIN toolCache /\ Fresh(c, toolCall[c].key)

Without(k) == [x \in DOMAIN toolCache \ {k} |-> toolCache[x]]
With(k)    == [x \in DOMAIN toolCache \cup {k} |-> IF x = k THEN clock ELSE toolCache[x]]

getCached(c) ==
    /\ ToolAt(c, "cache")
    /\ IF CacheHit(c)
       THEN ToolEnds(c) /\ UNCHANGED toolCache
       ELSE /\ ToolMoved(c, "backend")
            /\ toolCache' = IF toolCall[c].kind = "search" THEN Without(toolCall[c].key) ELSE toolCache
    /\ UNCHANGED <<clock, limiter, admitted, events, nextID, made, toolRaced, toolsLeft>>

\* The service: it does it and answers, or it does it or not and is not heard.
ToolBackend(c) ==
    /\ ToolAt(c, "backend")
    /\ \/ toolCall[c].kind # "plain" /\ ToolMoved(c, "store")
       \/ ToolEnds(c)
    /\ UNCHANGED <<clock, limiter, admitted, toolCache, events, nextID, made, toolRaced, toolsLeft>>

\* An empty list is kept only as nothing: the next call asks again.
putCache(c) ==
    /\ ToolAt(c, "store")
    /\ \/ toolCall[c].kind = "list" /\ toolCache' = Without(toolCall[c].key)
       \/ toolCache' = With(toolCall[c].key)
    /\ ToolEnds(c)
    /\ UNCHANGED <<clock, limiter, admitted, events, nextID, made, toolRaced, toolsLeft>>

-----------------------------------------------------------------------------
(* MockCalendarBackend, the calendar of the shipped program: the events    *)
(* are read, changed and written back, with nothing to keep two calls      *)
(* apart.  (A map that two goroutines write at once may also end the       *)
(* process.)                                                               *)

Changing(c) == toolCall[c].pc \in {"create", "update", "delete"}
OtherChanging(c) == \E d \in ToolCallers \ {c} : Changing(d)

\* The list is loaded, and the event looked for in it; a call that finds none is over, and
\* so is get_event.
CalendarReads(c) ==
    /\ ToolAt(c, "calendar")
    /\ \/ /\ toolCall[c].kind = "create_event"
          /\ toolCall' = [toolCall EXCEPT ![c].pc = "create", ![c].id = nextID, ![c].base = events]
          /\ toolRaced' = (toolRaced \/ OtherChanging(c))
       \/ /\ toolCall[c].kind \in {"update_event", "delete_event"}
          /\ \E i \in DOMAIN events :
                toolCall' = [toolCall EXCEPT ![c].pc = IF toolCall[c].kind = "update_event" THEN "update" ELSE "delete",
                                             ![c].at = i, ![c].base = events]
          /\ toolRaced' = (toolRaced \/ OtherChanging(c))
       \/ /\ toolCall[c].kind # "create_event"
          /\ ToolEnds(c) /\ UNCHANGED toolRaced
    /\ UNCHANGED <<clock, limiter, admitted, toolCache, events, nextID, made, toolsLeft>>

\* What a list that was loaded holds when the call goes on: its own copy, or memory that
\* those who changed the list meanwhile have written to as well.
ListsOf(base) ==
    {base, [j \in DOMAIN base |-> IF j \in DOMAIN events THEN events[j] ELSE base[j]]}

NewEvent(id) == [id |-> id, rev |-> 0]
Revised(e)   == [e EXCEPT !.rev = @ + 1]

\* Two calls at once may both count from the same number, or extend the same list.
CreateEvent(c) ==
    /\ ToolAt(c, "create")
    /\ LET id == toolCall[c].id IN
          /\ nextID' \in {nextID + 1, id + 1}
          /\ \E list \in {events} \cup ListsOf(toolCall[c].base) : events' = Append(list, NewEvent(id))
          /\ made' = made \cup {NewEvent(id)}
    /\ ToolEnds(c)
    /\ UNCHANGED <<clock, limiter, admitted, toolCache, toolRaced, toolsLeft>>

\* The event is changed in its place, and the list that was loaded written back.
UpdateEvent(c) ==
    /\ ToolAt(c, "update")
    /\ LET i == toolCall[c].at IN
          /\ \E list \in ListsOf(toolCall[c].base) : events' = [list EXCEPT ![i] = Revised(@)]
          /\ made' = {IF e.id = toolCall[c].base[i].id THEN Revised(e) ELSE e : e \in made}
    /\ ToolEnds(c)
    /\ UNCHANGED <<clock, limiter, admitted, toolCache, nextID, toolRaced, toolsLeft>>

DeleteEvent(c) ==
    /\ ToolAt(c, "delete")
    /\ LET i == toolCall[c].at IN
          /\ \E list \in ListsOf(toolCall[c].base) :
                events' = SubSeq(list, 1, i - 1) \o SubSeq(list, i + 1, Len(list))
          /\ made' = {e \in made : e.id # toolCall[c].base[i].id}
    /\ ToolEnds(c)
    /\ UNCHANGED <<clock, limiter, admitted, toolCache, nextID, toolRaced, toolsLeft>>

-----------------------------------------------------------------------------
(* The broadcast: a goroutine for every channel, which sends or fails, and *)
(* an end when all are done.                                               *)

sendToChannel(c, ch) ==
    /\ ToolAt(c, "broadcast") /\ ch \in toolCall[c].pending
    /\ toolCall' = [toolCall EXCEPT ![c].pending = @ \ {ch}]
    /\ UNCHANGED <<clock, limiter, admitted, toolCache, events, nextID, made, toolRaced, toolsLeft>>

BroadcastEnds(c) ==
    /\ ToolAt(c, "broadcast") /\ toolCall[c].pending = {}
    /\ ToolEnds(c)
    /\ UNCHANGED <<clock, limiter, admitted, toolCache, events, nextID, made, toolRaced, toolsLeft>>

Tick ==
    /\ toolsLeft.ticks > 0
    /\ clock' = clock + 1 /\ toolsLeft' = [toolsLeft EXCEPT !.ticks = @ - 1]
    /\ UNCHANGED <<limiter, admitted, toolCache, events, nextID, made, toolRaced, toolCall>>

ToolsNext ==
    \/ \E c \in ToolCallers :
          \/ \E p \in InputsOf[c] : CallTool(c, p)
          \/ getCached(c) \/ ToolBackend(c) \/ putCache(c)
          \/ CalendarReads(c) \/ CreateEvent(c) \/ UpdateEvent(c) \/ DeleteEvent(c)
          \/ \E ch \in ConnectedChannels : sendToChannel(c, ch)
          \/ BroadcastEnds(c)
    \/ Tick

ToolsSpec == ToolsInit /\ [][ToolsNext]_toolVars

-----------------------------------------------------------------------------
(* What the tools promise together: in no window of time does a limiter    *)
(* let through more calls than its limit, however the calls are spread     *)
(* over the border of the windows (ratelimit.go, Allow); and the calendar  *)
(* holds the events that were created and not deleted, as they were last   *)
(* updated, each under an identifier of its own, until two changes of it   *)
(* overlap (calendar.go, which has no lock).                               *)
ToolsAreGoverned ==
    /\ \A l \in Limiters, t \in 0 .. clock :
          Cardinality({i \in DOMAIN admitted[l] : admitted[l][i] \in t - RateWindow + 1 .. t}) <= Limit
    /\ ~toolRaced =>
          /\ {events[i] : i \in DOMAIN events} = made
          /\ \A i, j \in DOMAIN events : events[i].id = events[j].id => i = j

=============================================================================
