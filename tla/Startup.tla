------------------------------- MODULE Startup -------------------------------
(***************************************************************************)
(* The composition root: cmd/agent/main.go and the init_*.go files beside  *)
(* it, with the MCP bridge of internal/adapter/tool/mcp_bridge.go and the  *)
(* tool registry they fill.  Startup opens the parts of the program one    *)
(* after the other, every one may fail, and what was opened is closed by   *)
(* the cleanups deferred so far, last one first.                           *)
(***************************************************************************)
EXTENDS Integers, Sequences, FiniteSets

CONSTANTS StartupConfigs \* the configurations tried, records with the fields
                         \*   source   "quick" | "partial" | "file" | "missing"
                         \*   on       the features that are enabled
                         \*   passkey  ALFREDAI_ENCRYPTION_KEY is set
                         \*   entries  <<[type, complete], ...>>: the channels
                         \*   agents   <<[id, resolves], ...>>: agent instances
                         \*   servers  <<[id, tools], ...>>: MCP servers; a tool is named as sanitizeName leaves it
                         \*   skills   names of the skills with trigger "tool"

ASSUME StartupConstants ==
    \A c \in StartupConfigs : /\ c.source \in {"quick", "partial", "file", "missing"} /\ c.passkey \in BOOLEAN
                              /\ Len(c.servers) \in Nat

VARIABLES cfg,
          stage,    \* the step of run() that comes next
          up,       \* the parts that are open or running
          cleanups, \* what run() has deferred, last one last
          conns,    \* MCP servers with an open connection
          owner,    \* of every registered tool, who registered it
          agents,   \* the agent instances the router knows
          chans,    \* of every channel: "new", "up", "failed", "quit", "down"
          turn,     \* "none", "running", or "cut" by the signal
          curator,  \* "none", "counted" in Router.Wait, or "late"
          outcome   \* what run() returns

startupVars == <<cfg, stage, up, cleanups, conns, owner, agents, chans, turn, curator, outcome>>

IsOn(f) == f \in cfg.on

StartupInit ==
    /\ cfg \in StartupConfigs
    /\ stage = "config" /\ up = {} /\ cleanups = <<>> /\ conns = {} /\ owner = <<>>
    /\ agents = {} /\ chans = <<>> /\ turn = "none" /\ curator = "none" /\ outcome = "none"

(* The parts every part calls, of those that the configuration has. *)
Uses(p) ==
    {q \in CASE p = "rotator"   -> {"encryptor"}
             [] p = "processes" -> {"bus"}
             [] p = "heartbeat" -> {"bus", "audit"}
             [] p = "scheduler" -> {"memory", "audit", "bus"}
             [] p = "gateway"   -> {"memory", "audit", "bus"}
             [] p = "channels"  -> {"memory", "audit", "bus"}
             [] OTHER           -> {} :
        CASE q = "encryptor" -> IsOn("encryption") /\ cfg.passkey
          [] q = "audit"     -> IsOn("audit")
          [] OTHER           -> TRUE}

(* Nobody stops these: they run on context.Background() until the process *)
(* ends.                                                                   *)
Abandoned == {"offline", "heartbeat", "browser", "mcp", "voice", "tenants"}

-----------------------------------------------------------------------------
(* The shapes of a step. *)

Rest == UNCHANGED <<cfg, conns, owner, agents, chans, turn, curator>>

Opens(parts, deferred, next) ==
    /\ up' = up \union parts
    /\ cleanups' = cleanups \o deferred
    /\ stage' = next /\ UNCHANGED outcome

Skips(next) == Opens({}, <<>>, next)

Fails ==
    /\ stage' = "unwind" /\ outcome' = "aborted" /\ UNCHANGED <<up, cleanups>>

(* A step that does something only when its feature is on, and may fail. *)
Optional(f, parts, deferred, next) ==
    IF IsOn(f) THEN Opens(parts, deferred, next) \/ Fails ELSE Skips(next)

(* Registry.Register: the first tool of a name keeps it, and the callers  *)
(* ignore the error the second one gets.                                   *)
RegisterTool(names, who) ==
    owner' = [n \in DOMAIN owner \union names |-> IF n \in DOMAIN owner THEN owner[n] ELSE who]

-----------------------------------------------------------------------------
(* run(): configuration, logger, tracer. *)

(* buildQuickConfig wants all three flags; without flags a missing file    *)
(* ends run() with a greeting, and any other file is loaded or refused.    *)
LoadConfig ==
    /\ stage = "config" /\ Rest
    /\ CASE cfg.source = "missing" -> stage' = "unwind" /\ outcome' = "first run" /\ UNCHANGED <<up, cleanups>>
         [] cfg.source = "partial" -> Fails
         [] cfg.source = "quick"   -> Skips("logger")
         [] cfg.source = "file"    -> Skips("logger") \/ Fails

StartLogger ==
    /\ stage = "logger" /\ Rest
    /\ Opens({"logger"}, <<"logger">>, "tracer") \/ Fails

StartTracer ==
    /\ stage = "tracer" /\ Rest
    /\ Opens({"tracer"}, <<"tracer">>, "sandbox") \/ Fails

(* initSecurity.  When a step of it fails it runs its own cleanups, last   *)
(* one first, before run() runs those deferred earlier: the order of one   *)
(* stack.  A retention that does not parse fails after the audit file was  *)
(* opened and before its cleanup is there.                                 *)

NewSandbox == stage = "sandbox" /\ Rest /\ Optional("sandbox", {}, <<>>, "encryption")

(* Mutant: the key is not wiped when a later step fails. *)
MutNewEncryptor ==
    /\ stage = "encryption" /\ Rest
    /\ IF IsOn("encryption") /\ cfg.passkey
         THEN Opens({"encryptor"}, <<>>, "audit") \/ Fails
         ELSE Skips("audit")

NewEncryptor ==
    /\ stage = "encryption" /\ Rest
    /\ IF IsOn("encryption") /\ cfg.passkey
         THEN Opens({"encryptor"}, <<"encryptor">>, "audit") \/ Fails
         ELSE Skips("audit")

NewAuditLogger ==
    /\ stage = "audit" /\ Rest
    /\ IF IsOn("audit")
         THEN \/ Opens({"audit"}, <<"audit">>, "scanning")
              \/ Fails
              \/ /\ IsOn("retention")
                 /\ up' = up \union {"audit"}
                 /\ stage' = "unwind" /\ outcome' = "aborted" /\ UNCHANGED cleanups
         ELSE Skips("scanning")

NewSecretScanner == stage = "scanning" /\ Rest /\ Optional("scanning", {}, <<>>, "rotation")

NewKeyRotator ==
    /\ stage = "rotation" /\ Rest
    /\ IF IsOn("rotation") /\ "encryptor" \in up
         THEN Opens({}, <<"rotator">>, "llm") \/ Fails
         ELSE Skips("llm")

(* initLLM: a provider that cannot be made, or an unknown default or       *)
(* fallback, ends the startup.                                             *)
initLLM == stage = "llm" /\ Rest /\ (Opens({"bus"}, <<"bus">>, "memory") \/ Fails)

(* initMemory: only the vector store has something to close. *)
initMemory ==
    /\ stage = "memory" /\ Rest
    /\ \/ Opens({"memory"}, IF IsOn("vector") THEN <<"memory">> ELSE <<>>, "agent")
       \/ Fails

-----------------------------------------------------------------------------
(* initAgent: the tools. *)

ToolOf ==
    [process |-> "process", canvas |-> "canvas", notes |-> "notes", github |-> "github",
     email |-> "email", calendar |-> "calendar", smarthome |-> "smarthome", mqtt |-> "mqtt",
     subagent |-> "sub_agent"]

OutOfEdge == {"browser", "canvas", "github", "email", "calendar", "mcp", "plugins", "nodes"}

Has(f) == IsOn(f) /\ ~(IsOn("edge") /\ f \in OutOfEdge)

(* A backend of these that does not come up only disables its tool. *)
MayBeMissing == {"canvas", "notes"}

initAgent ==
    /\ stage = "agent"
    /\ \E missing \in SUBSET {f \in MayBeMissing : Has(f)}, browser \in {b \in BOOLEAN : b => Has("browser")} :
          /\ RegisterTool({"filesystem", "shell", "web", "web_search"}
                        \union {ToolOf[f] : f \in {g \in DOMAIN ToolOf : Has(g)} \ missing}
                        \union (IF browser THEN {"browser"} ELSE {}), "builtin")
          /\ Opens((IF Has("process") THEN {"processes"} ELSE {})
                     \union (IF browser THEN {"browser"} ELSE {}), <<>>, "mcp")
    /\ UNCHANGED <<cfg, conns, agents, chans, turn, curator>>

(* NewMCPBridge: servers are connected in order; the first that fails      *)
(* closes the ones before it.  Of the connected ones those that cannot     *)
(* list their tools are skipped, unless that is all of them.               *)
connectServer(failing) ==
    IF failing = 0 THEN DOMAIN cfg.servers ELSE {}

discoverTools(listed) ==
    LET new == UNION {cfg.servers[i].tools : i \in listed}
        First(n) == CHOOSE i \in listed : n \in cfg.servers[i].tools
                                            /\ \A j \in listed : n \in cfg.servers[j].tools => i <= j
    IN owner' = [n \in DOMAIN owner \union new |->
                   IF n \in DOMAIN owner THEN owner[n] ELSE cfg.servers[First(n)].id]

NewMCPBridge ==
    /\ stage = "mcp"
    /\ IF Has("mcp") /\ cfg.servers # <<>>
         THEN \/ \E failing \in 1..Len(cfg.servers) :  \* connecting fails
                    conns' = connectServer(failing) /\ UNCHANGED owner /\ Skips("skills")
              \/ /\ conns' = {}                        \* no server lists its tools
                 /\ UNCHANGED owner /\ Skips("skills")
              \/ \E listed \in SUBSET (1..Len(cfg.servers)) \ {{}} :
                    /\ conns' = connectServer(0)
                    /\ discoverTools(listed)
                    /\ Opens({"mcp"}, <<>>, "skills")
         ELSE Skips("skills") /\ UNCHANGED <<conns, owner>>
    /\ UNCHANGED <<cfg, agents, chans, turn, curator>>

(* Skills of trigger "tool" are registered under their own names. *)
LoadSkills ==
    /\ stage = "skills"
    /\ \/ IsOn("skills") /\ RegisterTool(cfg.skills, "skill")
       \/ UNCHANGED owner          \* off, or the directory cannot be read
    /\ Skips("features")
    /\ UNCHANGED <<cfg, conns, agents, chans, turn, curator>>

(* initFeatures never fails: a plugin directory that cannot be scanned is  *)
(* logged.                                                                 *)
initFeatures ==
    /\ stage = "features"
    /\ RegisterTool(IF Has("nodes") THEN {"node_invoke", "node_list"} \union (cfg.on \intersect {"camera", "location"})
                                ELSE {}, "builtin")
    /\ Opens(IF Has("nodes") THEN {"heartbeat"} ELSE {}, <<>>, "router")
    /\ UNCHANGED <<cfg, conns, agents, chans, turn, curator>>

-----------------------------------------------------------------------------
(* initRuntime: the cleanup it returns is deferred only when all of it     *)
(* succeeds.                                                               *)

(* initMultiAgent: an instance whose provider or directory is not there is *)
(* left out, also when it is the default one; the delegate tool is there   *)
(* when more than one was configured.                                      *)
initMultiAgent ==
    /\ agents' = {cfg.agents[i].id : i \in {j \in DOMAIN cfg.agents : cfg.agents[j].resolves}}
    /\ RegisterTool(IF Len(cfg.agents) > 1 THEN {"delegate"} ELSE {}, "builtin")

NewRouter ==
    /\ stage = "router"
    /\ IF cfg.agents # <<>> THEN initMultiAgent ELSE agents' = {"main"} /\ UNCHANGED owner
    /\ \E local \in {b \in BOOLEAN : b => IsOn("offline")} :  \* the ollama provider exists
          Opens((IF local THEN {"offline"} ELSE {})
                  \union (IF IsOn("rotation") /\ "encryptor" \in up THEN {"rotator"} ELSE {}), <<>>, "channels")
    /\ UNCHANGED <<cfg, conns, chans, turn, curator>>

(* buildChannels: what discord and slack miss is an error, what the others *)
(* miss makes them be skipped, and the terminal is used when nobody is     *)
(* left.                                                                   *)
KnownTypes  == {"cli", "http", "telegram", "discord", "slack", "whatsapp", "matrix", "teams",
                "googlechat", "signal", "irc", "webchat"}
NeedNothing == {"cli", "http", "webchat"}
MustBeWhole == {"discord", "slack"}

Kept(e) == e.complete \/ e.type \in NeedNothing

Refused(e) == e.type \notin KnownTypes \/ (e.type \in MustBeWhole /\ ~e.complete)

buildChannels ==
    /\ stage = "channels"
    /\ LET kept == SelectSeq(cfg.entries, Kept)
           made == IF kept = <<>> THEN <<[type |-> "cli", complete |-> TRUE]>> ELSE kept
       IN IF \E i \in DOMAIN cfg.entries : Refused(cfg.entries[i])
            THEN Fails /\ UNCHANGED chans
            ELSE Skips("cron") /\ chans' = [i \in DOMAIN made |-> [type |-> made[i].type, is |-> "new"]]
    /\ UNCHANGED <<cfg, conns, owner, agents, turn, curator>>

(* A store that cannot be opened ends the startup; the tool is registered  *)
(* last.                                                                   *)
WithTool(f, tool, parts, next) ==
    /\ IF IsOn(f)
         THEN \/ Opens(parts, <<>>, next) /\ RegisterTool({tool}, "builtin")
              \/ Fails /\ UNCHANGED owner
         ELSE Skips(next) /\ UNCHANGED owner
    /\ UNCHANGED <<cfg, conns, agents, chans, turn, curator>>

NewCron     == stage = "cron" /\ WithTool("cron", "cron", {}, "workflow")
NewWorkflow == stage = "workflow" /\ WithTool("workflow", "workflow", {}, "voice")
NewVoice    == stage = "voice" /\ WithTool("voice", "voice_call", {"voice"}, "tenants")
NewTenants  == stage = "tenants" /\ Rest /\ Optional("tenants", {"tenants"}, <<>>, "cluster")
NewCluster  == stage = "cluster" /\ Rest /\ Optional("cluster", {"redis"}, <<>>, "runtime")

(* Then nothing fails any more: the cleanup is deferred, the scheduler and *)
(* the gateway run, and the channels are started.                          *)
initRuntime ==
    /\ stage = "runtime" /\ Rest
    /\ Opens({"channels", "router"} \union (IF IsOn("scheduler") \/ IsOn("cron") THEN {"scheduler"} ELSE {})
                                     \union (IF IsOn("gateway") THEN {"gateway"} ELSE {}), <<"runtime">>, "serve")

-----------------------------------------------------------------------------
(* Serving. *)

(* With one channel run() returns the error of its Start.  With several a  *)
(* failed one is only reported when the process ends.                      *)
RunChannel(i) ==
    /\ stage = "serve" /\ i \in DOMAIN chans /\ chans[i].is = "new"
    /\ \/ chans' = [chans EXCEPT ![i].is = "up"] /\ UNCHANGED <<stage, outcome>>
       \/ /\ chans[i].type \notin {"telegram", "matrix", "signal"}
          /\ chans' = [chans EXCEPT ![i].is = "failed"]
          /\ IF DOMAIN chans = {i} THEN stage' = "unwind" /\ outcome' = "error"
                               ELSE UNCHANGED <<stage, outcome>>
    /\ UNCHANGED <<cfg, up, cleanups, conns, owner, agents, turn, curator>>

(* Leaving the terminal ends its Start; run() goes on waiting for the      *)
(* signal.                                                                 *)
TuiQuits(i) ==
    /\ stage = "serve" /\ i \in DOMAIN chans /\ chans[i].type = "cli" /\ chans[i].is = "up"
    /\ chans' = [chans EXCEPT ![i].is = "quit"]
    /\ UNCHANGED <<cfg, stage, up, cleanups, conns, owner, agents, turn, curator, outcome>>

(* The servers of HTTP channels accept requests until they are stopped,    *)
(* with a context that the signal has cancelled.                           *)
TurnStarts ==
    /\ turn = "none"
    /\ \/ stage = "serve" /\ (\E i \in DOMAIN chans : chans[i].is = "up") /\ turn' = "running"
       \/ stage = "unwind" /\ (\E i \in DOMAIN chans : chans[i].is = "up" /\ chans[i].type = "http") /\ turn' = "cut"
    /\ UNCHANGED <<cfg, stage, up, cleanups, conns, owner, agents, chans, curator, outcome>>

(* The end of a turn, with the curator it leaves behind in the wait group  *)
(* when curation is on; one that is counted after Router.Wait has returned *)
(* is waited for by nobody.                                                *)
TurnFinishes ==
    /\ turn # "none" /\ turn' = "none"
    /\ curator' = IF IsOn("curator") /\ curator = "none"
                    THEN IF "router" \in up THEN "counted" ELSE "late"
                    ELSE curator
    /\ UNCHANGED <<cfg, stage, up, cleanups, conns, owner, agents, chans, outcome>>

CuratorEnds ==
    /\ curator # "none" /\ curator' = "none"
    /\ UNCHANGED <<cfg, stage, up, cleanups, conns, owner, agents, chans, turn, outcome>>

(* SIGINT or SIGTERM: every context made from ctx is cancelled. *)
Signal ==
    /\ stage = "serve" /\ \A i \in DOMAIN chans : chans[i].is # "new"
    /\ stage' = "unwind"
    /\ turn' = IF turn = "running" THEN "cut" ELSE turn
    /\ outcome' = IF \E i \in DOMAIN chans : chans[i].is = "failed" THEN "error" ELSE "ok"
    /\ UNCHANGED <<cfg, up, cleanups, conns, owner, agents, chans, curator>>

-----------------------------------------------------------------------------
(* Unwinding. *)

(* The steps of the cleanup initRuntime returned. *)
RuntimeCleanup == <<"gateway", "processes", "scheduler", "redis", "router", "channels">>

(* run() pops what it has deferred. *)
Unwind ==
    /\ stage = "unwind" /\ cleanups # <<>>
    /\ LET last == cleanups[Len(cleanups)]
           rest == SubSeq(cleanups, 1, Len(cleanups) - 1)
       IN IF last = "runtime"
            THEN /\ cleanups' = rest \o [i \in DOMAIN RuntimeCleanup |-> RuntimeCleanup[Len(RuntimeCleanup) + 1 - i]]
                 /\ UNCHANGED <<up, chans>>
            ELSE /\ last = "router" => curator # "counted"     \* Router.Wait
                 /\ cleanups' = rest
                 /\ up' = up \ {last}
                 /\ chans' = IF last = "channels"
                               THEN [i \in DOMAIN chans |-> [chans[i] EXCEPT !.is = IF @ = "up" THEN "down" ELSE @]]
                               ELSE chans
    /\ UNCHANGED <<cfg, stage, conns, owner, agents, turn, curator, outcome>>

Ended ==
    /\ stage = "unwind" /\ cleanups = <<>> /\ stage' = "ended"
    /\ turn' = "none" /\ curator' = "none"         \* the process is gone
    /\ UNCHANGED <<cfg, up, cleanups, conns, owner, agents, chans, outcome>>

Steady == stage = "ended" /\ UNCHANGED startupVars

StartupNext ==
    \/ LoadConfig \/ StartLogger \/ StartTracer
    \/ NewSandbox \/ NewEncryptor \/ NewAuditLogger \/ NewSecretScanner \/ NewKeyRotator
    \/ initLLM \/ initMemory \/ initAgent \/ NewMCPBridge \/ LoadSkills \/ initFeatures
    \/ NewRouter \/ buildChannels \/ NewCron \/ NewWorkflow \/ NewVoice \/ NewTenants \/ NewCluster \/ initRuntime
    \/ \E i \in DOMAIN chans : RunChannel(i) \/ TuiQuits(i)
    \/ TurnStarts \/ TurnFinishes \/ CuratorEnds \/ Signal \/ Unwind \/ Ended \/ Steady

StartupSpec == StartupInit /\ [][StartupNext]_startupVars

-----------------------------------------------------------------------------
(* StartupIsUndone: wherever startup fails and whenever the signal comes,  *)
(* no part that somebody stops is left without a part it uses; a curator   *)
(* the router has counted has the memory and its key until it is done, and *)
(* a turn that finds the memory closed was cut by the signal.  At the end  *)
(* nothing is up but the abandoned parts, a memory that has no closer and, *)
(* after an aborted startup, what its failing step left behind: an idle    *)
(* process manager or the audit file of a malformed retention.  A built-in *)
(* tool keeps its name whatever skill is called like it, and no MCP        *)
(* connection is open without a bridge.                                    *)
StartupIsUndone ==
    /\ \A p \in up \ Abandoned :
          Uses(p) \subseteq up \/ (p = "processes" /\ outcome = "aborted")
    /\ curator = "counted" => Uses("channels") \union Uses("rotator") \subseteq up
    /\ (turn = "running" \/ (turn = "cut" /\ "channels" \in up)) => Uses("channels") \subseteq up
    /\ stage = "ended" =>
          up \subseteq Abandoned \union {p \in {"memory"} : ~IsOn("vector")}
                       \union {p \in {"processes"} : outcome = "aborted"}
                       \union {p \in {"audit"} : outcome = "aborted" /\ IsOn("retention")}
    /\ owner # <<>> => \A n \in {"filesystem", "shell"} : owner[n] = "builtin"
    /\ conns # {} => "mcp" \in up

=============================================================================
