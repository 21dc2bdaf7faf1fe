---------------------------- MODULE MCComponents ----------------------------
(***************************************************************************)
(* The components whose steps do not touch the state of another, side by   *)
(* side: every behaviour is one of one component, the part that was chosen *)
(* at the start, while the others keep their initial state.                *)
(***************************************************************************)
EXTENDS Workflow, VoiceCall, Channels, HTTPChannel, Providers, Nodes, Cluster, Offline,
        Documents, Devices, Browser, Tools, Startup, Config, Memory, Tui, Gateway, TLC

CONSTANTS c1, c2, i1, i2,   \* callers and identifiers that no definition tells apart
          RunParts             \* the components that run

VARIABLE part

Symmetry == Permutations({c1, c2}) \cup Permutations({i1, i2})

-----------------------------------------------------------------------------
(* Values of the constants *)

Step(type) == [type |-> type, cond |-> FALSE, valid |-> TRUE, failOnError |-> TRUE]
SkippedGate == [Step("approval") EXCEPT !.cond = TRUE]
SomePipelines == {<<Step("exec"), SkippedGate, Step("approval"), Step("tool_call")>>,
                  <<SkippedGate, Step("http")>>, <<Step("transform")>>}
SomeWfBounds == [runs |-> 2, crashes |-> 1, failures |-> 1]

\* Two calls and a crash, two websockets for one call, and a transcript with its waiters.
SomeVoiceBounds == {[calls |-> 2, ops |-> 2, streams |-> 0, entries |-> 0, crashes |-> 1],
                    [calls |-> 1, ops |-> 1, streams |-> 2, entries |-> 1, crashes |-> 0],
                    [calls |-> 1, ops |-> 2, streams |-> 1, entries |-> 2, crashes |-> 0]}

Shape(text, own, group, mention, here) ==
    [text |-> text, own |-> own, group |-> group, mention |-> mention, here |-> here]
SomeShapes == {Shape("text", FALSE, FALSE, FALSE, TRUE), Shape("command", FALSE, TRUE, FALSE, FALSE),
               Shape("text", TRUE, TRUE, TRUE, TRUE)}
SomeChannelBounds == [messages |-> 2, restarts |-> 2, losses |-> 1]

SomeChains == {<<"openai", "anthropic">>, <<"gemini", "bedrock">>}
SomeReplies == {<<"text", "call">>, <<"call", "bare">>, <<"text", "text">>, <<"text", "bare">>}
SomeProviderBounds == [calls |-> 3, faults |-> 1]

SomeNodeBounds == [tokens |-> 2, calls |-> 3, time |-> 3]

\* Two holders are on one node.
SomeNodeOf == [h \in {"h1", "h2", "h3"} |-> IF h = "h3" THEN "h1" ELSE h]

SomeOfflineBounds == [changes |-> 4, faults |-> 1, crashes |-> 1]

Note == [kind |-> "note", name |-> 1]
Canvas(n) == [kind |-> "canvas", name |-> n]
SomeDocs == {Note, Canvas(1), Canvas(2)}
DocInput(op, d, x) == [op |-> op, doc |-> d, content |-> x, named |-> TRUE, filled |-> TRUE]
SomeDocInputs ==
    {DocInput(op, Note, "x") : op \in {"create", "read", "update", "delete", "list", "search"}}
    \cup {DocInput("update", Note, "y"), [DocInput("create", Note, "x") EXCEPT !.named = FALSE]}
    \cup {DocInput(op, Canvas(1), "x") :
             op \in {"create", "read", "update", "delete", "list", "present", "snapshot", "hide", "eval_js"}}
    \cup {DocInput(op, Canvas(2), "y") : op \in {"create", "update", "delete"}}
    \cup {[DocInput("eval_js", Canvas(1), "x") EXCEPT !.filled = FALSE]}
SomeDocBounds == [calls |-> 3, failures |-> 1]

SomeDeviceBounds == {[messages |-> 4, subs |-> 2, bytes |-> 0, settings |-> 0],
                     [messages |-> 0, subs |-> 0, bytes |-> 3, settings |-> 3]}

\* The first caller comes with every action of every tool, the second with those that meet.
ToolInput(t, a, has, form) == [tool |-> t, action |-> a, has |-> has, form |-> form, key |-> "q"]
AllToolInputs ==
    UNION {{ToolInput(t, a, Dispatch[t][a], "valid") : a \in DOMAIN Dispatch[t]} : t \in DOMAIN Dispatch}
    \cup {ToolInput("github", "create_pr", {"owner"}, "valid"), ToolInput("github", "fork", {}, "valid"),
          ToolInput("email", "send", {"to"}, "valid"), ToolInput("nobody", "x", {}, "valid"),
          ToolInput("cron", "list", {}, "invalid")}
MeetingToolInputs ==
    {ToolInput("github", "list_repos", {}, "valid"), ToolInput("calendar", "create_event", calendarCreateEvent, "valid"),
     ToolInput("calendar", "update_event", calendarUpdateEvent, "valid"),
     ToolInput("calendar", "delete_event", calendarDeleteEvent, "valid")}
SomeInputs == [k1 |-> AllToolInputs, k2 |-> MeetingToolInputs]
SomeRegistered == DOMAIN Dispatch
SomeCompiled == DOMAIN Dispatch \ {"cron"}
SomeToolBounds == [ticks |-> 2, calls |-> 3]

\* No configuration file, a wizard that was left, a quick start, an edge build, a channel
\* without its token, and everything at once.
BareConfig == [source |-> "file", on |-> {}, passkey |-> FALSE, entries |-> <<>>, agents |-> <<>>,
               servers |-> <<>>, skills |-> {}]
ChannelEntry(type, complete) == [type |-> type, complete |-> complete]
SomeConfigs ==
    {[BareConfig EXCEPT !.source = s] : s \in {"missing", "partial", "quick"}}
    \cup {[BareConfig EXCEPT !.on = {"edge", "browser", "process", "canvas"}, !.entries = <<ChannelEntry("telegram", FALSE)>>],
          [BareConfig EXCEPT !.entries = <<ChannelEntry("slack", FALSE)>>],
          [BareConfig EXCEPT
             !.entries = <<ChannelEntry("telegram", TRUE), ChannelEntry("http", TRUE)>>, !.passkey = TRUE,
             !.on = {"sandbox", "encryption", "audit", "retention", "scanning", "rotation", "vector", "process", "browser",
                     "canvas", "mcp", "skills", "nodes", "camera", "offline", "scheduler", "cron", "workflow", "voice",
                     "tenants", "cluster", "gateway", "curator"},
             !.agents = <<[id |-> "a", resolves |-> TRUE], [id |-> "b", resolves |-> FALSE]>>,
             !.servers = <<[id |-> "s-1", tools |-> {"mcp_s_1_x"}], [id |-> "s_1", tools |-> {"mcp_s_1_x", "mcp_s_1_y"}]>>,
             !.skills = {"shell", "poet"}]}

\* No include, a list, a chain, a diamond and a circle.
IncludeGraph(main, a, b) == [main |-> main, a |-> a, b |-> b]
SomeIncludes == {IncludeGraph(<<>>, <<>>, <<>>), IncludeGraph(<<"a", "b">>, <<>>, <<>>), IncludeGraph(<<"a">>, <<"b">>, <<>>),
                 IncludeGraph(<<"a", "b">>, <<"b">>, <<>>), IncludeGraph(<<"a">>, <<"b">>, <<"main">>)}

MemSetup(provider, encrypting) == [provider |-> provider, encrypting |-> encrypting]
SomeMemSetups == {MemSetup("markdown", TRUE), MemSetup("vector", FALSE), MemSetup("byterover", TRUE)}
MemRequest(op, n, q, limit) == [op |-> op, n |-> n, q |-> q, limit |-> limit]
SomeMemRequests == {MemRequest("store", 2, "words", 0), MemRequest("delete", 1, "words", 0), MemRequest("query", 0, "words", 0),
                    MemRequest("query", 0, "meaning", 1), MemRequest("erase", 0, "words", 0)}
SomeMemBounds == {[calls |-> 3, failures |-> 0, keys |-> 1], [calls |-> 2, failures |-> 1, keys |-> 1]}

\* Two requests with all that can be typed into them, two with a message or a call of a tool,
\* and the keys that open what a tool returned.
SomeTuiBounds == {[requests |-> 2, keys |-> 4, tools |-> 0], [requests |-> 2, keys |-> 2, tools |-> 1],
                  [requests |-> 0, keys |-> 4, tools |-> 1]}
SomeChunks == [normal |-> 1, fast |-> 2, instant |-> 0]

\* Every method from every kind of token; and tenants that come and go under faults, a
\* crash and the retention of the audit log.
SomeTokenRoles == [boss |-> {"admin"}, legacy |-> {}, typo |-> {"viewr"}, ops |-> {"operator"},
                   helper |-> {"user", "x"}, guest |-> {"viewer"}]
GwBound(who, methods, n, days, crashes) ==
    [tokens |-> who, methods |-> methods, calls |-> n, days |-> days, cleanups |-> 1, faults |-> 1,
     crashes |-> crashes]
GwSetup(rbac, audit, parts, maxAge, maxSize, bounds) ==
    [rbac |-> rbac, audit |-> audit, parts |-> parts, maxAge |-> maxAge, maxSize |-> maxSize, bounds |-> bounds]
SomeGwSetups ==
    {GwSetup(TRUE, FALSE, {"cron", "process", "nodes", "tokens", "tenants", "gdpr", "plugins"}, 0, 0,
             GwBound(DOMAIN SomeTokenRoles, {m.name : m \in AllMethods}, 1, 0, 0)),
     GwSetup(FALSE, FALSE, {"tenants"}, 0, 0, GwBound({"boss"}, {"tenant.create", "tenant.update", "tenant.delete"}, 4, 0, 1)),
     GwSetup(TRUE, TRUE, {"tenants", "gdpr"}, 0, 1, GwBound({"boss"}, {"gdpr.delete", "tenant.create", "tenant.delete"}, 2, 1, 1)),
     GwSetup(TRUE, TRUE, {"plugins"}, 1, 2, GwBound({"guest"}, {"plugin.list"}, 3, 2, 1))}

-----------------------------------------------------------------------------
(* The components that start in one of several states start in a fixed one *)
(* when another part runs.                                                 *)

Fixed(p, isFirst) == part = p \/ isFirst

Init ==
    /\ part \in RunParts
    /\ WorkflowInit
    /\ VoiceInit /\ Fixed("voice", vcLeft.crashes = 1)
    /\ ChannelsInit /\ Fixed("channels", chan = [platform |-> "irc", mentionOnly |-> FALSE, named |-> TRUE, state |-> "down"])
    /\ HttpInit
    /\ ProvidersInit /\ Fixed("providers", chain = CHOOSE x \in Chains : TRUE)
    /\ NodesInit /\ ClusterInit /\ OfflineInit /\ DocumentsInit
    /\ DevicesInit /\ Fixed("devices", devLeft = CHOOSE b \in DeviceBounds : TRUE)
    /\ BrowserInit /\ Fixed("browser", ~connected)
    /\ ToolsInit
    /\ StartupInit /\ Fixed("startup", cfg = [BareConfig EXCEPT !.source = "missing"])
    /\ ConfigInit /\ Fixed("config", <<setting, enabled, files, lists, env, passkey>> =
                               <<"memory_provider", TRUE, [f \in ConfigFiles |-> "unset"], IncludeGraph(<<>>, <<>>, <<>>), "unset", FALSE>>)
    /\ MemoryInit /\ Fixed("memory", memSetup = MemSetup("vector", FALSE) /\ memLeft.calls = 3)
    /\ TuiInit /\ Fixed("chat", tuiLeft.keys = 4 /\ tuiLeft.tools = 0)
    /\ GatewayInit /\ Fixed("gateway", ~gwSetup.rbac)

(* One component moves. *)

services == <<workflowVars, voiceVars, channelVars, httpVars, providerVars, nodeVars, clusterVars, offlineVars>>
adapters == <<docVars, deviceVars, browserVars, toolVars, startupVars, configVars, memVars, tuiVars, gatewayVars>>

Next ==
    \/ part = "workflow" /\ WorkflowNext /\ UNCHANGED <<part, voiceVars, channelVars, httpVars, providerVars, nodeVars, clusterVars, offlineVars, adapters>>
    \/ part = "voice" /\ VoiceNext /\ UNCHANGED <<part, workflowVars, channelVars, httpVars, providerVars, nodeVars, clusterVars, offlineVars, adapters>>
    \/ part = "channels" /\ ChannelsNext /\ UNCHANGED <<part, workflowVars, voiceVars, httpVars, providerVars, nodeVars, clusterVars, offlineVars, adapters>>
    \/ part = "http" /\ HttpNext /\ UNCHANGED <<part, workflowVars, voiceVars, channelVars, providerVars, nodeVars, clusterVars, offlineVars, adapters>>
    \/ part = "providers" /\ ProvidersNext /\ UNCHANGED <<part, workflowVars, voiceVars, channelVars, httpVars, nodeVars, clusterVars, offlineVars, adapters>>
    \/ part = "nodes" /\ NodesNext /\ UNCHANGED <<part, workflowVars, voiceVars, channelVars, httpVars, providerVars, clusterVars, offlineVars, adapters>>
    \/ part = "cluster" /\ ClusterNext /\ UNCHANGED <<part, workflowVars, voiceVars, channelVars, httpVars, providerVars, nodeVars, offlineVars, adapters>>
    \/ part = "offline" /\ OfflineNext /\ UNCHANGED <<part, workflowVars, voiceVars, channelVars, httpVars, providerVars, nodeVars, clusterVars, adapters>>
    \/ part = "documents" /\ DocumentsNext /\ UNCHANGED <<part, deviceVars, browserVars, toolVars, startupVars, configVars, memVars, tuiVars, gatewayVars, services>>
    \/ part = "devices" /\ DevicesNext /\ UNCHANGED <<part, docVars, browserVars, toolVars, startupVars, configVars, memVars, tuiVars, gatewayVars, services>>
    \/ part = "browser" /\ BrowserNext /\ UNCHANGED <<part, docVars, deviceVars, toolVars, startupVars, configVars, memVars, tuiVars, gatewayVars, services>>
    \/ part = "tools" /\ ToolsNext /\ UNCHANGED <<part, docVars, deviceVars, browserVars, startupVars, configVars, memVars, tuiVars, gatewayVars, services>>
    \/ part = "startup" /\ StartupNext /\ UNCHANGED <<part, docVars, deviceVars, browserVars, toolVars, configVars, memVars, tuiVars, gatewayVars, services>>
    \/ part = "config" /\ ConfigNext /\ UNCHANGED <<part, docVars, deviceVars, browserVars, toolVars, startupVars, memVars, tuiVars, gatewayVars, services>>
    \/ part = "memory" /\ MemoryNext /\ UNCHANGED <<part, docVars, deviceVars, browserVars, toolVars, startupVars, configVars, tuiVars, gatewayVars, services>>
    \/ part = "chat" /\ TuiNext /\ UNCHANGED <<part, docVars, deviceVars, browserVars, toolVars, startupVars, configVars, memVars, gatewayVars, services>>
    \/ part = "gateway" /\ GatewayNext /\ UNCHANGED <<part, docVars, deviceVars, browserVars, toolVars, startupVars, configVars, memVars, tuiVars, services>>

Spec == Init /\ [][Next]_<<part, services, adapters>>
=============================================================================
