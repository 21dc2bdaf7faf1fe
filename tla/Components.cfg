SPECIFICATION Spec
SYMMETRY Symmetry
CONSTANTS
    c1 = c1
    c2 = c2
    i1 = i1
    i2 = i2
    RunParts = {"workflow", "voice", "channels", "http", "providers", "nodes", "cluster", "offline", "documents", "devices", "browser", "tools", "startup", "config", "memory", "chat", "gateway"}
    WfCallers = {c1, c2, c3}
    Pipelines <- SomePipelines
    MaxRunning = 1
    maxWorkflowRuns = 1
    NoToken = NoToken
    WfBounds <- SomeWfBounds
    Calls = {1, 2}
    VoiceCallers = {c1, c2}
    Handlers = {1, 2}
    maxConcurrent = 1
    NoCall = NoCall
    VoiceBounds <- SomeVoiceBounds
    Platforms = {"telegram", "matrix", "signal", "irc", "slack", "discord", "whatsapp", "googlechat", "teams"}
    Shapes <- SomeShapes
    Window = 1
    ChannelBounds <- SomeChannelBounds
    HttpRequests = {c1, c2, c3}
    HttpSessions = {s1, s2}
    Nobody = Nobody
    LlmCallers = {l1}
    Chains <- SomeChains
    Replies <- SomeReplies
    MaxFailures = 2
    maxToolCallsPerDelta = 2
    ProviderBounds <- SomeProviderBounds
    NodeIds = {n1}
    AllowedNodes = {}
    NodeCallers = {c1, c2, c3}
    NoNode = NoNode
    NodeBounds <- SomeNodeBounds
    Holders = {"h1", "h2", "h3"}
    NodeOf <- SomeNodeOf
    NoOwner = "none"
    MaxGrants = 4
    Turns = {t1, t2}
    OfflineBounds <- SomeOfflineBounds
    DocCallers = {c1, c2}
    Docs <- SomeDocs
    DocInputs <- SomeDocInputs
    maxCanvasesPerSession = 1
    DocBounds <- SomeDocBounds
    ChanSize = 1
    BufferCap = 2
    Ports = {p1}
    Pins = {g1}
    Characteristics = {b1}
    DeviceBounds <- SomeDeviceBounds
    Users = {c1, c2}
    Targets = {1, 2, 3}
    Urls = {"site", "private"}
    ValidUrls = {"site"}
    NoTarget = 0
    MaxJS = 2
    ToolCallers = {"k1", "k2"}
    InputsOf <- SomeInputs
    Registered <- SomeRegistered
    Compiled <- SomeCompiled
    Limit = 1
    RateWindow = 2
    CacheTTL = 1
    ConnectedChannels = {x1, x2}
    ToolBounds <- SomeToolBounds
    StartupConfigs <- SomeConfigs
    Main = "main"
    Included = {"a", "b"}
    Includes <- SomeIncludes
    TriedSettings = {"telegram_token", "memory_provider"}
    maxIncludeDepth = 1
    MemCallers = {c1, c2}
    MemIds = {i1, i2}
    MemSetups <- SomeMemSetups
    MemRequests <- SomeMemRequests
    DefaultLimit = 1
    MemBounds <- SomeMemBounds
    Lines = {"ask", "/help", "/clear", "/cancel", "/speed", "/quit"}
    AnswerSize = 2
    ChunkOf <- SomeChunks
    MaxMessages = 2
    maxToolExecutions = 1
    TuiBounds <- SomeTuiBounds
    RpcCalls = {c1, c2}
    TokenRoles <- SomeTokenRoles
    TenantIds = {"t1"}
    GwSetups <- SomeGwSetups
INVARIANTS
    WorkflowsAreGated
    CallsAreAccounted
    DeliveryIsExact
    AnswerIsMine
    ReplyComesBack
    NodesAreTrusted
    OneHolder
    QueuedIsKept
    DocumentsAreTrue
    DevicesInOrder
    BrowserIsWhole
    ToolsAreGoverned
    StartupIsUndone
    LoadIsLayered
    MemoryIsTrue
    ChatIsTrue
    GatewayIsGuarded
CHECK_DEADLOCK FALSE
