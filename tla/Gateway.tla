------------------------------ MODULE Gateway -------------------------------
(***************************************************************************)
(* The calls of the gateway: which methods RegisterDefaultHandlers offers, *)
(* who may call them (requirePerm, usecase/auth.go, domain/auth.go), the   *)
(* tenants behind tenant.* (usecase/tenant.go, adapter/tenant/sqlite.go),  *)
(* and the audit log that all of this is written to (security/audit.go).   *)
(*                                                                         *)
(* The other methods hand their payload to a component that has a module   *)
(* of its own; here they only run or do not.  dispatchRPC gives every call *)
(* a goroutine, so calls meet at every lock, statement and file.           *)
(***************************************************************************)
EXTENDS Integers, Sequences, FiniteSets

CONSTANTS RpcCalls,    \* calls under way at once
          TokenRoles,  \* of every token its roles, none included
          TenantIds,
          GwSetups     \* what is wired, with the bounds: the tokens and methods tried, the number
                       \* of calls, days, cleanups, faults and crashes

Roles == {"admin", "operator", "user", "viewer"}

ASSUME GatewayConstants ==
    /\ "free" \notin RpcCalls
    /\ \A s \in GwSetups :
         /\ s.rbac \in BOOLEAN /\ s.audit \in BOOLEAN /\ s.maxAge \in Nat /\ s.maxSize \in Nat
         /\ s.bounds \in [tokens : SUBSET DOMAIN TokenRoles, methods : SUBSET STRING, calls : Nat, days : Nat,
                          cleanups : Nat, faults : Nat, crashes : Nat]

VARIABLES gwSetup,
          rpc,         \* the locals of every call
          tenantLock,  \* TenantManager.mu: the call that holds it
          tenantRow,   \* of every tenant its row
          tenantDirs,  \* tenants whose directories exist
          auditFile,   \* lines of the audit log: the event, whether it can be parsed, whether it ends
          auditOpen,   \* FileAuditLogger.file can be written
          gwDay,
          auditEvents, \* of every event that was to be logged: its kind, its tenant and its day
          gwSeen,      \* tenants created, fields updated, tenants with a stale update, and the events
                       \* whose lines were begun, in order, cut by a failure, or logged behind one cut
          gwLeft       \* what the bounds still allow

gatewayVars == <<gwSetup, rpc, tenantLock, tenantRow, tenantDirs, auditFile, auditOpen, gwDay, auditEvents, gwSeen, gwLeft>>

-----------------------------------------------------------------------------
(* Who may call what *)

ViewerPermissions == {"session:view", "memory:read", "dashboard:view"}
UserPermissions == {"session:view", "tool:execute", "memory:read", "memory:write", "dashboard:view"}
OperatorPermissions ==
    {"session:view", "session:delete", "tool:execute", "memory:read", "memory:write", "memory:delete",
     "dashboard:view", "cron:manage", "process:manage", "node:manage", "plugin:manage"}
AdminPermissions == OperatorPermissions \cup {"agent:create", "agent:delete", "config:edit", "tenant:manage"}

RolePermissions == [admin |-> AdminPermissions, operator |-> OperatorPermissions,
                    user |-> UserPermissions, viewer |-> ViewerPermissions]

\* Methods with one permission, each with what its handler refuses to do without.
Methods(part, perm, list) == {[name |-> x[1], part |-> part, perm |-> perm, needs |-> x[2]] : x \in list}

coreMethods ==
    Methods("core", "tool:execute",
            {<<"chat.send", {"session_id", "content"}>>, <<"chat.stream", {"session_id", "content"}>>,
             <<"chat.abort", {"session_id"}>>, <<"tool.approve", {"tool_call_id"}>>, <<"tool.deny", {"tool_call_id"}>>})
    \cup Methods("core", "session:view", {<<"session.list", {}>>, <<"session.get", {"id"}>>, <<"tool.list", {}>>})
    \cup Methods("core", "session:delete", {<<"session.delete", {"id"}>>})
    \cup Methods("core", "memory:read", {<<"memory.query", {"payload"}>>})
    \cup Methods("core", "memory:write", {<<"memory.store", {"content"}>>})
    \cup Methods("core", "memory:delete", {<<"memory.delete", {"id"}>>})
    \cup Methods("core", "dashboard:view", {<<"config.get", {}>>})

cronMethods ==
    Methods("cron", "cron:manage", {<<"cron.list", {}>>, <<"cron.get", {"id"}>>, <<"cron.create", {"payload"}>>,
                                    <<"cron.update", {"id"}>>, <<"cron.delete", {"id"}>>, <<"cron.runs", {"job_id"}>>})

processMethods ==
    Methods("process", "process:manage",
            {<<"process.list", {}>>, <<"process.clear", {}>>, <<"process.write", {"session_id", "input"}>>}
            \cup {<<m, {"session_id"}>> : m \in {"process.poll", "process.log", "process.kill", "process.remove"}})

nodeMethods ==
    Methods("nodes", "node:manage", {<<"node.list", {}>>, <<"node.discover", {}>>, <<"node.get", {"id"}>>,
                                     <<"node.invoke", {"node_id", "capability"}>>})
    \cup Methods("tokens", "node:manage", {<<"node.token.generate", {"node_id"}>>, <<"node.token.revoke", {"node_id"}>>})

tenantMethods ==
    Methods("tenants", "tenant:manage", {<<"tenant.list", {}>>, <<"tenant.create", {"id", "name"}>>}
            \cup {<<m, {"id"}>> : m \in {"tenant.get", "tenant.update", "tenant.delete"}})

gdprMethods ==
    Methods("gdpr", "tenant:manage", {<<m, {"user_id"}>> : m \in {"gdpr.export", "gdpr.delete", "gdpr.anonymize"}})

otherMethods == Methods("plugins", "plugin:manage", {<<"plugin.list", {}>>})
                \cup Methods("agents", "session:view", {<<"agent.list", {}>>})

AllMethods == UNION {coreMethods, cronMethods, processMethods, nodeMethods, tenantMethods, gdprMethods, otherMethods}

\* RegisterDefaultHandlers: what is not wired has no handler.
RegisterDefaultHandlers == {m \in AllMethods : m.part \in {"core"} \cup gwSetup.parts}

\* Mutant: the roles are asked for any permission.
MutAuthorize(roles, perm) == \E r \in roles : RolePermissions[r] # {}

Authorize(roles, perm) == \E r \in roles : perm \in RolePermissions[r]

\* StringsToAuthRoles drops the roles it does not know; a token without roles counts as
\* admin, also when all of its roles were dropped.
EffectiveRoles(k) == IF TokenRoles[k] \cap Roles = {} THEN {"admin"} ELSE TokenRoles[k] \cap Roles

-----------------------------------------------------------------------------

NoMethod == [name |-> "none", part |-> "core", perm |-> "none", needs |-> {}]
NoTenant == [name |-> "none", plan |-> "none"]
RpcIdle == [pc |-> "idle", token |-> "none", m |-> NoMethod, given |-> {}, tenant |-> "none", field |-> "none",
            row |-> NoTenant, event |-> 0, told |-> "nothing"]

GatewayInit ==
    /\ gwSetup \in GwSetups
    /\ rpc = [c \in RpcCalls |-> RpcIdle]
    /\ tenantLock = "free" /\ tenantRow = [t \in TenantIds |-> NoTenant] /\ tenantDirs = {}
    /\ auditFile = <<>> /\ auditOpen = gwSetup.audit
    /\ gwDay = 0 /\ auditEvents = <<>>
    /\ gwSeen = [made |-> {}, said |-> {}, stale |-> {}, logged |-> <<>>, spoiled |-> {},
              swallowed |-> {}]
    /\ gwLeft = gwSetup.bounds

tenantVars == <<tenantLock, tenantRow, tenantDirs>>
auditVars == <<auditFile, auditOpen, auditEvents>>

RpcAt(c, pc) == rpc[c].pc = pc
RpcGo(c, pc) == rpc' = [rpc EXCEPT ![c].pc = pc]
Respond(c, told) == rpc' = [rpc EXCEPT ![c].pc = "respond", ![c].told = told]
Fault == gwLeft.faults > 0 /\ gwLeft' = [gwLeft EXCEPT !.faults = @ - 1]

\* dispatchRPC: a frame names a method, with or without what its handler needs.
dispatchRPC(c, k, m, given) ==
    /\ RpcAt(c, "idle") /\ gwLeft.calls > 0 /\ m.name \in gwLeft.methods
    /\ gwLeft' = [gwLeft EXCEPT !.calls = @ - 1]
    /\ \E t \in IF m.part = "tenants" THEN TenantIds ELSE {"none"},
          f \in IF m.name = "tenant.update" THEN {"name", "plan"} ELSE {"none"} :
         rpc' = [rpc EXCEPT ![c] = [RpcIdle EXCEPT !.token = k, !.m = m, !.given = given, !.tenant = t, !.field = f,
                    !.pc = IF m \in RegisterDefaultHandlers THEN "guard" ELSE "respond",
                    !.told = IF m \in RegisterDefaultHandlers THEN "nothing" ELSE "no such method"]]
    /\ UNCHANGED <<gwSetup, tenantVars, auditVars, gwDay, gwSeen>>

\* An event of this call is to be logged next.
Logs(c, kind, told) ==
    /\ auditEvents' = Append(auditEvents, [kind |-> kind, tenant |-> rpc[c].tenant, day |-> gwDay])
    /\ rpc' = [rpc EXCEPT ![c].pc = "log", ![c].event = Len(auditEvents) + 1, ![c].told = told]

\* requirePerm: a refusal goes to the audit log before the caller hears of it.
requirePerm(c) ==
    /\ RpcAt(c, "guard")
    /\ IF gwSetup.rbac /\ ~Authorize(EffectiveRoles(rpc[c].token), rpc[c].m.perm)
       THEN IF gwSetup.audit THEN Logs(c, "denied", "forbidden") ELSE Respond(c, "forbidden") /\ UNCHANGED auditEvents
       ELSE RpcGo(c, "handle") /\ UNCHANGED auditEvents
    /\ UNCHANGED <<gwSetup, tenantVars, auditFile, auditOpen, gwDay, gwSeen, gwLeft>>

FirstOfRpc(name) ==
    CASE name = "tenant.create" -> "insert" [] name = "tenant.update" -> "read"
      [] name = "tenant.delete" -> "drop"   [] OTHER -> "run"

\* Every handler looks at its payload first.  (TenantManager also asks for tenant:manage,
\* with the roles of the same token, and so answers as requirePerm did.)
ReadPayload(c) ==
    /\ RpcAt(c, "handle")
    /\ IF rpc[c].m.needs \subseteq rpc[c].given THEN RpcGo(c, FirstOfRpc(rpc[c].m.name)) ELSE Respond(c, "invalid payload")
    /\ UNCHANGED <<gwSetup, tenantVars, auditVars, gwDay, gwSeen, gwLeft>>

\* The handlers that pass the call on: the component does it or returns an error; gdpr.*
\* leave an event.
PassOn(c) ==
    /\ RpcAt(c, "run")
    /\ \/ /\ IF rpc[c].m.part = "gdpr" /\ gwSetup.audit
             THEN Logs(c, "gdpr", "ok")
             ELSE Respond(c, "ok") /\ UNCHANGED auditEvents
          /\ UNCHANGED gwLeft
       \/ Fault /\ Respond(c, "error") /\ UNCHANGED auditEvents
    /\ UNCHANGED <<gwSetup, tenantVars, auditFile, auditOpen, gwDay, gwSeen>>

-----------------------------------------------------------------------------
(* Tenants.  A new tenant has an old name and a free plan, and an update   *)
(* gives it a new name or a paid plan.                                     *)

NewTenant == [name |-> "old", plan |-> "free"]
Patched(row, f) == IF f = "name" THEN [row EXCEPT !.name = "new"] ELSE [row EXCEPT !.plan = "paid"]

\* TenantManager.Create: the row under the lock, whose key must be new ...
CreateTenant(c) ==
    /\ RpcAt(c, "insert") /\ tenantLock = "free"
    /\ \/ /\ tenantRow[rpc[c].tenant] = NoTenant
          /\ tenantRow' = [tenantRow EXCEPT ![rpc[c].tenant] = NewTenant]
          /\ tenantLock' = c /\ RpcGo(c, "dirs") /\ UNCHANGED gwLeft
       \/ tenantRow[rpc[c].tenant] # NoTenant /\ Respond(c, "error") /\ UNCHANGED <<tenantRow, tenantLock, gwLeft>>
       \/ Fault /\ Respond(c, "error") /\ UNCHANGED <<tenantRow, tenantLock>>
    /\ UNCHANGED <<gwSetup, tenantDirs, auditVars, gwDay, gwSeen>>

\* ... and its directories; when they cannot be made the row stays.
MakeDirs(c) ==
    /\ RpcAt(c, "dirs")
    /\ tenantLock' = "free"
    /\ \/ /\ tenantDirs' = tenantDirs \cup {rpc[c].tenant}
          /\ gwSeen' = [gwSeen EXCEPT !.made = @ \cup {rpc[c].tenant}]
          /\ IF gwSetup.audit THEN Logs(c, "create", "ok") ELSE Respond(c, "ok") /\ UNCHANGED auditEvents
          /\ UNCHANGED gwLeft
       \/ Fault /\ Respond(c, "error") /\ UNCHANGED <<tenantDirs, gwSeen, auditEvents>>
    /\ UNCHANGED <<gwSetup, tenantRow, auditFile, auditOpen, gwDay>>

\* tenantUpdateHandler reads the tenant without the lock, changes its copy ...
ReadTenant(c) ==
    /\ RpcAt(c, "read")
    /\ LET row == tenantRow[rpc[c].tenant]
       IN  IF row = NoTenant THEN Respond(c, "error")
           ELSE rpc' = [rpc EXCEPT ![c].row = row, ![c].pc = "write"]
    /\ UNCHANGED <<gwSetup, tenantVars, auditVars, gwDay, gwSeen, gwLeft>>

\* ... and writes every column of it.
UpdateTenant(c) ==
    /\ RpcAt(c, "write") /\ tenantLock = "free"
    /\ LET t == rpc[c].tenant IN
       \/ /\ tenantRow[t] # NoTenant
          /\ tenantRow' = [tenantRow EXCEPT ![t] = Patched(rpc[c].row, rpc[c].field)]
          /\ gwSeen' = [gwSeen EXCEPT !.said = @ \cup {<<t, rpc[c].field>>},
                                      !.stale = IF tenantRow[t] # rpc[c].row THEN @ \cup {t} ELSE @]
          /\ Respond(c, "ok") /\ UNCHANGED gwLeft
       \/ tenantRow[t] = NoTenant /\ Respond(c, "error") /\ UNCHANGED <<tenantRow, gwSeen, gwLeft>>
       \/ Fault /\ Respond(c, "error") /\ UNCHANGED <<tenantRow, gwSeen>>
    /\ UNCHANGED <<gwSetup, tenantLock, tenantDirs, auditVars, gwDay>>

\* TenantManager.Delete keeps the directories.
DeleteTenant(c) ==
    /\ RpcAt(c, "drop") /\ tenantLock = "free"
    /\ LET t == rpc[c].tenant IN
       \/ /\ tenantRow[t] # NoTenant
          /\ tenantRow' = [tenantRow EXCEPT ![t] = NoTenant]
          /\ gwSeen' = [gwSeen EXCEPT !.made = @ \ {t}, !.said = @ \ {<<t, "name">>, <<t, "plan">>}]
          /\ IF gwSetup.audit THEN Logs(c, "delete", "ok") ELSE Respond(c, "ok") /\ UNCHANGED auditEvents
          /\ UNCHANGED gwLeft
       \/ tenantRow[t] = NoTenant /\ Respond(c, "error") /\ UNCHANGED <<tenantRow, gwSeen, auditEvents, gwLeft>>
       \/ Fault /\ Respond(c, "error") /\ UNCHANGED <<tenantRow, gwSeen, auditEvents>>
    /\ UNCHANGED <<gwSetup, tenantLock, tenantDirs, auditFile, auditOpen, gwDay>>

-----------------------------------------------------------------------------
(* The audit log.  A line is one unit of size.                             *)

Torn == auditFile # <<>> /\ ~auditFile[Len(auditFile)].ended

\* A line behind one without its end becomes part of it, and neither can be read.
Appended(e) == IF Torn THEN [auditFile EXCEPT ![Len(auditFile)] = [@ EXCEPT !.parses = FALSE, !.ended = TRUE]]
                       ELSE Append(auditFile, [event |-> e, parses |-> TRUE, ended |-> TRUE])

\* So does a part of one; a line that lacks nothing but its end can still be parsed.
PartOf(e) == IF Torn THEN {[auditFile EXCEPT ![Len(auditFile)] = [@ EXCEPT !.parses = FALSE]]}
                     ELSE {Append(auditFile, [event |-> e, parses |-> whole, ended |-> FALSE]) : whole \in BOOLEAN}

WriteStops(e) ==
    /\ auditFile' \in PartOf(e)
    /\ gwSeen' = [gwSeen EXCEPT !.logged = Append(@, e), !.spoiled = @ \cup {e}]

\* FileAuditLogger.Log, under its lock; nobody looks at its error.
Log(c) ==
    /\ RpcAt(c, "log")
    /\ LET e == rpc[c].event IN
       \/ /\ auditOpen /\ auditFile' = Appended(e)
          /\ gwSeen' = [gwSeen EXCEPT !.logged = Append(@, e), !.swallowed = IF Torn THEN @ \cup {e} ELSE @]
          /\ UNCHANGED gwLeft
       \/ ~auditOpen /\ UNCHANGED <<auditFile, gwSeen, gwLeft>>
       \/ auditOpen /\ Fault /\ (WriteStops(e) \/ UNCHANGED <<auditFile, gwSeen>>)
    /\ RpcGo(c, "respond")
    /\ UNCHANGED <<gwSetup, tenantVars, auditOpen, auditEvents, gwDay>>

\* Those that can be parsed and are older than MaxAge go ...
Expired(e) == gwSetup.maxAge > 0 /\ auditEvents[e].day < gwDay - gwSetup.maxAge
Young == {i \in DOMAIN auditFile : ~(auditFile[i].parses /\ Expired(auditFile[i].event))}

\* ... and of the others the newest that fit are kept, in their order.
Fitting == {i \in Young : gwSetup.maxSize > 0 => Cardinality({j \in Young : j >= i}) <= gwSetup.maxSize}
Nth(places, n) == CHOOSE i \in places : Cardinality({j \in places : j <= i}) = n

\* A copy of the lines at some places, in which some are cut and the last may lack its end.
Copy(places, cut, ended) ==
    [n \in 1 .. Cardinality(places) |->
        LET i == Nth(places, n)
        IN  [auditFile[i] EXCEPT !.parses = @ /\ i \notin cut, !.ended = ended \/ n < Cardinality(places)]]

Retained == Copy(Fitting, {}, TRUE)

Cleanup == gwLeft.cleanups > 0 /\ gwLeft' = [gwLeft EXCEPT !.cleanups = @ - 1]
CleanupFails == /\ gwLeft.cleanups > 0 /\ gwLeft.faults > 0
                /\ gwLeft' = [gwLeft EXCEPT !.cleanups = @ - 1, !.faults = @ - 1]

\* What a copy spoils: lines that should be kept and are not there whole.
Lost(lines) ==
    {auditFile[i].event : i \in Fitting}
        \ {lines[n].event : n \in {m \in DOMAIN lines : lines[m].parses /\ lines[m].ended}}

\* EnforceRetention holds the lock from the closing of the file to its opening, and
\* returns early when there is no policy, or only one of size that is met.
EnforceRetention ==
    /\ gwSetup.audit /\ auditOpen /\ gwSetup.maxAge + gwSetup.maxSize > 0
    /\ gwSetup.maxAge = 0 => Len(auditFile) > gwSetup.maxSize
    /\ \/ Cleanup /\ auditFile' = Retained /\ UNCHANGED <<auditOpen, gwSeen>>
       \* The lines cannot be read or the temporary file cannot be made or renamed.
       \/ CleanupFails /\ UNCHANGED <<auditFile, auditOpen, gwSeen>>
       \* The file cannot be opened again: for reading, or for the lines to come.
       \/ CleanupFails /\ auditFile' \in {auditFile, Retained} /\ auditOpen' = FALSE /\ UNCHANGED gwSeen
       \* What the temporary file does not take, lines, parts or ends of them, is lost: its
       \* errors are not looked at.
       \/ /\ CleanupFails
          /\ \E places \in SUBSET Fitting : \E cut \in SUBSET places, ended \in BOOLEAN :
               auditFile' = Copy(places, cut, ended)
          /\ gwSeen' = [gwSeen EXCEPT !.spoiled = @ \cup Lost(auditFile')]
          /\ UNCHANGED auditOpen
    /\ UNCHANGED <<gwSetup, rpc, tenantVars, auditEvents, gwDay>>

-----------------------------------------------------------------------------

sendResponse(c) ==
    /\ RpcAt(c, "respond")
    /\ rpc' = [rpc EXCEPT ![c] = RpcIdle]
    /\ UNCHANGED <<gwSetup, tenantVars, auditVars, gwDay, gwSeen, gwLeft>>

DayPasses ==
    /\ gwLeft.days > 0 /\ gwLeft' = [gwLeft EXCEPT !.days = @ - 1]
    /\ gwDay' = gwDay + 1
    /\ UNCHANGED <<gwSetup, rpc, tenantVars, auditVars, gwSeen>>

\* The process ends anywhere, perhaps in the middle of a line, and starts again.
GatewayCrash ==
    /\ gwLeft.crashes > 0 /\ gwLeft' = [gwLeft EXCEPT !.crashes = @ - 1]
    /\ \/ UNCHANGED <<auditFile, gwSeen>>
       \/ \E c \in RpcCalls : RpcAt(c, "log") /\ auditOpen /\ WriteStops(rpc[c].event)
    /\ rpc' = [c \in RpcCalls |-> RpcIdle]
    /\ tenantLock' = "free" /\ auditOpen' = gwSetup.audit
    /\ UNCHANGED <<gwSetup, tenantRow, tenantDirs, auditEvents, gwDay>>

GatewayNext ==
    \/ \E c \in RpcCalls :
         \/ \E k \in gwLeft.tokens, m \in AllMethods : \E given \in {{}, m.needs} : dispatchRPC(c, k, m, given)
         \/ requirePerm(c) \/ ReadPayload(c) \/ PassOn(c) \/ Log(c) \/ sendResponse(c)
         \/ CreateTenant(c) \/ MakeDirs(c) \/ ReadTenant(c) \/ UpdateTenant(c) \/ DeleteTenant(c)
    \/ EnforceRetention \/ DayPasses \/ GatewayCrash

GatewaySpec == GatewayInit /\ [][GatewayNext]_gatewayVars

-----------------------------------------------------------------------------
(* Properties *)

\* The roles from the one that may least; domain/auth.go: "Higher roles include all
\* permissions of lower roles plus their own."
Rank == [viewer |-> 1, user |-> 2, operator |-> 3, admin |-> 4]
LowestFor(perm) == CHOOSE r \in Roles : /\ perm \in RolePermissions[r]
                                        /\ \A q \in Roles : perm \in RolePermissions[q] => Rank[r] <= Rank[q]

\* With roles, a handler runs exactly for the tokens that hold the lowest role with its
\* permission or a higher one.
GuardIsExact ==
    gwSetup.rbac => \A c \in RpcCalls :
        LET may == \E r \in EffectiveRoles(rpc[c].token) : Rank[r] >= Rank[LowestFor(rpc[c].m.perm)]
        IN  rpc[c].pc \notin {"idle", "guard"} /\ rpc[c].told # "no such method" => (may <=> rpc[c].told # "forbidden")

\* A tenant whose creation was acknowledged has its row and its directories until it is
\* deleted, and what updates of it were told is in the row, unless one of them wrote a
\* copy that was old by then.
TenantsAreTrue ==
    /\ \A t \in gwSeen.made : tenantRow[t] # NoTenant /\ t \in tenantDirs
    /\ \A t \in TenantIds \ gwSeen.stale :
         /\ <<t, "name">> \in gwSeen.said => tenantRow[t].name = "new"
         /\ <<t, "plan">> \in gwSeen.said => tenantRow[t].plan = "paid"

\* An event that was logged can be read until it is older than MaxAge or MaxSize lines
\* were logged behind it, unless a crash, a failing write or a failing copy cut its line, or
\* it was logged behind such a line and swallowed by it; the log holds its lines once and in
\* the order they were logged.
TrailIsKept ==
    /\ \A k \in DOMAIN gwSeen.logged :
         LET e == gwSeen.logged[k] IN
         \/ \E i \in DOMAIN auditFile : auditFile[i].event = e /\ auditFile[i].parses
         \/ e \in gwSeen.spoiled \cup gwSeen.swallowed \/ Expired(e)
         \/ gwSetup.maxSize > 0 /\ Len(gwSeen.logged) - k >= gwSetup.maxSize
    /\ \E where \in [DOMAIN auditFile -> DOMAIN gwSeen.logged] :
         \A i \in DOMAIN auditFile : /\ gwSeen.logged[where[i]] = auditFile[i].event
                                    /\ \A j \in 1 .. i - 1 : where[j] < where[i]

\* A failure or a crash has no more than one of the events swallowed that are logged later.
OneIsSwallowed ==
    Cardinality(gwSeen.swallowed)
        <= (gwSetup.bounds.faults - gwLeft.faults) + (gwSetup.bounds.crashes - gwLeft.crashes)

GatewayIsGuarded == GuardIsExact /\ TenantsAreTrue /\ TrailIsKept /\ OneIsSwallowed
=============================================================================
