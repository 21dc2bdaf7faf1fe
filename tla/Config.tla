------------------------------- MODULE Config -------------------------------
(***************************************************************************)
(* Loading the configuration: internal/infra/config/config.go,             *)
(* includes.go and validate.go, and the health checks of                   *)
(* cmd/agent/doctor.go.  A setting gets its value in layers: defaults,     *)
(* included files, the main file, the environment.  The settings do not    *)
(* influence one another, so one of them is followed in every behaviour,   *)
(* through whatever include graph the files have.                          *)
(***************************************************************************)
EXTENDS Integers, Sequences

CONSTANTS Main,           \* the file --config names
          Included,       \* the other files
          Includes,       \* the include graphs tried: of every file, its list
          TriedSettings,  \* the settings followed
          maxIncludeDepth

ConfigFiles == {Main} \union Included

ASSUME ConfigConstants == /\ Main \notin Included /\ maxIncludeDepth \in Nat
                          /\ {"env", "default"} \cap ConfigFiles = {}
                          /\ Includes \subseteq [ConfigFiles -> Seq(ConfigFiles)]

VARIABLES setting,  \* the setting that is followed
          enabled,  \* the feature it belongs to is on
          files,    \* what every file says of it: "unset", "good", "bad" or "cipher"
          lists,    \* what every file includes
          env,      \* what the environment says of it
          passkey,  \* ALFREDAI_CONFIG_KEY is set
          phase, value,
          frames,   \* include lists being processed, innermost last
          visited, merged,
          results   \* what the doctor's checks found

configVars == <<setting, enabled, files, lists, env, passkey, phase, value, frames, visited, merged, results>>

world == <<setting, enabled, files, lists, env, passkey>>

-----------------------------------------------------------------------------
(* ApplyEnvOverrides: how each setting takes what the environment says.    *)
(* "text": any value is taken (a number, if it parses); "each": too, by    *)
(* every provider that the files name; "flag": only "true" is taken;       *)
(* "off": only "false"; "switch": both; "count": only a value that parses  *)
(* and is in range; "filled": any value, by every channel of its type      *)
(* that the files left without one.                                        *)

coreOverrides ==
    [default_provider |-> "text", logger_level |-> "text", tracer_enabled |-> "flag", tracer_exporter |-> "text",
     sandbox_root |-> "text", search_backend |-> "text", searxng_url |-> "text", filesystem_backend |-> "text",
     shell_backend |-> "text", shell_timeout |-> "count", browser_enabled |-> "flag", browser_backend |-> "text",
     browser_cdp_url |-> "text", browser_headless |-> "off", browser_timeout |-> "count", canvas_enabled |-> "flag",
     canvas_backend |-> "text", canvas_root |-> "text", cron_enabled |-> "flag", cron_data_dir |-> "text",
     process_enabled |-> "flag", process_max_sessions |-> "count", process_session_ttl |-> "count",
     process_output_max |-> "count", message_enabled |-> "flag", workflow_enabled |-> "flag",
     workflow_dir |-> "text", workflow_data_dir |-> "text", workflow_timeout |-> "count",
     workflow_max_output |-> "count", workflow_max_running |-> "count", workflow_allowed_commands |-> "text"]

modelOverrides ==
    [llm_task_enabled |-> "flag", llm_task_timeout |-> "count", llm_task_max_tokens |-> "count",
     llm_task_allowed_models |-> "text", llm_task_max_prompt_size |-> "count", llm_task_max_input_size |-> "count",
     llm_task_default_model |-> "text", camera_enabled |-> "flag", camera_max_payload_size |-> "count",
     camera_max_clip_duration |-> "count", camera_timeout |-> "count", location_enabled |-> "flag",
     location_timeout |-> "count", location_default_accuracy |-> "text"]

voiceOverrides ==
    [voice_enabled |-> "flag", voice_provider |-> "text", voice_from_number |-> "text", voice_default_to |-> "text",
     voice_default_mode |-> "text", voice_max_concurrent |-> "count", voice_max_duration |-> "count",
     voice_timeout |-> "count", twilio_account_sid |-> "text", twilio_auth_token |-> "text",
     voice_webhook_addr |-> "text", voice_public_url |-> "text", voice_webhook_skip_verify |-> "flag",
     voice_openai_api_key |-> "text", voice_tts_voice |-> "text", voice_tts_model |-> "text",
     voice_stt_model |-> "text", voice_data_dir |-> "text"]

toolOverrides ==
    [notes_enabled |-> "flag", notes_data_dir |-> "text", github_enabled |-> "flag", github_timeout |-> "count",
     github_max_requests |-> "count", email_enabled |-> "flag", email_timeout |-> "count",
     email_max_sends |-> "count", email_allowed_domains |-> "text", calendar_enabled |-> "flag",
     calendar_timeout |-> "count", smarthome_enabled |-> "flag", smarthome_url |-> "text", smarthome_token |-> "text",
     smarthome_timeout |-> "count", smarthome_max_calls |-> "count", gpio_enabled |-> "flag",
     serial_enabled |-> "flag", ble_enabled |-> "flag"]

memoryOverrides ==
    [memory_provider |-> "text", memory_data_dir |-> "text", memory_auto_curate |-> "flag",
     embedding_provider |-> "text", embedding_model |-> "text", embedding_api_key |-> "text",
     decay_half_life |-> "count", mmr_diversity |-> "text", embedding_cache_size |-> "text",
     byterover_base_url |-> "text", byterover_api_key |-> "text", byterover_project_id |-> "text",
     encryption_enabled |-> "flag", audit_enabled |-> "switch", audit_path |-> "text", consent_dir |-> "text"]

(* ALFREDAI_LLM_PROVIDER_<NAME>_API_KEY *)
providerOverrides == [api_key |-> "each"]

nodeOverrides ==
    [nodes_enabled |-> "flag", heartbeat_interval |-> "count", invoke_timeout |-> "count",
     gateway_enabled |-> "flag", gateway_addr |-> "text"]

tokenOverrides ==
    [telegram_token |-> "filled", discord_token |-> "filled", slack_bot_token |-> "filled",
     slack_app_token |-> "filled", whatsapp_token |-> "filled", matrix_access_token |-> "filled",
     teams_app_id |-> "filled", teams_app_secret |-> "filled"]

chatOverrides ==
    [googlechat_credentials |-> "filled", googlechat_space_id |-> "filled", signal_api_url |-> "filled",
     signal_phone |-> "filled", irc_server |-> "filled", irc_nick |-> "filled", irc_password |-> "filled"]

(* No other setting has an environment variable. *)
OverrideTables ==
    {coreOverrides, modelOverrides, voiceOverrides, toolOverrides, memoryOverrides, providerOverrides,
     nodeOverrides, tokenOverrides, chatOverrides}

OverrideOf(s) ==
    IF \E t \in OverrideTables : s \in DOMAIN t
      THEN (CHOOSE t \in OverrideTables : s \in DOMAIN t)[s] ELSE "file only"

(* Whether a setting listens to the environment, after the files said      *)
(* what they say.                                                          *)
Heeded(s, said) ==
    LET kind == OverrideOf(s)
    IN CASE kind \in {"text", "switch"} -> env # "unset"
         [] kind = "each"               -> env # "unset" /\ enabled
         [] kind \in {"flag", "count"}  -> env = "good"
         [] kind = "off"                -> env = "bad"
         [] kind = "filled"             -> env # "unset" /\ enabled /\ said = "bad"
         [] OTHER                       -> FALSE

ApplyEnvOverrides(s, v) == IF Heeded(s, v.is) THEN [is |-> env, from |-> "env"] ELSE v

(* Defaults: the settings it leaves empty. *)
Defaults(s) ==
    [is |-> IF \/ s \in DOMAIN tokenOverrides \union DOMAIN chatOverrides \union DOMAIN providerOverrides
               \/ s \in {"browser_cdp_url", "workflow_allowed_commands", "llm_task_allowed_models",
                         "llm_task_default_model", "voice_from_number", "voice_default_to", "twilio_account_sid",
                         "twilio_auth_token", "voice_public_url", "voice_openai_api_key", "email_allowed_domains",
                         "smarthome_url", "smarthome_token", "embedding_provider", "embedding_model",
                         "embedding_api_key", "byterover_base_url", "byterover_api_key", "byterover_project_id",
                         "mqtt_broker_url", "mcp_servers", "agents_default", "http_addr", "whatsapp_phone_id",
                         "whatsapp_app_secret", "matrix_homeserver", "tenants_data_dir", "redis_url", "gateway_token"}
               \/ OverrideOf(s) = "flag"
              THEN "bad" ELSE "good",
     from |-> "default"]

-----------------------------------------------------------------------------
(* Validate: the feature under which a setting has to be good. *)

validateAgent ==
    [max_iterations |-> "always", agent_timeout |-> "always", system_prompt |-> "always",
     compression_threshold |-> "compression", compression_keep_recent |-> "compression"]

(* A provider of type bedrock needs a region instead of a key. *)
validateLLM == [default_provider |-> "always", provider_type |-> "providers", api_key |-> "providers"]

validateMemory ==
    [memory_provider |-> "always", byterover_base_url |-> "byterover", byterover_api_key |-> "byterover",
     decay_half_life |-> "always", mmr_diversity |-> "always", embedding_cache_size |-> "always"]

validateTools ==
    [sandbox_root |-> "always", search_backend |-> "always", searxng_url |-> "always",
     filesystem_backend |-> "always", shell_backend |-> "always", shell_timeout |-> "always",
     browser_backend |-> "browser", browser_timeout |-> "browser", canvas_backend |-> "canvas",
     canvas_root |-> "canvas", canvas_max_size |-> "canvas", process_max_sessions |-> "process",
     process_session_ttl |-> "process", process_output_max |-> "process", workflow_dir |-> "workflow",
     workflow_timeout |-> "workflow", workflow_max_output |-> "workflow", workflow_max_running |-> "workflow",
     llm_task_timeout |-> "llm_task", llm_task_max_tokens |-> "llm_task", llm_task_max_prompt_size |-> "llm_task",
     llm_task_max_input_size |-> "llm_task"]

(* Camera and location want the node system too. *)
validateDevices ==
    [nodes_enabled |-> "camera or location", camera_max_payload_size |-> "camera",
     camera_max_clip_duration |-> "camera", camera_timeout |-> "camera", location_timeout |-> "location",
     location_default_accuracy |-> "location", notes_data_dir |-> "notes", github_timeout |-> "github",
     github_max_requests |-> "github", email_timeout |-> "email", email_max_sends |-> "email",
     calendar_timeout |-> "calendar", smarthome_url |-> "smarthome", smarthome_timeout |-> "smarthome",
     smarthome_max_calls |-> "smarthome", mcp_servers |-> "mcp", mqtt_broker_url |-> "mqtt"]

validateVoiceCall ==
    [voice_provider |-> "voice", voice_from_number |-> "voice", twilio_account_sid |-> "voice",
     twilio_auth_token |-> "voice", voice_public_url |-> "voice", voice_max_concurrent |-> "voice",
     voice_max_duration |-> "voice", voice_timeout |-> "voice", voice_default_mode |-> "voice"]

validateChannels ==
    [http_addr |-> "http", telegram_token |-> "telegram", discord_token |-> "discord",
     slack_bot_token |-> "slack", slack_app_token |-> "slack", whatsapp_token |-> "whatsapp",
     whatsapp_phone_id |-> "whatsapp", matrix_homeserver |-> "matrix", matrix_access_token |-> "matrix",
     googlechat_credentials |-> "googlechat", teams_app_id |-> "teams", teams_app_secret |-> "teams",
     signal_api_url |-> "signal", signal_phone |-> "signal", irc_server |-> "irc", irc_nick |-> "irc"]

validateServices ==
    [audit_path |-> "audit", task_schedule |-> "scheduler", gateway_addr |-> "gateway",
     heartbeat_interval |-> "nodes", invoke_timeout |-> "nodes"]

validateAgents == [agents_default |-> "agents", agents_routing |-> "agents"]

validateExtras ==
    [plugin_dirs |-> "plugins", wasm_exec_timeout |-> "plugins", tenants_data_dir |-> "tenants",
     check_period |-> "offline", redis_url |-> "cluster", lock_ttl |-> "cluster"]

Validators ==
    {validateAgent, validateLLM, validateMemory, validateTools, validateDevices, validateVoiceCall,
     validateChannels, validateServices, validateAgents, validateExtras}

Required(s) ==
    \E t \in Validators : s \in DOMAIN t /\ (t[s] = "always" \/ enabled)

(* decryptSecrets: the settings whose "enc:" values are decrypted. *)
decryptSecrets ==
    {"api_key", "embedding_api_key", "telegram_token", "discord_token", "slack_bot_token", "slack_app_token",
     "whatsapp_token", "whatsapp_app_secret", "matrix_access_token", "teams_app_secret", "twilio_auth_token",
     "voice_openai_api_key", "gateway_token"}

(* What the composition root cannot do without: buildChannels drops or     *)
(* refuses a channel without it, initRuntime or initMemory fail.           *)
StartNeeds ==
    {"telegram_token", "discord_token", "slack_bot_token", "slack_app_token", "whatsapp_token",
     "matrix_access_token", "teams_app_id", "teams_app_secret", "googlechat_credentials", "signal_api_url",
     "irc_server", "irc_nick", "voice_provider", "memory_provider", "provider_type", "default_provider"}

-----------------------------------------------------------------------------
(* Load. *)

Secret == setting \in decryptSecrets

\* What a file, or the environment, may say: a secret may be encrypted, and no variable is
\* set to nothing (all that a token can be wrong by).
MaySay == {"unset", "good", "bad"} \union (IF Secret THEN {"cipher"} ELSE {})

ConfigInit ==
    /\ setting \in TriedSettings
    /\ enabled \in BOOLEAN
    /\ files \in [ConfigFiles -> MaySay]
    /\ lists \in Includes
    /\ env \in MaySay \ (IF Secret \/ OverrideOf(setting) = "filled" THEN {"bad"} ELSE {})
    /\ passkey \in (IF Secret THEN BOOLEAN ELSE {FALSE})
    /\ phase = "read" /\ value = Defaults(setting)
    /\ frames = <<>> /\ visited = {} /\ merged = <<>> /\ results = {}

Unmarshal(f) ==
    value' = IF files[f] = "unset" THEN value ELSE [is |-> files[f], from |-> f]

Refuse == phase' = "refused" /\ UNCHANGED <<value, frames, visited, merged>>

(* The first pass.  Without a file there are the defaults and the          *)
(* environment, of which then nothing is decrypted; a file that cannot be  *)
(* read or that others may write is refused.                               *)
ReadMain ==
    /\ phase = "read"
    /\ \/ /\ Unmarshal(Main)
          /\ IF lists[Main] = <<>>
               THEN phase' = "env" /\ UNCHANGED frames
               ELSE phase' = "include" /\ frames' = <<lists[Main]>>
          /\ visited' = {Main} /\ UNCHANGED merged
       \/ /\ files[Main] = "unset"
          /\ phase' = "env only" /\ UNCHANGED <<value, frames, visited, merged>>
       \/ Refuse
    /\ UNCHANGED <<world, results>>

(* processIncludes and mergeFile: one file of the innermost list.  What it *)
(* includes is merged right after it, over it.                             *)
MergeInclude ==
    /\ phase = "include" /\ frames # <<>>
    /\ LET depth == Len(frames)
           list  == frames[depth]
       IN IF list = <<>>
            THEN frames' = SubSeq(frames, 1, depth - 1) /\ UNCHANGED <<phase, value, visited, merged>>
            ELSE LET f == Head(list)
                     left == [frames EXCEPT ![depth] = Tail(list)]
                 IN IF f \in visited \/ (lists[f] # <<>> /\ depth > maxIncludeDepth)
                      THEN Refuse
                      ELSE \/ /\ visited' = visited \union {f} /\ merged' = Append(merged, f)
                              /\ Unmarshal(f) /\ UNCHANGED phase
                              /\ frames' = IF lists[f] = <<>> THEN left ELSE Append(left, lists[f])
                           \/ Refuse
    /\ UNCHANGED <<world, results>>

(* The second pass lets the main file win over what it includes. *)
MutSecondPass == UNCHANGED value

SecondPass == Unmarshal(Main)

IncludesEnd ==
    /\ phase = "include" /\ frames = <<>>
    /\ SecondPass /\ phase' = "env"
    /\ UNCHANGED <<world, frames, visited, merged, results>>

Overrides ==
    /\ \/ phase = "env" /\ phase' = "decrypt"
       \/ phase = "env only" /\ phase' = "validate"
    /\ value' = ApplyEnvOverrides(setting, value)
    /\ UNCHANGED <<world, frames, visited, merged, results>>

(* DecryptValue may fail: a wrong passphrase, or not its format. *)
Decrypt ==
    /\ phase = "decrypt"
    /\ IF passkey /\ Secret /\ value.is = "cipher"
         THEN \/ value' = [value EXCEPT !.is = "good"] /\ phase' = "validate" /\ UNCHANGED <<frames, visited, merged>>
              \/ Refuse
         ELSE phase' = "validate" /\ UNCHANGED <<value, frames, visited, merged>>
    /\ UNCHANGED <<world, results>>

Validate ==
    /\ phase = "validate"
    /\ phase' = IF Required(setting) /\ value.is = "bad" THEN "refused" ELSE "accepted"
    /\ UNCHANGED <<world, value, frames, visited, merged, results>>

-----------------------------------------------------------------------------
(* runDoctor: every check runs, with the configuration or without it; what *)
(* a check finds out of reach, on disk or on the network, is any of the    *)
(* statuses that it has for it.                                            *)
Loaded == phase = "accepted"

checkConfigFile       == IF Loaded THEN {"pass"} ELSE {"fail"}
checkLLMAPIKey        == IF Loaded THEN {"pass", "warn", "fail"} ELSE {"fail"}
checkLLMConnectivity  == IF Loaded THEN {"pass", "warn", "fail"} ELSE {"fail"}
checkMemoryBackend    == IF Loaded THEN {"pass", "fail"} ELSE {"fail"}
checkChannelConfig    == IF Loaded THEN {"pass", "warn"} ELSE {"fail"}
checkToolDependencies == IF Loaded THEN {"pass", "warn"} ELSE {"warn"}
checkDiskSpace        == {"pass", "warn", "fail"}
checkNetwork          == {"pass", "fail"}
checkChromium         == IF Loaded THEN {"pass", "fail"} ELSE {"pass", "warn"}
checkSearXNG          == IF Loaded THEN {"pass", "warn", "fail"} ELSE {"warn"}

Checks ==
    {checkConfigFile, checkLLMAPIKey, checkLLMConnectivity, checkMemoryBackend, checkChannelConfig,
     checkToolDependencies, checkDiskSpace, checkNetwork, checkChromium, checkSearXNG}

runDoctor ==
    /\ phase \in {"accepted", "refused"} /\ results = {}
    /\ \E found \in SUBSET {"pass", "warn", "fail"} \ {{}} :
          /\ \A c \in Checks : c \intersect found # {}
          /\ results' = found
    /\ UNCHANGED <<world, phase, value, frames, visited, merged>>

ConfigNext ==
    \/ ReadMain \/ MergeInclude \/ IncludesEnd \/ Overrides \/ Decrypt \/ Validate \/ runDoctor
    \/ results # {} /\ UNCHANGED configVars

ConfigSpec == ConfigInit /\ [][ConfigNext]_configVars

-----------------------------------------------------------------------------
(* What the files say: the main file, else the last one merged. *)
Saying == {i \in DOMAIN merged : files[merged[i]] # "unset"}

FromFiles ==
    IF files[Main] # "unset" THEN Main
    ELSE IF Saying = {} THEN "default" ELSE merged[CHOOSE i \in Saying : \A j \in Saying : j <= i]

SaidByFiles == IF FromFiles = "default" THEN Defaults(setting).is ELSE files[FromFiles]

(* Layers: the environment, if the setting listens to it; else the files. *)
Strongest     == IF Heeded(setting, SaidByFiles) THEN "env" ELSE FromFiles
StrongestSays == IF Heeded(setting, SaidByFiles) THEN env ELSE SaidByFiles

\* In clear, if there are a passphrase and a file.
Loads == IF StrongestSays = "cipher" /\ passkey /\ visited # {} THEN "good" ELSE StrongestSays

(* LoadIsLayered: an accepted configuration holds, of every setting, what  *)
(* the strongest layer says that says anything: the environment where the  *)
(* setting listens to it (a token only when the files left it empty), then *)
(* the main file, then the file merged last, then the default; an          *)
(* encrypted secret in clear if there are a passphrase and a file (Load    *)
(* without a file does not decrypt what the environment gives).  No file   *)
(* is merged twice, all that the merged ones include is merged, and what   *)
(* the composition root cannot start without is there.  The doctor fails   *)
(* whatever configuration Load refuses.                                    *)
LoadIsLayered ==
    /\ phase = "accepted" =>
          /\ value = [is |-> Loads, from |-> Strongest]
          /\ \A i, j \in DOMAIN merged : merged[i] = merged[j] => i = j
          /\ merged # <<>> =>
                \A f \in visited : \A i \in DOMAIN lists[f] : lists[f][i] \in visited
          /\ (enabled /\ setting \in StartNeeds) => value.is # "bad"
    /\ (phase = "refused" /\ results # {}) => "fail" \in results

=============================================================================
