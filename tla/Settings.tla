------------------------------- MODULE Settings -------------------------------
(***************************************************************************)
(* How looperd comes to its configuration (crate looper-config): the file, *)
(* the LOOPER_* variables and the caller's overrides are laid over each    *)
(* other, fields of old versions are moved, what is left open is filled    *)
(* with defaults, and the result is validated or rejected.                 *)
(*                                                                         *)
(* A layer is a function from the sections it names to the fields it gives *)
(* in them; a section may be named with no field at all.  A value is the   *)
(* string a user would write; None is a field that stays empty.  A record  *)
(* nested in a section (a role, the retry policy, docker) is one value.    *)
(* Fields of old versions have no default and no place in the result.      *)
(***************************************************************************)
EXTENDS Naturals, FiniteSets, TLC

CONSTANTS
    FileLayers,     \* the contents of a configuration file
    EnvValues,      \* the values of LOOPER_* variables: functions on variables
    Overrides       \* the layers of a caller

VARIABLE loaded     \* the last load: [file, env, cli, config, outcome]

settingsVars == <<loaded>>

None == "none"

\* What a field has when no layer gives it: the process and what it serves ...
ServiceDefaults == [
    server  |-> [host |-> "127.0.0.1", port |-> "7391", tls_cert |-> None, tls_key |-> None,
                 allowed_origins |-> "localhost", read_timeout_secs |-> "30",
                 write_timeout_secs |-> "60", max_body_size_mb |-> "10", cors_enabled |-> "true"],
    daemon  |-> [mode |-> "local", pid_file |-> None, log_file |-> None, max_restarts |-> "5",
                 restart_delay_secs |-> "5", restart_policy |-> "on-failure"],
    storage |-> [backend |-> "sqlite", path |-> None, connection_string |-> None,
                 pool_size |-> "4", timeout_secs |-> "30", migration_dir |-> None,
                 wal_enabled |-> "true", retry_on_busy |-> "true"]]

\* ... the work and the agents that do it ...
WorkDefaults == [
    scheduler |-> [policy |-> "fifo", max_workers |-> "4", queue_capacity |-> "256",
                   poll_interval_ms |-> "1000", claim_timeout_secs |-> "300",
                   retry |-> "3 times", graceful_shutdown_secs |-> "30"],
    agent     |-> [default_vendor |-> "claude", timeout_secs |-> "120", max_retries |-> "3",
                   parallel_runs |-> "1", model |-> None, temperature |-> None,
                   max_tokens |-> None, allowed_vendors |-> "any"]]

\* ... what is told, and to whom ...
ReportDefaults == [
    logging       |-> [level |-> "info", format |-> "text", output |-> "stdout",
                       file_path |-> None, max_files |-> "7", max_size_mb |-> "100",
                       rotation |-> "daily"],
    notifications |-> [enabled |-> "true", min_priority |-> "normal", channels |-> "log",
                       webhook_url |-> None, slack_webhook |-> None, email_smtp |-> None,
                       desktop_notifications |-> "false"],
    disclosure    |-> [format |-> "markdown", include_code |-> "true", include_diffs |-> "true",
                       include_metadata |-> "true", protected_phrases |-> "",
                       max_length |-> None, stamp |-> "ai-generated"]]

\* ... the tools and the directories ...
ToolDefaults == [
    tools    |-> [runtime |-> "host", allow_network |-> "true", timeout_secs |-> "300",
                  cache_enabled |-> "true", cache_dir |-> None, allowed_paths |-> "",
                  denied_paths |-> "", docker |-> None, nix |-> None],
    package  |-> [name |-> "looper", version |-> "0.1.0", registry |-> None,
                  install_dir |-> None],
    defaults |-> [home_dir |-> None, config_dir |-> None, data_dir |-> None,
                  cache_dir |-> None, log_dir |-> None, editor |-> None, shell |-> None]]

\* ... and what the roles may do, on which projects, by whose word.
RoleDefaults == [
    instructions |-> [base_path |-> None, encoding |-> "utf-8", max_size_kb |-> "1024",
                      allowed_extensions |-> ".md .txt"],
    roles    |-> [planner |-> "enabled", reviewer |-> "enabled", worker |-> "enabled",
                  fixer |-> "enabled", coordinator |-> "enabled"],
    projects |-> [names |-> "none named"],
    dispatch |-> [mode |-> "autonomous", allowed_users |-> "", triaged_label |-> "looper:triaged",
                  hold_label |-> "looper:hold", autonomous_delay_seconds |-> "1800",
                  slash_commands |-> "/plan /implement"]]

SectionDefaults ==
    ServiceDefaults @@ WorkDefaults @@ ReportDefaults @@ ToolDefaults @@ RoleDefaults

\* Fields of old versions, which a layer may still give.
LegacyFields == [
    server |-> {"log_format"}, daemon |-> {"auto_upgrade"}, agent |-> {"command"},
    notifications |-> {"legacy_webhook_url"}, tools |-> {"allow_docker"}]

\* The fields a layer may give in a section.
LayerFields(s) ==
    IF s = "pool" THEN {"max_trees", "lock_timeout_secs", "gc_interval_secs"}
    ELSE DOMAIN SectionDefaults[s] \cup IF s \in DOMAIN LegacyFields THEN LegacyFields[s] ELSE {}

\* Files and overrides that parse: known sections with known fields.
ASSUME LayersParse ==
    \A layer \in FileLayers \cup Overrides : \A s \in DOMAIN layer :
        /\ s \in DOMAIN SectionDefaults \cup {"pool"}
        /\ DOMAIN layer[s] \subseteq LayerFields(s)

-----------------------------------------------------------------------------
(***************************************************************************)
(* Layers.                                                                 *)
(***************************************************************************)

\* What is above hides what is below at the same place.
MergeFields(below, above) ==
    [f \in DOMAIN above \cup DOMAIN below |-> IF f \in DOMAIN above THEN above[f] ELSE below[f]]

\* One layer over another.  A section is an Option: the one above replaces
\* the one below as a whole.  The pool section has no line in the merge.
Merge(below, above) == MergeFields(below, [s \in DOMAIN above \ {"pool"} |-> above[s]])

\* The variables that are read, and the field each one sets.
EnvFields == [
    SERVER_HOST               |-> <<"server", "host">>,
    SERVER_PORT               |-> <<"server", "port">>,
    DAEMON_MODE               |-> <<"daemon", "mode">>,
    DAEMON_PID_FILE           |-> <<"daemon", "pid_file">>,
    STORAGE_BACKEND           |-> <<"storage", "backend">>,
    STORAGE_PATH              |-> <<"storage", "path">>,
    STORAGE_CONNECTION_STRING |-> <<"storage", "connection_string">>,
    LOG_LEVEL                 |-> <<"logging", "level">>,
    LOG_FORMAT                |-> <<"logging", "format">>,
    LOG_FILE                  |-> <<"logging", "file_path">>,
    NOTIFICATIONS_ENABLED     |-> <<"notifications", "enabled">>,
    NOTIFICATIONS_WEBHOOK_URL |-> <<"notifications", "webhook_url">>,
    DISPATCH_MODE             |-> <<"dispatch", "mode">>,
    DISPATCH_ALLOWED_USERS    |-> <<"dispatch", "allowed_users">>,
    DISPATCH_AUTONOMOUS_DELAY_SECONDS |-> <<"dispatch", "autonomous_delay_seconds">>]

\* What a variable puts into its section: a number that cannot be read
\* becomes the default, a flag is false unless it is true or 1, and an
\* unknown name leaves the field open, in a section that is named all the same.
Given(variable, value) ==
    LET field == EnvFields[variable][2]
    IN  CASE value = "??" /\ variable \in {"SERVER_PORT", "DISPATCH_AUTONOMOUS_DELAY_SECONDS"} ->
               field :> SectionDefaults[EnvFields[variable][1]][field]
          [] value = "??" /\ variable \in {"DAEMON_MODE", "STORAGE_BACKEND", "LOG_LEVEL",
                                           "LOG_FORMAT", "DISPATCH_MODE"} -> <<>>
          [] variable = "NOTIFICATIONS_ENABLED" ->
               field :> IF value \in {"true", "1"} THEN "true" ELSE "false"
          [] OTHER -> field :> value

\* The layer of the environment.
EnvLayer(env) ==
    LET named(s) == {v \in DOMAIN env : EnvFields[v][1] = s}
        fields(s) == UNION {DOMAIN Given(v, env[v]) : v \in named(s)}
        setter(s, f) == CHOOSE v \in named(s) : f \in DOMAIN Given(v, env[v])
    IN  [s \in {EnvFields[v][1] : v \in DOMAIN env} |->
            [f \in fields(s) |-> Given(setter(s, f), env[setter(s, f)])[f]]]

\* Old fields are moved when their place is empty, after all layers are
\* laid over each other: the log format of the server, and docker of the
\* tools.  The command of the agent is reported as moved, and is not.
NormalizeLayer(layer) ==
    LET has(s, f) == s \in DOMAIN layer /\ f \in DOMAIN layer[s]
        logging == IF "logging" \in DOMAIN layer THEN layer["logging"] ELSE <<>>
        format == IF has("server", "log_format") /\ ~has("logging", "format")
                  THEN [logging |-> MergeFields(logging, [format |-> layer["server"]["log_format"]])]
                  ELSE <<>>
        runtime == IF /\ has("tools", "allow_docker") /\ ~has("tools", "runtime")
                      /\ layer["tools"]["allow_docker"] = "true"
                   THEN [tools |-> MergeFields(layer["tools"], [runtime |-> "docker"])]
                   ELSE <<>>
    IN  MergeFields(MergeFields(layer, runtime), format)

\* A section with the defaults of the fields it leaves open, and without
\* those of old versions.
Filled(s, given) ==
    [f \in DOMAIN SectionDefaults[s] |->
        IF f \in DOMAIN given THEN given[f] ELSE SectionDefaults[s][f]]

\* The configuration: the sections that are named.  For the others the
\* daemon has constants of its own.
Resolve(layer) == [s \in DOMAIN layer |-> Filled(s, layer[s])]

\* What makes a configuration unusable; the other findings are warnings.
Invalid(config) ==
    LET is(s, f, value) == s \in DOMAIN config /\ config[s][f] = value
    IN  \/ is("server", "port", "0") \/ is("server", "host", "")
        \/ is("storage", "pool_size", "0")
        \/ is("scheduler", "max_workers", "0") \/ is("scheduler", "queue_capacity", "0")
        \/ is("agent", "timeout_secs", "0") \/ is("tools", "timeout_secs", "0")
        \/ is("projects", "names", "one unnamed")

-----------------------------------------------------------------------------
(***************************************************************************)
(* Loading.                                                                *)
(***************************************************************************)

Nothing == [file |-> <<>>, env |-> <<>>, cli |-> <<>>, config |-> <<>>, outcome |-> "unread"]

SettingsInit == loaded = Nothing

LayeredEnvLast(file, env, cli) == Merge(Merge(Merge(<<>>, file), cli), EnvLayer(env))

Layered(file, env, cli) == Merge(Merge(Merge(<<>>, file), EnvLayer(env)), cli)

\* ConfigLoader::load with a file that is found and parsed.
Load(file, env, cli) ==
    LET config == Resolve(NormalizeLayer(Layered(file, env, cli)))
    IN  /\ loaded = Nothing
        /\ loaded' = [file |-> file, env |-> env, cli |-> cli,
                      config |-> IF Invalid(config) THEN <<>> ELSE config,
                      outcome |-> IF Invalid(config) THEN "rejected" ELSE "accepted"]

\* No file in any of the search paths, or one that is not TOML, YAML or JSON.
LoadWithoutFile(env, cli) ==
    /\ loaded = Nothing
    /\ loaded' = [file |-> <<>>, env |-> env, cli |-> cli, config |-> <<>>, outcome |-> "no file"]

\* The daemon that could not start, or that is stopped, is started again.
Unload ==
    /\ loaded # Nothing
    /\ loaded' = Nothing

SettingsNext ==
    \/ \E env \in EnvValues, cli \in Overrides :
           \/ LoadWithoutFile(env, cli)
           \/ \E file \in FileLayers : Load(file, env, cli)
    \/ Unload

-----------------------------------------------------------------------------
(***************************************************************************)
(* Properties.                                                             *)
(***************************************************************************)

Accepted == loaded.outcome = "accepted"

\* The layers of the last load, the weakest first.
LayersOf(l) == <<l.file, EnvLayer(l.env), l.cli>>

\* The numbers of the layers that satisfy a condition.
Strongest(numbers) == CHOOSE i \in numbers : \A j \in numbers : j <= i

(***************************************************************************)
(* What the strongest layer that names a section says of it is what the    *)
(* daemon runs with: no value of a weaker layer, no default and no value   *)
(* of an old field ever stands in its place (ConfigLoader::load,           *)
(* loader.rs:67-107, with normalize after the merge).                      *)
(***************************************************************************)
StrongestSays ==
    Accepted =>
        \A s \in DOMAIN loaded.config :
            LET named == {i \in 1..3 : s \in DOMAIN LayersOf(loaded)[i]}
                says == LayersOf(loaded)[Strongest(named)][s]
            IN  named # {} =>
                    \A f \in DOMAIN says \cap DOMAIN loaded.config[s] :
                        loaded.config[s][f] = says[f]

(***************************************************************************)
(* "Default precedence (highest wins): 1. CLI overrides, 2. Environment    *)
(* variables, 3. Config file, 4. Defaults" (loader.rs:17-21): a field has  *)
(* the value of the strongest layer that gives it, and the default only if *)
(* none does.                                                              *)
(***************************************************************************)
DefaultsComeLast ==
    Accepted =>
        \A s \in DOMAIN loaded.config : \A f \in DOMAIN loaded.config[s] :
            LET gives == {i \in 1..3 : /\ s \in DOMAIN LayersOf(loaded)[i]
                                       /\ f \in DOMAIN LayersOf(loaded)[i][s]}
            IN  gives # {} =>
                    loaded.config[s][f] = LayersOf(loaded)[Strongest(gives)][s][f]
==============================================================================
