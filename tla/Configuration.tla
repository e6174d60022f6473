--------------------------- MODULE Configuration ---------------------------
(***************************************************************************)
(* One start's configuration (weir-server/src/config): the command line,    *)
(* the file and the environment are read in that order, merged over the     *)
(* defaults, checked, and turned into the values the daemon runs on and     *)
(* shows (status/config_view.rs), with the warnings main replays; and the   *)
(* admin socket path that weir-ctl derives on its own.                      *)
(*                                                                         *)
(* A setting stands for its family: the keys the loader treats alike.  A    *)
(* raw value is one of a few spellings: "a" and "b" pass every check of the *)
(* key alone, "bad" parses and fails it, "garbled" does not parse.          *)
(***************************************************************************)
EXTENDS Naturals, FiniteSets

VARIABLES
    build,     \* the Cargo features of this binary
    given,     \* layer -> key -> raw value
    file,      \* what the config path names
    paths,     \* how the daemon and weir-ctl are told the wab_dir
    stage,     \* the step of Config::load
    loaded     \* [config, warned]: the result

configVars == <<build, given, file, paths, stage, loaded>>

Raw == {"unset", "a", "b", "bad", "garbled", "empty"}

\* Each key's family.
Kind == [shard_count |-> "number", worker_count |-> "number",
         wab_segment_max_bytes |-> "number", max_payload_bytes |-> "number",
         shutdown_timeout_secs |-> "number", sink_timeout_secs |-> "number",
         dead_letter_max_bytes |-> "number", metrics_bind |-> "word",
         peer_uid_check |-> "bool", admin_socket_enabled |-> "bool",
         wab_dir_lock |-> "word", livez_checks |-> "list", log_level |-> "level",
         sink_type |-> "word", sink_url |-> "text",
         sink_mysql_table |-> "text", sink_mysql_insert_mode |-> "word",
         sink_s3_bucket |-> "text", sink_s3_framing |-> "word",
         sink_s3_access_key_id |-> "text", sink_s3_secret_access_key |-> "text",
         tcp_bind |-> "word", tls_cert_path |-> "word", misspelt |-> "none"]
Keys == DOMAIN Kind

MysqlKeys == {"sink_mysql_table", "sink_mysql_insert_mode"}
S3Keys == {"sink_s3_bucket", "sink_s3_framing", "sink_s3_access_key_id",
           "sink_s3_secret_access_key"}

\* FEATURE_GATED_SERVER_KEYS and feature_compiled.
FEATURE_GATED_SERVER_KEYS == MysqlKeys \cup S3Keys
feature_compiled(k) == IF k \in MysqlKeys THEN "mysql-sink" \in build ELSE "s3-sink" \in build

\* Has this build a field for the key at all.  The S3 fields are not gated.
HasField(k) == k # "misspelt" /\ (k \in MysqlKeys => feature_compiled(k))
\* The flags: the S3 keys and admin_socket_enabled are file and env only.
HasFlag(k) == HasField(k) /\ k \notin S3Keys /\ k # "admin_socket_enabled"

Parses(k, v) ==
    /\ v # "garbled"
    /\ Kind[k] \in {"number", "bool"} => v # "empty"
    /\ Kind[k] = "bool" => v # "bad"

Nothing == [k \in Keys |-> "unset"]
NotLoaded == [config |-> Nothing, warned |-> {}]

Builds == {{}, {"mysql-sink", "s3-sink", "tls"}}
\* Settings whose checks look at each other.
Pairs == {{"sink_type", "sink_url"}, {"sink_s3_access_key_id", "sink_s3_secret_access_key"},
          {"tcp_bind", "tls_cert_path"}, {"shard_count", "worker_count"}}

Layers == {"cli", "env", "file"}
\* One setting given in any way, or two of a pair in the environment and the file.
OneSetting == {[l \in Layers |-> [Nothing EXCEPT ![k] = v[l]]] :
                  k \in Keys, v \in [Layers -> Raw]}
TwoSettings(p) == {[l \in Layers |-> IF l = "cli" THEN Nothing
                                     ELSE [k \in Keys |-> IF k \in p THEN v[l][k] ELSE "unset"]] :
                      v \in [{"env", "file"} -> [p -> {"unset", "a", "b", "empty"}]]}

Packaged == [wab |-> "default", explicit |-> FALSE, enabled |-> TRUE, problem |-> "none",
             ctl |-> "unnamed", ctlExplicit |-> FALSE]

\* Spellings of directories and what they resolve to; "gone" does not exist.
Canonical == [default |-> "default", link |-> "real", real |-> "real",
              relative |-> "real", dotted |-> "real", root |-> "root", gone |-> "none"]
Spellings == DOMAIN Canonical
AdminPathProblem == {"path_too_long", "under_wab_dir", "collides_with_socket_path"}
\* A derived path lies beside the wab_dir, never in it.
Addresses == {p \in [wab : Spellings, explicit : BOOLEAN, enabled : BOOLEAN,
                     problem : AdminPathProblem \cup {"none"},
                     ctl : Spellings \cup {"unnamed"}, ctlExplicit : BOOLEAN] :
                p.problem = "under_wab_dir" => p.explicit}

ConfigInit ==
    /\ build \in Builds
    /\ \/ /\ given \in OneSetting \cup UNION {TwoSettings(p) : p \in Pairs}
          /\ paths = Packaged
       \/ /\ given = [l \in Layers |-> Nothing]
          /\ paths \in Addresses
    /\ file \in {"present", "absent", "unreadable", "malformed"}
    /\ file # "present" => given.file = Nothing
    /\ stage = "args"
    /\ loaded = NotLoaded
ConfigRests ==
    /\ build = {} /\ given = [l \in Layers |-> Nothing] /\ file = "absent" /\ paths = Packaged
    /\ stage = "refused" /\ loaded = NotLoaded

-----------------------------------------------------------------------------
(* The layers *)

Refuse == /\ stage' = "refused"
          /\ UNCHANGED <<build, given, file, paths, loaded>>
Proceed(s) == /\ stage' = s
              /\ UNCHANGED <<build, given, file, paths>>

\* cli::parse_from: what no field consumed is an error, whatever it is.
parse_args ==
    /\ stage = "args"
    /\ IF \A k \in Keys : given.cli[k] # "unset" => HasFlag(k) /\ Parses(k, given.cli[k])
       THEN Proceed("file") /\ UNCHANGED loaded
       ELSE Refuse

\* Mutant: a key of a feature this build lacks is dropped in silence.
collect_misspelt_only == {k \in Keys : given.file[k] # "unset" /\ k = "misspelt"}

\* collect_unknown_key_warnings.
collect_unknown_key_warnings ==
    {k \in Keys : /\ given.file[k] # "unset"
                  /\ \/ k = "misspelt"
                     \/ k \in FEATURE_GATED_SERVER_KEYS /\ ~feature_compiled(k)}

\* file::read: no file is no layer, and one that cannot be read or parsed, or
\* whose fields have other types, ends the start.
read_file ==
    /\ stage = "file"
    /\ IF \/ file = "absent"
          \/ /\ file = "present"
             /\ \A k \in Keys : given.file[k] # "unset" /\ HasField(k) => Parses(k, given.file[k])
       THEN /\ Proceed("env")
            /\ loaded' = [loaded EXCEPT !.warned =
                             IF file = "present" THEN collect_unknown_key_warnings ELSE {}]
       ELSE Refuse

\* env::read: the variables this build knows, each of which must parse.
read_env ==
    /\ stage = "env"
    /\ IF \A k \in Keys : given.env[k] # "unset" /\ HasField(k) => Parses(k, given.env[k])
       THEN Proceed("merge") /\ UNCHANGED loaded
       ELSE Refuse

\* merge!: the command line before the environment before the file.
merge(k) ==
    LET Has(l) == HasField(k) /\ given[l][k] # "unset" IN
    CASE Has("cli") -> given.cli[k]
      [] ~Has("cli") /\ Has("env") -> given.env[k]
      [] ~Has("cli") /\ ~Has("env") /\ Has("file") /\ file = "present" -> given.file[k]
      [] OTHER -> "unset"

-----------------------------------------------------------------------------
(* from_layers: the checks on the merged values *)

\* check_range, or the key's own vocabulary.
CheckPasses(k) == merge(k) # "bad" /\ (merge(k) = "empty" => Kind[k] # "word")

\* worker_count falls back to shard_count, and no further than its own maximum:
\* "b" of shard_count is 256, of worker_count 64.
worker_default == IF merge("shard_count") = "b" THEN 64 ELSE 1
check_ranges ==
    /\ CheckPasses("shard_count")
    /\ IF merge("worker_count") = "unset" THEN worker_default \in 1 .. 64
       ELSE CheckPasses("worker_count")

parse_livez_checks == CheckPasses("livez_checks")
check_segments == CheckPasses("wab_segment_max_bytes")
check_intake == CheckPasses("max_payload_bytes")
check_metrics == CheckPasses("metrics_bind") /\ parse_livez_checks
check_timeouts == CheckPasses("shutdown_timeout_secs")
check_retries == CheckPasses("sink_timeout_secs")
check_dead_letter == CheckPasses("dead_letter_max_bytes")
parse_wab_dir_lock == CheckPasses("wab_dir_lock")

\* SinkType::parse ("b" is mysql) and the url it needs.
sink_type == /\ CheckPasses("sink_type")
             /\ merge("sink_type") = "b" => /\ "mysql-sink" \in build
                                            /\ merge("sink_url") \notin {"unset", "empty"}
parse_mysql_insert_mode == CheckPasses("sink_mysql_insert_mode")
sink_s3 == /\ CheckPasses("sink_s3_framing")
           /\ LET Empty(k) == merge(k) \in {"unset", "empty"} IN
              Empty("sink_s3_access_key_id") <=> Empty("sink_s3_secret_access_key")

\* tcp_bind: the address, the build, then each path in its turn.
tcp_tls == \/ merge("tcp_bind") = "unset"
           \/ /\ CheckPasses("tcp_bind")
              /\ "tls" \in build
              /\ merge("tls_cert_path") \in {"a", "b"}

\* validate_path: absolute, without "..", and it exists.
validate_path(s) == s \notin {"relative", "dotted"} /\ Canonical[s] # "none"
\* The admin path's static rules end the start only for a path that was given.
admin_path_problem == paths.explicit => paths.problem = "none"

from_layers == /\ validate_path(paths.wab) /\ admin_path_problem
               /\ check_ranges /\ parse_wab_dir_lock /\ check_segments /\ check_intake
               /\ check_metrics /\ check_timeouts /\ sink_type /\ check_retries
               /\ check_dead_letter /\ parse_mysql_insert_mode /\ sink_s3 /\ tcp_tls

\* An empty log level counts as none.
Effective(k) == IF k = "log_level" /\ merge(k) = "empty" THEN "unset" ELSE merge(k)

\* from_layers_with_warnings and load_from: a dead-letter cap below 1 MiB ("b"),
\* plain inserts without an id column, and the file that was not there.
advisory_warnings ==
    (IF merge("dead_letter_max_bytes") = "b" THEN {"dead_letter_cap"} ELSE {})
    \cup (IF merge("sink_type") = "b" /\ merge("sink_mysql_insert_mode") = "b"
          THEN {"plain_without_id_column"} ELSE {})
load ==
    /\ stage = "merge"
    /\ IF from_layers
       THEN /\ Proceed("loaded")
            /\ loaded' = [config |-> [k \in Keys |-> Effective(k)],
                          warned |-> loaded.warned \cup advisory_warnings
                                     \cup (IF file = "absent" THEN {"config_file"} ELSE {})]
       ELSE Refuse

-----------------------------------------------------------------------------
(* What the daemon shows, and where weir-ctl looks *)

\* ConfigView: every field is entered but the S3 secret; a URL is reduced to its
\* origin and a key id to its presence.
Disclosure(k) == CASE k \in {"sink_s3_secret_access_key", "misspelt"} -> "never"
                   [] k \in {"sink_url", "sink_s3_access_key_id"} -> "redacted"
                   [] OTHER -> "shown"
view == [k \in {k \in Keys : HasField(k) /\ Disclosure(k) # "never"} |->
            IF Disclosure(k) = "shown" \/ loaded.config[k] = "unset" THEN loaded.config[k]
            ELSE "redacted"]

\* <parent>/<name>.admin.sock; the root has neither.
default_socket_path(d) == IF d = "root" THEN "none" ELSE d

\* Config::admin_socket.
admin_socket ==
    LET derived == default_socket_path(Canonical[paths.wab]) IN
    CASE ~paths.enabled -> "disabled"
      [] paths.enabled /\ paths.explicit -> "explicit"
      [] OTHER -> IF derived = "none" \/ paths.problem # "none" THEN "unusable" ELSE derived

\* resolve_admin_target.
resolve_admin_target ==
    LET Named == IF Canonical[paths.ctl] = "none" THEN paths.ctl ELSE Canonical[paths.ctl]
    IN  CASE paths.ctlExplicit -> [socket |-> "explicit", strict |-> paths.ctl # "unnamed"]
          [] ~paths.ctlExplicit /\ paths.ctl = "unnamed" ->
                [socket |-> "default", strict |-> FALSE]
          [] OTHER -> [socket |-> IF default_socket_path(Named) = "none" THEN "default"
                                  ELSE default_socket_path(Named),
                       strict |-> TRUE]

ConfigNext == parse_args \/ read_file \/ read_env \/ load

-----------------------------------------------------------------------------
(* What holds *)

Above(l) == CASE l = "cli" -> {} [] l = "env" -> {"cli"} [] OTHER -> {"cli", "env"}

\* config/mod.rs load: a daemon that starts runs on every setting it was given
\* and shows it, unless a higher layer sets the key or a warning names it.  Two
\* exceptions: the environment of a key this build has no field for, and a log
\* level given as empty.
NoSilentSetting ==
    stage = "loaded" =>
        \A l \in Layers, k \in Keys :
            given[l][k] # "unset" =>
                \/ /\ loaded.config[k] = given[l][k]
                   /\ Disclosure(k) = "shown" => view[k] = given[l][k]
                \/ \E h \in Above(l) : given[h][k] # "unset" /\ HasField(k)
                \/ k \in loaded.warned
                \/ l = "env" /\ ~HasField(k)
                \/ k = "log_level" /\ given[l][k] = "empty"

\* weir-ctl admin_client.rs, config/mod.rs admin_socket: told the daemon's wab_dir
\* in any spelling, weir-ctl looks where the daemon listens, or the daemon has no
\* admin socket there; and where it finds another directory's daemon it compares
\* the directory.
CtlFindsItsDaemon ==
    stage = "loaded" /\ paths.ctl # "unnamed" =>
        LET target == resolve_admin_target
            same == Canonical[paths.ctl] = Canonical[paths.wab]
        IN  /\ same /\ ~paths.explicit /\ ~paths.ctlExplicit =>
                  target.socket = admin_socket \/ admin_socket \in {"disabled", "unusable"}
            /\ target.socket = admin_socket => same \/ target.strict

\* What was configured is what runs, and where weir-ctl looks.
ConfigurationIsTrue == NoSilentSetting /\ CtlFindsItsDaemon
=============================================================================
