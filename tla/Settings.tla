------------------------------- MODULE Settings -------------------------------
(***************************************************************************)
(* The configuration: environment variables are parsed (config/            *)
(* envMapping.ts), merged into the defaults (config/loader.ts,             *)
(* config/defaults.ts) and checked (config/schemas.ts); a gateway starts   *)
(* with the result or not at all, and reads it again when routes are put.  *)
(*                                                                         *)
(* A value is named by its text.  The variables are those on which a rule, *)
(* a precedence or the shape of the result depends, and one number; the    *)
(* others are mapped, merged and checked like OUTBOX_BATCH_SIZE.  A list   *)
(* of routes is named by where it comes from.                              *)
(***************************************************************************)
EXTENDS RouteRules

CONSTANT Environments  \* what the variables may be at the start

Variables ==
  {"ENVIRONMENT", "KAFKA_PROVIDER", "KAFKA_BROKERS", "MSK_REGION", "MSK_CLUSTER_ARN",
   "MSK_AUTH_MODE", "CONFLUENT_API_KEY", "CONFLUENT_API_SECRET", "OUTBOX_ENABLED",
   "OUTBOX_BATCH_SIZE", "ADMIN_TOKEN", "ROUTES_FILE", "ROUTES_JSON", "REPLAY_ENABLED",
   "REPLAY_MAX_ATTEMPTS", "REPLAY_PARKING_TOPIC_SUFFIX", "REPLAY_AUTO_ENABLED"}

\* An environment is a function on the variables.
IsEnvironment(e) == e = [v \in Variables |-> e[v]]

ASSUME SettingsAssumption == \A e \in Environments : IsEnvironment(e)

VARIABLES
  env,      \* process.env
  onDisk,   \* the contents of ROUTES_FILE
  gateway,  \* "down", "started" or "refused"
  config

settingsVars == <<env, onDisk, gateway, config>>

Unset == "unset"

\* Objects are told from values, and values from undefined ones.
Undefined == [is |-> "undefined"]
Leaf(v) == [is |-> "value", value |-> v]
Obj(fields) == [is |-> "object", fields |-> fields]

-----------------------------------------------------------------------------
Str(raw) == IF raw \in {Unset, ""} THEN Undefined ELSE Leaf(raw)

Bool(raw) ==
  CASE raw \in {"true", "1", "yes"} -> Leaf("true")
    [] raw \in {"false", "0", "no"} -> Leaf("false")
    [] OTHER -> Undefined

Num(raw) == IF raw \in {"0", "1", "5", "0.5"} THEN Leaf(raw) ELSE Undefined

Csv(raw) == IF raw = "," THEN Undefined ELSE Str(raw)

Json(raw) == IF raw \in {"json", "put", "invalid"} THEN Leaf(raw) ELSE Undefined

\* filterUndefined and nestedOrUndefined
Given(fields) == {k \in DOMAIN fields : fields[k].is # "undefined"}

Section(fields) == Obj([k \in Given(fields) |-> fields[k]])

Nested(fields) == IF Given(fields) = {} THEN Undefined ELSE Section(fields)

\* The fields of `over` that are defined, and those of `base` otherwise.
Overlay(base, over) ==
  [k \in DOMAIN base |-> IF over[k].is = "undefined" THEN base[k] ELSE over[k]]

ReplayDefaults ==
  [enabled |-> Leaf("false"), maxAttempts |-> Leaf("5"),
   parkingTopicSuffix |-> Leaf(".parked"), auto |-> Obj([enabled |-> Leaf("false")])]

AutoGiven(e) == [enabled |-> Bool(e.REPLAY_AUTO_ENABLED)]

ReplayGiven(e) ==
  [enabled |-> Bool(e.REPLAY_ENABLED), maxAttempts |-> Num(e.REPLAY_MAX_ATTEMPTS),
   parkingTopicSuffix |-> Str(e.REPLAY_PARKING_TOPIC_SUFFIX), auto |-> Nested(AutoGiven(e))]

\* The replay block is there as soon as any of its variables is.
ReplayBlock(e) ==
  IF Nested(ReplayGiven(e)) = Undefined THEN Undefined
  ELSE Obj([Overlay(ReplayDefaults, ReplayGiven(e)) EXCEPT
             !.auto = Obj(Overlay(ReplayDefaults.auto.fields, AutoGiven(e)))])

\* Sections that would be empty are left out.
Sections(e) ==
  [ app |-> Nested([environment |-> Str(e.ENVIRONMENT)]),
    kafka |-> Nested([
      provider |-> Str(e.KAFKA_PROVIDER), brokers |-> Csv(e.KAFKA_BROKERS),
      msk |-> Nested([region |-> Str(e.MSK_REGION), clusterArn |-> Str(e.MSK_CLUSTER_ARN),
                      authMode |-> Str(e.MSK_AUTH_MODE)]),
      confluent |-> Nested([apiKey |-> Str(e.CONFLUENT_API_KEY),
                            apiSecret |-> Str(e.CONFLUENT_API_SECRET)])]),
    outbox |-> Nested([enabled |-> Bool(e.OUTBOX_ENABLED), batchSize |-> Num(e.OUTBOX_BATCH_SIZE)]),
    admin |-> Nested([token |-> Str(e.ADMIN_TOKEN)]),
    routesFile |-> Str(e.ROUTES_FILE),
    routes |-> Json(e.ROUTES_JSON),
    replay |-> ReplayBlock(e)]

MapEnv(e) == Section(Sections(e))

Defaults ==
  Obj([
    app |-> Obj([environment |-> Leaf("dev")]),
    kafka |-> Obj([
      provider |-> Leaf("local"), brokers |-> Leaf("localhost:9092"),
      msk |-> Obj([region |-> Leaf(""), clusterArn |-> Leaf(""), authMode |-> Leaf("none")]),
      confluent |-> Obj([apiKey |-> Leaf(""), apiSecret |-> Leaf("")])]),
    outbox |-> Obj([enabled |-> Leaf("true"), batchSize |-> Leaf("100")]),
    routes |-> Leaf("seed")])

\* One level of mergeDeep: objects on both sides are merged, by MergeFields.
MergeLevel(MergeFields(_, _), base, over) ==
  LET mergeable(k) == /\ k \in DOMAIN base.fields
                      /\ base.fields[k].is = "object" /\ over.fields[k].is = "object"
  IN  Obj([k \in DOMAIN base.fields \cup Given(over.fields) |->
             IF k \notin Given(over.fields) THEN base.fields[k]
             ELSE IF mergeable(k) THEN MergeFields(base.fields[k], over.fields[k])
             ELSE over.fields[k]])

\* Where no field is an object; as a mutated form, a section of the overrides
\* replaces that of the defaults.
MergeShallow(base, over) ==
  Obj([k \in DOMAIN base.fields \cup Given(over.fields) |->
         IF k \in Given(over.fields) THEN over.fields[k] ELSE base.fields[k]])

\* Objects are nested three deep: the whole, its sections, and their parts.
MergeSections(base, over) == MergeLevel(MergeShallow, base, over)

MergeDeep(base, over) == MergeLevel(MergeSections, base, over)

-----------------------------------------------------------------------------
Child(node, key) ==
  IF node.is = "object" /\ key \in DOMAIN node.fields THEN node.fields[key] ELSE Undefined

\* The value at a path of one to three keys, undefined where there is none.
At(node, path) ==
  LET one == Child(node, path[1])
      two == Child(one, path[2])
  IN  CASE Len(path) = 1 -> one
        [] Len(path) = 2 -> two
        [] OTHER -> Child(two, path[3])

Get(cfg, path) == LET node == At(cfg, path) IN IF node.is = "value" THEN node.value ELSE ""

Provider(cfg) == Get(cfg, <<"kafka", "provider">>)
Brokers(cfg) == Get(cfg, <<"kafka", "brokers">>)
ClusterArn(cfg) == Get(cfg, <<"kafka", "msk", "clusterArn">>)

\* The types of the fields, then the rules across fields.
FieldsAreValid(cfg) ==
  /\ Get(cfg, <<"app", "environment">>) \in {"dev", "staging", "prod", "test"}
  /\ Provider(cfg) \in {"local", "msk", "confluent"}
  /\ Get(cfg, <<"kafka", "msk", "authMode">>) \in {"iam", "tls", "none"}
  /\ Get(cfg, <<"outbox", "batchSize">>) \notin {"0", "0.5"}
  /\ Get(cfg, <<"admin", "token">>) # "short"
  /\ Get(cfg, <<"replay", "maxAttempts">>) \notin {"0", "0.5"}
  /\ Get(cfg, <<"routes">>) # "invalid"

ProviderIsComplete(cfg) ==
  CASE Provider(cfg) = "local" -> Brokers(cfg) # ""
    [] Provider(cfg) = "msk" ->
         /\ Get(cfg, <<"kafka", "msk", "region">>) # ""
         /\ Brokers(cfg) # "" \/ ClusterArn(cfg) # ""
    [] OTHER ->
         /\ Brokers(cfg) # ""
         /\ Get(cfg, <<"kafka", "confluent", "apiKey">>) # ""
         /\ Get(cfg, <<"kafka", "confluent", "apiSecret">>) # ""

ConfigIsValid(cfg) ==
  /\ FieldsAreValid(cfg)
  /\ ProviderIsComplete(cfg)
  /\ ~ (Get(cfg, <<"app", "environment">>) = "prod" /\ Provider(cfg) = "local")

\* The routes of the file come before those of ROUTES_JSON.
Overrides(e, contents) ==
  LET mapped == MapEnv(e).fields
  IN  IF "routesFile" \notin DOMAIN mapped THEN MapEnv(e)
      ELSE Obj([k \in DOMAIN mapped \cup {"routes"} |->
                  IF k = "routes" THEN Leaf(contents) ELSE mapped[k]])

BuildConfig(e, contents) == MergeDeep(Defaults, Overrides(e, contents))

\* readFileSync and JSON.parse throw, and so does a contents that is no array.
Builds(e, contents) ==
  /\ Str(e.ROUTES_FILE).is = "value" => contents \notin {"missing", "no array"}
  /\ ConfigIsValid(BuildConfig(e, contents))

NoConfig == Obj(<< >>)

SettingsInit ==
  /\ env \in Environments
  /\ onDisk \in {"file", "invalid", "missing", "no array"}
  /\ gateway = "down" /\ config = NoConfig

StartGateway ==
  /\ gateway = "down"
  /\ \/ /\ Builds(env, onDisk)
        /\ gateway' = "started" /\ config' = BuildConfig(env, onDisk)
     \/ /\ ~ Builds(env, onDisk)
        /\ gateway' = "refused" /\ config' = config
  /\ UNCHANGED <<env, onDisk>>

ServedEndpoints ==
  AdminEndpoints(Get(config, <<"admin", "token">>) # "",
                 Get(config, <<"routesFile">>) # "",
                 Get(config, <<"replay", "enabled">>) = "true")

\* PUT /admin/routes: the routes go to the file and into the environment, and
\* the whole configuration is read again.
PutRoutes ==
  /\ gateway = "started" /\ AdminRoutes \in ServedEndpoints
  /\ onDisk' = "put"
  /\ env' = [env EXCEPT !.ROUTES_JSON = "put"]
  /\ config' = BuildConfig(env', onDisk')
  /\ UNCHANGED gateway

SettingsNext == StartGateway \/ PutRoutes

SettingsSpec == SettingsInit /\ [][SettingsNext]_settingsVars

Discovered == "discovered"

\* What the MSK provider connects to (resolveBrokers).
ResolveBrokers(cfg) == IF Brokers(cfg) # "" THEN Brokers(cfg) ELSE Discovered

-----------------------------------------------------------------------------
\* Where each variable is to take effect, its text, and what it is read as.
Meaning(e) ==
  {<<"app", "environment">>} \X {e.ENVIRONMENT} \X {Str(e.ENVIRONMENT)}
  \cup {<<"kafka", "provider">>} \X {e.KAFKA_PROVIDER} \X {Str(e.KAFKA_PROVIDER)}
  \cup {<<"kafka", "brokers">>} \X {e.KAFKA_BROKERS} \X {Csv(e.KAFKA_BROKERS)}
  \cup {<<"kafka", "msk", "region">>} \X {e.MSK_REGION} \X {Str(e.MSK_REGION)}
  \cup {<<"kafka", "msk", "clusterArn">>} \X {e.MSK_CLUSTER_ARN} \X {Str(e.MSK_CLUSTER_ARN)}
  \cup {<<"kafka", "msk", "authMode">>} \X {e.MSK_AUTH_MODE} \X {Str(e.MSK_AUTH_MODE)}
  \cup {<<"kafka", "confluent", "apiKey">>} \X {e.CONFLUENT_API_KEY} \X {Str(e.CONFLUENT_API_KEY)}
  \cup {<<"kafka", "confluent", "apiSecret">>} \X {e.CONFLUENT_API_SECRET}
         \X {Str(e.CONFLUENT_API_SECRET)}
  \cup {<<"outbox", "enabled">>} \X {e.OUTBOX_ENABLED} \X {Bool(e.OUTBOX_ENABLED)}
  \cup {<<"outbox", "batchSize">>} \X {e.OUTBOX_BATCH_SIZE} \X {Num(e.OUTBOX_BATCH_SIZE)}
  \cup {<<"admin", "token">>} \X {e.ADMIN_TOKEN} \X {Str(e.ADMIN_TOKEN)}

\* Those of the replay block, which has defaults of its own.
ReplayMeaning(e) ==
  {<<"replay", "enabled">>} \X {e.REPLAY_ENABLED} \X {Bool(e.REPLAY_ENABLED)}
  \cup {<<"replay", "maxAttempts">>} \X {e.REPLAY_MAX_ATTEMPTS} \X {Num(e.REPLAY_MAX_ATTEMPTS)}
  \cup {<<"replay", "parkingTopicSuffix">>} \X {e.REPLAY_PARKING_TOPIC_SUFFIX}
         \X {Str(e.REPLAY_PARKING_TOPIC_SUFFIX)}
  \cup {<<"replay", "auto", "enabled">>} \X {e.REPLAY_AUTO_ENABLED} \X {Bool(e.REPLAY_AUTO_ENABLED)}

\* Without a variable that says something of it there is no replay block.
ReplayBase(e) ==
  IF \E m \in ReplayMeaning(e) : m[3].is = "value" THEN Obj([replay |-> Obj(ReplayDefaults)])
  ELSE NoConfig

\* Which brokers a cluster is reached at when none are named is left open
\* here: see ClusterIsDiscovered.
LeftOpen(path) == path = <<"kafka", "brokers">> /\ Provider(config) # "local"

Stands(m, defaults) ==
  /\ m[3].is = "value" => At(config, m[1]) = m[3]
  /\ m[2] = Unset /\ ~ LeftOpen(m[1]) => At(config, m[1]) = At(defaults, m[1])

RoutesStand ==
  /\ Str(env.ROUTES_FILE).is = "value" => Get(config, <<"routes">>) = onDisk
  /\ env.ROUTES_FILE = Unset /\ Json(env.ROUTES_JSON).is = "value" =>
       Get(config, <<"routes">>) = env.ROUTES_JSON
  /\ env.ROUTES_FILE = Unset /\ env.ROUTES_JSON = Unset => Get(config, <<"routes">>) = "seed"

(* One setting does not disturb another: in a gateway that started, and     *)
(* after its routes were replaced, every variable above that is read as a  *)
(* value has it as its effect, and what belongs to one that is not set is  *)
(* as by default, within the same section too: "undefined overrides are    *)
(* ignored so defaults survive" (loader.ts:15).  Nothing is said of a text *)
(* that cannot be read, nor of which environments are to be refused.       *)
SettingsStand ==
  gateway = "started" =>
    /\ \A m \in Meaning(env) : Stands(m, Defaults)
    /\ \A m \in ReplayMeaning(env) : Stands(m, ReplayBase(env))
    /\ RoutesStand

(* What the repository says, and the code does not do: "KAFKA_BROKERS is   *)
(* omitted in this MSK example.  With MSK_CLUSTER_ARN set, the provider    *)
(* calls GetBootstrapBrokersCommand at startup and resolves brokers        *)
(* automatically" (task-definition-example.md:94).                         *)
ClusterIsDiscovered ==
  gateway = "started" /\ Provider(config) = "msk" /\ ClusterArn(config) # ""
    /\ env.KAFKA_BROKERS = Unset
    => ResolveBrokers(config) = Discovered

=============================================================================
