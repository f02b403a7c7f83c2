--------------------------- MODULE Configuration ---------------------------
(***************************************************************************)
(* The Configuration of a process: where a value comes from, and which     *)
(* storage client and event manager its users share.  And the functions of *)
(* Actor that decide by it: init, main, exit, fail, getEnv, newClient,     *)
(* addWebhook and the opening of storages.                                 *)
(*                                                                         *)
(* A configuration is [options, services], both partial functions.  The    *)
(* environment is a partial function too; its values are tagged "string",  *)
(* or "number" once they are cast.  Objects are named; what `new` makes is *)
(* a parameter called fresh.                                               *)
(***************************************************************************)
EXTENDS Naturals, Sequences, FiniteSetsExt, TLC

CONSTANTS Undef, Defaults

Text(value) == [type |-> "string", value |-> value]
Given(x) == x # Undef
Or(x, y) == IF Given(x) THEN x ELSE y
Lookup(f, key) == IF key \in DOMAIN f THEN f[key] ELSE Undef
Put(f, key, value) == (key :> value) @@ f

-----------------------------------------------------------------------------
(* Values.                                                                 *)

EnvMap ==
    << <<"AVAILABLE_MEMORY_RATIO", "availableMemoryRatio">>,
       <<"APIFY_DEFAULT_DATASET_ID", "defaultDatasetId">>,
       <<"APIFY_DEFAULT_KEY_VALUE_STORE_ID", "defaultKeyValueStoreId">>,
       <<"APIFY_DEFAULT_REQUEST_QUEUE_ID", "defaultRequestQueueId">>,
       <<"APIFY_METAMORPH_AFTER_SLEEP_MILLIS", "metamorphAfterSleepMillis">>,
       <<"APIFY_PERSIST_STATE_INTERVAL_MILLIS", "persistStateIntervalMillis">>,
       <<"APIFY_TEST_PERSIST_INTERVAL_MILLIS", "persistStateIntervalMillis">>,
       <<"APIFY_INPUT_KEY", "inputKey">>, <<"APIFY_ACTOR_ID", "actorId">>,
       <<"APIFY_ACTOR_RUN_ID", "actorRunId">>, <<"APIFY_ACTOR_TASK_ID", "actorTaskId">>,
       <<"APIFY_CONTAINER_PORT", "containerPort">>, <<"APIFY_CONTAINER_URL", "containerUrl">>,
       <<"APIFY_PROXY_HOSTNAME", "proxyHostname">>,
       <<"APIFY_PROXY_PASSWORD", "proxyPassword">>, <<"APIFY_PROXY_PORT", "proxyPort">> >>

(* The map is reversed pair by pair: the last variable of a key is kept.   *)
EnvKey(key) ==
    LET pairs == {i \in DOMAIN EnvMap : EnvMap[i][2] = key}
    IN  IF pairs = {} THEN key ELSE EnvMap[Max(pairs)][1]

IntegerVars == {"proxyPort", "memoryMbytes", "containerPort"}

(* No key is in BOOLEAN_VARS.                                              *)
CastEnvValue(key, value) ==
    IF key \in IntegerVars THEN [value EXCEPT !.type = "number"] ELSE value

Get(config, env, key, defaultValue) ==
    IF Given(Lookup(env, EnvKey(key))) THEN CastEnvValue(key, env[EnvKey(key)])
    ELSE IF key \in DOMAIN config.options THEN config.options[key]
    ELSE Or(defaultValue, Lookup(Defaults, key))

Set(config, key, value) == [config EXCEPT !.options = Put(@, key, value)]

New(options) == [options |-> options, services |-> <<>>]

-----------------------------------------------------------------------------
(* Services.  A call returns [config, it].                                 *)

Service(config, name, fresh) ==
    IF name \in DOMAIN config.services THEN [config |-> config, it |-> config.services[name]]
    ELSE [config |-> [config EXCEPT !.services = Put(@, name, fresh)], it |-> fresh]

(* The memory storage of some options; <<>> when there are none.           *)
CreateMemoryStorage(config, options, fresh) ==
    Service(config, <<"MemoryStorage", Or(options, <<>>)>>, fresh)

GetStorageClient(config, fresh) ==
    IF "storageClient" \in DOMAIN config.options
    THEN [config |-> config, it |-> config.options["storageClient"]]
    ELSE CreateMemoryStorage(config, Lookup(config.options, "storageClientOptions"), fresh)

GetEventManager(config, fresh) ==
    IF "eventManager" \in DOMAIN config.options
    THEN [config |-> config, it |-> config.options["eventManager"]]
    ELSE Service(config, <<"eventManager">>, fresh)

UseStorageClient(config, client) == Set(config, "storageClient", client)
UseEventManager(config, events) == Set(config, "eventManager", events)

(* The configuration of who asks for none: that of the main() it runs      *)
(* under, or the global one.                                               *)
GetGlobalConfig(store, globalConfig, fresh) == Or(store, Or(globalConfig, fresh))

-----------------------------------------------------------------------------
(* Actor.                                                                  *)

(* An actor constructed with options has a configuration of its own.       *)
ActorConfig(options, globalConfig, fresh) ==
    IF DOMAIN options = {} THEN globalConfig ELSE fresh

InitConfig(config, atHome, storage, apifyClient, eventManager) ==
    IF atHome
    THEN UseEventManager(UseStorageClient(Set(config, "availableMemoryRatio", 1), apifyClient),
                         eventManager)
    ELSE IF Given(storage) THEN UseStorageClient(config, storage) ELSE config

(* init() purges by default; what has no purge is left alone.              *)
Purged(client, options, purging) ==
    IF Or(options.purge, TRUE) /\ client \in purging THEN {client} ELSE {}

(* pushData, openDataset, openKeyValueStore and openRequestQueue.          *)
OpensWith(config, apifyClient, forceCloud, fresh) ==
    IF forceCloud THEN [config |-> config, it |-> apifyClient]
    ELSE GetStorageClient(config, fresh)

(* exit(messageOrOptions, options): the later of two objects counts.       *)
ExitOptions(first, options) ==
    [exit |-> Or(options.exit, Or(first.exit, TRUE)),
     exitCode |-> Or(options.exitCode, Or(first.exitCode, 0)),
     timeoutSecs |-> Or(options.timeoutSecs, Or(first.timeoutSecs, 5))]

NoExitOptions == [exit |-> Undef, exitCode |-> Undef, timeoutSecs |-> Undef]

Fail(first, options) == ExitOptions(first, [options EXCEPT !.exitCode = Or(@, 1)])

(* main(): how the process ends, Undef when it goes on.                    *)
ExitCode(exit) == IF exit.exit THEN exit.exitCode ELSE Undef
Main(options, throws) ==
    IF throws THEN ExitCode(ExitOptions([NoExitOptions EXCEPT !.exitCode = 91], NoExitOptions))
    ELSE ExitCode(ExitOptions(options, NoExitOptions))

(* A variable in getEnv(), of which number is what the parser makes of it, *)
(* Undef for NaN.  Null is Undef.                                          *)
EnvValue(kind, value) ==
    IF kind = "integer" THEN IF Given(value) THEN value.number ELSE Undef
    ELSE IF ~Given(value) \/ (Given(value) /\ value.empty) THEN Undef
    ELSE IF kind = "date" /\ Given(value.number)
    THEN IF value.number > 0 THEN value.number ELSE Undef
    ELSE IF kind = "date" THEN Undef ELSE value

(* newClient(): the later of the sources counts.                           *)
NewClient(env, config, options) ==
    LET own == Get(config, env, "storageClientOptions", Undef)
    IN  options @@ [name \in DOMAIN own \ {"storageDir"} |-> own[name]]
          @@ [token |-> Lookup(env, "APIFY_TOKEN"),
              baseUrl |-> Or(Lookup(env, "APIFY_API_BASE_URL"), Text("https://api.apify.com"))]

(* call() and callTask() as another user.                                  *)
CallClient(env, config, token, apifyClient) ==
    IF Given(token) /\ token.value # "" THEN NewClient(env, config, [token |-> token]) ELSE apifyClient

AddWebhook(env, config, atHome) ==
    LET runId == Or(Get(config, env, "actorRunId", Undef), Text(""))
    IN  IF ~atHome THEN "ignored" ELSE IF runId.value = "" THEN "refused" ELSE "created"
=============================================================================
