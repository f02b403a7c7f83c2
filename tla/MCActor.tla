------------------------------ MODULE MCActor ------------------------------
(* The life of an actor (Actor), and the configuration it and its crawlers *)
(* read (Configuration).                                                   *)
EXTENDS Actor, TLC

CONSTANT Undef

-----------------------------------------------------------------------------
F == INSTANCE Configuration WITH
        Defaults <- [proxyPort |-> [type |-> "number", value |-> "8000"],
                     persistStateIntervalMillis |-> [type |-> "number", value |-> "60000"],
                     storageClientOptions |-> [localDataDirectory |-> "./storage"]]

ConfigKeys == {"proxyPort", "persistStateIntervalMillis", "inputKey", "maxUsedCpuRatio"}
Number(value) == [type |-> "number", value |-> value]
NoEnv == [v \in {} |-> Undef]

(* A variable of the environment changes the value of its own key and of   *)
(* no other, whatever was set in the code; a port is a number.  Each key   *)
(* has its documented variable but for persistStateIntervalMillis, of      *)
(* which only the variable meant for tests is read.                        *)
ASSUME OwnVariable ==
    \A i \in DOMAIN F!EnvMap, key \in ConfigKeys \cup {"containerPort"},
       set \in BOOLEAN, value \in {"", "1"} :
        LET own == F!EnvMap[i][2] = key
            config == F!New(IF set THEN key :> Number("7") ELSE <<>>)
            with == F!Get(config, F!EnvMap[i][1] :> F!Text(value), key, Undef)
        IN  IF own /\ F!EnvMap[i][1] # "APIFY_PERSIST_STATE_INTERVAL_MILLIS"
            THEN with = [type |-> IF key \in {"proxyPort", "containerPort"} THEN "number" ELSE "string",
                         value |-> value]
            ELSE with = F!Get(config, NoEnv, key, Undef)

(* Of several calls of set the last counts, for its own key, and hides the *)
(* default even when it set nothing: a value is never reset.               *)
ASSUME LastSetCounts ==
    \A k1, k2, key \in ConfigKeys, v1, v2 \in {Undef, Number("1"), Number("2")}, d \in {Undef, Number("3")} :
        LET config == F!Set(F!Set(F!New(<<>>), k1, v1), k2, v2)
        IN  F!Get(config, NoEnv, key, d) =
                IF key = k2 THEN v2 ELSE IF key = k1 THEN v1
                ELSE F!Get(F!New(<<>>), NoEnv, key, d)

(* However often the storage client and the event manager of a             *)
(* configuration are asked for, all get the same one, until other storage  *)
(* options or a client are set; and so do the storages the actor opens.    *)
ASSUME OneClient ==
    \A directories \in [1 .. 2 -> {Undef, "a", "b"}] :
        LET Sets(config, i) ==
                IF directories[i] = Undef THEN config
                ELSE F!Set(config, "storageClientOptions", [localDataDirectory |-> directories[i]])
            first == F!GetStorageClient(Sets(F!New(<<>>), 1), "m1")
            manager == F!GetEventManager(first.config, "e1")
            second == F!GetStorageClient(Sets(manager.config, 2), "m2")
            third == F!GetStorageClient(second.config, "m3")
            used == F!GetStorageClient(F!UseStorageClient(third.config, "remote"), "m4")
        IN  /\ second.it = (IF directories[2] \in {Undef, directories[1]} THEN "m1" ELSE "m2")
            /\ third.it = second.it /\ used.it = "remote"
            /\ F!GetEventManager(used.config, "e2").it = "e1"
            /\ F!OpensWith(third.config, "api", FALSE, "m5").it = third.it
            /\ F!OpensWith(third.config, "api", TRUE, "m5").it = "api"

(* A crawler shares the configuration of an actor if it is constructed     *)
(* under its main(), and if the actor has no options; not otherwise, as    *)
(* after a mere init().                                                    *)
ASSUME SameInMain ==
    \A options \in {<<>>, "inputKey" :> Number("1")}, global \in {Undef, "global"}, main \in BOOLEAN :
        LET globalConfig == F!GetGlobalConfig(Undef, global, "new")
            actor == F!ActorConfig(options, globalConfig, "own")
            crawler == F!GetGlobalConfig(IF main THEN actor ELSE Undef, globalConfig, "later")
        IN  crawler = actor <=> main \/ options = <<>>

(* At home an actor uses the platform's storages and events, whatever it   *)
(* was given, and purges nothing of a local storage; elsewhere it purges,  *)
(* unless told not to, the very storage that will be used.                 *)
ASSUME InitChooses ==
    \A home, own \in BOOLEAN, storage \in {Undef, "given"}, purge \in {Undef, TRUE, FALSE} :
        LET config == F!InitConfig(F!New(IF own THEN "storageClient" :> "mine" ELSE <<>>), home, storage,
                                   "api", "platform")
            purges == F!GetStorageClient(config, "memory")
            used == F!GetStorageClient(purges.config, "other").it
        IN  /\ used = purges.it
            /\ home => used = "api" /\ F!GetEventManager(config, "local").it = "platform"
            /\ ~home => /\ used = F!Or(storage, IF own THEN "mine" ELSE "memory")
                        /\ F!GetEventManager(config, "local").it = "local"
            /\ F!Purged(used, [purge |-> purge], {"memory", "given", "mine"}) =
                   IF purge = FALSE \/ home THEN {} ELSE {used}

(* A process whose main() function throws ends with 91, whatever main() is *)
(* told; one whose function returns ends with the code it was given, or 0, *)
(* unless it is told not to end; fail() never ends it with 0 unless its    *)
(* second argument says so.                                                *)
ASSUME EndsAsAsked ==
    \A exit \in {Undef, TRUE, FALSE}, code \in {Undef, 0, 3}, code2 \in {Undef, 0, 4} :
        LET options == [F!NoExitOptions EXCEPT !.exit = exit, !.exitCode = code]
            second == [F!NoExitOptions EXCEPT !.exitCode = code2]
        IN  /\ F!Main(options, TRUE) = 91
            /\ F!Main(options, FALSE) = IF exit = FALSE THEN Undef ELSE F!Or(code, 0)
            /\ F!Fail(options, second).exitCode = F!Or(code2, 1)
            /\ F!ExitOptions(options, second).exit = F!Or(exit, TRUE)

(* What getEnv cannot read of a variable is null, and so is an empty one;  *)
(* an integer may be zero, a date may not.                                 *)
ASSUME EnvOrNull ==
    \A kind \in {"integer", "date", "string"}, n \in {Undef, 0, 5}, empty \in BOOLEAN, given \in BOOLEAN :
        LET value == [empty |-> empty, number |-> n]
            read == F!EnvValue(kind, IF given THEN value ELSE Undef)
            good == given /\ ~empty /\ CASE kind = "integer" -> n # Undef
                                          [] kind = "date" -> n = 5
                                          [] OTHER -> TRUE
        IN  (empty => n = Undef) =>
                read = IF good THEN IF kind = "string" THEN value ELSE n ELSE Undef

(* A call as another user differs from those of the actor in the token     *)
(* alone; a token in the configuration counts before that of the           *)
(* environment.                                                            *)
ASSUME TokenAlone ==
    \A token, own, env \in {Undef, F!Text(""), F!Text("t1"), F!Text("t2")} :
        LET config == F!New(IF own = Undef THEN <<>> ELSE "storageClientOptions" :> [token |-> own])
            environment == IF env = Undef THEN NoEnv ELSE "APIFY_TOKEN" :> env
            client == F!NewClient(environment, config, <<>>)
            call == F!CallClient(environment, config, token, client)
        IN  /\ client.token = F!Or(own, env)
            /\ call.baseUrl = client.baseUrl
            /\ call.token = IF token \in {Undef, F!Text("")} THEN client.token ELSE token

(* Off the platform no webhook is created; on it, one is created for the   *)
(* run the process belongs to.                                             *)
ASSUME WebhookForRun ==
    \A home \in BOOLEAN, run \in {Undef, F!Text(""), F!Text("r")} :
        LET environment == IF run = Undef THEN NoEnv ELSE "APIFY_ACTOR_RUN_ID" :> run
        IN  F!AddWebhook(environment, F!New(<<>>), home) = "created" <=> home /\ run = F!Text("r")
=============================================================================
