------------------------------ MODULE MCSettings ------------------------------
(* A small instance of Settings for TLC: from an empty environment, one    *)
(* for MSK and one for Confluent with everything switched on, every        *)
(* environment that differs in at most two variables.                      *)
EXTENDS Settings

Texts ==
  [ENVIRONMENT |-> {Unset, "", "prod", "odd"},
   KAFKA_PROVIDER |-> {Unset, "local", "msk", "confluent", "odd"},
   KAFKA_BROKERS |-> {Unset, ",", "b:9098"},
   MSK_REGION |-> {Unset, "", "region"},
   MSK_CLUSTER_ARN |-> {Unset, "", "arn"},
   MSK_AUTH_MODE |-> {Unset, "iam", "odd"},
   CONFLUENT_API_KEY |-> {Unset, "key"},
   CONFLUENT_API_SECRET |-> {Unset, "secret"},
   OUTBOX_ENABLED |-> {Unset, "no", "odd"},
   OUTBOX_BATCH_SIZE |-> {Unset, "0", "1", "0.5", "odd"},
   ADMIN_TOKEN |-> {Unset, "short", "long"},
   ROUTES_FILE |-> {Unset, "path"},
   ROUTES_JSON |-> {Unset, "json", "invalid", "odd"},
   REPLAY_ENABLED |-> {Unset, "yes", "false", "odd"},
   REPLAY_MAX_ATTEMPTS |-> {Unset, "0", "1", "odd"},
   REPLAY_PARKING_TOPIC_SUFFIX |-> {Unset, "", ".other"},
   REPLAY_AUTO_ENABLED |-> {Unset, "true"}]

Empty == [v \in DOMAIN Texts |-> Unset]

Msk == [Empty EXCEPT !.KAFKA_PROVIDER = "msk", !.MSK_REGION = "region", !.MSK_CLUSTER_ARN = "arn"]

Confluent ==
  [Empty EXCEPT !.KAFKA_PROVIDER = "confluent", !.CONFLUENT_API_KEY = "key",
                !.CONFLUENT_API_SECRET = "secret", !.ADMIN_TOKEN = "long",
                !.ROUTES_FILE = "path", !.REPLAY_ENABLED = "yes"]

\* At most two variables changed.
Changed(base) ==
  UNION {{[base EXCEPT ![v] = t, ![w] = u] : t \in Texts[v], u \in Texts[w]}
         : v, w \in DOMAIN Texts}

MCEnvironments == UNION {Changed(base) : base \in {Empty, Msk, Confluent}}

=============================================================================
