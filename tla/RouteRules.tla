------------------------------ MODULE RouteRules ------------------------------
(***************************************************************************)
(* What makes a list of routes valid (routesSchema in config/schemas.ts,   *)
(* config/topicPolicy.ts, config/reservedPaths.ts), and the table of       *)
(* handlers that is built from it (gateway/routes.ts).                     *)
(*                                                                         *)
(* A path is the sequence of its segments.  A topic is represented by what *)
(* the naming policy looks at: the family its prefix belongs to, whether   *)
(* it is named like an event stream, its length, and a tag that tells      *)
(* topics apart.  A dead-letter topic is DLQ_ put before some topic.       *)
(***************************************************************************)
EXTENDS Naturals, Sequences

Families == {"empty", "source", "public", "sink", "dlq", "system", "private", "other"}

Topic(family, stream, length, tag) ==
  [family |-> family, stream |-> stream, length |-> length, tag |-> tag]

DlqOf(topic) == [of |-> topic, length |-> topic.length + 4]

Route(path, topic, dlqTopic, idempotency) ==
  [path |-> path, topic |-> topic, dlqTopic |-> dlqTopic, idempotency |-> idempotency]

MaxTopicLength == 249

-----------------------------------------------------------------------------
\* All that a gateway may write to; "source" stands for the whole pattern.
CheckGatewayTopic(topic) ==
  /\ topic.length \in 1..MaxTopicLength
  /\ topic.family = "source" /\ ~ topic.stream

ReservedPaths ==
  {<<"healthz">>, <<"admin", "routes">>, <<"admin", "dlq">>, <<"admin", "replay">>}

ReservedPrefixes == {<<"admin", "dlq">>, <<"admin", "replay">>}

IsReservedPath(path) ==
  \/ path \in ReservedPaths
  \/ Len(path) > 2 /\ <<path[1], path[2]>> \in ReservedPrefixes

KnownIdempotencyStrategies == {"elastic-autoops"}

RouteIsValid(r) ==
  /\ Len(r.path) > 0
  /\ CheckGatewayTopic(r.topic)
  /\ ~ IsReservedPath(r.path)
  /\ r.dlqTopic = DlqOf(r.topic) /\ r.dlqTopic.length <= MaxTopicLength
  /\ r.idempotency \in KnownIdempotencyStrategies

\* Mutated form: a path may occur again.
AllDifferButPaths(routes) ==
  \A i, k \in DOMAIN routes : i < k =>
    routes[i].topic # routes[k].topic /\ routes[i].dlqTopic # routes[k].dlqTopic

AllDiffer(routes) ==
  \A i, k \in DOMAIN routes : i < k =>
    /\ routes[i].path # routes[k].path
    /\ routes[i].topic # routes[k].topic
    /\ routes[i].dlqTopic # routes[k].dlqTopic

\* routesSchema: at least one route, each is valid, and none repeats another.
Accepted(routes) ==
  /\ Len(routes) > 0
  /\ \A i \in DOMAIN routes : RouteIsValid(routes[i])
  /\ AllDiffer(routes)

-----------------------------------------------------------------------------
Healthz == <<"healthz">>
AdminRoutes == <<"admin", "routes">>

ReplayEndpoints ==
  {<<"admin", "dlq">>, <<"admin", "replay", ":routeOrJobId">>,
   <<"admin", "replay", ":route", "message">>, <<"admin", "replay", ":jobId", "cancel">>}

\* Which of them there are: the routes endpoint needs a file to persist to,
\* the replay has to be enabled, and all need a token.
AdminEndpoints(token, routesFile, replay) ==
  (IF token /\ routesFile THEN {AdminRoutes} ELSE {})
    \cup (IF token /\ replay THEN ReplayEndpoints ELSE {})

Operation(path) == [serves |-> "operation", what |-> path]
Webhook(r) == [serves |-> "webhook", what |-> r]

PathsOf(routes) == {routes[i].path : i \in DOMAIN routes}

\* The routes are put into the table in order: the last of a path stays.
LastWith(routes, path) ==
  CHOOSE i \in DOMAIN routes :
    routes[i].path = path /\ \A k \in DOMAIN routes : routes[k].path = path => k <= i

\* First /healthz, then the routes, then the endpoints; what comes later wins.
BuildRoutes(routes, endpoints) ==
  [path \in {Healthz} \cup PathsOf(routes) \cup endpoints |->
     IF path \in endpoints THEN Operation(path)
     ELSE IF path \in PathsOf(routes) THEN Webhook(routes[LastWith(routes, path)])
     ELSE Operation(path)]

\* No route takes the place of an endpoint or of another route.
AllAreServed(routes, endpoints, table) ==
  /\ \A path \in {Healthz} \cup endpoints : table[path] = Operation(path)
  /\ \A i \in DOMAIN routes : table[routes[i].path] = Webhook(routes[i])

=============================================================================
