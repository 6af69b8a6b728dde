----------------------------- MODULE MCRouteAdmin -----------------------------
(* A small instance of RouteAdmin for TLC: two requests that bring a valid *)
(* route each, and one that brings any list of at most two from a stock    *)
(* with everything the rules are about: names at the limits, taken paths,  *)
(* topics the gateway does not own.                                        *)
EXTENDS RouteAdmin, TLC

CONSTANTS p1, p2, p3, a, b

MCPuts == {p1, p2, p3}

TopicA == Topic("source", FALSE, 30, a)

Autoops(path, topic) == Route(path, topic, DlqOf(topic), "elastic-autoops")

RouteA == Autoops(<<"webhooks", "a">>, TopicA)

Stock ==
  {RouteA,
   Autoops(<<"webhooks", "b">>, Topic("source", FALSE, 245, b)),
   Autoops(<<"webhooks", "b">>, Topic("source", FALSE, 246, b)),
   Autoops(<<"webhooks", "a">>, Topic("source", FALSE, 30, b)),
   Autoops(<<"webhooks", "b">>, TopicA),
   Autoops(<<"webhooks", "b">>, Topic("source", TRUE, 30, b)),
   Autoops(<<"webhooks", "b">>, Topic("public", FALSE, 30, b)),
   Autoops(<<"admin", "replay", "a">>, Topic("source", FALSE, 30, b)),
   Autoops(<<"admin", "routes">>, Topic("source", FALSE, 30, b)),
   Autoops(<<"healthz">>, Topic("source", FALSE, 30, b)),
   Route(<<"webhooks", "b">>, Topic("source", FALSE, 30, b), DlqOf(TopicA), "elastic-autoops"),
   Route(<<"webhooks", "b">>, Topic("source", FALSE, 30, b),
         DlqOf(Topic("source", FALSE, 30, b)), "unheard of")}

MCBodies ==
  (p1 :> {<<RouteA>>}) @@ (p2 :> {<<RouteA>>})
    @@ (p3 :> UNION {[1..n -> Stock] : n \in 0..2})

MCFirstRoutes == <<RouteA>>

Symmetry == Permutations({p1, p2})

=============================================================================
