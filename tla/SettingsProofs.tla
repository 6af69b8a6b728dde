----------------------------- MODULE SettingsProofs -----------------------------
(***************************************************************************)
(* Theorems about the configuration, for any environments.  A merged       *)
(* configuration is looked at through Child: what a merge leaves under a   *)
(* key follows from what the two sides have under it (ChildOfMerge), so    *)
(* each setting is found by going down the merge key by key.               *)
(***************************************************************************)
EXTENDS Settings, TLAPS

-----------------------------------------------------------------------------
\* The only thing that counts as undefined is Undefined.
Told(x) == x.is = "undefined" => x = Undefined

IsSection(x) == Told(x) /\ x.is \in {"undefined", "object"}
IsSetting(x) == Told(x) /\ x.is \in {"undefined", "value"}

\* What a merge leaves where its sides have x and y.
Joined(MergeFields(_, _), x, y) ==
  IF y.is = "undefined" THEN x
  ELSE IF x.is = "object" /\ y.is = "object" THEN MergeFields(x, y)
  ELSE y

\* The more specific of two values.
Prefer(x, y) == IF y.is = "undefined" THEN x ELSE y

LEMMA Kinds ==
  /\ Undefined.is = "undefined" /\ Told(Undefined)
  /\ \A v : Leaf(v).is = "value" /\ Leaf(v).value = v /\ Told(Leaf(v))
  /\ \A f : Obj(f).is = "object" /\ Obj(f).fields = f /\ Told(Obj(f))
  BY DEF Told, Undefined, Leaf, Obj

\* Nothing is found under a value.
LEMMA ChildOfUndefined == ASSUME NEW k PROVE Child(Undefined, k) = Undefined
  BY Kinds DEF Child

\* A path of one key, of two and of three.
LEMMA AtPath ==
  ASSUME NEW node
  PROVE  /\ \A k : At(node, <<k>>) = Child(node, k)
         /\ \A k, j : At(node, <<k, j>>) = Child(Child(node, k), j)
         /\ \A k, j, i : At(node, <<k, j, i>>) = Child(Child(Child(node, k), j), i)
  BY DEF At

\* A section has the fields that are defined.
LEMMA ChildOfSection ==
  ASSUME NEW f, NEW k
  PROVE  /\ k \in DOMAIN f /\ Told(f[k]) => Child(Section(f), k) = f[k]
         /\ k \notin DOMAIN f => Child(Section(f), k) = Undefined
  BY DEF Child, Section, Obj, Given, Told

\* So has one that is left out when it is empty.
LEMMA ChildOfNested ==
  ASSUME NEW f, NEW k
  PROVE  /\ k \in DOMAIN f /\ Told(f[k]) => Child(Nested(f), k) = f[k]
         /\ k \notin DOMAIN f => Child(Nested(f), k) = Undefined
  <1>1. CASE Given(f) = {}
    <2>1. k \in DOMAIN f => f[k].is = "undefined"
      BY <1>1 DEF Given
    <2> QED
      BY <1>1, <2>1, ChildOfUndefined DEF Nested, Told
  <1>2. CASE Given(f) # {}
    BY <1>2, ChildOfSection DEF Nested
  <1> QED
    BY <1>1, <1>2

LEMMA NestedIsTold == ASSUME NEW f PROVE IsSection(Nested(f))
  BY Kinds DEF IsSection, Nested, Section

\* Under each key a merge is a merge of what its sides have there.
LEMMA ChildOfShallow ==
  ASSUME NEW b, NEW o, NEW k, b.is = "object", o.is = "object", Told(Child(o, k))
  PROVE  Child(MergeShallow(b, o), k) = Prefer(Child(b, k), Child(o, k))
  <1>1. k \in Given(o.fields) <=> Child(o, k).is # "undefined"
    BY Kinds DEF Given, Child
  <1>2. /\ k \in Given(o.fields) => o.fields[k] = Child(o, k)
        /\ k \in DOMAIN b.fields => b.fields[k] = Child(b, k)
    BY DEF Given, Child
  <1> QED
    BY <1>1, <1>2 DEF MergeShallow, Child, Prefer, Obj

LEMMA ChildOfMergeSections ==
  ASSUME NEW b, NEW o, NEW k, b.is = "object", o.is = "object", Told(Child(o, k))
  PROVE  Child(MergeSections(b, o), k) = Joined(MergeShallow, Child(b, k), Child(o, k))
  <1>1. k \in Given(o.fields) <=> Child(o, k).is # "undefined"
    BY Kinds DEF Given, Child
  <1>2. /\ k \in Given(o.fields) => o.fields[k] = Child(o, k)
        /\ k \in DOMAIN b.fields => b.fields[k] = Child(b, k)
        /\ k \notin DOMAIN b.fields => Child(b, k).is # "object"
    BY Kinds DEF Given, Child
  <1> QED
    BY <1>1, <1>2 DEF MergeSections, MergeLevel, Child, Joined, Obj

LEMMA ChildOfMergeDeep ==
  ASSUME NEW b, NEW o, NEW k, b.is = "object", o.is = "object", Told(Child(o, k))
  PROVE  Child(MergeDeep(b, o), k) = Joined(MergeSections, Child(b, k), Child(o, k))
  <1>1. k \in Given(o.fields) <=> Child(o, k).is # "undefined"
    BY Kinds DEF Given, Child
  <1>2. /\ k \in Given(o.fields) => o.fields[k] = Child(o, k)
        /\ k \in DOMAIN b.fields => b.fields[k] = Child(b, k)
        /\ k \notin DOMAIN b.fields => Child(b, k).is # "object"
    BY Kinds DEF Given, Child
  <1> QED
    BY <1>1, <1>2 DEF MergeDeep, MergeLevel, Child, Joined, Obj

\* And it can be gone down further.
LEMMA ChildOfJoinedSections ==
  ASSUME NEW x, NEW y, NEW k, IsSection(x), IsSection(y), Told(Child(y, k))
  PROVE  Child(Joined(MergeSections, x, y), k) = Joined(MergeShallow, Child(x, k), Child(y, k))
  <1>1. CASE y.is = "undefined"
    BY <1>1, Kinds, ChildOfUndefined DEF Joined, Told, IsSection
  <1>2. CASE y.is = "object" /\ x.is = "object"
    BY <1>2, ChildOfMergeSections DEF Joined, IsSection
  <1>3. CASE y.is = "object" /\ x.is = "undefined"
    BY <1>3, Kinds, ChildOfUndefined DEF Joined, Told, IsSection
  <1> QED
    BY <1>1, <1>2, <1>3 DEF IsSection

LEMMA ChildOfJoinedParts ==
  ASSUME NEW x, NEW y, NEW k, IsSection(x), IsSection(y), Told(Child(y, k))
  PROVE  Child(Joined(MergeShallow, x, y), k) = Prefer(Child(x, k), Child(y, k))
  <1>1. CASE y.is = "undefined"
    BY <1>1, Kinds, ChildOfUndefined DEF Joined, Told, IsSection, Prefer
  <1>2. CASE y.is = "object" /\ x.is = "object"
    BY <1>2, ChildOfShallow DEF Joined, IsSection
  <1>3. CASE y.is = "object" /\ x.is = "undefined"
    BY <1>3, Kinds, ChildOfUndefined DEF Joined, Told, IsSection, Prefer
  <1> QED
    BY <1>1, <1>2, <1>3 DEF IsSection

-----------------------------------------------------------------------------
\* Each parser yields a value or Undefined.
LEMMA ParsersAreTold ==
  ASSUME NEW raw
  PROVE  /\ IsSetting(Str(raw)) /\ IsSetting(Bool(raw)) /\ IsSetting(Num(raw))
         /\ IsSetting(Csv(raw)) /\ IsSetting(Json(raw))
  <1>1. IsSetting(Str(raw))
    BY Kinds DEF Str, IsSetting
  <1> QED
    BY <1>1, Kinds DEF Bool, Num, Csv, Json, IsSetting

\* What is undefined in the environment leaves no key, nor does an empty section.
LEMMA SectionsAreTold ==
  ASSUME NEW e, NEW k \in DOMAIN Sections(e)
  PROVE  Told(Sections(e)[k])
  <1>1. Told(ReplayBlock(e))
    BY Kinds DEF ReplayBlock
  <1>2. k \in {"app", "kafka", "outbox", "admin", "routesFile", "routes", "replay"}
    BY DEF Sections
  <1> QED
    BY <1>1, <1>2, NestedIsTold, ParsersAreTold DEF Sections, IsSection, IsSetting

LEMMA ChildOfMapEnv ==
  ASSUME NEW e, NEW k
  PROVE  /\ k \in DOMAIN Sections(e) => Child(MapEnv(e), k) = Sections(e)[k]
         /\ k \notin DOMAIN Sections(e) => Child(MapEnv(e), k) = Undefined
  BY SectionsAreTold, ChildOfSection DEF MapEnv

\* The routes of the file come before those of the environment.
LEMMA ChildOfOverrides ==
  ASSUME NEW e, NEW c, NEW k
  PROVE  /\ Overrides(e, c).is = "object"
         /\ k # "routes" => Child(Overrides(e, c), k) = Child(MapEnv(e), k)
         /\ Child(Overrides(e, c), "routes")
              = IF Str(e.ROUTES_FILE).is = "undefined" THEN Json(e.ROUTES_JSON) ELSE Leaf(c)
  <1>1. MapEnv(e).is = "object" /\ MapEnv(e).fields = MapEnv(e).fields
    BY Kinds DEF MapEnv, Section
  <1>2. /\ Sections(e).routesFile = Str(e.ROUTES_FILE) /\ Sections(e).routes = Json(e.ROUTES_JSON)
        /\ "routesFile" \in DOMAIN Sections(e) /\ "routes" \in DOMAIN Sections(e)
    BY DEF Sections
  <1>3. "routesFile" \in DOMAIN MapEnv(e).fields <=> Str(e.ROUTES_FILE).is # "undefined"
    BY <1>2, Kinds DEF MapEnv, Section, Given
  <1>4. CASE "routesFile" \notin DOMAIN MapEnv(e).fields
    <2>1. Overrides(e, c) = MapEnv(e)
      BY <1>4 DEF Overrides
    <2>2. Child(MapEnv(e), "routes") = Json(e.ROUTES_JSON)
      BY <1>2, ChildOfMapEnv
    <2> QED
      BY <1>1, <1>3, <1>4, <2>1, <2>2
  <1>5. CASE "routesFile" \in DOMAIN MapEnv(e).fields
    <2> DEFINE fields == MapEnv(e).fields
               all == [x \in DOMAIN fields \cup {"routes"} |->
                         IF x = "routes" THEN Leaf(c) ELSE fields[x]]
    <2>1. Overrides(e, c) = Obj(all)
      BY <1>5 DEF Overrides
    <2>2. k # "routes" => /\ k \in DOMAIN all <=> k \in DOMAIN fields
                          /\ k \in DOMAIN all => all[k] = fields[k]
      OBVIOUS
    <2>3. "routes" \in DOMAIN all /\ all["routes"] = Leaf(c)
      OBVIOUS
    <2> HIDE DEF all, fields
    <2>4. k # "routes" => Child(Obj(all), k) = Child(MapEnv(e), k)
      BY <1>1, <2>2, Kinds DEF Child, fields
    <2>5. Child(Obj(all), "routes") = Leaf(c)
      BY <2>3, Kinds DEF Child
    <2> QED
      BY <1>3, <1>5, <2>1, <2>4, <2>5, Kinds
  <1> QED
    BY <1>4, <1>5

\* Each key of the configuration, from the default and the environment.
LEMMA ChildOfConfig ==
  ASSUME NEW e, NEW c, NEW k
  PROVE  /\ k \in DOMAIN Sections(e) \ {"routes"} =>
              Child(BuildConfig(e, c), k) =
                Joined(MergeSections, Child(Defaults, k), Sections(e)[k])
         /\ Child(BuildConfig(e, c), "routes")
              = IF Str(e.ROUTES_FILE).is = "undefined"
                THEN Prefer(Leaf("seed"), Json(e.ROUTES_JSON))
                ELSE Leaf(c)
  <1>1. Defaults.is = "object" /\ Child(Defaults, "routes") = Leaf("seed")
    BY DEF Defaults, Obj, Child
  <1>2. ASSUME k \in DOMAIN Sections(e) \ {"routes"}
        PROVE  Child(BuildConfig(e, c), k) =
                 Joined(MergeSections, Child(Defaults, k), Sections(e)[k])
    <2>1. Child(Overrides(e, c), k) = Sections(e)[k]
      BY <1>2, ChildOfOverrides, ChildOfMapEnv
    <2> QED
      BY <1>1, <1>2, <2>1, SectionsAreTold, ChildOfOverrides, ChildOfMergeDeep DEF BuildConfig
  <1>3. Child(BuildConfig(e, c), "routes")
          = Joined(MergeSections, Leaf("seed"), Child(Overrides(e, c), "routes"))
    <2>1. Told(Child(Overrides(e, c), "routes"))
      BY ChildOfOverrides, ParsersAreTold, Kinds DEF IsSetting
    <2> QED
      BY <1>1, <2>1, ChildOfOverrides, ChildOfMergeDeep DEF BuildConfig
  <1>4. Joined(MergeSections, Leaf("seed"), Child(Overrides(e, c), "routes"))
          = Prefer(Leaf("seed"), Child(Overrides(e, c), "routes"))
    BY Kinds DEF Joined, Prefer
  <1>5. Prefer(Leaf("seed"), Child(Overrides(e, c), "routes"))
          = IF Str(e.ROUTES_FILE).is = "undefined" THEN Prefer(Leaf("seed"), Json(e.ROUTES_JSON))
            ELSE Leaf(c)
    BY ChildOfOverrides, Kinds DEF Prefer
  <1> QED
    BY <1>2, <1>3, <1>4, <1>5

\* A setting two keys down, and three.
LEMMA TwoKeys ==
  ASSUME NEW e, NEW c, NEW k \in DOMAIN Sections(e) \ {"routes"}, NEW j,
         IsSection(Child(Defaults, k)), IsSection(Sections(e)[k]),
         IsSetting(Child(Sections(e)[k], j))
  PROVE  At(BuildConfig(e, c), <<k, j>>) = Prefer(At(Defaults, <<k, j>>), Child(Sections(e)[k], j))
  <1> DEFINE x == Child(Defaults, k)
             y == Sections(e)[k]
  <1>1. /\ At(BuildConfig(e, c), <<k, j>>) = Child(Child(BuildConfig(e, c), k), j)
        /\ At(Defaults, <<k, j>>) = Child(x, j)
    BY DEF At
  <1>2. Child(BuildConfig(e, c), k) = Joined(MergeSections, x, y)
    BY ChildOfConfig
  <1> HIDE DEF x, y
  <1>3. Child(Joined(MergeSections, x, y), j) = Joined(MergeShallow, Child(x, j), Child(y, j))
    BY ChildOfJoinedSections DEF x, y, IsSection, IsSetting
  <1>4. Joined(MergeShallow, Child(x, j), Child(y, j)) = Prefer(Child(x, j), Child(y, j))
    BY DEF Joined, Prefer, y, IsSetting
  <1> QED
    BY <1>1, <1>2, <1>3, <1>4 DEF y

LEMMA ThreeKeys ==
  ASSUME NEW e, NEW c, NEW k \in DOMAIN Sections(e) \ {"routes"}, NEW j, NEW i,
         IsSection(Child(Defaults, k)), IsSection(Sections(e)[k]),
         IsSection(Child(Child(Defaults, k), j)), IsSection(Child(Sections(e)[k], j)),
         IsSetting(Child(Child(Sections(e)[k], j), i))
  PROVE  At(BuildConfig(e, c), <<k, j, i>>)
           = Prefer(At(Defaults, <<k, j, i>>), Child(Child(Sections(e)[k], j), i))
  <1> DEFINE x == Child(Defaults, k)
             y == Sections(e)[k]
  <1>1. /\ At(BuildConfig(e, c), <<k, j, i>>) = Child(Child(Child(BuildConfig(e, c), k), j), i)
        /\ At(Defaults, <<k, j, i>>) = Child(Child(x, j), i)
    BY DEF At
  <1>2. Child(BuildConfig(e, c), k) = Joined(MergeSections, x, y)
    BY ChildOfConfig
  <1> HIDE DEF x, y
  <1>3. Child(Joined(MergeSections, x, y), j) = Joined(MergeShallow, Child(x, j), Child(y, j))
    BY ChildOfJoinedSections DEF x, y, IsSection, IsSetting
  <1>4. Child(Joined(MergeShallow, Child(x, j), Child(y, j)), i)
          = Prefer(Child(Child(x, j), i), Child(Child(y, j), i))
    BY ChildOfJoinedParts DEF x, y, IsSetting
  <1> QED
    BY <1>1, <1>2, <1>3, <1>4 DEF y

\* The sections the defaults have, and those they have not.
LEMMA DefaultSections ==
  /\ \A k \in {"app", "kafka", "outbox", "admin"} : IsSection(Child(Defaults, k))
  /\ \A k \in {"msk", "confluent"} : IsSection(Child(Child(Defaults, "kafka"), k))
  /\ Child(Defaults, "admin") = Undefined /\ Child(Defaults, "replay") = Undefined
  /\ Child(Defaults, "routesFile") = Undefined
  <1>1. /\ Child(Defaults, "app").is = "object" /\ Child(Defaults, "kafka").is = "object"
        /\ Child(Defaults, "outbox").is = "object"
        /\ Child(Defaults, "admin") = Undefined /\ Child(Defaults, "replay") = Undefined
        /\ Child(Defaults, "routesFile") = Undefined
        /\ Child(Child(Defaults, "kafka"), "msk").is = "object"
        /\ Child(Child(Defaults, "kafka"), "confluent").is = "object"
    BY DEF Defaults, Obj, Child
  <1> QED
    BY <1>1, Kinds DEF IsSection, Told

-----------------------------------------------------------------------------
\* The sections are objects or left out, and what each has under its keys.
LEMMA SectionFacts ==
  ASSUME NEW e
  PROVE  /\ {"app", "kafka", "outbox", "admin", "replay", "routesFile"}
              \subseteq DOMAIN Sections(e) \ {"routes"}
         /\ \A k \in {"app", "kafka", "outbox", "admin"} : IsSection(Sections(e)[k])
         /\ Child(Sections(e)["app"], "environment") = Str(e.ENVIRONMENT)
         /\ Child(Sections(e)["outbox"], "enabled") = Bool(e.OUTBOX_ENABLED)
         /\ Child(Sections(e)["outbox"], "batchSize") = Num(e.OUTBOX_BATCH_SIZE)
         /\ Child(Sections(e)["admin"], "token") = Str(e.ADMIN_TOKEN)
  <1>1. /\ Sections(e)["app"] = Nested([environment |-> Str(e.ENVIRONMENT)])
        /\ Sections(e)["outbox"]
             = Nested([enabled |-> Bool(e.OUTBOX_ENABLED), batchSize |-> Num(e.OUTBOX_BATCH_SIZE)])
        /\ Sections(e)["admin"] = Nested([token |-> Str(e.ADMIN_TOKEN)])
    BY DEF Sections
  <1>2. \A k \in {"app", "kafka", "outbox", "admin"} : IsSection(Sections(e)[k])
    BY NestedIsTold DEF Sections
  <1>3. {"app", "kafka", "outbox", "admin", "replay", "routesFile"}
           \subseteq DOMAIN Sections(e) \ {"routes"}
    BY DEF Sections
  <1>4. Child(Sections(e)["app"], "environment") = Str(e.ENVIRONMENT)
    BY <1>1, ChildOfNested, ParsersAreTold DEF IsSetting
  <1>5. Child(Sections(e)["outbox"], "enabled") = Bool(e.OUTBOX_ENABLED)
    BY <1>1, ChildOfNested, ParsersAreTold DEF IsSetting
  <1>6. Child(Sections(e)["outbox"], "batchSize") = Num(e.OUTBOX_BATCH_SIZE)
    BY <1>1, ChildOfNested, ParsersAreTold DEF IsSetting
  <1>7. Child(Sections(e)["admin"], "token") = Str(e.ADMIN_TOKEN)
    BY <1>1, ChildOfNested, ParsersAreTold DEF IsSetting
  <1> QED
    BY <1>2, <1>3, <1>4, <1>5, <1>6, <1>7

\* The Kafka section has two sections of its own.
LEMMA KafkaFacts ==
  ASSUME NEW e
  PROVE  LET kafka == Sections(e)["kafka"]
             msk == Child(kafka, "msk")
             confluent == Child(kafka, "confluent")
         IN  /\ Child(kafka, "provider") = Str(e.KAFKA_PROVIDER)
             /\ Child(kafka, "brokers") = Csv(e.KAFKA_BROKERS)
             /\ IsSection(msk)
             /\ Child(msk, "region") = Str(e.MSK_REGION)
             /\ Child(msk, "clusterArn") = Str(e.MSK_CLUSTER_ARN)
             /\ Child(msk, "authMode") = Str(e.MSK_AUTH_MODE)
             /\ IsSection(confluent)
             /\ Child(confluent, "apiKey") = Str(e.CONFLUENT_API_KEY)
             /\ Child(confluent, "apiSecret") = Str(e.CONFLUENT_API_SECRET)
  <1> DEFINE kafka == Sections(e)["kafka"]
             msk == [region |-> Str(e.MSK_REGION), clusterArn |-> Str(e.MSK_CLUSTER_ARN),
                     authMode |-> Str(e.MSK_AUTH_MODE)]
             confluent == [apiKey |-> Str(e.CONFLUENT_API_KEY),
                           apiSecret |-> Str(e.CONFLUENT_API_SECRET)]
             fields == [provider |-> Str(e.KAFKA_PROVIDER), brokers |-> Csv(e.KAFKA_BROKERS),
                        msk |-> Nested(msk), confluent |-> Nested(confluent)]
  <1>1. kafka = Nested(fields)
    BY DEF Sections
  <1>2. /\ {"provider", "brokers", "msk", "confluent"} \subseteq DOMAIN fields
        /\ fields["provider"] = Str(e.KAFKA_PROVIDER) /\ fields["brokers"] = Csv(e.KAFKA_BROKERS)
        /\ fields["msk"] = Nested(msk) /\ fields["confluent"] = Nested(confluent)
    OBVIOUS
  <1>3. /\ {"region", "clusterArn", "authMode"} \subseteq DOMAIN msk
        /\ msk["region"] = Str(e.MSK_REGION) /\ msk["clusterArn"] = Str(e.MSK_CLUSTER_ARN)
        /\ msk["authMode"] = Str(e.MSK_AUTH_MODE)
    OBVIOUS
  <1>4. /\ {"apiKey", "apiSecret"} \subseteq DOMAIN confluent
        /\ confluent["apiKey"] = Str(e.CONFLUENT_API_KEY)
        /\ confluent["apiSecret"] = Str(e.CONFLUENT_API_SECRET)
    OBVIOUS
  <1> HIDE DEF kafka, msk, confluent, fields
  <1>5. /\ Child(kafka, "provider") = Str(e.KAFKA_PROVIDER)
        /\ Child(kafka, "brokers") = Csv(e.KAFKA_BROKERS)
    BY <1>1, <1>2, ChildOfNested, ParsersAreTold DEF IsSetting
  <1>6. Child(kafka, "msk") = Nested(msk) /\ Child(kafka, "confluent") = Nested(confluent)
    BY <1>1, <1>2, ChildOfNested, NestedIsTold DEF IsSection
  <1>7. /\ Child(Nested(msk), "region") = Str(e.MSK_REGION)
        /\ Child(Nested(msk), "clusterArn") = Str(e.MSK_CLUSTER_ARN)
        /\ Child(Nested(msk), "authMode") = Str(e.MSK_AUTH_MODE)
    BY <1>3, ChildOfNested, ParsersAreTold DEF IsSetting
  <1>8. /\ Child(Nested(confluent), "apiKey") = Str(e.CONFLUENT_API_KEY)
        /\ Child(Nested(confluent), "apiSecret") = Str(e.CONFLUENT_API_SECRET)
    BY <1>4, ChildOfNested, ParsersAreTold DEF IsSetting
  <1> QED
    BY <1>5, <1>6, <1>7, <1>8, NestedIsTold DEF kafka

\* Every variable has its effect, and its default where it says nothing.
Preferred(e, c, path, value) == At(BuildConfig(e, c), path) = Prefer(At(Defaults, path), value)

LEMMA VariablesTakeEffect ==
  ASSUME NEW e, NEW c
  PROVE   /\ Preferred(e, c, <<"app", "environment">>, Str(e.ENVIRONMENT))
         /\ Preferred(e, c, <<"kafka", "provider">>, Str(e.KAFKA_PROVIDER))
         /\ Preferred(e, c, <<"kafka", "brokers">>, Csv(e.KAFKA_BROKERS))
         /\ Preferred(e, c, <<"outbox", "enabled">>, Bool(e.OUTBOX_ENABLED))
         /\ Preferred(e, c, <<"outbox", "batchSize">>, Num(e.OUTBOX_BATCH_SIZE))
         /\ Preferred(e, c, <<"admin", "token">>, Str(e.ADMIN_TOKEN))
         /\ Preferred(e, c, <<"kafka", "msk", "region">>, Str(e.MSK_REGION))
         /\ Preferred(e, c, <<"kafka", "msk", "clusterArn">>, Str(e.MSK_CLUSTER_ARN))
         /\ Preferred(e, c, <<"kafka", "msk", "authMode">>, Str(e.MSK_AUTH_MODE))
         /\ Preferred(e, c, <<"kafka", "confluent", "apiKey">>, Str(e.CONFLUENT_API_KEY))
         /\ Preferred(e, c, <<"kafka", "confluent", "apiSecret">>, Str(e.CONFLUENT_API_SECRET))
  <1>1. Preferred(e, c, <<"app", "environment">>, Str(e.ENVIRONMENT))
    BY TwoKeys, SectionFacts, DefaultSections, ParsersAreTold DEF Preferred
  <1>2. Preferred(e, c, <<"kafka", "provider">>, Str(e.KAFKA_PROVIDER))
    BY TwoKeys, SectionFacts, KafkaFacts, DefaultSections, ParsersAreTold DEF Preferred
  <1>3. Preferred(e, c, <<"kafka", "brokers">>, Csv(e.KAFKA_BROKERS))
    BY TwoKeys, SectionFacts, KafkaFacts, DefaultSections, ParsersAreTold DEF Preferred
  <1>4. Preferred(e, c, <<"outbox", "enabled">>, Bool(e.OUTBOX_ENABLED))
    BY TwoKeys, SectionFacts, DefaultSections, ParsersAreTold DEF Preferred
  <1>5. Preferred(e, c, <<"outbox", "batchSize">>, Num(e.OUTBOX_BATCH_SIZE))
    BY TwoKeys, SectionFacts, DefaultSections, ParsersAreTold DEF Preferred
  <1>6. Preferred(e, c, <<"admin", "token">>, Str(e.ADMIN_TOKEN))
    BY TwoKeys, SectionFacts, DefaultSections, ParsersAreTold DEF Preferred
  <1>7. Preferred(e, c, <<"kafka", "msk", "region">>, Str(e.MSK_REGION))
    BY ThreeKeys, SectionFacts, KafkaFacts, DefaultSections, ParsersAreTold DEF Preferred
  <1>8. Preferred(e, c, <<"kafka", "msk", "clusterArn">>, Str(e.MSK_CLUSTER_ARN))
    BY ThreeKeys, SectionFacts, KafkaFacts, DefaultSections, ParsersAreTold DEF Preferred
  <1>9. Preferred(e, c, <<"kafka", "msk", "authMode">>, Str(e.MSK_AUTH_MODE))
    BY ThreeKeys, SectionFacts, KafkaFacts, DefaultSections, ParsersAreTold DEF Preferred
  <1>10. Preferred(e, c, <<"kafka", "confluent", "apiKey">>, Str(e.CONFLUENT_API_KEY))
    BY ThreeKeys, SectionFacts, KafkaFacts, DefaultSections, ParsersAreTold DEF Preferred
  <1>11. Preferred(e, c, <<"kafka", "confluent", "apiSecret">>, Str(e.CONFLUENT_API_SECRET))
    BY ThreeKeys, SectionFacts, KafkaFacts, DefaultSections, ParsersAreTold DEF Preferred
  <1> QED
    BY <1>1, <1>2, <1>3, <1>4, <1>5, <1>6, <1>7, <1>8, <1>9, <1>10, <1>11

LEMMA MeaningTakesEffect ==
  ASSUME NEW e, NEW c, NEW m \in Meaning(e)
  PROVE  Preferred(e, c, m[1], m[3])
  BY VariablesTakeEffect DEF Meaning

\* What is not set says nothing.
LEMMA UnsetIsSilent ==
  ASSUME NEW e, NEW m \in Meaning(e) \cup ReplayMeaning(e)
  PROVE  IsSetting(m[3]) /\ (m[2] = Unset => m[3] = Undefined)
  <1>1. /\ Str(Unset) = Undefined /\ Bool(Unset) = Undefined
        /\ Num(Unset) = Undefined /\ Csv(Unset) = Undefined
    BY DEF Str, Bool, Num, Csv, Unset
  <1>2. CASE m \in Meaning(e)
    BY <1>1, <1>2, ParsersAreTold DEF Meaning
  <1>3. CASE m \in ReplayMeaning(e)
    BY <1>1, <1>3, ParsersAreTold DEF ReplayMeaning
  <1> QED
    BY <1>2, <1>3

-----------------------------------------------------------------------------
\* The replay block stands alone, as the defaults have none.
LEMMA ReplayBlockStands ==
  ASSUME NEW e, NEW c
  PROVE  Child(BuildConfig(e, c), "replay") = ReplayBlock(e)
  <1>1. Sections(e)["replay"] = ReplayBlock(e)
    BY DEF Sections
  <1>2. Child(BuildConfig(e, c), "replay") = Joined(MergeSections, Undefined, ReplayBlock(e))
    BY <1>1, ChildOfConfig, SectionFacts, DefaultSections
  <1>3. Told(ReplayBlock(e))
    BY Kinds DEF ReplayBlock
  <1> QED
    BY <1>2, <1>3, Kinds DEF Joined, Told

\* A field of the block is the variable's, or the block's own default.
LEMMA ReplayFields ==
  ASSUME NEW e, NEW c, NEW k \in {"enabled", "maxAttempts", "parkingTopicSuffix"}
  PROVE  At(BuildConfig(e, c), <<"replay", k>>)
           = IF Nested(ReplayGiven(e)) = Undefined THEN Undefined
             ELSE Prefer(ReplayDefaults[k], ReplayGiven(e)[k])
  <1> DEFINE block == ReplayBlock(e)
  <1>1. At(BuildConfig(e, c), <<"replay", k>>) = Child(block, k)
    BY ReplayBlockStands, AtPath
  <1>2. CASE Nested(ReplayGiven(e)) = Undefined
    BY <1>1, <1>2, ChildOfUndefined DEF ReplayBlock
  <1>3. CASE Nested(ReplayGiven(e)) # Undefined
    <2> DEFINE fields == Overlay(ReplayDefaults, ReplayGiven(e))
    <2>1. k \in DOMAIN fields /\ fields[k] = Prefer(ReplayDefaults[k], ReplayGiven(e)[k])
      BY DEF Overlay, ReplayDefaults, Prefer
    <2>2. block = Obj([fields EXCEPT
                         !.auto = Obj(Overlay(ReplayDefaults.auto.fields, AutoGiven(e)))])
      BY <1>3 DEF ReplayBlock
    <2> HIDE DEF fields, block
    <2>3. Child(block, k) = fields[k]
      BY <2>1, <2>2, Kinds DEF Child
    <2> QED
      BY <1>1, <1>3, <2>1, <2>3 DEF block
  <1> QED
    BY <1>2, <1>3

\* So is the one field of the section within it.
LEMMA AutoField ==
  ASSUME NEW e, NEW c
  PROVE  At(BuildConfig(e, c), <<"replay", "auto", "enabled">>)
           = IF Nested(ReplayGiven(e)) = Undefined THEN Undefined
             ELSE Prefer(Leaf("false"), Bool(e.REPLAY_AUTO_ENABLED))
  <1> DEFINE block == ReplayBlock(e)
             auto == Overlay(ReplayDefaults.auto.fields, AutoGiven(e))
  <1>1. At(BuildConfig(e, c), <<"replay", "auto", "enabled">>) = Child(Child(block, "auto"), "enabled")
    BY ReplayBlockStands, AtPath
  <1>2. CASE Nested(ReplayGiven(e)) = Undefined
    BY <1>1, <1>2, ChildOfUndefined DEF ReplayBlock
  <1>3. CASE Nested(ReplayGiven(e)) # Undefined
    <2>1. ReplayDefaults.auto = Obj([enabled |-> Leaf("false")])
      BY DEF ReplayDefaults
    <2>2. "enabled" \in DOMAIN auto
          /\ auto["enabled"] = Prefer(Leaf("false"), Bool(e.REPLAY_AUTO_ENABLED))
      BY <2>1, Kinds DEF Overlay, Prefer, AutoGiven
    <2> DEFINE fields == Overlay(ReplayDefaults, ReplayGiven(e))
    <2>3. "auto" \in DOMAIN fields
      BY DEF Overlay, ReplayDefaults
    <2> HIDE DEF auto
    <2>4. block = Obj([fields EXCEPT !.auto = Obj(auto)])
      BY <1>3 DEF ReplayBlock, auto
    <2> HIDE DEF fields, block
    <2>5. Child(block, "auto") = Obj(auto)
      BY <2>3, <2>4, Kinds DEF Child
    <2>6. Child(Obj(auto), "enabled") = auto["enabled"]
      BY <2>2, Kinds DEF Child
    <2> QED
      BY <1>1, <1>3, <2>2, <2>5, <2>6 DEF block
  <1> QED
    BY <1>2, <1>3

\* The block is there exactly if one of its variables says something.
LEMMA BlockIsSaid ==
  ASSUME NEW e
  PROVE  Nested(ReplayGiven(e)) # Undefined <=> \E m \in ReplayMeaning(e) : m[3].is = "value"
  <1> DEFINE given == ReplayGiven(e)
  <1>1. Nested(given) # Undefined <=> \E k \in DOMAIN given : given[k].is # "undefined"
    BY Kinds DEF Nested, Section, Given
  <1>2. /\ DOMAIN given = {"enabled", "maxAttempts", "parkingTopicSuffix", "auto"}
        /\ given["enabled"] = Bool(e.REPLAY_ENABLED)
        /\ given["maxAttempts"] = Num(e.REPLAY_MAX_ATTEMPTS)
        /\ given["parkingTopicSuffix"] = Str(e.REPLAY_PARKING_TOPIC_SUFFIX)
        /\ given["auto"] = Nested(AutoGiven(e))
    BY DEF ReplayGiven
  <1>3. Nested(AutoGiven(e)).is # "undefined" <=> Bool(e.REPLAY_AUTO_ENABLED).is # "undefined"
    BY Kinds DEF Nested, Section, Given, AutoGiven
  <1>4. (\E m \in ReplayMeaning(e) : m[3].is = "value") <=>
          \/ Bool(e.REPLAY_ENABLED).is = "value" \/ Num(e.REPLAY_MAX_ATTEMPTS).is = "value"
          \/ Str(e.REPLAY_PARKING_TOPIC_SUFFIX).is = "value"
          \/ Bool(e.REPLAY_AUTO_ENABLED).is = "value"
    <2>1. ASSUME NEW m \in ReplayMeaning(e)
          PROVE  m[3] \in {Bool(e.REPLAY_ENABLED), Num(e.REPLAY_MAX_ATTEMPTS),
                           Str(e.REPLAY_PARKING_TOPIC_SUFFIX), Bool(e.REPLAY_AUTO_ENABLED)}
      BY DEF ReplayMeaning
    <2>2. /\ <<<<"replay", "enabled">>, e.REPLAY_ENABLED, Bool(e.REPLAY_ENABLED)>>
               \in ReplayMeaning(e)
          /\ <<<<"replay", "maxAttempts">>, e.REPLAY_MAX_ATTEMPTS, Num(e.REPLAY_MAX_ATTEMPTS)>>
               \in ReplayMeaning(e)
          /\ <<<<"replay", "parkingTopicSuffix">>, e.REPLAY_PARKING_TOPIC_SUFFIX,
               Str(e.REPLAY_PARKING_TOPIC_SUFFIX)>> \in ReplayMeaning(e)
          /\ <<<<"replay", "auto", "enabled">>, e.REPLAY_AUTO_ENABLED,
               Bool(e.REPLAY_AUTO_ENABLED)>> \in ReplayMeaning(e)
      BY DEF ReplayMeaning
    <2>3. \A x, y, z : <<x, y, z>>[3] = z
      OBVIOUS
    <2> QED
      BY <2>1, <2>2, <2>3
  <1> HIDE DEF given
  <1> QED
    BY <1>1, <1>2, <1>3, <1>4, ParsersAreTold DEF IsSetting, given

LEMMA ReplayTakesEffect ==
  ASSUME NEW e, NEW c, NEW m \in ReplayMeaning(e)
  PROVE  At(BuildConfig(e, c), m[1]) = Prefer(At(ReplayBase(e), m[1]), m[3])
  <1> DEFINE base == Obj([replay |-> Obj(ReplayDefaults)])
  <1>1. CASE Nested(ReplayGiven(e)) = Undefined
    <2>1. m[3] = Undefined
      BY <1>1, BlockIsSaid, UnsetIsSilent DEF IsSetting, Told
    <2>2. At(ReplayBase(e), m[1]) = Undefined
      <3>1. ReplayBase(e) = NoConfig
        BY <1>1, BlockIsSaid DEF ReplayBase
      <3>2. Child(NoConfig, "replay") = Undefined
        BY Kinds DEF NoConfig, Child
      <3> QED
        BY <3>1, <3>2, AtPath, ChildOfUndefined DEF ReplayMeaning
    <2>3. At(BuildConfig(e, c), m[1]) = Undefined
      BY <1>1, ReplayFields, AutoField DEF ReplayMeaning
    <2> QED
      BY <2>1, <2>2, <2>3, Kinds DEF Prefer
  <1>2. CASE Nested(ReplayGiven(e)) # Undefined
    <2>1. ReplayBase(e) = base
      BY <1>2, BlockIsSaid DEF ReplayBase
    <2>2. Child(base, "replay") = Obj(ReplayDefaults)
      BY Kinds DEF Child
    <2>3. \A k \in {"enabled", "maxAttempts", "parkingTopicSuffix", "auto"} :
            Child(Obj(ReplayDefaults), k) = ReplayDefaults[k]
      BY Kinds DEF Child, ReplayDefaults
    <2>4. Child(ReplayDefaults["auto"], "enabled") = Leaf("false")
      BY Kinds DEF Child, ReplayDefaults
    <2> HIDE DEF base
    <2>5. /\ \A k \in {"enabled", "maxAttempts", "parkingTopicSuffix"} :
               At(base, <<"replay", k>>) = ReplayDefaults[k]
          /\ At(base, <<"replay", "auto", "enabled">>) = Leaf("false")
      BY <2>2, <2>3, <2>4, AtPath
    <2>6. /\ ReplayGiven(e)["enabled"] = Bool(e.REPLAY_ENABLED)
          /\ ReplayGiven(e)["maxAttempts"] = Num(e.REPLAY_MAX_ATTEMPTS)
          /\ ReplayGiven(e)["parkingTopicSuffix"] = Str(e.REPLAY_PARKING_TOPIC_SUFFIX)
      BY DEF ReplayGiven
    <2> QED
      BY <1>2, <2>1, <2>5, <2>6, ReplayFields, AutoField DEF ReplayMeaning
  <1> QED
    BY <1>1, <1>2

-----------------------------------------------------------------------------
(* A gateway that runs has the configuration of its environment and of its  *)
(* routes file, and it is a valid one, although it is checked at the start  *)
(* only: what a PUT changes is the routes, and those were checked before.   *)
SettingsTypeOK ==
  /\ IsEnvironment(env)
  /\ gateway \in {"down", "started", "refused"}

ConfigIsBuilt ==
  gateway = "started" => config = BuildConfig(env, onDisk) /\ ConfigIsValid(config)

IInv == SettingsTypeOK /\ ConfigIsBuilt

\* All but the routes is as before when only the routes are replaced.
LEMMA OnlyRoutesChange ==
  ASSUME NEW e, IsEnvironment(e), NEW c, NEW d, NEW k, k # "routes"
  PROVE  Child(BuildConfig([e EXCEPT !.ROUTES_JSON = "put"], d), k) = Child(BuildConfig(e, c), k)
  <1> DEFINE f == [e EXCEPT !.ROUTES_JSON = "put"]
  <1>1. \A v \in Variables \ {"ROUTES_JSON"} : f[v] = e[v]
    BY DEF IsEnvironment
  <1>2. DOMAIN Sections(f) = DOMAIN Sections(e)
    BY DEF Sections
  <1> HIDE DEF f
  <1>3. ReplayBlock(f) = ReplayBlock(e)
    <2>1. ReplayGiven(f) = ReplayGiven(e) /\ AutoGiven(f) = AutoGiven(e)
      BY <1>1 DEF ReplayGiven, AutoGiven, Variables
    <2> QED
      BY <2>1 DEF ReplayBlock
  <1>4. k \in DOMAIN Sections(e) => Sections(f)[k] = Sections(e)[k]
    BY <1>1, <1>3 DEF Sections, Variables
  <1>5. Child(MapEnv(f), k) = Child(MapEnv(e), k)
    BY <1>2, <1>4, ChildOfMapEnv
  <1>6. Child(Overrides(f, d), k) = Child(Overrides(e, c), k)
    BY <1>5, ChildOfOverrides
  <1>7. Told(Child(Overrides(e, c), k)) 
    BY ChildOfOverrides, ChildOfMapEnv, SectionsAreTold, Kinds
  <1>8. Defaults.is = "object"
    BY DEF Defaults, Obj
  <1> QED
    BY <1>6, <1>7, <1>8, ChildOfOverrides, ChildOfMergeDeep DEF BuildConfig, f

\* The routes that were put are valid, so the configuration stays so.
LEMMA ReloadIsValid ==
  ASSUME NEW e, IsEnvironment(e), NEW c, ConfigIsValid(BuildConfig(e, c))
  PROVE  ConfigIsValid(BuildConfig([e EXCEPT !.ROUTES_JSON = "put"], "put"))
  <1> DEFINE old == BuildConfig(e, c)
             f == [e EXCEPT !.ROUTES_JSON = "put"]
             new == BuildConfig(f, "put")
  <1>1. \A k : k # "routes" => Child(new, k) = Child(old, k)
    BY OnlyRoutesChange
  <1>2. Get(new, <<"routes">>) = "put"
    <2>1. f.ROUTES_JSON = "put"
      BY DEF Variables, IsEnvironment
    <2>2. Child(new, "routes") = Leaf("put")
      BY <2>1, ChildOfConfig, Kinds DEF Json, Prefer
    <2> QED
      BY <2>2, AtPath, Kinds DEF Get
  <1> HIDE DEF new, old
  <1>3. ASSUME NEW k, NEW j, k # "routes" PROVE Get(new, <<k, j>>) = Get(old, <<k, j>>)
    <2>1. At(new, <<k, j>>) = At(old, <<k, j>>)
      BY <1>1, <1>3, AtPath
    <2> QED
      BY <2>1 DEF Get
  <1>4. ASSUME NEW k, NEW j, NEW i, k # "routes" PROVE Get(new, <<k, j, i>>) = Get(old, <<k, j, i>>)
    <2>1. At(new, <<k, j, i>>) = At(old, <<k, j, i>>)
      BY <1>1, <1>4, AtPath
    <2> QED
      BY <2>1 DEF Get
  <1>5. FieldsAreValid(new)
    BY <1>2, <1>3, <1>4 DEF ConfigIsValid, FieldsAreValid, Provider, old
  <1>6. /\ Provider(new) = Provider(old) /\ Brokers(new) = Brokers(old)
        /\ ClusterArn(new) = ClusterArn(old)
    BY <1>3, <1>4 DEF Provider, Brokers, ClusterArn
  <1>7. ProviderIsComplete(new)
    BY <1>3, <1>4, <1>6 DEF ConfigIsValid, ProviderIsComplete, old
  <1> QED
    BY <1>3, <1>5, <1>6, <1>7 DEF ConfigIsValid, old, new, f

LEMMA IInvAlways == SettingsSpec => []IInv
  <1>1. SettingsInit => IInv
    BY SettingsAssumption DEF SettingsInit, IInv, SettingsTypeOK, ConfigIsBuilt
  <1>2. IInv /\ [SettingsNext]_settingsVars => IInv'
    <2> SUFFICES ASSUME IInv, [SettingsNext]_settingsVars PROVE IInv'
      OBVIOUS
    <2> USE DEF IInv, SettingsTypeOK, ConfigIsBuilt
    <2>1. CASE StartGateway
      BY <2>1 DEF StartGateway, Builds
    <2>2. CASE PutRoutes
      <3>1. /\ gateway = "started" /\ gateway' = gateway
            /\ env' = [env EXCEPT !.ROUTES_JSON = "put"] /\ onDisk' = "put"
            /\ config' = BuildConfig(env', onDisk')
        BY <2>2 DEF PutRoutes
      <3>2. IsEnvironment(env')
        BY <3>1 DEF IsEnvironment
      <3> QED
        BY <3>1, <3>2, ReloadIsValid
    <2>3. CASE UNCHANGED settingsVars
      BY <2>3 DEF settingsVars
    <2> QED
      BY <2>1, <2>2, <2>3 DEF SettingsNext
  <1> QED
    BY <1>1, <1>2, PTL DEF SettingsSpec

(* One setting does not disturb another, for any environment: each variable  *)
(* of the model that is read as a value takes effect, the replay block's     *)
(* among them, and the others leave the defaults (envMapping.ts,             *)
(* loader.ts:16-35).                                                         *)
THEOREM SettingsStandHolds == SettingsSpec => []SettingsStand
  <1>1. IInv => SettingsStand
    <2> SUFFICES ASSUME IInv, gateway = "started" PROVE
             /\ \A m \in Meaning(env) : Stands(m, Defaults)
             /\ \A m \in ReplayMeaning(env) : Stands(m, ReplayBase(env))
             /\ RoutesStand
      BY DEF SettingsStand
    <2>1. config = BuildConfig(env, onDisk)
      BY DEF IInv, ConfigIsBuilt
    <2>2. ASSUME NEW m, NEW defaults, IsSetting(m[3]), m[2] = Unset => m[3] = Undefined,
                 At(config, m[1]) = Prefer(At(defaults, m[1]), m[3])
          PROVE  Stands(m, defaults)
      BY <2>2, Kinds DEF Stands, Prefer, IsSetting
    <2>3. ASSUME NEW m \in Meaning(env) PROVE Stands(m, Defaults)
      BY <2>1, <2>2, UnsetIsSilent, MeaningTakesEffect DEF Preferred
    <2>4. ASSUME NEW m \in ReplayMeaning(env) PROVE Stands(m, ReplayBase(env))
      BY <2>1, <2>2, UnsetIsSilent, ReplayTakesEffect
    <2>5. RoutesStand
      <3>1. Child(config, "routes") = IF Str(env.ROUTES_FILE).is = "value" THEN Leaf(onDisk)
                                      ELSE Prefer(Leaf("seed"), Json(env.ROUTES_JSON))
        BY <2>1, ChildOfConfig, ParsersAreTold DEF IsSetting
      <3>2. Get(config, <<"routes">>) = IF Child(config, "routes").is = "value"
                                        THEN Child(config, "routes").value ELSE ""
        BY AtPath DEF Get
      <3>3. Str(Unset) = Undefined /\ Json(Unset) = Undefined
        BY DEF Str, Json, Unset
      <3>4. Json(env.ROUTES_JSON).is = "value" => Json(env.ROUTES_JSON).value = env.ROUTES_JSON
        BY Kinds DEF Json
      <3> QED
        BY <3>1, <3>2, <3>3, <3>4, Kinds DEF RoutesStand, Prefer
    <2> QED
      BY <2>3, <2>4, <2>5
  <1> QED
    BY <1>1, IInvAlways, PTL

(* Replacing the routes never leaves the gateway with a configuration that   *)
(* its own schema refuses (index.ts:183-197, schemas.ts:244-382).            *)
THEOREM ConfigStaysValid == SettingsSpec => [](gateway = "started" => ConfigIsValid(config))
  <1>1. IInv => (gateway = "started" => ConfigIsValid(config))
    BY DEF IInv, ConfigIsBuilt
  <1> QED
    BY <1>1, IInvAlways, PTL

(* The default for the brokers shows through whenever none are given, so     *)
(* what is connected to is never empty: no cluster is ever asked for its     *)
(* brokers, and that brokers are required is never refused                   *)
(* (defaults.ts:16, loader.ts:30, msk.ts:114, schemas.ts:333-361).           *)
THEOREM BrokersAreNeverEmpty == SettingsSpec => [](gateway = "started" => Brokers(config) # "")
  <1>1. IInv => (gateway = "started" => Brokers(config) # "")
    <2> SUFFICES ASSUME IInv, gateway = "started" PROVE Brokers(config) # ""
      OBVIOUS
    <2>1. At(config, <<"kafka", "brokers">>)
            = Prefer(At(Defaults, <<"kafka", "brokers">>), Csv(env.KAFKA_BROKERS))
      BY VariablesTakeEffect DEF IInv, ConfigIsBuilt, Preferred
    <2>2. At(Defaults, <<"kafka", "brokers">>) = Leaf("localhost:9092")
      <3>1. Child(Child(Defaults, "kafka"), "brokers") = Leaf("localhost:9092")
        BY DEF Defaults, Child, Obj
      <3> QED
        BY <3>1, AtPath
    <2>3. Csv(env.KAFKA_BROKERS).is = "value" => Csv(env.KAFKA_BROKERS).value # ""
      BY Kinds DEF Csv, Str
    <2>4. CASE Csv(env.KAFKA_BROKERS).is = "undefined"
      <3>1. At(config, <<"kafka", "brokers">>) = Leaf("localhost:9092")
        BY <2>1, <2>2, <2>4 DEF Prefer
      <3>2. Get(config, <<"kafka", "brokers">>) = "localhost:9092"
        BY <3>1, Kinds DEF Get
      <3> QED
        BY <3>2 DEF Brokers
    <2>5. CASE Csv(env.KAFKA_BROKERS).is = "value"
      BY <2>1, <2>3, <2>5 DEF Brokers, Get, Prefer
    <2> QED
      BY <2>4, <2>5, ParsersAreTold DEF IsSetting
  <1> QED
    BY <1>1, IInvAlways, PTL

(* No environment takes the suffix of the parking topics away, although the  *)
(* schema knows an empty one to disable them: an empty variable is read as   *)
(* one that is not set (envMapping.ts:76-80, schemas.ts:83).                 *)
THEOREM ParkingIsNeverDisabled ==
  SettingsSpec =>
    [](gateway = "started" => At(config, <<"replay", "parkingTopicSuffix">>) # Leaf(""))
  <1>1. IInv => (gateway = "started" => At(config, <<"replay", "parkingTopicSuffix">>) # Leaf(""))
    <2> SUFFICES ASSUME IInv, gateway = "started"
                 PROVE  At(config, <<"replay", "parkingTopicSuffix">>) # Leaf("")
      OBVIOUS
    <2>1. /\ ReplayGiven(env)["parkingTopicSuffix"] = Str(env.REPLAY_PARKING_TOPIC_SUFFIX)
          /\ ReplayDefaults["parkingTopicSuffix"] = Leaf(".parked")
      BY DEF ReplayGiven, ReplayDefaults
    <2>2. At(config, <<"replay", "parkingTopicSuffix">>)
            \in {Undefined, Leaf(".parked"), Str(env.REPLAY_PARKING_TOPIC_SUFFIX)}
      BY <2>1, ReplayFields DEF IInv, ConfigIsBuilt, Prefer
    <2>3. Str(env.REPLAY_PARKING_TOPIC_SUFFIX) # Leaf("")
      BY Kinds DEF Str
    <2>4. Undefined.is # Leaf("").is /\ Leaf(".parked").value # Leaf("").value
      BY Kinds
    <2> QED
      BY <2>2, <2>3, <2>4
  <1> QED
    BY <1>1, IInvAlways, PTL

=============================================================================
