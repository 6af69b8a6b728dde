----------------------------- MODULE DlqInspector -----------------------------
(***************************************************************************)
(* The cache of dead-letter depths (replay/dlqInspector.ts), for one       *)
(* partition of one route.  A probe notes the time, asks for the metadata  *)
(* of the topic, then for its latest and earliest offset at once, and puts *)
(* the difference into the cache.  An interval starts probes whether or    *)
(* not earlier ones have answered, and nothing orders their answers.       *)
(*                                                                         *)
(* A time of observation is represented by what the offsets were then: two *)
(* times between which no offset moved are the same for every property.    *)
(***************************************************************************)
EXTENDS Integers

CONSTANTS
  Probes,    \* probes that may be in flight at one time
  MaxOffset  \* bound on the offsets

Unknown == -1  \* not answered yet
Missing == -2  \* the answer does not mention the partition
NoDepth == -1  \* depth null

ASSUME InspectorAssumption == MaxOffset \in Nat

VARIABLES
  exists,    \* whether the dead-letter topic exists
  latest, earliest,  \* its offsets
  adminUp,   \* whether the broker answers the admin client well
  probe,     \* per probe: where it is, when it began, and its two answers
  cache,     \* the cached list: empty, or the entry of the partition
  inspectorStopped

inspectorVars == <<exists, latest, earliest, adminUp, probe, cache, inspectorStopped>>

Offset == 0..MaxOffset
Now == [latest |-> latest, earliest |-> earliest]
Moments == [latest : Offset, earliest : Offset]

Entry(depth, error, at) == [depth |-> depth, error |-> error, observedAt |-> at]
Entries == [depth : Offset \cup {NoDepth}, error : BOOLEAN, observedAt : Moments]

ProbeStates ==
  [at : {"idle", "metadata", "offsets"}, observedAt : Moments,
   hi : Offset \cup {Unknown, Missing}, lo : Offset \cup {Unknown, Missing}]

Idle == [at |-> "idle", observedAt |-> [latest |-> 0, earliest |-> 0],
         hi |-> Unknown, lo |-> Unknown]

InspectorInit ==
  /\ exists \in BOOLEAN
  /\ latest = 0 /\ earliest = 0
  /\ adminUp = TRUE
  /\ probe = [p \in Probes |-> Idle]
  /\ cache = {}
  /\ inspectorStopped = FALSE

broker == <<exists, latest, earliest, adminUp>>

-----------------------------------------------------------------------------
\* Mutated form: probing is given up at the first error.
StartProbeUntilError(p) ==
  /\ ~ inspectorStopped
  /\ probe[p].at = "idle"
  /\ \A e \in cache : ~ e.error
  /\ probe' = [probe EXCEPT ![p] = [Idle EXCEPT !.at = "metadata", !.observedAt = Now]]
  /\ UNCHANGED <<broker, cache, inspectorStopped>>

\* The interval starts a probe, and so does the start of the inspector.
StartProbe(p) ==
  /\ ~ inspectorStopped
  /\ probe[p].at = "idle"
  /\ probe' = [probe EXCEPT ![p] = [Idle EXCEPT !.at = "metadata", !.observedAt = Now]]
  /\ UNCHANGED <<broker, cache, inspectorStopped>>

\* A topic that does not exist has no partitions: the list becomes empty.
MetadataArrives(p) ==
  /\ probe[p].at = "metadata"
  /\ \/ /\ exists
        /\ probe' = [probe EXCEPT ![p].at = "offsets"]
        /\ UNCHANGED cache
     \/ /\ ~ exists
        /\ probe' = [probe EXCEPT ![p] = Idle]
        /\ cache' = {}
  /\ UNCHANGED <<broker, inspectorStopped>>

Difference(hi, lo) == IF hi > lo THEN hi - lo ELSE 0

\* Mutated form: the observation is dated when its answers are in.
MeasuredLate(at, hi, lo) ==
  IF Missing \in {hi, lo} THEN Entry(NoDepth, TRUE, Now)
  ELSE Entry(Difference(hi, lo), FALSE, Now)

Measured(at, hi, lo) ==
  IF Missing \in {hi, lo} THEN Entry(NoDepth, TRUE, at)
  ELSE Entry(Difference(hi, lo), FALSE, at)

\* Both requests were sent together; the second answer completes the probe.
Answers(p, hi, lo) ==
  IF Unknown \in {hi, lo}
  THEN /\ probe' = [probe EXCEPT ![p].hi = hi, ![p].lo = lo]
       /\ UNCHANGED cache
  ELSE /\ probe' = [probe EXCEPT ![p] = Idle]
       /\ cache' = {Measured(probe[p].observedAt, hi, lo)}

\* A broker that is not well may leave the partition out of its answer.
Reported(offset) == {offset} \cup (IF adminUp THEN {} ELSE {Missing})

LatestArrives(p) ==
  /\ probe[p].at = "offsets" /\ probe[p].hi = Unknown
  /\ \E hi \in Reported(latest) : Answers(p, hi, probe[p].lo)
  /\ UNCHANGED <<broker, inspectorStopped>>

EarliestArrives(p) ==
  /\ probe[p].at = "offsets" /\ probe[p].lo = Unknown
  /\ \E lo \in Reported(earliest) : Answers(p, probe[p].hi, lo)
  /\ UNCHANGED <<broker, inspectorStopped>>

\* An old depth is kept with the error; without one a sentinel shows it.
AfterFailure(at) ==
  IF cache = {} THEN {Entry(NoDepth, TRUE, at)} ELSE {[e EXCEPT !.error = TRUE] : e \in cache}

\* Any of the requests fails; what the other one answers is ignored.
ProbeFails(p) ==
  /\ ~ adminUp
  /\ probe[p].at \in {"metadata", "offsets"}
  /\ cache' = AfterFailure(probe[p].observedAt)
  /\ probe' = [probe EXCEPT ![p] = Idle]
  /\ UNCHANGED <<broker, inspectorStopped>>

\* Probes in flight are not waited for.
StopInspector ==
  /\ ~ inspectorStopped
  /\ inspectorStopped' = TRUE
  /\ UNCHANGED <<broker, probe, cache>>

\* Kafka Connect writes a dead letter, creating the topic if need be.
TopicGrows ==
  /\ latest < MaxOffset
  /\ exists' = TRUE /\ latest' = latest + 1
  /\ UNCHANGED <<earliest, adminUp, probe, cache, inspectorStopped>>

\* Retention removes the oldest record.
TopicShrinks ==
  /\ earliest < latest
  /\ earliest' = earliest + 1
  /\ UNCHANGED <<exists, latest, adminUp, probe, cache, inspectorStopped>>

BrokerTurns ==
  /\ adminUp' = ~ adminUp
  /\ UNCHANGED <<exists, latest, earliest, probe, cache, inspectorStopped>>

ProbeGoesOn(p) ==
  MetadataArrives(p) \/ LatestArrives(p) \/ EarliestArrives(p) \/ ProbeFails(p)

InspectorNext ==
  \/ \E p \in Probes : StartProbe(p) \/ ProbeGoesOn(p)
  \/ StopInspector \/ TopicGrows \/ TopicShrinks \/ BrokerTurns

InspectorSpec == InspectorInit /\ [][InspectorNext]_inspectorVars

\* The interval goes on, and a probe is answered or fails.
InspectorFairness ==
  \A p \in Probes : WF_inspectorVars(StartProbe(p)) /\ WF_inspectorVars(ProbeGoesOn(p))

-----------------------------------------------------------------------------
InspectorTypeOK ==
  /\ exists \in BOOLEAN /\ adminUp \in BOOLEAN /\ inspectorStopped \in BOOLEAN
  /\ latest \in Offset /\ earliest \in Offset
  /\ probe \in [Probes -> ProbeStates]
  /\ cache \subseteq Entries

(* The age of a depth is never understated: whatever is shown with a time   *)
(* of observation lies between the least and the greatest the topic can     *)
(* have had since then, however probes overlapped, were overtaken by later  *)
(* ones, or failed.                                                         *)
DepthIsHonest ==
  \A e \in cache : e.depth # NoDepth =>
    /\ e.depth >= e.observedAt.latest - earliest
    /\ e.depth <= latest - e.observedAt.earliest

(* An error does not stick: it is replaced once the broker answers again,  *)
(* although answers of older probes may still come in and fail.            *)
CacheRecovers ==
  (\E e \in cache : e.error) ~>
    ((\A e \in cache : ~ e.error) \/ ~ adminUp \/ inspectorStopped)

=============================================================================
