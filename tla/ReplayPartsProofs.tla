--------------------------- MODULE ReplayPartsProofs ---------------------------
(***************************************************************************)
(* Theorems about the parts of the replay that Replay abstracts from: the  *)
(* token bucket, the loop of one record and the cache of depths.  They     *)
(* share no variable, and each is proved on its own: the bucket for every  *)
(* rate, the loop for any lists of errors and any number of replays, the   *)
(* cache for any number of probes.                                         *)
(***************************************************************************)
EXTENDS RateLimit, ReplayLoop, DlqInspector, TLAPS

-----------------------------------------------------------------------------
(* What is in the bucket has not been sent: the sends ahead of the rate     *)
(* that the rounding lets through and the tokens left make one bucket.      *)
Budget == ahead + 10 * tokens <= 10 * Capacity

BucketIInv == BucketTypeOK /\ Budget

(* A tick puts back a whole, positive number of tokens, and no more than a  *)
(* tenth of the rate let through: the one fact about the rounding.          *)
LEMMA RefillFacts ==
  ASSUME perSec \in Nat \ {0}
  PROVE  /\ RefillPerTick \in Nat \ {0}
         /\ 10 * RefillPerTick <= RateLetThrough
         /\ RateLetThrough \in Nat
  <1>1. CASE perSec < 10
    BY <1>1 DEF RefillPerTick, RateLetThrough
  <1>2. CASE perSec >= 10
    <2>1. /\ (perSec + 5) \div 10 \in Nat \ {0}
          /\ 10 * ((perSec + 5) \div 10) <= perSec + 5
      BY <1>2
    <2> QED
      BY <1>2, <2>1 DEF RefillPerTick, RateLetThrough
  <1> QED
    BY <1>1, <1>2

(* Both histories keep their range: a send adds at most ten, a tick takes   *)
(* away.                                                                    *)
LEMMA HistoryFacts ==
  ASSUME perSec \in Nat \ {0}, NEW n \in 0..Limit, NEW rate \in Nat
  PROVE  /\ OneMoreSend(n) \in 0..Limit /\ OneMoreSend(n) <= n + 10
         /\ Caught(n, rate) \in 0..n
         /\ Caught(n, rate) # 0 => Caught(n, rate) = n - rate
         /\ OneMoreSend(Caught(n, rate)) \in 0..Limit
         /\ OneMoreSend(Caught(n, rate)) <= Caught(n, rate) + 10
  BY DEF OneMoreSend, Caught, Limit

(* Types and the budget are inductive, at every rate.                       *)
LEMMA BucketIInvAlways == BucketSpec => []BucketIInv
  <1>1. BucketInit => BucketIInv
    <2> SUFFICES ASSUME BucketInit PROVE BucketIInv
      OBVIOUS
    <2>1. perSec \in Nat \ {0} /\ perSec \in Rates
      BY RateAssumption DEF BucketInit
    <2>2. tokens \in 0..Capacity /\ ahead \in 0..Limit /\ excess \in 0..Limit /\ Budget
      BY <2>1 DEF BucketInit, Budget, Capacity, Limit
    <2>3. waiting \in BOOLEAN /\ running \in BOOLEAN
      BY DEF BucketInit
    <2> QED
      BY <2>1, <2>2, <2>3 DEF BucketIInv, BucketTypeOK
  <1>2. BucketIInv /\ [BucketNext]_bucketVars => BucketIInv'
    <2> SUFFICES ASSUME BucketIInv, [BucketNext]_bucketVars PROVE BucketIInv'
      OBVIOUS
    <2>0. perSec \in Nat \ {0}
      BY RateAssumption DEF BucketIInv, BucketTypeOK
    <2> USE DEF BucketIInv, BucketTypeOK, Budget, Capacity
    <2>1. CASE Acquire
      <3>1. perSec' = perSec /\ Limit' = Limit /\ tokens' = tokens - 1
            /\ UNCHANGED <<waiting, running>>
        BY <2>1 DEF Acquire, Limit
      <3>2. ahead' = OneMoreSend(ahead) /\ excess' = OneMoreSend(excess) /\ tokens > 0
        BY <2>1 DEF Acquire
      <3>3. ahead' \in 0..Limit /\ excess' \in 0..Limit /\ ahead' <= ahead + 10
        BY <2>0, <3>2, HistoryFacts
      <3> QED
        BY <2>0, <3>1, <3>2, <3>3 DEF Limit
    <2>2. CASE WaitForToken
      BY <2>2 DEF WaitForToken, Limit
    <2>3. CASE Refill
      <3> DEFINE ahead0 == Caught(ahead, RateLetThrough)
                 excess0 == Caught(excess, perSec)
      <3>1. perSec' = perSec /\ Limit' = Limit /\ waiting' \in BOOLEAN /\ running' \in BOOLEAN
        BY <2>3 DEF Refill, Limit
      <3>2. Refilled \in 1..perSec /\ Refilled <= tokens + RefillPerTick
        BY <2>0, RefillFacts DEF Refilled
      <3>3. /\ ahead0 \in 0..Limit /\ ahead0 + 10 * Refilled <= 10 * perSec
            /\ excess0 \in 0..Limit
        <4>1. ahead0 \in 0..ahead /\ (ahead0 # 0 => ahead0 = ahead - RateLetThrough)
          BY <2>0, HistoryFacts, RefillFacts
        <4>2. excess0 \in 0..excess
          BY <2>0, HistoryFacts
        <4>3. /\ ahead \in Nat /\ ahead <= Limit /\ excess <= Limit /\ Limit \in Nat
              /\ ahead + 10 * tokens <= 10 * perSec /\ tokens \in Nat /\ excess \in Nat
          BY <2>0 DEF Limit
        <4>4. RefillPerTick \in Nat /\ RateLetThrough \in Nat /\ 10 * RefillPerTick <= RateLetThrough
          BY <2>0, RefillFacts
        <4> HIDE DEF ahead0, excess0
        <4> QED
          BY <2>0, <3>2, <4>1, <4>2, <4>3, <4>4
      <3>4. CASE waiting
        <4>1. /\ tokens' = Refilled - 1
              /\ ahead' = OneMoreSend(ahead0) /\ excess' = OneMoreSend(excess0)
          BY <2>3, <3>4 DEF Refill
        <4>2. ahead' \in 0..Limit /\ excess' \in 0..Limit /\ ahead' <= ahead0 + 10
          BY <2>0, <3>3, <4>1, HistoryFacts
        <4> HIDE DEF ahead0, excess0
        <4> QED
          BY <2>0, <3>1, <3>2, <3>3, <4>1, <4>2 DEF Limit
      <3>5. CASE ~ waiting
        <4>1. tokens' = Refilled /\ ahead' = ahead0 /\ excess' = excess0
          BY <2>3, <3>5 DEF Refill
        <4> HIDE DEF ahead0, excess0
        <4> QED
          BY <2>0, <3>1, <3>2, <3>3, <4>1
      <3> QED
        BY <3>4, <3>5
    <2>4. CASE StopRun
      BY <2>4 DEF StopRun, Limit
    <2>5. CASE UNCHANGED bucketVars
      BY <2>5 DEF bucketVars, Limit
    <2> QED
      BY <2>1, <2>2, <2>3, <2>4, <2>5 DEF BucketNext
  <1> QED
    BY <1>1, <1>2, PTL DEF BucketSpec

(* The throttle at every configured rate: whatever the interval, a run      *)
(* sends at most one bucket more than the rate the rounding of runner.ts:81 *)
(* lets through.                                                            *)
THEOREM ThrottledHolds == BucketSpec => []Throttled
  <1>1. BucketIInv => Throttled
    <2> SUFFICES ASSUME BucketIInv PROVE Throttled
      OBVIOUS
    <2>1. perSec \in Nat /\ tokens \in Nat /\ ahead \in Nat
      BY RateAssumption DEF BucketIInv, BucketTypeOK, Capacity, Limit
    <2> QED
      BY <2>1 DEF BucketIInv, Budget, Throttled, Capacity
  <1> QED
    BY <1>1, BucketIInvAlways, PTL

-----------------------------------------------------------------------------
HeaderValues == [attempt : Seq(Int), class : Seq(Classes)]

LoopTypeOK ==
  /\ place \in {"topic", "dlq", "parked", "consumed"}
  /\ headers \in HeaderValues
  /\ first \in Nat
  /\ replays \in 0..MaxReplays

(* A record back in its topic carries no class, and a dead letter that of   *)
(* its last failure alone: the classes are stripped at every replay.        *)
OneClass ==
  /\ place = "topic" => headers.class = << >>
  /\ place = "dlq" => headers.class = <<failure>> /\ replays < MaxReplays

LoopIInv == LoopTypeOK /\ OneClass

(* The first attempt header, which is the one that is read, stays below the *)
(* cap.                                                                     *)
Stuck == Attempt(headers) < MaxAttempts

USE DEF HeaderValues

\* An attempt is a number, whatever the headers say.
LEMMA AttemptIsNatural ==
  ASSUME NEW hs \in HeaderValues
  PROVE  Attempt(hs) \in Nat
  <1>1. ReadHeader(hs.attempt, NoCount) \in Int
    BY DEF ReadHeader, NoCount
  <1> QED
    BY <1>1 DEF Attempt, ParseAttempt

\* What is sent back or parked: the classes stripped, the attempt stamped.
LEMMA StampFacts ==
  ASSUME NEW hs \in HeaderValues, NEW n \in Nat, NEW out,
         out = StampAuditHeaders(StripConnectHeaders(hs), n)
  PROVE  /\ out \in HeaderValues
         /\ out.class = << >>
         /\ out.attempt = Append(hs.attempt, n)
  <1>1. << >> \in Seq(Classes) /\ n \in Int /\ Append(hs.attempt, n) \in Seq(Int)
    OBVIOUS
  <1>2. out = Headers(Append(hs.attempt, n), << >>)
    BY DEF StampAuditHeaders, StripConnectHeaders, Headers
  <1> QED
    BY <1>1, <1>2 DEF Headers

\* The class that triage sees is that of the last failure.
LEMMA ClassIsOfLastFailure ==
  ASSUME LoopIInv, place = "dlq"
  PROVE  Class(headers) = failure
  BY DEF LoopIInv, OneClass, Class, ReadHeader

\* One step of triage, as what it does to the record.
LEMMA ReplayRecordFacts ==
  ASSUME LoopIInv, ReplayRecord
  PROVE  /\ place = "dlq" /\ UNCHANGED <<first, failure>>
         /\ headers' \in HeaderValues /\ headers'.class = << >>
         /\ \/ /\ place' = "topic" /\ Triage(headers) = "replay" /\ replays' = replays + 1
               /\ headers'.attempt = Append(headers.attempt, Attempt(headers) + 1)
            \/ /\ place' = "parked" /\ replays' = replays
               /\ headers'.attempt = Append(headers.attempt, Attempt(headers))
  <1>1. headers \in HeaderValues
    BY DEF LoopIInv, LoopTypeOK
  <1>2. Attempt(headers) \in Nat /\ Attempt(headers) + 1 \in Nat
    BY <1>1, AttemptIsNatural
  <1>3. /\ place = "dlq" /\ UNCHANGED <<first, failure>>
        /\ IF Triage(headers) = "replay" THEN SendBack(headers) ELSE Park(headers)
    BY DEF ReplayRecord
  <1>4. CASE Triage(headers) = "replay"
    BY <1>1, <1>2, <1>3, <1>4, StampFacts DEF SendBack
  <1>5. CASE Triage(headers) # "replay"
    BY <1>1, <1>2, <1>3, <1>5, StampFacts DEF Park
  <1> QED
    BY <1>4, <1>5

\* Types and the class are inductive.
LEMMA InitLoopIInv == LoopInit => LoopIInv
  <1> SUFFICES ASSUME LoopInit PROVE LoopIInv
    OBVIOUS
  <1>1. headers \in HeaderValues /\ headers.class = << >> /\ first \in Nat
    <2>1. CASE headers = Headers(<< >>, << >>) /\ first = 0
      BY <2>1 DEF Headers
    <2>2. CASE \E v \in FirstAttempts : headers = Headers(<<v>>, << >>) /\ first = ParseAttempt(v)
      BY <2>2, ReplayLoopAssumption DEF Headers, ParseAttempt
    <2> QED
      BY <2>1, <2>2 DEF LoopInit
  <1> QED
    BY <1>1, ReplayLoopAssumption DEF LoopInit, LoopIInv, LoopTypeOK, OneClass

LEMMA NextLoopIInv == LoopIInv /\ [LoopNext]_loopVars => LoopIInv'
  <1> SUFFICES ASSUME LoopIInv, [LoopNext]_loopVars PROVE LoopIInv'
    OBVIOUS
  <1> USE DEF LoopIInv, LoopTypeOK, OneClass
  <1>1. CASE \E c \in Classes : DeadLetter(c)
    <2>1. PICK c \in Classes : DeadLetter(c)
      BY <1>1
    <2>2. headers.class = << >> /\ place' = "dlq" /\ failure' = c /\ UNCHANGED <<first, replays>>
          /\ replays < MaxReplays
          /\ headers' = [headers EXCEPT !.class = Append(headers.class, c)]
      BY <2>1 DEF DeadLetter
    <2>3. Append(headers.class, c) = <<c>> /\ <<c>> \in Seq(Classes)
      BY <2>2
    <2>4. headers' \in HeaderValues /\ headers'.class = <<c>>
      BY <2>2, <2>3
    <2> QED
      BY <2>2, <2>4
  <1>2. CASE Consume
    BY <1>2 DEF Consume
  <1>3. CASE ReplayRecord
    <2>1. replays' \in 0..MaxReplays
      BY <1>3, ReplayRecordFacts, ReplayLoopAssumption
    <2> QED
      BY <1>3, <2>1, ReplayRecordFacts
  <1>4. CASE UNCHANGED loopVars
    BY <1>4 DEF loopVars
  <1> QED
    BY <1>1, <1>2, <1>3, <1>4 DEF LoopNext, Stay

(* The variables stay in their types, the count of the replays too.         *)
THEOREM LoopTypeCorrect == LoopSpec => []LoopTypeOK
  <1>1. LoopIInv => LoopTypeOK
    BY DEF LoopIInv
  <1> QED
    BY <1>1, InitLoopIInv, NextLoopIInv, PTL DEF LoopSpec

(* Poison is never sent back to its topic, whatever the record failed with  *)
(* before and whatever headers it came with (runner.ts:155-197,             *)
(* triage.ts:29-31).                                                        *)
THEOREM PoisonStaysOutHolds == LoopSpec => PoisonStaysOut
  <1>1. LoopIInv /\ [LoopNext]_loopVars
          => [place = "dlq" /\ place' = "topic" => failure \notin PoisonErrors]_loopVars
    <2> SUFFICES ASSUME LoopIInv, LoopNext, place = "dlq", place' = "topic"
                 PROVE  failure \notin PoisonErrors
      BY DEF loopVars
    <2>1. ReplayRecord
      BY DEF LoopNext, DeadLetter, Consume, Stay
    <2>2. Triage(headers) = "replay"
      BY <2>1, ReplayRecordFacts
    <2>3. Class(headers) \notin PoisonErrors
      BY <2>2 DEF Triage
    <2> QED
      BY <2>3, ClassIsOfLastFailure
  <1> QED
    BY <1>1, InitLoopIInv, NextLoopIInv, PTL DEF LoopSpec, PoisonStaysOut

(* The cap is never reached: of the attempt headers, which pile up, the     *)
(* first is the one that is read, and it stays below any cap over one, so   *)
(* that no record is ever parked for its attempts, however often it is sent *)
(* back (headers.ts:10-21 and 54).                                          *)
THEOREM CapIsNeverReached ==
  ASSUME MaxAttempts > 1, \A v \in FirstAttempts : v < MaxAttempts
  PROVE  LoopSpec => [](Attempt(headers) < MaxAttempts)
  <1>1. LoopInit => Stuck
    <2> SUFFICES ASSUME LoopInit PROVE Stuck
      OBVIOUS
    <2>1. CASE headers = Headers(<< >>, << >>)
      BY <2>1, ReplayLoopAssumption DEF Headers, Stuck, Attempt, ReadHeader, NoCount, ParseAttempt
    <2>2. CASE \E v \in FirstAttempts : headers = Headers(<<v>>, << >>)
      <3>1. PICK v \in FirstAttempts : headers = Headers(<<v>>, << >>)
        BY <2>2
      <3>2. Attempt(headers) = ParseAttempt(v) /\ v \in Int /\ v < MaxAttempts
        BY <3>1, ReplayLoopAssumption DEF Headers, Attempt, ReadHeader
      <3> QED
        BY <3>2, ReplayLoopAssumption DEF Stuck, ParseAttempt
    <2> QED
      BY <2>1, <2>2 DEF LoopInit
  <1>2. LoopIInv /\ Stuck /\ [LoopNext]_loopVars => Stuck'
    <2> SUFFICES ASSUME LoopIInv, Stuck, [LoopNext]_loopVars PROVE Stuck'
      OBVIOUS
    <2>0. headers.attempt \in Seq(Int) /\ Attempt(headers) \in Nat
      BY AttemptIsNatural DEF LoopIInv, LoopTypeOK
    <2>1. CASE ReplayRecord
      <3>1. PICK n \in {Attempt(headers), Attempt(headers) + 1} :
                   headers'.attempt = Append(headers.attempt, n)
        BY <2>0, <2>1, ReplayRecordFacts
      <3>2. CASE headers.attempt = << >>
        <4>1. Attempt(headers) = 0
          BY <3>2 DEF Attempt, ReadHeader, NoCount, ParseAttempt
        <4>2. n \in 0..1 /\ headers'.attempt = <<n>>
          BY <3>1, <3>2, <4>1
        <4>3. Attempt(headers)' = ParseAttempt(n)
          BY <4>2 DEF Attempt, ReadHeader
        <4> QED
          BY <4>2, <4>3, ReplayLoopAssumption DEF Stuck, ParseAttempt
      <3>3. CASE headers.attempt # << >>
        <4>1. headers'.attempt # << >> /\ Head(headers'.attempt) = Head(headers.attempt)
          BY <2>0, <3>1, <3>3
        <4> QED
          BY <4>1, <3>3 DEF Stuck, Attempt, ReadHeader
      <3> QED
        BY <3>2, <3>3
    <2>2. CASE ~ ReplayRecord
      <3>1. headers'.attempt = headers.attempt
        BY <2>2 DEF LoopNext, DeadLetter, Consume, Stay, loopVars, LoopIInv, LoopTypeOK
      <3> QED
        BY <3>1 DEF Stuck, Attempt
    <2> QED
      BY <2>1, <2>2
  <1> QED
    BY <1>1, <1>2, InitLoopIInv, NextLoopIInv, PTL DEF LoopSpec, Stuck

-----------------------------------------------------------------------------
HIDE DEF HeaderValues

(* Offsets only grow: what a probe has been told lies between what was so  *)
(* when it began and what is so now, and so does what the cache shows.     *)
InOrder == earliest <= latest

Since(at) == at.latest <= latest /\ at.earliest <= earliest

ProbeInv ==
  \A p \in Probes :
    /\ Since(probe[p].observedAt)
    /\ probe[p].hi \in Offset => probe[p].observedAt.latest <= probe[p].hi /\ probe[p].hi <= latest
    /\ probe[p].lo \in Offset =>
         probe[p].observedAt.earliest <= probe[p].lo /\ probe[p].lo <= earliest

InspectorIInv == InspectorTypeOK /\ InOrder /\ ProbeInv /\ DepthIsHonest

USE InspectorAssumption

\* What a probe is, taken apart.
LEMMA ProbeFacts ==
  ASSUME InspectorIInv, NEW p \in Probes
  PROVE  /\ probe[p] \in ProbeStates
         /\ probe[p].observedAt \in Moments
         /\ probe[p].hi \in Offset \cup {Unknown, Missing}
         /\ probe[p].lo \in Offset \cup {Unknown, Missing}
  BY DEF InspectorIInv, InspectorTypeOK, ProbeStates

\* It holds at the start.
LEMMA InitInspectorIInv == InspectorInit => InspectorIInv
  <1> SUFFICES ASSUME InspectorInit PROVE InspectorIInv
    OBVIOUS
  <1>1. Idle \in ProbeStates
    BY DEF Idle, ProbeStates, Moments, Offset
  <1>2. InspectorTypeOK
    <2>1. probe \in [Probes -> ProbeStates] /\ cache \subseteq Entries
      BY <1>1 DEF InspectorInit
    <2>2. latest \in Offset /\ earliest \in Offset
      BY DEF InspectorInit, Offset
    <2> QED
      BY <2>1, <2>2 DEF InspectorInit, InspectorTypeOK
  <1>3. InOrder /\ DepthIsHonest
    BY DEF InspectorInit, InOrder, DepthIsHonest
  <1>4. ProbeInv
    <2>1. /\ Idle.observedAt.latest = 0 /\ Idle.observedAt.earliest = 0
          /\ Idle.hi \notin Offset /\ Idle.lo \notin Offset
      BY DEF Idle, Offset, Unknown
    <2>2. ASSUME NEW p \in Probes PROVE probe[p] = Idle
      BY DEF InspectorInit
    <2>3. Since(Idle.observedAt)
      BY <2>1 DEF InspectorInit, Since
    <2> QED
      BY <2>1, <2>2, <2>3 DEF ProbeInv
  <1> QED
    BY <1>2, <1>3, <1>4 DEF InspectorIInv

\* A probe begins, now.
LEMMA StartInspectorIInv ==
  ASSUME InspectorIInv, NEW p \in Probes, StartProbe(p)
  PROVE  InspectorIInv'
  <1> USE DEF InspectorIInv
  <1> DEFINE new == [Idle EXCEPT !.at = "metadata", !.observedAt = Now]
  <1>1. new \in ProbeStates /\ new.observedAt = Now /\ new.hi = Unknown /\ new.lo = Unknown
    BY DEF Idle, Now, ProbeStates, Moments, InspectorTypeOK
  <1>2. probe' = [probe EXCEPT ![p] = new] /\ UNCHANGED <<broker, cache, inspectorStopped>>
    BY DEF StartProbe
  <1> HIDE DEF new
  <1>3. InspectorTypeOK'
    BY <1>1, <1>2 DEF InspectorTypeOK, broker
  <1>4. Since(Now)
    BY DEF Since, Now, InspectorTypeOK, Offset
  <1>5. ProbeInv'
    <2>1. new.hi \notin Offset /\ new.lo \notin Offset
      BY <1>1 DEF Offset, Unknown
    <2>2. probe'[p] = new /\ \A q \in Probes \ {p} : probe'[q] = probe[q]
      BY <1>2 DEF InspectorTypeOK
    <2> QED
      BY <1>1, <1>2, <1>4, <2>1, <2>2 DEF ProbeInv, Since, broker, Offset
  <1>6. InOrder' /\ DepthIsHonest'
    BY <1>2 DEF InOrder, DepthIsHonest, broker
  <1> QED
    BY <1>3, <1>5, <1>6

\* A probe that is over leaves an idle one, and a cache that has to be honest.
LEMMA OverInspectorIInv ==
  ASSUME InspectorIInv, NEW p \in Probes, UNCHANGED <<broker, inspectorStopped>>,
         probe' = [probe EXCEPT ![p] = Idle],
         cache' \subseteq Entries, DepthIsHonest'
  PROVE  InspectorIInv'
  <1> USE DEF InspectorIInv, broker
  <1>1. Idle \in ProbeStates /\ Idle.observedAt = [latest |-> 0, earliest |-> 0]
        /\ Idle.hi = Unknown /\ Idle.lo = Unknown
    BY DEF Idle, ProbeStates, Moments, Offset
  <1>2. InspectorTypeOK'
    BY <1>1 DEF InspectorTypeOK
  <1>3. ProbeInv'
    BY <1>1 DEF ProbeInv, Since, InspectorTypeOK, Offset, Unknown
  <1>4. InOrder'
    BY DEF InOrder
  <1> QED
    BY <1>2, <1>3, <1>4

\* A probe whose two answers are in shows a depth that is honest.
LEMMA MeasuredIsHonest ==
  ASSUME InspectorIInv, NEW at \in Moments, Since(at),
         NEW hi \in Offset \cup {Missing}, NEW lo \in Offset \cup {Missing},
         hi \in Offset => at.latest <= hi /\ hi <= latest,
         lo \in Offset => at.earliest <= lo /\ lo <= earliest
  PROVE  LET e == Measured(at, hi, lo)
         IN  /\ e \in Entries
             /\ e.depth # NoDepth =>
                  /\ e.depth >= e.observedAt.latest - earliest
                  /\ e.depth <= latest - e.observedAt.earliest
  <1>1. CASE Missing \in {hi, lo}
    BY <1>1 DEF Measured, Entry, Entries
  <1>2. CASE Missing \notin {hi, lo}
    <2>1. /\ hi \in Nat /\ lo \in Nat /\ hi \in Offset /\ lo \in Offset
          /\ latest \in Nat /\ earliest \in Nat /\ earliest <= latest
          /\ at.latest \in Nat /\ at.earliest \in Nat
          /\ at.latest <= hi /\ hi <= latest /\ hi <= MaxOffset
          /\ at.earliest <= lo /\ lo <= earliest
      BY <1>2 DEF InspectorIInv, InspectorTypeOK, InOrder, Moments, Offset, Missing
    <2>2. Difference(hi, lo) \in Offset
      BY <2>1 DEF Difference, Offset
    <2>3. /\ Difference(hi, lo) >= at.latest - earliest
          /\ Difference(hi, lo) <= latest - at.earliest
      BY <2>1 DEF Difference
    <2> QED
      BY <1>2, <2>2, <2>3 DEF Measured, Entry, Entries
  <1> QED
    BY <1>1, <1>2

\* An answer is between the offset at the beginning of the probe and now's.
LEMMA AnswersInspectorIInv ==
  ASSUME InspectorIInv, NEW p \in Probes, UNCHANGED <<broker, inspectorStopped>>,
         NEW hi \in Offset \cup {Unknown, Missing}, NEW lo \in Offset \cup {Unknown, Missing},
         hi \in Offset => probe[p].observedAt.latest <= hi /\ hi <= latest,
         lo \in Offset => probe[p].observedAt.earliest <= lo /\ lo <= earliest,
         Answers(p, hi, lo)
  PROVE  InspectorIInv'
  <1>1. CASE Unknown \in {hi, lo}
    <2> USE DEF InspectorIInv, broker
    <2>1. probe' = [probe EXCEPT ![p].hi = hi, ![p].lo = lo] /\ cache' = cache
      BY <1>1 DEF Answers
    <2>2. /\ probe'[p] \in ProbeStates /\ probe'[p].observedAt = probe[p].observedAt
          /\ probe'[p].hi = hi /\ probe'[p].lo = lo
      BY <2>1, ProbeFacts DEF ProbeStates, InspectorTypeOK
    <2>3. \A q \in Probes \ {p} : probe'[q] = probe[q]
      BY <2>1 DEF InspectorTypeOK
    <2>4. probe' \in [Probes -> ProbeStates]
      BY <2>1, <2>2, <2>3 DEF InspectorTypeOK
    <2>5. InspectorTypeOK'
      BY <2>1, <2>4 DEF InspectorTypeOK
    <2>6. ProbeInv'
      BY <2>2, <2>3 DEF ProbeInv, Since, Offset
    <2>7. InOrder' /\ DepthIsHonest'
      BY <2>1 DEF InOrder, DepthIsHonest
    <2> QED
      BY <2>5, <2>6, <2>7
  <1>2. CASE Unknown \notin {hi, lo}
    <2> DEFINE e == Measured(probe[p].observedAt, hi, lo)
    <2>1. probe' = [probe EXCEPT ![p] = Idle] /\ cache' = {e}
      BY <1>2 DEF Answers
    <2>2. Since(probe[p].observedAt)
      BY DEF InspectorIInv, ProbeInv
    <2>3. /\ e \in Entries
          /\ e.depth # NoDepth =>
               /\ e.depth >= e.observedAt.latest - earliest
               /\ e.depth <= latest - e.observedAt.earliest
      BY <1>2, <2>2, ProbeFacts, MeasuredIsHonest
    <2> HIDE DEF e
    <2>4. cache' \subseteq Entries /\ DepthIsHonest'
      BY <2>1, <2>3 DEF DepthIsHonest, broker
    <2> QED
      BY <2>1, <2>4, OverInspectorIInv
  <1> QED
    BY <1>1, <1>2

\* A failure adds an error, and changes no depth.
LEMMA FailsInspectorIInv ==
  ASSUME InspectorIInv, NEW p \in Probes, ProbeFails(p)
  PROVE  InspectorIInv'
  <1> DEFINE at == probe[p].observedAt
  <1>1. cache' \subseteq Entries /\ DepthIsHonest'
    <2>1. CASE cache = {}
      <3>1. cache' = {Entry(NoDepth, TRUE, at)}
        BY <2>1 DEF ProbeFails, AfterFailure
      <3>2. Entry(NoDepth, TRUE, at) \in Entries /\ Entry(NoDepth, TRUE, at).depth = NoDepth
        BY ProbeFacts DEF Entry, Entries
      <3> QED
        BY <3>1, <3>2 DEF DepthIsHonest
    <2>2. CASE cache # {}
      <3>1. cache' = {[e EXCEPT !.error = TRUE] : e \in cache}
        BY <2>2 DEF ProbeFails, AfterFailure
      <3>2. ASSUME NEW e \in cache, NEW d, d = [e EXCEPT !.error = TRUE]
            PROVE  d \in Entries /\ d.depth = e.depth /\ d.observedAt = e.observedAt
        BY <3>2 DEF InspectorIInv, InspectorTypeOK, Entries
      <3>3. \A d \in cache' : d \in Entries
              /\ \E e \in cache : d.depth = e.depth /\ d.observedAt = e.observedAt
        BY <3>1, <3>2
      <3> QED
        BY <3>3 DEF InspectorIInv, DepthIsHonest, ProbeFails, broker
    <2> QED
      BY <2>1, <2>2
  <1> QED
    BY <1>1, OverInspectorIInv DEF ProbeFails

\* So does every step of a probe.
LEMMA ProbeInspectorIInv ==
  ASSUME InspectorIInv, NEW p \in Probes, ProbeGoesOn(p)
  PROVE  InspectorIInv'
  <1>1. CASE MetadataArrives(p)
    <2>1. CASE exists
      <3> USE DEF InspectorIInv, broker
      <3>1. probe' = [probe EXCEPT ![p].at = "offsets"] /\ cache' = cache
            /\ UNCHANGED <<broker, inspectorStopped>>
        BY <1>1, <2>1 DEF MetadataArrives
      <3>2. /\ probe'[p] \in ProbeStates /\ probe'[p].observedAt = probe[p].observedAt
            /\ probe'[p].hi = probe[p].hi /\ probe'[p].lo = probe[p].lo
        BY <3>1, ProbeFacts DEF ProbeStates, InspectorTypeOK
      <3>3. \A q \in Probes \ {p} : probe'[q] = probe[q]
        BY <3>1 DEF InspectorTypeOK
      <3>4. probe' \in [Probes -> ProbeStates]
        BY <3>1, <3>2, <3>3 DEF InspectorTypeOK
      <3>5. InspectorTypeOK'
        BY <3>1, <3>4 DEF InspectorTypeOK
      <3>6. ProbeInv'
        BY <3>1, <3>2, <3>3 DEF ProbeInv, Since, Offset
      <3>7. InOrder' /\ DepthIsHonest'
        BY <3>1 DEF InOrder, DepthIsHonest
      <3> QED
        BY <3>5, <3>6, <3>7
    <2>2. CASE ~ exists
      <3>1. cache' \subseteq Entries /\ DepthIsHonest'
        BY <1>1, <2>2 DEF MetadataArrives, DepthIsHonest
      <3> QED
        BY <1>1, <2>2, <3>1, OverInspectorIInv DEF MetadataArrives
    <2> QED
      BY <2>1, <2>2
  <1>2. CASE LatestArrives(p)
    <2>1. PICK hi \in Reported(latest) : Answers(p, hi, probe[p].lo)
      BY <1>2 DEF LatestArrives
    <2>2. /\ hi \in Offset \cup {Missing}
          /\ hi \in Offset => probe[p].observedAt.latest <= hi /\ hi <= latest
      BY <2>1 DEF Reported, InspectorIInv, InspectorTypeOK, ProbeInv, Since, Offset, Missing
    <2>3. probe[p].lo \in Offset =>
             probe[p].observedAt.earliest <= probe[p].lo /\ probe[p].lo <= earliest
      BY DEF InspectorIInv, ProbeInv
    <2> QED
      BY <1>2, <2>1, <2>2, <2>3, ProbeFacts, AnswersInspectorIInv DEF LatestArrives
  <1>3. CASE EarliestArrives(p)
    <2>1. PICK lo \in Reported(earliest) : Answers(p, probe[p].hi, lo)
      BY <1>3 DEF EarliestArrives
    <2>2. /\ lo \in Offset \cup {Missing}
          /\ lo \in Offset => probe[p].observedAt.earliest <= lo /\ lo <= earliest
      BY <2>1 DEF Reported, InspectorIInv, InspectorTypeOK, ProbeInv, Since, Offset, Missing
    <2>3. probe[p].hi \in Offset =>
             probe[p].observedAt.latest <= probe[p].hi /\ probe[p].hi <= latest
      BY DEF InspectorIInv, ProbeInv
    <2> QED
      BY <1>3, <2>1, <2>2, <2>3, ProbeFacts, AnswersInspectorIInv DEF EarliestArrives
  <1>4. CASE ProbeFails(p)
    BY <1>4, FailsInspectorIInv
  <1> QED
    BY <1>1, <1>2, <1>3, <1>4 DEF ProbeGoesOn

\* Offsets that grow leave every range as wide as it was, or wider.
LEMMA BrokerInspectorIInv ==
  ASSUME InspectorIInv,
         TopicGrows \/ TopicShrinks \/ BrokerTurns \/ StopInspector \/ UNCHANGED inspectorVars
  PROVE  InspectorIInv'
  <1> USE DEF InspectorIInv, TopicGrows, TopicShrinks, BrokerTurns, StopInspector,
              inspectorVars, broker
  <1>1. /\ latest \in Nat /\ earliest \in Nat /\ latest' \in Nat /\ earliest' \in Nat
        /\ latest <= latest' /\ earliest <= earliest' /\ earliest' <= latest'
        /\ latest' \in Offset /\ earliest' \in Offset
        /\ probe' = probe /\ cache' = cache
    BY DEF InspectorTypeOK, Offset, InOrder
  <1>2. InspectorTypeOK'
    BY <1>1 DEF InspectorTypeOK
  <1>3. InOrder'
    BY <1>1 DEF InOrder
  <1>4. ASSUME NEW p \in Probes
        PROVE  probe[p].observedAt.latest \in Nat /\ probe[p].observedAt.earliest \in Nat
               /\ (probe[p].hi \in Offset => probe[p].hi \in Nat)
               /\ (probe[p].lo \in Offset => probe[p].lo \in Nat)
    BY ProbeFacts DEF Moments, Offset
  <1>5. ProbeInv'
    BY <1>1, <1>4 DEF ProbeInv, Since
  <1>6. ASSUME NEW e \in cache, e.depth # NoDepth
        PROVE  e.depth \in Nat /\ e.observedAt.latest \in Nat /\ e.observedAt.earliest \in Nat
    BY <1>6 DEF InspectorTypeOK, Entries, Moments, Offset
  <1>7. DepthIsHonest'
    BY <1>1, <1>6 DEF DepthIsHonest
  <1> QED
    BY <1>2, <1>3, <1>5, <1>7

\* Every step keeps the invariant.
LEMMA NextInspectorIInv == InspectorIInv /\ [InspectorNext]_inspectorVars => InspectorIInv'
  <1> SUFFICES ASSUME InspectorIInv, [InspectorNext]_inspectorVars PROVE InspectorIInv'
    OBVIOUS
  <1> QED
    BY StartInspectorIInv, ProbeInspectorIInv, BrokerInspectorIInv DEF InspectorNext

LEMMA InspectorIInvAlways == InspectorSpec => []InspectorIInv
  BY InitInspectorIInv, NextInspectorIInv, PTL DEF InspectorSpec

(* The variables stay in their types.                                       *)
THEOREM InspectorTypeCorrect == InspectorSpec => []InspectorTypeOK
  <1>1. InspectorIInv => InspectorTypeOK
    BY DEF InspectorIInv
  <1> QED
    BY <1>1, InspectorIInvAlways, PTL

(* However many probes overlap, and in whatever order they are answered, a  *)
(* depth is one the topic can have had since the time it is dated           *)
(* (dlqInspector.ts:75-167).                                                *)
THEOREM DepthIsHonestHolds == InspectorSpec => []DepthIsHonest
  <1>1. InspectorIInv => DepthIsHonest
    BY DEF InspectorIInv
  <1> QED
    BY <1>1, InspectorIInvAlways, PTL

=============================================================================
