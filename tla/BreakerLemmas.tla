---------------------------- MODULE BreakerLemmas ----------------------------
(* What the operators of the circuit breaker return.  Each lemma takes a   *)
(* record of the right type and says which fields the operator leaves in   *)
(* which state; the proofs about every user of the breaker cite them.      *)
EXTENDS Breaker, TLAPS

\* A transition to open, half-open or closed stays within the type.
LEMMA TransitionType ==
  ASSUME NEW b \in BreakerRecords
  PROVE  /\ ToOpen(b) \in BreakerRecords
         /\ ToHalfOpen(b) \in BreakerRecords
         /\ ToClosed \in BreakerRecords
         /\ Reset \in BreakerRecords
  <1> USE BreakerAssumption DEF BreakerRecords
  <1>1. ToOpen(b) \in BreakerRecords
    BY DEF ToOpen, NoAttempt
  <1>2. ToHalfOpen(b) \in BreakerRecords
    BY DEF ToHalfOpen
  <1>3. ToClosed \in BreakerRecords
    BY DEF ToClosed, InitialBreaker, NoAttempt
  <1>4. Reset \in BreakerRecords
    BY DEF Reset, InitialBreaker, NoAttempt
  <1>5. QED  BY <1>1, <1>2, <1>3, <1>4

\* Admitting a call changes an open breaker to half-open and no other.
LEMMA AdmitFacts ==
  ASSUME NEW b \in BreakerRecords
  PROVE  /\ Admit(b) \in BreakerRecords
         /\ b.state # "open" => Admit(b) = b
         /\ b.state = "open" => Admit(b).state = "half-open" /\ Admit(b).wait = b.wait
  BY TransitionType DEF BreakerRecords, Admit, ToHalfOpen

\* A success zeroes the failures; it moves a half-open breaker only, to closed.
LEMMA OnSuccessFacts ==
  ASSUME NEW b \in BreakerRecords
  PROVE  /\ OnSuccess(b) \in BreakerRecords
         /\ OnSuccess(b).failures = 0
         /\ \/ /\ OnSuccess(b).state = b.state
               /\ OnSuccess(b).wait = b.wait
               /\ b.state # "half-open" => OnSuccess(b).successes = b.successes
            \/ /\ b.state = "half-open"
               /\ OnSuccess(b) = ToClosed
  <1>1. CASE b.state # "half-open"
    BY <1>1, BreakerAssumption DEF BreakerRecords, OnSuccess
  <1>2. CASE b.state = "half-open" /\ b.successes + 1 >= SuccessThreshold
    BY <1>2, TransitionType DEF BreakerRecords, OnSuccess, ToClosed, InitialBreaker
  <1>3. CASE b.state = "half-open" /\ ~ (b.successes + 1 >= SuccessThreshold)
    <2>1. OnSuccess(b) = [state |-> "half-open", failures |-> 0,
                          successes |-> b.successes + 1, wait |-> b.wait]
      BY <1>3 DEF OnSuccess
    <2>2. b.successes + 1 \in 0..(SuccessThreshold - 1)
      BY <1>3, BreakerAssumption DEF BreakerRecords
    <2>3. QED
      BY <1>3, <2>1, <2>2, BreakerAssumption DEF BreakerRecords
  <1>4. QED  BY <1>1, <1>2, <1>3

\* A failure leaves an open breaker as it is; it trips a half-open one, and a
\* closed one at the threshold.
LEMMA OnFailureFacts ==
  ASSUME NEW b \in BreakerRecords
  PROVE  /\ OnFailure(b) \in BreakerRecords
         /\ b.state = "open" => OnFailure(b) = b
         /\ b.state # "open" =>
              \/ /\ OnFailure(b).state = "open"
                 /\ OnFailure(b).successes = 0
                 /\ OnFailure(b).wait = RecoveryTimeout
                 /\ b.state = "closed" => b.failures + 1 >= FailureThreshold
              \/ /\ b.state = "closed"
                 /\ b.failures + 1 < FailureThreshold
                 /\ OnFailure(b) = [b EXCEPT !.failures = b.failures + 1]
  <1> DEFINE n == OneMoreFailure(b.failures)
  <1>1. n \in 0..MaxFailures
    BY BreakerAssumption DEF OneMoreFailure, BreakerRecords
  <1>2. CASE b.state = "open"
    BY <1>2 DEF OnFailure
  <1>3. [b EXCEPT !.failures = n] \in BreakerRecords
    BY <1>1 DEF BreakerRecords
  <1>4. CASE b.state # "open" /\ (b.state = "half-open" \/ n >= FailureThreshold)
    <2>1. OnFailure(b) = ToOpen([b EXCEPT !.failures = n])
      BY <1>4 DEF OnFailure
    <2>2. n >= FailureThreshold => b.failures + 1 >= FailureThreshold
      BY BreakerAssumption DEF OneMoreFailure, BreakerRecords
    <2>3. QED
      BY <2>1, <2>2, <1>3, <1>4, TransitionType, BreakerAssumption DEF ToOpen, BreakerRecords
  <1>5. CASE b.state = "closed" /\ ~ (n >= FailureThreshold)
    <2>1. OnFailure(b) = [b EXCEPT !.failures = n]
      BY <1>5 DEF OnFailure
    <2>2. n = b.failures + 1
      BY <1>5, BreakerAssumption DEF OneMoreFailure, BreakerRecords
    <2>3. QED
      BY <2>1, <2>2, <1>3, <1>5, BreakerAssumption DEF BreakerRecords
  <1>6. QED
    BY <1>2, <1>4, <1>5 DEF BreakerRecords

\* The clock moves the retry time of an open breaker only.
LEMMA ElapseFacts ==
  ASSUME NEW b \in BreakerRecords
  PROVE  /\ Elapse(b) \in BreakerRecords
         /\ Elapse(b).state = b.state
         /\ Elapse(b).failures = b.failures
         /\ Elapse(b).successes = b.successes
         /\ Elapse(b).wait = IF b.wait > 0 THEN b.wait - 1 ELSE b.wait
  BY BreakerAssumption DEF BreakerRecords, Elapse, NoAttempt

=============================================================================
