------------------------- MODULE CircuitBreakerProofs -------------------------
(***************************************************************************)
(* Theorems about the circuit breaker, for every set of callers, every     *)
(* pair of thresholds and every recovery timeout.                          *)
(***************************************************************************)
EXTENDS CircuitBreaker, BreakerLemmas, TLAPS

-----------------------------------------------------------------------------
(* The inductive invariant: the three invariants that the runs check, and  *)
(* what makes QuietAfterTrip inductive: nothing in flight started while    *)
(* open, and half-open is reached at the end of the recovery timeout only. *)
IInv ==
  /\ TypeOK
  /\ BreakerInv
  /\ FailuresAreConsecutive
  /\ breaker.state = "open" => fresh = {}
  /\ breaker.state = "half-open" => sinceTrip = RecoveryTimeout

\* The initial state is typed and satisfies the invariant.
LEMMA InitIInv == Init => IInv
  BY BreakerAssumption, CallersAssumption
  DEF Init, IInv, TypeOK, BreakerInv, FailuresAreConsecutive, InitialBreaker, BreakerRecords,
      NoAttempt

\* Starting a call keeps the invariant.
LEMMA StartIInv ==
  ASSUME IInv, NEW c \in Callers, Start(c)
  PROVE  IInv'
  <1> USE BreakerAssumption
  <1>1. breaker \in BreakerRecords /\ breaker' = Admit(breaker)
    BY DEF IInv, TypeOK, Start
  <1>2. TypeOK'
    <2>1. breaker' \in BreakerRecords
      BY <1>1, AdmitFacts
    <2>2. lastSeen' \in {"closed", "open", "half-open"}
      BY <1>1, <2>1 DEF IInv, TypeOK, Start, Observe, BreakerRecords
    <2>3. call' \in [Callers -> {"idle", "busy"}]
      BY DEF IInv, TypeOK, Start
    <2>4. fresh' \subseteq Callers
      BY DEF IInv, TypeOK, Start
    <2>5. QED
      BY <2>1, <2>2, <2>3, <2>4 DEF IInv, TypeOK, Start
  <1>3. CASE breaker.state = "open"
    <2>1. breaker.wait = 0 /\ sinceTrip = RecoveryTimeout
      BY <1>3, <1>1 DEF IInv, TypeOK, BreakerInv, Start, Rejects, BreakerRecords
    <2>2. breaker'.state = "half-open" /\ breaker'.wait = 0
      BY <1>1, <1>3, <2>1, AdmitFacts
    <2>3. QED
      BY <1>2, <2>1, <2>2 DEF IInv, BreakerInv, FailuresAreConsecutive, Start
  <1>4. CASE breaker.state # "open"
    BY <1>1, <1>2, <1>4, AdmitFacts DEF IInv, BreakerInv, FailuresAreConsecutive, Start
  <1>5. QED  BY <1>3, <1>4

\* A success that lands, in whatever state, keeps the invariant.
LEMMA LandWellIInv ==
  ASSUME IInv, NEW c \in Callers, LandWell(c)
  PROVE  IInv'
  <1> USE BreakerAssumption
  <1>1. breaker \in BreakerRecords /\ breaker' = OnSuccess(breaker)
    BY DEF IInv, TypeOK, LandWell
  <1>2. TypeOK'
    <2>1. breaker' \in BreakerRecords
      BY <1>1, OnSuccessFacts
    <2>2. lastSeen' \in {"closed", "open", "half-open"}
      BY <1>1, <2>1 DEF IInv, TypeOK, LandWell, Observe, BreakerRecords
    <2>3. call' \in [Callers -> {"idle", "busy"}]
      BY DEF IInv, TypeOK, LandWell
    <2>4. lossRun' \in 0..FailureThreshold
      BY DEF IInv, TypeOK, LandWell, AtMost
    <2>5. QED
      BY <2>1, <2>2, <2>3, <2>4 DEF IInv, TypeOK, LandWell
  <1>3. fresh' = fresh \ {c} /\ sinceTrip' = sinceTrip /\ lossRun' = 0
    BY DEF LandWell
  <1>4. CASE breaker'.state = breaker.state /\ breaker'.wait = breaker.wait
             /\ (breaker.state # "half-open" => breaker'.successes = breaker.successes)
    BY <1>1, <1>2, <1>3, <1>4, OnSuccessFacts DEF IInv, BreakerInv, FailuresAreConsecutive
  <1>5. CASE breaker' = ToClosed
    BY <1>1, <1>2, <1>3, <1>5 DEF IInv, BreakerInv, FailuresAreConsecutive, ToClosed, InitialBreaker
  <1>6. QED  BY <1>1, <1>4, <1>5, OnSuccessFacts

\* A failure that lands, in whatever state, keeps the invariant.
LEMMA LandBadlyIInv ==
  ASSUME IInv, NEW c \in Callers, LandBadly(c)
  PROVE  IInv'
  <1> USE BreakerAssumption
  <1>1. breaker \in BreakerRecords /\ breaker' = OnFailure(breaker)
    BY DEF IInv, TypeOK, LandBadly
  <1>2. TypeOK'
    <2>1. breaker' \in BreakerRecords
      BY <1>1, OnFailureFacts
    <2>2. lastSeen' \in {"closed", "open", "half-open"}
      BY <1>1, <2>1 DEF IInv, TypeOK, LandBadly, Observe, BreakerRecords
    <2>3. call' \in [Callers -> {"idle", "busy"}]
      BY DEF IInv, TypeOK, LandBadly
    <2>4. lossRun' \in 0..FailureThreshold
      BY DEF IInv, TypeOK, LandBadly, AtMost
    <2>5. sinceTrip' \in 0..RecoveryTimeout /\ fresh' \subseteq Callers
      BY DEF IInv, TypeOK, LandBadly
    <2>6. QED
      BY <2>1, <2>2, <2>3, <2>4, <2>5 DEF IInv, TypeOK, LandBadly
  <1>3. CASE breaker.state = "open"
    <2>1. breaker' = breaker
      BY <1>1, <1>3, OnFailureFacts
    <2>2. sinceTrip' = sinceTrip /\ fresh' = fresh \ {c}
      BY <1>3 DEF LandBadly
    <2>3. QED
      BY <1>2, <1>3, <2>1, <2>2 DEF IInv, BreakerInv, FailuresAreConsecutive
  <1>4. CASE breaker.state # "open" /\ breaker'.state = "open"
    <2>1. sinceTrip' = 0 /\ fresh' = {}
      BY <1>4 DEF LandBadly
    <2>2. breaker'.successes = 0 /\ breaker'.wait = RecoveryTimeout
      BY <1>1, <1>4, OnFailureFacts DEF BreakerRecords
    <2>3. QED
      BY <1>2, <1>4, <2>1, <2>2 DEF IInv, BreakerInv, FailuresAreConsecutive
  <1>5. CASE breaker.state = "closed" /\ breaker.failures + 1 < FailureThreshold
             /\ breaker' = [breaker EXCEPT !.failures = breaker.failures + 1]
    <2>1. breaker'.state = "closed" /\ breaker'.failures = breaker.failures + 1
          /\ breaker'.successes = breaker.successes /\ breaker'.wait = breaker.wait
      BY <1>1, <1>5 DEF BreakerRecords
    <2>2. breaker'.failures <= lossRun'
      BY <1>1, <1>5, <2>1
      DEF IInv, TypeOK, FailuresAreConsecutive, LandBadly, AtMost, BreakerRecords
    <2>3. QED
      BY <1>2, <1>5, <2>1, <2>2 DEF IInv, BreakerInv, FailuresAreConsecutive
  <1>6. QED  BY <1>1, <1>3, <1>4, <1>5, OnFailureFacts

\* The operator's forceOpen() and reset() keep the invariant.
LEMMA OperatorIInv ==
  ASSUME IInv, ForceOpen \/ ResetBreaker
  PROVE  IInv'
  <1> USE BreakerAssumption, CallersAssumption
  <1>1. CASE ForceOpen
    <2>1. breaker' \in BreakerRecords
      BY <1>1, TransitionType DEF IInv, TypeOK, ForceOpen
    <2>2. TypeOK'
      BY <1>1, <2>1 DEF IInv, TypeOK, ForceOpen
    <2>3. breaker'.state = "open" /\ breaker'.successes = 0 /\ breaker'.wait = RecoveryTimeout
      BY <1>1 DEF IInv, TypeOK, ForceOpen, ToOpen, BreakerRecords
    <2>4. QED
      BY <1>1, <2>2, <2>3 DEF IInv, BreakerInv, FailuresAreConsecutive, ForceOpen
  <1>2. CASE ResetBreaker
    <2>1. breaker' \in BreakerRecords
      BY <1>2, TransitionType DEF IInv, TypeOK, ResetBreaker
    <2>2. TypeOK'
      BY <1>2, <2>1 DEF IInv, TypeOK, ResetBreaker
    <2>3. breaker'.state = "closed" /\ breaker'.failures = 0 /\ breaker'.successes = 0
          /\ breaker'.wait = NoAttempt
      BY <1>2 DEF IInv, TypeOK, ResetBreaker, Reset, InitialBreaker
    <2>4. QED
      BY <1>2, <2>2, <2>3 DEF IInv, BreakerInv, FailuresAreConsecutive, ResetBreaker
  <1>3. QED  BY <1>1, <1>2

\* The clock keeps the invariant: an open breaker's retry time and the time
\* since its trip move together.
LEMMA TickIInv ==
  ASSUME IInv, Tick
  PROVE  IInv'
  <1> USE BreakerAssumption
  <1>1. breaker \in BreakerRecords /\ breaker' = Elapse(breaker)
    BY DEF IInv, TypeOK, Tick
  <1>2. sinceTrip' \in 0..RecoveryTimeout
    BY DEF IInv, TypeOK, Tick, AtMost
  <1>3. TypeOK'
    BY <1>1, <1>2, ElapseFacts DEF IInv, TypeOK, Tick
  <1>4. breaker.state = "open" => breaker'.wait = RecoveryTimeout - sinceTrip'
    BY <1>1, ElapseFacts DEF IInv, TypeOK, BreakerInv, Tick, AtMost
  <1>5. breaker.state # "open" => breaker'.wait = breaker.wait
    BY <1>1, ElapseFacts DEF IInv, BreakerInv, NoAttempt, BreakerRecords
  <1>6. breaker.state = "half-open" => sinceTrip' = RecoveryTimeout
    BY DEF IInv, TypeOK, Tick, AtMost
  <1>7. QED
    BY <1>1, <1>3, <1>4, <1>5, <1>6, ElapseFacts
    DEF IInv, BreakerInv, FailuresAreConsecutive, Tick

\* Every step, and every stuttering step, keeps the invariant.
LEMMA NextIInv == IInv /\ [Next]_vars => IInv'
  <1> SUFFICES ASSUME IInv, [Next]_vars
               PROVE  IInv'
    OBVIOUS
  <1>1. CASE UNCHANGED vars
    BY <1>1 DEF IInv, TypeOK, BreakerInv, FailuresAreConsecutive, vars, machine, history
  <1>2. ASSUME NEW c \in Callers, Start(c)
        PROVE  IInv'
    BY <1>2, StartIInv
  <1>3. ASSUME NEW c \in Callers, FailFast(c)
        PROVE  IInv'
    BY <1>3, <1>1 DEF FailFast
  <1>4. ASSUME NEW c \in Callers, LandWell(c)
        PROVE  IInv'
    BY <1>4, LandWellIInv
  <1>5. ASSUME NEW c \in Callers, LandBadly(c)
        PROVE  IInv'
    BY <1>5, LandBadlyIInv
  <1>6. CASE ForceOpen \/ ResetBreaker
    BY <1>6, OperatorIInv
  <1>7. CASE BrokerChanges
    BY <1>7 DEF IInv, TypeOK, BreakerInv, FailuresAreConsecutive, BrokerChanges, history
  <1>8. CASE Tick
    BY <1>8, TickIInv
  <1>9. QED
    BY <1>1, <1>2, <1>3, <1>4, <1>5, <1>6, <1>7, <1>8 DEF Next

-----------------------------------------------------------------------------
\* Every reachable state satisfies the inductive invariant.
THEOREM IInvAlways == Spec => []IInv
  <1>1. QED  BY InitIInv, NextIInv, PTL DEF Spec

\* The breaker's fields stay within their types.
THEOREM TypeCorrect == Spec => []TypeOK
  <1>1. IInv => TypeOK  BY DEF IInv
  <1>2. QED  BY <1>1, IInvAlways, PTL

\* The breaker is never half way between two states, and an open breaker's
\* retry time lies RecoveryTimeout after the trip, whatever lands late.
THEOREM BreakerInvHolds == Spec => []BreakerInv
  <1>1. IInv => BreakerInv  BY DEF IInv
  <1>2. QED  BY <1>1, IInvAlways, PTL

\* After a trip no operation starts for RecoveryTimeout ticks.
THEOREM QuietAfterTripHolds == Spec => []QuietAfterTrip
  <1>1. IInv => QuietAfterTrip
    BY DEF IInv, TypeOK, BreakerRecords, QuietAfterTrip
  <1>2. QED  BY <1>1, IInvAlways, PTL

\* A closed breaker that trips by itself has seen FailureThreshold failures in
\* a row.
THEOREM TripsOnConsecutiveFailuresHolds == Spec => TripsOnConsecutiveFailures
  <1> DEFINE Trip == breaker.state = "closed" /\ breaker'.state = "open"
                     /\ operatorActs' = operatorActs
  <1>1. IInv /\ [Next]_vars => [Trip => lossRun' = FailureThreshold]_vars
    <2> SUFFICES ASSUME IInv, [Next]_vars, Trip
                 PROVE  lossRun' = FailureThreshold
      OBVIOUS
    <2> USE BreakerAssumption
    <2>1. breaker \in BreakerRecords
      BY DEF IInv, TypeOK
    <2>2. ASSUME NEW c \in Callers, LandBadly(c)
          PROVE  lossRun' = FailureThreshold
      <3>1. breaker.failures + 1 >= FailureThreshold
        BY <2>1, <2>2, OnFailureFacts DEF LandBadly, BreakerRecords
      <3>2. QED
        BY <2>1, <2>2, <3>1
        DEF IInv, TypeOK, FailuresAreConsecutive, LandBadly, AtMost, BreakerRecords
    <2>3. ASSUME NEW c \in Callers, LandWell(c)
          PROVE  FALSE
      BY <2>1, <2>3, OnSuccessFacts DEF LandWell
    <2>4. ASSUME NEW c \in Callers, Start(c)
          PROVE  FALSE
      BY <2>1, <2>4, AdmitFacts DEF Start
    <2>5. CASE ForceOpen \/ ResetBreaker
      BY <2>5, CallersAssumption DEF ForceOpen, ResetBreaker, IInv, TypeOK
    <2>6. CASE Tick
      BY <2>1, <2>6, ElapseFacts DEF Tick
    <2>7. CASE BrokerChanges \/ UNCHANGED vars
      BY <2>7 DEF BrokerChanges, vars, machine
    <2>8. ASSUME NEW c \in Callers, FailFast(c)
          PROVE  FALSE
      BY <2>8 DEF FailFast, vars, machine
    <2>9. QED
      BY <2>2, <2>3, <2>4, <2>5, <2>6, <2>7, <2>8 DEF Next
  <1>2. QED  BY <1>1, IInvAlways, PTL DEF Spec, TripsOnConsecutiveFailures

\* As long as nobody calls reset(), the handle knows the breaker's state.
THEOREM LastSeenInSyncHolds == Spec => []LastSeenInSync
  <1> DEFINE Counted == operatorActs \in Nat
             J == Counted /\ LastSeenInSync
  <1>1. Init => J
    BY DEF Init, LastSeenInSync, InitialBreaker
  <1>2. IInv /\ J /\ [Next]_vars => J'
    <2> SUFFICES ASSUME IInv, J, [Next]_vars PROVE J'
      OBVIOUS
    <2>1. ASSUME NEW c \in Callers, Start(c) \/ LandWell(c) \/ LandBadly(c) PROVE J'
      BY <2>1 DEF Start, LandWell, LandBadly, Observe, LastSeenInSync
    <2>2. CASE ForceOpen \/ ResetBreaker
      BY <2>2 DEF ForceOpen, ResetBreaker, LastSeenInSync
    <2>3. CASE Tick
      <3>1. breaker'.state = breaker.state
        BY <2>3, ElapseFacts DEF Tick, IInv, TypeOK
      <3>2. QED
        BY <2>3, <3>1 DEF Tick, LastSeenInSync
    <2>4. CASE BrokerChanges \/ UNCHANGED vars
      BY <2>4 DEF BrokerChanges, vars, machine, LastSeenInSync
    <2>5. ASSUME NEW c \in Callers, FailFast(c) PROVE J'
      BY <2>5 DEF FailFast, vars, machine, LastSeenInSync
    <2>6. QED
      BY <2>1, <2>2, <2>3, <2>4, <2>5 DEF Next
  <1>3. QED
    BY <1>1, <1>2, IInvAlways, PTL DEF Spec

=============================================================================
