------------------------------- MODULE Breaker -------------------------------
(***************************************************************************)
(* The finite-state machine of src/resilience/circuit-breaker.ts as        *)
(* operators on one breaker record: what every module whose component      *)
(* calls ProducerHandle.sendByTopic uses.                                  *)
(*                                                                         *)
(*   state      "closed", "open" or "half-open"                            *)
(*   failures   transport failures since the last success                  *)
(*   successes  successes since the breaker became half-open               *)
(*   wait       nextAttemptTime relative to the clock: NoAttempt when it   *)
(*              is null, 0 once the clock has reached it                   *)
(*                                                                         *)
(* `failures` is compared with FailureThreshold in the closed state only,  *)
(* and the code lets it grow through every half-open failure of an outage; *)
(* it saturates here at the named bound MaxFailures.                       *)
(***************************************************************************)
EXTENDS Integers

CONSTANTS
  FailureThreshold,  \* config.breaker.failureThreshold
  SuccessThreshold,  \* config.breaker.successThreshold
  RecoveryTimeout,   \* config.breaker.recoveryTimeoutMs, in ticks
  MaxFailures        \* bound on the failure counter

ASSUME BreakerAssumption ==
  /\ FailureThreshold \in Nat \ {0}
  /\ SuccessThreshold \in Nat \ {0}
  /\ RecoveryTimeout \in Nat \ {0}
  /\ MaxFailures \in Nat /\ MaxFailures >= FailureThreshold

NoAttempt == -1

BreakerRecords ==
  [state : {"closed", "open", "half-open"},
   failures : 0..MaxFailures,
   successes : 0..(SuccessThreshold - 1),
   wait : NoAttempt..RecoveryTimeout]

InitialBreaker ==
  [state |-> "closed", failures |-> 0, successes |-> 0, wait |-> NoAttempt]

OneMoreFailure(n) == IF n < MaxFailures THEN n + 1 ELSE n

ToOpen(b) ==
  [state |-> "open", failures |-> b.failures, successes |-> 0, wait |-> RecoveryTimeout]

ToHalfOpen(b) ==
  [state |-> "half-open", failures |-> b.failures, successes |-> 0, wait |-> b.wait]

ToClosed == InitialBreaker

\* reset(): the same four fields as a regular close, without onClosed.
Reset == InitialBreaker

\* Mutated form: the retry time is never looked at.
RejectsForever(b) == b.state = "open"

\* Mutated form: an open breaker lets every call through to half-open.
RejectsNothing(b) == FALSE

\* execute() throws CircuitBreakerOpenError without running the operation.
Rejects(b) == b.state = "open" /\ b.wait # 0

\* The synchronous part of an execute() that goes on to run the operation.
Admit(b) == IF b.state = "open" THEN ToHalfOpen(b) ELSE b

\* Mutated form: a success while closed leaves the failure count alone.
OnSuccessKeepsFailures(b) ==
  IF b.state # "half-open" THEN b
  ELSE IF b.successes + 1 >= SuccessThreshold
       THEN ToClosed
       ELSE [state |-> "half-open", failures |-> 0, successes |-> b.successes + 1, wait |-> b.wait]

OnSuccess(b) ==
  IF b.state # "half-open" THEN [b EXCEPT !.failures = 0]
  ELSE IF b.successes + 1 >= SuccessThreshold
       THEN ToClosed
       ELSE [state |-> "half-open", failures |-> 0, successes |-> b.successes + 1, wait |-> b.wait]

\* Mutated form: a late failure restarts the window of an open breaker.
OnFailureExtendsWindow(b) ==
  LET n == OneMoreFailure(b.failures)
  IN  IF b.state # "closed" \/ n >= FailureThreshold
      THEN ToOpen([b EXCEPT !.failures = n])
      ELSE [b EXCEPT !.failures = n]

OnFailure(b) ==
  LET n == OneMoreFailure(b.failures)
  IN  IF b.state = "open" THEN b
      ELSE IF b.state = "half-open" \/ n >= FailureThreshold
           THEN ToOpen([b EXCEPT !.failures = n])
           ELSE [b EXCEPT !.failures = n]

\* One tick of the clock: nextAttemptTime comes one tick nearer.
Elapse(b) == IF b.wait > 0 THEN [b EXCEPT !.wait = @ - 1] ELSE b

=============================================================================
