---------------------------- MODULE CircuitBreaker ----------------------------
(***************************************************************************)
(* One circuit breaker shared by concurrent callers, as the gateway shares *)
(* its ProducerHandle between the outbox drainer, the replay scheduler and *)
(* the manual replay jobs.  execute() has two synchronous parts, before    *)
(* and after `await operation()`: Start (or FailFast) and Land.  Between   *)
(* the two any other call, the clock and the operator may move the         *)
(* machine, so that a result may land in a state the call never saw.       *)
(***************************************************************************)
EXTENDS Breaker

CONSTANTS
  Callers,          \* who may have a call in flight
  MaxOperatorActs   \* bound on forceOpen() and reset()

ASSUME CallersAssumption ==
  /\ Callers # {}
  /\ MaxOperatorActs \in Nat

VARIABLES
  breaker,       \* the machine
  lastSeen,      \* producerHandle.ts: the `from` state of the transition log
  call,          \* per caller: "idle" or "busy"
  brokerUp,      \* what the operations in flight run into when they finish
  operatorActs   \* forceOpen() and reset() so far

\* History: what the properties below compare the machine with.
VARIABLES
  sinceTrip,     \* ticks since the breaker last tripped, up to RecoveryTimeout
  fresh,         \* callers whose call in flight started after the last trip
  lossRun        \* failures that landed in a row, up to FailureThreshold

machine == <<breaker, lastSeen, call, brokerUp, operatorActs>>
history == <<sinceTrip, fresh, lossRun>>
vars == <<machine, history>>

AtMost(n, bound) == IF n > bound THEN bound ELSE n

TypeOK ==
  /\ breaker \in BreakerRecords
  /\ lastSeen \in {"closed", "open", "half-open"}
  /\ call \in [Callers -> {"idle", "busy"}]
  /\ brokerUp \in BOOLEAN
  /\ operatorActs \in 0..MaxOperatorActs
  /\ sinceTrip \in 0..RecoveryTimeout
  /\ fresh \subseteq Callers
  /\ lossRun \in 0..FailureThreshold

Init ==
  /\ breaker = InitialBreaker
  /\ lastSeen = "closed"
  /\ call = [c \in Callers |-> "idle"]
  /\ brokerUp = TRUE
  /\ operatorActs = 0
  /\ sinceTrip = 0
  /\ fresh = {}
  /\ lossRun = 0

-----------------------------------------------------------------------------
(* The handle logs a transition, and remembers it, in the callbacks of the *)
(* three transitions of the machine.                                       *)
Observe(after) == IF after.state # breaker.state THEN after.state ELSE lastSeen

Start(c) ==
  /\ call[c] = "idle"
  /\ ~ Rejects(breaker)
  /\ LET after == Admit(breaker)
     IN  /\ breaker' = after
         /\ lastSeen' = Observe(after)
  /\ call' = [call EXCEPT ![c] = "busy"]
  /\ fresh' = fresh \cup {c}
  /\ UNCHANGED <<brokerUp, operatorActs, sinceTrip, lossRun>>

\* CircuitBreakerOpenError: nothing changes, the caller is told when to retry.
FailFast(c) ==
  /\ call[c] = "idle"
  /\ Rejects(breaker)
  /\ UNCHANGED vars

LandWell(c) ==
  /\ call[c] # "idle"
  /\ brokerUp
  /\ breaker' = OnSuccess(breaker)
  /\ lastSeen' = Observe(breaker')
  /\ lossRun' = 0
  /\ call' = [call EXCEPT ![c] = "idle"]
  /\ fresh' = fresh \ {c}
  /\ UNCHANGED <<brokerUp, operatorActs, sinceTrip>>

\* isApplicationLevelError() is constantly false: every error is a failure.
LandBadly(c) ==
  /\ call[c] # "idle"
  /\ ~ brokerUp
  /\ breaker' = OnFailure(breaker)
  /\ lastSeen' = Observe(breaker')
  /\ lossRun' = AtMost(lossRun + 1, FailureThreshold)
  /\ call' = [call EXCEPT ![c] = "idle"]
  /\ LET trips == breaker.state # "open" /\ breaker'.state = "open"
     IN  /\ sinceTrip' = IF trips THEN 0 ELSE sinceTrip
         /\ fresh' = IF trips THEN {} ELSE fresh \ {c}
  /\ UNCHANGED <<brokerUp, operatorActs>>

\* forceOpen() opens the breaker again when it is open already.
ForceOpen ==
  /\ operatorActs < MaxOperatorActs
  /\ operatorActs' = operatorActs + 1
  /\ breaker' = ToOpen(breaker)
  /\ lastSeen' = "open"
  /\ sinceTrip' = 0
  /\ fresh' = {}
  /\ UNCHANGED <<call, brokerUp, lossRun>>

\* reset() fires no callback.
ResetBreaker ==
  /\ operatorActs < MaxOperatorActs
  /\ operatorActs' = operatorActs + 1
  /\ breaker' = Reset
  /\ lossRun' = 0
  /\ UNCHANGED <<lastSeen, call, brokerUp, sinceTrip, fresh>>

BrokerChanges ==
  /\ brokerUp' = ~ brokerUp
  /\ UNCHANGED <<breaker, lastSeen, call, operatorActs, history>>

Tick ==
  /\ breaker' = Elapse(breaker)
  /\ sinceTrip' = AtMost(sinceTrip + 1, RecoveryTimeout)
  /\ UNCHANGED <<lastSeen, call, brokerUp, operatorActs, fresh, lossRun>>

Land(c) == LandWell(c) \/ LandBadly(c)

Next ==
  \/ \E c \in Callers : Start(c) \/ FailFast(c) \/ LandWell(c) \/ LandBadly(c)
  \/ ForceOpen
  \/ ResetBreaker
  \/ BrokerChanges
  \/ Tick

Spec == Init /\ [][Next]_vars

(* Time passes, an operation in flight is settled by its own timeout, and  *)
(* callers keep calling (the drainer polls for as long as rows are         *)
(* pending).  Nothing is assumed of the broker or of the operator.         *)
Fairness ==
  /\ WF_vars(Tick)
  /\ \A c \in Callers : WF_vars(Start(c)) /\ WF_vars(Land(c))

FairSpec == Spec /\ Fairness

-----------------------------------------------------------------------------
(* A breaker is never caught half way: closed below the threshold and with *)
(* nothing left of the outage, open with a retry time that lies exactly    *)
(* RecoveryTimeout after the trip (late failures do not push it back),     *)
(* half-open only once that time has come.                                 *)
BreakerInv ==
  /\ breaker.state = "closed" =>
       /\ breaker.failures < FailureThreshold
       /\ breaker.successes = 0
       /\ breaker.wait = NoAttempt
  /\ breaker.state = "open" =>
       /\ breaker.successes = 0
       /\ breaker.wait = RecoveryTimeout - sinceTrip
  /\ breaker.state = "half-open" => breaker.wait = 0

(* After a trip the dependency is left alone for the whole recovery        *)
(* timeout: while the breaker has not closed, an operation that started    *)
(* after the trip started RecoveryTimeout ticks after it or later.         *)
QuietAfterTrip ==
  breaker.state # "closed" /\ fresh # {} => sinceTrip = RecoveryTimeout

(* A closed breaker trips only on FailureThreshold failures that landed    *)
(* one after another with no success between them, or by forceOpen().      *)
TripsOnConsecutiveFailures ==
  [][ breaker.state = "closed" /\ breaker'.state = "open" /\ operatorActs' = operatorActs
        => lossRun' = FailureThreshold ]_vars

(* The failure count seen in a snapshot of a closed breaker is the number  *)
(* of failures that landed since the last success, close or reset.         *)
FailuresAreConsecutive == breaker.state = "closed" => breaker.failures <= lossRun

(* Once the broker stays up, the breaker closes and stays closed: no late  *)
(* result, half-open probe or timer leaves it stuck open.                  *)
ClosesOnceBrokerIsBack == <>[]brokerUp => <>[](breaker.state = "closed")

(* "The FSM drives every update via the callbacks, so this stays in sync"  *)
(* (producerHandle.ts:59-60): so it does as long as nobody calls reset(),  *)
(* which fires none.                                                       *)
LastSeenInSync == operatorActs = 0 => lastSeen = breaker.state

=============================================================================
