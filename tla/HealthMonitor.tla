----------------------------- MODULE HealthMonitor -----------------------------
(***************************************************************************)
(* The health monitor (health/monitor.ts, health/probes.ts): a cycle looks *)
(* at the producer and the database, asks the broker for its topics and    *)
(* waits for the answer or for a timeout, whichever is first, replaces the *)
(* snapshot that /healthz serves, and arms the timer of the next cycle.    *)
(*                                                                         *)
(* Time is counted in ticks.  A timer that is due fires before time goes   *)
(* on; an answer may come at any time, also after its timeout.             *)
(***************************************************************************)
EXTENDS Integers

CONSTANTS
  ProbeInterval,  \* health.probeIntervalMs
  ProbeTimeout    \* health.probeTimeoutMs

ASSUME MonitorAssumption ==
  /\ ProbeInterval \in Nat \ {0}
  /\ ProbeTimeout \in Nat \ {0}

VARIABLES
  probing,         \* whether a cycle awaits the broker
  elapsed,         \* since that cycle began
  checked,         \* whether what is required was well, before it asked the broker
  timer,           \* until the next cycle, or NoTimer
  late,            \* whether a broker call that timed out is still open
  snapshot,        \* what /healthz serves
  monitorStopped,
  unheard          \* history: since the broker last answered in time, up to Oldest

monitorVars ==
  <<probing, elapsed, checked, timer, late, snapshot, monitorStopped, unheard>>

NoTimer == -1

\* A snapshot is no older than two timeouts and an interval: see SnapshotIsRecent in Lifecycle.
Oldest == ProbeInterval + 2 * ProbeTimeout + 1

\* Of the dependencies only the status is kept; `ok` says that it is not "unhealthy".
Snapshots ==
  [status : {"healthy", "degraded", "unhealthy"}, probed : BOOLEAN, age : 0..Oldest]

\* emptySnapshot: nothing was looked at.
EmptySnapshot == [status |-> "healthy", probed |-> FALSE, age |-> 0]

Status(required, kafka, topics) ==
  CASE ~ required -> "unhealthy"
    [] required /\ ~ (kafka /\ topics) -> "degraded"
    [] OTHER -> "healthy"

\* checkedAt is the time the cycle began.
Result(kafka, topics) ==
  [status |-> Status(checked, kafka, topics), probed |-> TRUE, age |-> elapsed]

\* The first cycle, which start() awaits.
MonitorInit ==
  /\ probing = TRUE /\ elapsed = 0
  /\ checked \in BOOLEAN
  /\ timer = NoTimer
  /\ late = FALSE
  /\ snapshot = EmptySnapshot
  /\ monitorStopped = FALSE
  /\ unheard = 0

-----------------------------------------------------------------------------
\* The timer fires; DEFAULT_REQUIREDNESS looks at the producer's flag and at
\* the database, which is probed on the spot.
BeginCycle(connected) ==
  /\ ~ monitorStopped /\ timer = 0
  /\ probing' = TRUE /\ elapsed' = 0 /\ timer' = NoTimer
  /\ \E database \in BOOLEAN : checked' = (connected /\ database)
  /\ UNCHANGED <<late, snapshot, monitorStopped, unheard>>

\* The cycle replaces the snapshot and arms the timer, unless stopped.
EndCycle(kafka, topics) ==
  /\ probing' = FALSE /\ elapsed' = 0
  /\ snapshot' = Result(kafka, topics)
  /\ timer' = IF monitorStopped THEN NoTimer ELSE ProbeInterval
  /\ UNCHANGED <<checked, monitorStopped>>

\* listTopics answers with all the expected topics or only some.
BrokerAnswers ==
  /\ probing
  /\ \E topics \in BOOLEAN : EndCycle(TRUE, topics)
  /\ unheard' = 0
  /\ UNCHANGED late

BrokerErrs ==
  /\ probing
  /\ EndCycle(FALSE, FALSE)
  /\ UNCHANGED <<late, unheard>>

\* Mutated form: nothing limits the wait for the broker.
TimeoutIsNeverDue == FALSE

\* The timer of the probe.
TimeoutIsDue == probing /\ elapsed = ProbeTimeout

\* The other side of the race; the call stays open.
ProbeTimesOut ==
  /\ TimeoutIsDue
  /\ EndCycle(FALSE, FALSE)
  /\ late' = TRUE
  /\ UNCHANGED unheard

\* Mutated form: the race is not decided, what comes late replaces the snapshot.
LateAnswerTaken ==
  /\ late
  /\ late' = FALSE
  /\ snapshot' = Result(TRUE, TRUE)
  /\ UNCHANGED <<probing, elapsed, checked, timer, monitorStopped, unheard>>

\* The race is decided: an answer that comes later is dropped.
LateAnswer ==
  /\ late
  /\ late' = FALSE
  /\ UNCHANGED <<probing, elapsed, checked, timer, snapshot, monitorStopped, unheard>>

\* Time goes on: no timer that is due is passed over.
MonitorTick ==
  /\ timer # 0 /\ ~ TimeoutIsDue
  /\ timer' = IF timer = NoTimer THEN NoTimer ELSE timer - 1
  /\ elapsed' = IF probing THEN elapsed + 1 ELSE 0
  /\ snapshot' = IF monitorStopped \/ snapshot.age = Oldest THEN snapshot
                 ELSE [snapshot EXCEPT !.age = @ + 1]
  /\ unheard' = IF monitorStopped \/ unheard = Oldest THEN unheard ELSE unheard + 1
  /\ UNCHANGED <<probing, checked, late, monitorStopped>>

\* stop(): the timer is cleared, the cycle in flight is awaited by the caller.
StopMonitor ==
  /\ monitorStopped' = TRUE /\ timer' = NoTimer
  /\ UNCHANGED <<probing, elapsed, checked, late, snapshot, unheard>>

MonitorTypeOK ==
  /\ probing \in BOOLEAN /\ elapsed \in 0..ProbeTimeout
  /\ checked \in BOOLEAN
  /\ timer \in 0..ProbeInterval \cup {NoTimer}
  /\ late \in BOOLEAN
  /\ snapshot \in Snapshots
  /\ monitorStopped \in BOOLEAN
  /\ unheard \in 0..Oldest

=============================================================================
