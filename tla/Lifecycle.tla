------------------------------- MODULE Lifecycle -------------------------------
(***************************************************************************)
(* The start and the shutdown of the gateway (gateway/index.ts) against    *)
(* what runs in it: the drainer, the scheduler with its automatic job, an  *)
(* operator's request, and the health monitor.  A shutdown is a sequence   *)
(* of awaits; a second signal starts a second one over the first.          *)
(*                                                                         *)
(* A component appears here with what the shutdown depends on: whether it  *)
(* is stopped, and what it has in flight.  What it does is in its module.  *)
(***************************************************************************)
EXTENDS HealthMonitor

CONSTANTS
  Signals,     \* SIGINT and SIGTERM, as often as they come
  MaxRecords   \* replay.maxRecordsPerJob

ASSUME LifecycleAssumption == MaxRecords \in Nat \ {0}

VARIABLES
  process,    \* "starting", "serving", "exited"
  accepting,  \* whether the server takes new requests
  shutdown,   \* per signal: what its shutdown awaits, "none" before it came
  closed,     \* which of the clients and the database were closed
  drainer,    \* "armed", "sending" or "off"
  drainerStopped,
  schedulerStopped,
  auto,       \* the automatic job: "none", "between" sends or "sending"
  left,       \* the records it may still send
  manual,     \* an operator's: "none", "arriving", "between", "sending", "over"
  single,     \* whether the operator asked for a single record
  aborted,    \* whether the operator's job was aborted
  afterwards  \* history: whether it was created after jobs were aborted

jobs == <<auto, left, manual, single, aborted, afterwards>>
lifecycleVars ==
  <<process, accepting, shutdown, closed, drainer, drainerStopped,
    schedulerStopped, jobs, monitorVars>>

Clients == {"admin", "producer", "provider", "database"}
Stages == {"none", "scheduler", "monitor", "admin", "drainer", "producer",
           "provider", "broken", "exited"}
Alive == process # "exited"

\* The drainer runs before the monitor's first cycle is awaited.
LifecycleInit ==
  /\ process = "starting" /\ accepting = FALSE
  /\ shutdown = [s \in Signals |-> "none"]
  /\ closed = {}
  /\ drainer = "armed" /\ drainerStopped = FALSE
  /\ schedulerStopped = FALSE
  /\ auto = "none" /\ left = 0
  /\ manual = "none" /\ single = FALSE /\ aborted = FALSE /\ afterwards = FALSE
  /\ MonitorInit

-----------------------------------------------------------------------------
\* Once the first cycle is over, the scheduler starts and the server listens.
Serve ==
  /\ process = "starting" /\ ~ probing
  /\ process' = "serving" /\ accepting' = TRUE
  /\ UNCHANGED <<shutdown, closed, drainer, drainerStopped, schedulerStopped, jobs, monitorVars>>

monitorOnly ==
  <<process, accepting, shutdown, closed, drainer, drainerStopped,
    schedulerStopped, jobs>>

TimersFire ==
  /\ Alive
  /\ BeginCycle("producer" \notin closed) \/ ProbeTimesOut
  /\ UNCHANGED monitorOnly

BrokerReplies ==
  /\ Alive
  /\ BrokerAnswers \/ BrokerErrs \/ LateAnswer
  /\ UNCHANGED monitorOnly

TimePasses ==
  /\ Alive /\ ~ (process = "starting" /\ ~ probing)
  /\ MonitorTick
  /\ UNCHANGED monitorOnly

-----------------------------------------------------------------------------
others ==
  <<process, accepting, shutdown, closed, schedulerStopped, jobs, monitorVars>>

DrainerFires ==
  /\ Alive /\ drainer = "armed"
  /\ drainer' = "sending"
  /\ UNCHANGED <<drainerStopped, others>>

\* The iteration is over; only then is the timer armed again.
DrainerEnds ==
  /\ Alive /\ drainer = "sending"
  /\ drainer' = IF drainerStopped THEN "off" ELSE "armed"
  /\ UNCHANGED <<drainerStopped, others>>

aside ==
  <<process, accepting, shutdown, closed, drainer, drainerStopped,
    schedulerStopped, monitorVars>>

SchedulerTicks ==
  /\ process = "serving" /\ ~ schedulerStopped /\ auto = "none"
  /\ auto' = "between" /\ left' = MaxRecords
  /\ UNCHANGED <<manual, single, aborted, afterwards, aside>>

\* Mutated form: the job goes on for as long as there are records.
AutoSendsUncapped ==
  /\ Alive /\ auto = "between" /\ left > 0
  /\ auto' = "sending"
  /\ UNCHANGED <<left, manual, single, aborted, afterwards, aside>>

\* Between two sends the job reads a record and waits for a token.
AutoSends ==
  /\ Alive /\ auto = "between" /\ left > 0
  /\ auto' = "sending" /\ left' = left - 1
  /\ UNCHANGED <<manual, single, aborted, afterwards, aside>>

AutoLands ==
  /\ Alive /\ auto = "sending"
  /\ auto' = "between"
  /\ UNCHANGED <<left, manual, single, aborted, afterwards, aside>>

\* The partition is read, or as many records as a job may read.
AutoEnds ==
  /\ Alive /\ auto = "between"
  /\ auto' = "none" /\ left' = 0
  /\ UNCHANGED <<manual, single, aborted, afterwards, aside>>

AutoGoesOn == AutoSends \/ AutoLands \/ AutoEnds

\* A request for a bulk or a single replay comes in, and its body follows.
RequestComes ==
  /\ Alive /\ accepting /\ manual = "none"
  /\ manual' = "arriving" /\ single' \in BOOLEAN
  /\ UNCHANGED <<auto, left, aborted, afterwards, aside>>

TakesJobs == {s \in Signals : shutdown[s] \notin {"none", "scheduler"}}

\* Requests that are being handled go on after server.stop().
JobIsCreated ==
  /\ Alive /\ manual = "arriving"
  /\ manual' = "between"
  /\ afterwards' = (TakesJobs # {})
  /\ UNCHANGED <<auto, left, single, aborted, aside>>

ManualSends ==
  /\ Alive /\ manual = "between" /\ ~ aborted
  /\ manual' = "sending"
  /\ UNCHANGED <<auto, left, single, aborted, afterwards, aside>>

\* A single replay sends one record and answers its request.
ManualLands ==
  /\ Alive /\ manual = "sending"
  /\ manual' = IF single THEN "over" ELSE "between"
  /\ UNCHANGED <<auto, left, single, aborted, afterwards, aside>>

ManualEnds ==
  /\ Alive /\ manual = "between"
  /\ manual' = "over"
  /\ UNCHANGED <<auto, left, single, aborted, afterwards, aside>>

-----------------------------------------------------------------------------
Await(s, stage) == shutdown' = [shutdown EXCEPT ![s] = stage]

\* server.stop(), heartbeat.stop(), scheduler.stop().
SignalComes(s) ==
  /\ process = "serving" /\ shutdown[s] = "none"
  /\ accepting' = FALSE
  /\ schedulerStopped' = TRUE
  /\ Await(s, "scheduler")
  /\ UNCHANGED <<process, closed, drainer, drainerStopped, jobs, monitorVars>>

Running == {"between", "sending"}

\* Mutated form: the jobs are left alone.
AbortNothing == FALSE

\* jobStore.cancelAll() reaches the jobs that have a handle: a bulk job is
\* given one as it is created, a single replay never.
AbortsManual == manual \in Running /\ ~ single

\* The tick in flight is over: cancelAll(), inspector.stop(), monitor.stop().
SchedulerIsIdle(s) ==
  /\ Alive /\ shutdown[s] = "scheduler" /\ auto = "none"
  /\ aborted' = (aborted \/ AbortsManual)
  /\ StopMonitor
  /\ Await(s, "monitor")
  /\ UNCHANGED <<process, accepting, closed, drainer, drainerStopped,
                 schedulerStopped, auto, left, manual, single, afterwards>>

\* Mutated form: nobody waits for the cycle in flight.
MonitorIsLeft(s) ==
  /\ Alive /\ shutdown[s] = "monitor"
  /\ closed' = closed \cup {"admin"}
  /\ Await(s, "admin")
  /\ UNCHANGED <<process, accepting, drainer, drainerStopped, schedulerStopped,
                 jobs, monitorVars>>

\* The cycle in flight is over: healthAdmin.close().
MonitorIsIdle(s) ==
  /\ Alive /\ shutdown[s] = "monitor" /\ ~ probing
  /\ closed' = closed \cup {"admin"}
  /\ Await(s, "admin")
  /\ UNCHANGED <<process, accepting, drainer, drainerStopped, schedulerStopped,
                 jobs, monitorVars>>

\* The admin client is closed: drainer.stop().
AdminIsClosed(s) ==
  /\ Alive /\ shutdown[s] = "admin"
  /\ drainerStopped' = TRUE
  /\ drainer' = IF drainer = "armed" THEN "off" ELSE drainer
  /\ Await(s, "drainer")
  /\ UNCHANGED <<process, accepting, closed, schedulerStopped, jobs, monitorVars>>

\* The iteration in flight is over: producer.disconnect().
DrainerIsIdle(s) ==
  /\ Alive /\ shutdown[s] = "drainer" /\ drainer # "sending"
  /\ closed' = closed \cup {"producer"}
  /\ Await(s, "producer")
  /\ UNCHANGED <<process, accepting, drainer, drainerStopped, schedulerStopped,
                 jobs, monitorVars>>

\* provider.close()
ProducerIsClosed(s) ==
  /\ Alive /\ shutdown[s] = "producer"
  /\ closed' = closed \cup {"provider"}
  /\ Await(s, "provider")
  /\ UNCHANGED <<process, accepting, drainer, drainerStopped, schedulerStopped,
                 jobs, monitorVars>>

\* closeOutbox() and process.exit() run without an await between them.
Exits(s) ==
  /\ Alive /\ shutdown[s] = "provider"
  /\ closed' = closed \cup {"database"}
  /\ process' = "exited"
  /\ Await(s, "exited")
  /\ UNCHANGED <<accepting, drainer, drainerStopped, schedulerStopped, jobs,
                 monitorVars>>

\* A client that cannot be closed leaves the rest of this shutdown undone.
CloseFails(s) ==
  /\ Alive /\ shutdown[s] \in {"admin", "producer", "provider"}
  /\ Await(s, "broken")
  /\ UNCHANGED <<process, accepting, closed, drainer, drainerStopped,
                 schedulerStopped, jobs, monitorVars>>

ShutdownGoesOn(s) ==
  \/ SchedulerIsIdle(s) \/ MonitorIsIdle(s) \/ AdminIsClosed(s) \/ DrainerIsIdle(s)
  \/ ProducerIsClosed(s) \/ Exits(s)

LifecycleNext ==
  \/ Serve \/ TimersFire \/ BrokerReplies \/ TimePasses
  \/ DrainerFires \/ DrainerEnds
  \/ SchedulerTicks \/ AutoGoesOn
  \/ RequestComes \/ JobIsCreated \/ ManualSends \/ ManualLands \/ ManualEnds
  \/ \E s \in Signals : SignalComes(s) \/ ShutdownGoesOn(s) \/ CloseFails(s)

LifecycleSpec == LifecycleInit /\ [][LifecycleNext]_lifecycleVars

\* What the runtime drives: timers, sends that settle, closings that settle.
\* Nothing is assumed of the broker's answer to the monitor, of requests, or
\* of the operator's job.
LifecycleFairness ==
  /\ WF_lifecycleVars(Serve)
  /\ WF_lifecycleVars(TimePasses)
  /\ WF_lifecycleVars(TimersFire)
  /\ WF_lifecycleVars(DrainerEnds)
  /\ WF_lifecycleVars(AutoGoesOn)
  /\ \A s \in Signals : WF_lifecycleVars(ShutdownGoesOn(s))

-----------------------------------------------------------------------------
LifecycleTypeOK ==
  /\ process \in {"starting", "serving", "exited"}
  /\ accepting \in BOOLEAN
  /\ shutdown \in [Signals -> Stages]
  /\ closed \subseteq Clients
  /\ drainer \in {"armed", "sending", "off"}
  /\ drainerStopped \in BOOLEAN /\ schedulerStopped \in BOOLEAN
  /\ auto \in {"none", "between", "sending"} /\ left \in 0..MaxRecords
  /\ manual \in {"none", "arriving", "between", "sending", "over"}
  /\ single \in BOOLEAN /\ aborted \in BOOLEAN /\ afterwards \in BOOLEAN
  /\ MonitorTypeOK

(* What the shutdown waits for never finds a client closed that it still    *)
(* uses: not the drainer's batch, not the automatic job, not the monitor's  *)
(* cycle, with one signal or more, and whatever fails to close.            *)
NothingUsedAfterClose ==
  Alive =>
    /\ drainer = "sending" => closed \cap {"producer", "database"} = {}
    /\ auto # "none" => closed = {}
    /\ probing => closed \cap {"admin", "database"} = {}

(* "THEN cancel in-flight jobs so their AbortControllers fire before the    *)
(* producer + provider close out from under them" (index.ts:296-298): so it *)
(* is for every bulk job but one whose request was still arriving by then.  *)
(* A single replay has no AbortController: nothing tells it, and it may     *)
(* send to a producer that is closed (replayEndpoint.ts:364).              *)
JobsAreToldFirst ==
  Alive /\ "producer" \in closed /\ manual \in Running =>
    aborted \/ afterwards \/ single

(* As long as the gateway serves and the monitor runs, what /healthz shows  *)
(* was looked at, no longer ago than an interval and two timeouts, however  *)
(* slowly the broker answers: "A hung dependency cannot stall the monitor"  *)
(* (schemas.ts:34).                                                        *)
SnapshotIsRecent ==
  process = "serving" /\ ~ monitorStopped =>
    snapshot.probed /\ snapshot.age <= ProbeInterval + 2 * ProbeTimeout

(* An outage of the broker shows: when it has not answered in time for      *)
(* longer than an interval and two timeouts, be it that it errs, hangs or   *)
(* answers too late, /healthz does not say "healthy".  Whether it is to say *)
(* 503 as well, the documents do not agree on.                             *)
OutageShows ==
  process = "serving" /\ ~ monitorStopped /\ unheard > ProbeInterval + 2 * ProbeTimeout
    => snapshot.status # "healthy"

(* A shutdown ends the process unless a client fails to close, although it  *)
(* waits for a job, a batch and a probe that nothing interrupts.           *)
ShutdownsEnd ==
  \A s \in Signals :
    (shutdown[s] = "scheduler") ~> (process = "exited" \/ shutdown[s] = "broken")

=============================================================================
