---------------------------- MODULE LifecycleProofs ----------------------------
(***************************************************************************)
(* Theorems about the shutdown of the gateway and its health monitor, for  *)
(* any number of signals and whatever the intervals are.                   *)
(***************************************************************************)
EXTENDS Lifecycle, TLAPS

PastScheduler == {"monitor", "admin", "drainer", "producer", "provider", "broken", "exited"}
PastMonitor == PastScheduler \ {"monitor"}
PastAdmin == {"drainer", "producer", "provider", "exited"}

-----------------------------------------------------------------------------
(* What a shutdown has stopped by the time it is where it is, and what is  *)
(* thereby idle for good: nothing starts a stopped component again, so the *)
(* order holds for a second shutdown that overtakes the first as well.     *)
Order ==
  /\ \A s \in Signals :
       /\ shutdown[s] # "none" => schedulerStopped
       /\ shutdown[s] \in PastScheduler => monitorStopped /\ auto = "none"
       /\ shutdown[s] \in PastMonitor => "admin" \in closed
       /\ shutdown[s] \in PastAdmin => drainerStopped
  /\ closed # {} => schedulerStopped /\ monitorStopped /\ auto = "none" /\ ~ probing
  /\ drainerStopped => drainer \in {"sending", "off"}
  /\ "producer" \in closed => drainer = "off"
  /\ "database" \in closed => ~ Alive

(* Bulk jobs are aborted by whoever goes past the scheduler, and those      *)
(* created later are marked.                                               *)
Told ==
  /\ TakesJobs # {} /\ manual \in Running => aborted \/ afterwards \/ single
  /\ closed # {} => TakesJobs # {}

(* While a cycle runs, the age of the snapshot is that of the interval     *)
(* before it and the cycle's own; between cycles it grows as the timer     *)
(* runs down.                                                              *)
Ages ==
  /\ process = "starting" => ~ monitorStopped /\ shutdown = [s \in Signals |-> "none"]
  /\ process = "serving" => snapshot.probed
  /\ process = "starting" /\ ~ probing => snapshot.probed
  /\ probing => timer = NoTimer
  /\ probing /\ snapshot.probed /\ ~ monitorStopped =>
       snapshot.age <= ProbeInterval + ProbeTimeout + elapsed
  /\ ~ probing /\ ~ monitorStopped =>
       /\ timer \in 0..ProbeInterval
       /\ snapshot.age + timer <= ProbeInterval + ProbeTimeout

(* A page that says "healthy" is of a cycle the broker answered in time.   *)
Heard == snapshot.status = "healthy" /\ ~ monitorStopped => unheard <= snapshot.age

IInv == LifecycleTypeOK /\ Order /\ Told /\ Ages /\ Heard

USE MonitorAssumption, LifecycleAssumption

\* It holds at the start.
LEMMA InitIInv == LifecycleInit => IInv
  <1> SUFFICES ASSUME LifecycleInit PROVE IInv
    OBVIOUS
  <1> USE DEF LifecycleInit, MonitorInit, EmptySnapshot
  <1>1. 0 \in 0..Oldest /\ 0 \in 0..ProbeTimeout /\ 0 \in 0..MaxRecords
    BY DEF Oldest
  <1>2. MonitorTypeOK
    BY <1>1 DEF MonitorTypeOK, Snapshots
  <1>3. LifecycleTypeOK
    BY <1>1, <1>2 DEF LifecycleTypeOK, Clients, Stages
  <1>4. Order /\ Told
    BY DEF Order, Told, PastScheduler, PastMonitor, PastAdmin, Running, TakesJobs
  <1>5. Ages /\ Heard
    BY DEF Ages, Heard
  <1> QED
    BY <1>3, <1>4, <1>5 DEF IInv

-----------------------------------------------------------------------------
\* The steps of the monitor alone keep the order of the shutdown: a cycle
\* begins only while the monitor is not stopped.
LEMMA MonitorKeepsOrder ==
  ASSUME IInv, UNCHANGED monitorOnly, monitorStopped' = monitorStopped,
         ~ probing /\ monitorStopped => ~ probing'
  PROVE  Order' /\ Told'
  <1> USE DEF IInv, monitorOnly, jobs
  <1>1. Order'
    BY DEF Order, Alive
  <1>2. Told'
    BY DEF Told, TakesJobs
  <1> QED
    BY <1>1, <1>2

\* A result is a snapshot, as old as the cycle that ends with it.
LEMMA ResultFacts ==
  ASSUME MonitorTypeOK, NEW kafka \in BOOLEAN, NEW topics \in BOOLEAN
  PROVE  /\ Result(kafka, topics) \in Snapshots
         /\ Result(kafka, topics).age = elapsed
         /\ Result(kafka, topics).probed
         /\ Result(kafka, topics).status = "healthy" => kafka
  <1>1. elapsed \in 0..Oldest
    BY DEF MonitorTypeOK, Oldest
  <1>2. Status(checked, kafka, topics) \in {"healthy", "degraded", "unhealthy"}
        /\ (Status(checked, kafka, topics) = "healthy" => kafka)
    BY DEF MonitorTypeOK, Status
  <1> QED
    BY <1>1, <1>2 DEF Result, Snapshots

\* A cycle that ends keeps the invariant.
LEMMA EndCycleIInv ==
  ASSUME IInv, Alive, probing, UNCHANGED monitorOnly, late' \in BOOLEAN,
         NEW kafka \in BOOLEAN, NEW topics \in BOOLEAN, EndCycle(kafka, topics),
         unheard' = IF kafka THEN 0 ELSE unheard
  PROVE  IInv'
  <1>1. MonitorTypeOK
    BY DEF IInv, LifecycleTypeOK
  <1>2. Order' /\ Told'
    BY MonitorKeepsOrder DEF EndCycle
  <1>3. MonitorTypeOK'
    <2>1. Result(kafka, topics) \in Snapshots
      BY <1>1, ResultFacts
    <2>2. ProbeInterval \in 0..ProbeInterval /\ 0 \in 0..ProbeTimeout /\ 0 \in 0..Oldest
      BY DEF Oldest
    <2> QED
      BY <1>1, <2>1, <2>2 DEF EndCycle, MonitorTypeOK
  <1>4. LifecycleTypeOK'
    BY <1>3 DEF IInv, LifecycleTypeOK, monitorOnly, jobs
  <1>5. Ages'
    BY <1>1, ResultFacts DEF IInv, Ages, EndCycle, monitorOnly, MonitorTypeOK
  <1>6. Heard'
    BY <1>1, ResultFacts DEF IInv, Heard, EndCycle, MonitorTypeOK
  <1> QED
    BY <1>2, <1>4, <1>5, <1>6 DEF IInv

\* So does every step of the monitor.
LEMMA MonitorIInv ==
  ASSUME IInv, TimersFire \/ BrokerReplies \/ TimePasses
  PROVE  IInv'
  <1>1. MonitorTypeOK
    BY DEF IInv, LifecycleTypeOK
  <1>2. ASSUME Alive, UNCHANGED monitorOnly, BeginCycle("producer" \notin closed)
        PROVE  IInv'
    <2>1. Order' /\ Told'
      BY <1>2, MonitorKeepsOrder DEF BeginCycle
    <2>2. MonitorTypeOK'
      BY <1>1, <1>2 DEF BeginCycle, MonitorTypeOK, NoTimer
    <2>3. LifecycleTypeOK'
      BY <1>2, <2>2 DEF IInv, LifecycleTypeOK, monitorOnly, jobs
    <2>4. Ages'
      BY <1>1, <1>2 DEF IInv, Ages, BeginCycle, monitorOnly, MonitorTypeOK, NoTimer, Snapshots
    <2>5. Heard'
      BY <1>2 DEF IInv, Heard, BeginCycle
    <2> QED
      BY <2>1, <2>3, <2>4, <2>5 DEF IInv
  <1>3. ASSUME Alive, UNCHANGED monitorOnly, ProbeTimesOut
        PROVE  IInv'
    BY <1>3, EndCycleIInv DEF ProbeTimesOut, TimeoutIsDue
  <1>4. ASSUME Alive, UNCHANGED monitorOnly, BrokerAnswers \/ BrokerErrs
        PROVE  IInv'
    <2>1. late' \in BOOLEAN
      BY <1>1, <1>4 DEF BrokerAnswers, BrokerErrs, MonitorTypeOK
    <2> QED
      BY <1>4, <2>1, EndCycleIInv DEF BrokerAnswers, BrokerErrs
  <1>5. ASSUME UNCHANGED monitorOnly, LateAnswer
        PROVE  IInv'
    <2>1. Order' /\ Told'
      BY <1>5, MonitorKeepsOrder DEF LateAnswer
    <2>2. LifecycleTypeOK'
      <3>1. MonitorTypeOK'
        BY <1>1, <1>5 DEF LateAnswer, MonitorTypeOK
      <3> QED
        BY <1>5, <3>1 DEF IInv, LifecycleTypeOK, monitorOnly, jobs
    <2>3. Ages' /\ Heard'
      BY <1>5 DEF IInv, LateAnswer, Ages, Heard, monitorOnly
    <2> QED
      BY <2>1, <2>2, <2>3 DEF IInv
  <1>6. ASSUME UNCHANGED monitorOnly, MonitorTick, ~ (process = "starting" /\ ~ probing)
        PROVE  IInv'
    <2>1. Order' /\ Told'
      BY <1>6, MonitorKeepsOrder DEF MonitorTick
    <2>2. snapshot.age \in 0..Oldest /\ snapshot' \in Snapshots
          /\ (monitorStopped \/ snapshot'.age <= snapshot.age + 1)
          /\ snapshot'.status = snapshot.status /\ snapshot'.probed = snapshot.probed
          /\ (monitorStopped \/ snapshot.age = Oldest \/ snapshot'.age = snapshot.age + 1)
          /\ unheard \in 0..Oldest /\ unheard' \in 0..Oldest
          /\ (monitorStopped \/ unheard' <= unheard + 1)
      BY <1>1, <1>6 DEF MonitorTick, MonitorTypeOK, Snapshots, Oldest
    <2>3. MonitorTypeOK'
      <3>1. timer' \in 0..ProbeInterval \cup {NoTimer}
        BY <1>1, <1>6 DEF MonitorTick, MonitorTypeOK, NoTimer
      <3>2. elapsed' \in 0..ProbeTimeout
        BY <1>1, <1>6 DEF MonitorTick, MonitorTypeOK, TimeoutIsDue
      <3> QED
        BY <1>1, <1>6, <2>2, <3>1, <3>2 DEF MonitorTick, MonitorTypeOK
    <2>4. LifecycleTypeOK'
      BY <1>6, <2>3 DEF IInv, LifecycleTypeOK, monitorOnly, jobs
    <2>5. Ages'
      BY <1>1, <1>6, <2>2 DEF IInv, Ages, MonitorTick, monitorOnly, MonitorTypeOK, NoTimer, TimeoutIsDue, Oldest
    <2>6. Heard'
      BY <1>6, <2>2 DEF IInv, Heard, MonitorTick, Oldest
    <2> QED
      BY <2>1, <2>4, <2>5, <2>6 DEF IInv
  <1> QED
    BY <1>2, <1>3, <1>4, <1>5, <1>6 DEF TimersFire, BrokerReplies, TimePasses

-----------------------------------------------------------------------------
\* What leaves the monitor alone keeps what is said of it, as long as no
\* shutdown begins before the gateway serves.
LEMMA MonitorAside ==
  ASSUME IInv, UNCHANGED monitorVars, process' \in {process, "exited"},
         process = "starting" => process' = process /\ shutdown' = shutdown
  PROVE  MonitorTypeOK' /\ Ages' /\ Heard'
  <1> USE DEF IInv, monitorVars
  <1>1. MonitorTypeOK'
    BY DEF LifecycleTypeOK, MonitorTypeOK
  <1>2. Ages'
    BY DEF Ages, LifecycleTypeOK
  <1>3. Heard'
    BY DEF Heard
  <1> QED
    BY <1>1, <1>2, <1>3

\* The first cycle has left a snapshot by the time the gateway serves.
LEMMA ServeIInv ==
  ASSUME IInv, Serve
  PROVE  IInv'
  <1> USE DEF IInv, Serve
  <1>1. MonitorTypeOK'
    BY DEF LifecycleTypeOK, MonitorTypeOK, monitorVars
  <1>2. LifecycleTypeOK'
    BY <1>1 DEF LifecycleTypeOK, jobs
  <1>3. Order' /\ Told'
    BY DEF Order, Told, Alive, TakesJobs, jobs, monitorVars
  <1>4. Ages' /\ Heard'
    BY DEF Ages, Heard, monitorVars
  <1> QED
    BY <1>2, <1>3, <1>4

\* The drainer fires only while nobody has stopped it.
LEMMA DrainerIInv ==
  ASSUME IInv, DrainerFires \/ DrainerEnds
  PROVE  IInv'
  <1> USE DEF IInv, DrainerFires, DrainerEnds, others
  <1>1. MonitorTypeOK' /\ Ages' /\ Heard'
    BY MonitorAside
  <1>2. LifecycleTypeOK'
    BY <1>1 DEF LifecycleTypeOK, jobs
  <1>3. Order'
    BY DEF Order, Alive, LifecycleTypeOK, jobs, monitorVars
  <1>4. Told'
    BY DEF Told, TakesJobs, jobs
  <1> QED
    BY <1>1, <1>2, <1>3, <1>4

\* An automatic job begins only while the scheduler is not stopped, and then
\* no shutdown is past it.
LEMMA AutoIInv ==
  ASSUME IInv, SchedulerTicks \/ AutoGoesOn
  PROVE  IInv'
  <1> USE DEF IInv, SchedulerTicks, AutoGoesOn, AutoSends, AutoLands, AutoEnds, aside
  <1>1. MonitorTypeOK' /\ Ages' /\ Heard'
    BY MonitorAside
  <1>2. LifecycleTypeOK'
    BY <1>1 DEF LifecycleTypeOK
  <1>3. Order'
    BY DEF Order, Alive, PastScheduler, monitorVars
  <1>4. Told'
    BY DEF Told, TakesJobs
  <1> QED
    BY <1>1, <1>2, <1>3, <1>4

\* A job that is created after the others were aborted is marked.
LEMMA ManualIInv ==
  ASSUME IInv, RequestComes \/ JobIsCreated \/ ManualSends \/ ManualLands \/ ManualEnds
  PROVE  IInv'
  <1> USE DEF IInv, RequestComes, JobIsCreated, ManualSends, ManualLands, ManualEnds, aside
  <1>1. MonitorTypeOK' /\ Ages' /\ Heard'
    BY MonitorAside
  <1>2. LifecycleTypeOK'
    <2>1. manual' \in {"none", "arriving", "between", "sending", "over"}
      OBVIOUS
    <2>2. afterwards' \in BOOLEAN /\ single' \in BOOLEAN /\ aborted' \in BOOLEAN
      BY DEF LifecycleTypeOK
    <2>3. UNCHANGED <<auto, left, aside>>
      OBVIOUS
    <2> QED
      BY <1>1, <2>1, <2>2, <2>3 DEF LifecycleTypeOK
  <1>3. Order'
    BY DEF Order, Alive, monitorVars
  <1>4. Told'
    BY DEF Told, TakesJobs, Running
  <1> QED
    BY <1>1, <1>2, <1>3, <1>4

-----------------------------------------------------------------------------
\* A shutdown that is under way is that of a gateway that serves.
LEMMA ShutdownServes ==
  ASSUME IInv, Alive, NEW s \in Signals, shutdown[s] # "none"
  PROVE  process = "serving"
  BY DEF IInv, Ages, Alive, LifecycleTypeOK

LEMMA SignalIInv ==
  ASSUME IInv, NEW s \in Signals, SignalComes(s)
  PROVE  IInv'
  <1> USE DEF IInv, SignalComes, Await
  <1>1. MonitorTypeOK' /\ Ages' /\ Heard'
    BY MonitorAside
  <1>2. LifecycleTypeOK'
    BY <1>1 DEF LifecycleTypeOK, Stages, jobs
  <1>3. Order'
    BY DEF Order, Alive, LifecycleTypeOK, jobs, monitorVars, PastScheduler, PastMonitor, PastAdmin
  <1>4. TakesJobs' = TakesJobs
    BY DEF TakesJobs, LifecycleTypeOK
  <1>5. Told'
    BY <1>4 DEF Told, jobs
  <1> QED
    BY <1>1, <1>2, <1>3, <1>5

\* Past the scheduler: the jobs are aborted, the monitor is stopped.
LEMMA SchedulerIsIdleIInv ==
  ASSUME IInv, NEW s \in Signals, SchedulerIsIdle(s)
  PROVE  IInv'
  <1> USE DEF IInv, SchedulerIsIdle, StopMonitor, Await
  <1>1. process = "serving"
    BY ShutdownServes
  <1>2. MonitorTypeOK'
    BY DEF LifecycleTypeOK, MonitorTypeOK
  <1>3. LifecycleTypeOK'
    BY <1>2 DEF LifecycleTypeOK, Stages, AbortsManual
  <1>4. Order'
    BY DEF Order, Alive, LifecycleTypeOK, PastScheduler, PastMonitor, PastAdmin
  <1>5. Told'
    BY DEF Told, TakesJobs, LifecycleTypeOK, AbortsManual, Running
  <1>6. Ages' /\ Heard'
    BY <1>1 DEF Ages, Heard
  <1> QED
    BY <1>3, <1>4, <1>5, <1>6

\* The stages that close a client or wait for one to be closed.
LEMMA StageIInv ==
  ASSUME IInv, NEW s \in Signals,
         \/ MonitorIsIdle(s) \/ AdminIsClosed(s) \/ DrainerIsIdle(s)
         \/ ProducerIsClosed(s) \/ Exits(s) \/ CloseFails(s)
  PROVE  IInv'
  <1> USE DEF IInv
  <1> DEFINE Past == shutdown[s] \in PastScheduler /\ shutdown'[s] \in PastMonitor
  <1>1. process = "serving" /\ process' \in {process, "exited"} /\ UNCHANGED monitorVars
    BY ShutdownServes DEF MonitorIsIdle, AdminIsClosed, DrainerIsIdle, ProducerIsClosed, Exits, CloseFails
  <1>2. MonitorTypeOK' /\ Ages' /\ Heard'
    BY <1>1, MonitorAside
  <1>3. shutdown \in [Signals -> Stages] /\ Past
        /\ \A t \in Signals \ {s} : shutdown'[t] = shutdown[t]
    BY DEF LifecycleTypeOK, MonitorIsIdle, AdminIsClosed, DrainerIsIdle, ProducerIsClosed, Exits,
           CloseFails, Await, PastScheduler, PastMonitor
  <1>4. UNCHANGED jobs /\ schedulerStopped' = schedulerStopped /\ closed \subseteq closed'
    BY DEF MonitorIsIdle, AdminIsClosed, DrainerIsIdle, ProducerIsClosed, Exits, CloseFails
  <1>5. LifecycleTypeOK'
    <2>1. shutdown' \in [Signals -> Stages]
      BY <1>3 DEF Stages, Await, MonitorIsIdle, AdminIsClosed, DrainerIsIdle, ProducerIsClosed, Exits, CloseFails
    <2>2. closed' \subseteq Clients
      BY DEF LifecycleTypeOK, Clients, MonitorIsIdle, AdminIsClosed, DrainerIsIdle, ProducerIsClosed, Exits, CloseFails
    <2>3. /\ drainer' \in {"armed", "sending", "off"}
          /\ drainerStopped' \in BOOLEAN /\ accepting' \in BOOLEAN
      BY DEF LifecycleTypeOK, MonitorIsIdle, AdminIsClosed, DrainerIsIdle, ProducerIsClosed, Exits, CloseFails
    <2> QED
      BY <1>1, <1>2, <1>4, <2>1, <2>2, <2>3 DEF LifecycleTypeOK, jobs
  <1>6. s \in TakesJobs /\ TakesJobs' = TakesJobs
    BY <1>3 DEF TakesJobs, PastScheduler, PastMonitor
  <1>7. Told'
    BY <1>4, <1>6 DEF Told, jobs
  <1>8. schedulerStopped /\ monitorStopped /\ auto = "none"
    BY <1>3 DEF Order, PastScheduler
  <1>9. Order'
    <2>1. CASE MonitorIsIdle(s)
      BY <1>1, <1>3, <1>4, <1>8, <2>1 DEF Order, MonitorIsIdle, Await, jobs, monitorVars, Alive,
         PastScheduler, PastMonitor, PastAdmin
    <2>2. CASE AdminIsClosed(s)
      BY <1>1, <1>3, <1>4, <1>8, <2>2 DEF Order, AdminIsClosed, Await, jobs, monitorVars, Alive,
         LifecycleTypeOK, PastScheduler, PastMonitor, PastAdmin
    <2>3. CASE DrainerIsIdle(s)
      BY <1>1, <1>3, <1>4, <1>8, <2>3 DEF Order, DrainerIsIdle, Await, jobs, monitorVars, Alive,
         PastScheduler, PastMonitor, PastAdmin
    <2>4. CASE ProducerIsClosed(s) \/ Exits(s)
      BY <1>1, <1>3, <1>4, <1>8, <2>4 DEF Order, ProducerIsClosed, Exits, Await, jobs, monitorVars,
         Alive, PastScheduler, PastMonitor, PastAdmin
    <2>5. CASE CloseFails(s)
      BY <1>1, <1>3, <1>4, <1>8, <2>5 DEF Order, CloseFails, Await, jobs, monitorVars, Alive,
         PastScheduler, PastMonitor, PastAdmin
    <2> QED
      BY <2>1, <2>2, <2>3, <2>4, <2>5
  <1> QED
    BY <1>2, <1>5, <1>7, <1>9

LEMMA StutterIInv ==
  ASSUME IInv, UNCHANGED lifecycleVars
  PROVE  IInv'
  <1> USE DEF IInv, lifecycleVars
  <1>1. MonitorTypeOK' /\ Ages' /\ Heard'
    BY MonitorAside
  <1>2. LifecycleTypeOK'
    BY <1>1 DEF LifecycleTypeOK, jobs
  <1>3. Order' /\ Told'
    BY DEF Order, Told, Alive, TakesJobs, jobs, monitorVars
  <1> QED
    BY <1>1, <1>2, <1>3

\* Every step keeps the invariant.
LEMMA NextIInv == IInv /\ [LifecycleNext]_lifecycleVars => IInv'
  <1> SUFFICES ASSUME IInv, [LifecycleNext]_lifecycleVars PROVE IInv'
    OBVIOUS
  <1>1. ASSUME NEW s \in Signals, SignalComes(s) \/ ShutdownGoesOn(s) \/ CloseFails(s)
        PROVE  IInv'
    BY <1>1, SignalIInv, SchedulerIsIdleIInv, StageIInv DEF ShutdownGoesOn
  <1> QED
    BY <1>1, MonitorIInv, ServeIInv, DrainerIInv, AutoIInv, ManualIInv, StutterIInv
       DEF LifecycleNext

LEMMA IInvAlways == LifecycleSpec => []IInv
  BY InitIInv, NextIInv, PTL DEF LifecycleSpec

-----------------------------------------------------------------------------
(* The variables stay in their types, and a shutdown in its order.          *)
THEOREM LifecycleTypeCorrect == LifecycleSpec => []LifecycleTypeOK
  <1>1. IInv => LifecycleTypeOK
    BY DEF IInv
  <1> QED
    BY <1>1, IInvAlways, PTL

(* However many signals come, and whichever client fails to close, what the *)
(* shutdown waits for never finds closed what it uses (index.ts:291-308).   *)
THEOREM NothingUsedAfterCloseHolds == LifecycleSpec => []NothingUsedAfterClose
  <1>1. IInv => NothingUsedAfterClose
    BY DEF IInv, Order, NothingUsedAfterClose
  <1> QED
    BY <1>1, IInvAlways, PTL

(* A bulk job that outlives the closing of the producer was aborted before, *)
(* or created too late to be; of a single replay, which has no handle,      *)
(* nothing is promised (index.ts:296-298).                                  *)
THEOREM JobsAreToldFirstHolds == LifecycleSpec => []JobsAreToldFirst
  <1>1. IInv => JobsAreToldFirst
    BY DEF IInv, Told, JobsAreToldFirst
  <1> QED
    BY <1>1, IInvAlways, PTL

(* Whatever the interval and the timeout are, the snapshot of a gateway     *)
(* that serves is no older than an interval and two timeouts, although a    *)
(* broker may leave every question open (monitor.ts:52-107, 133-151).       *)
THEOREM SnapshotIsRecentHolds == LifecycleSpec => []SnapshotIsRecent
  <1>1. IInv => SnapshotIsRecent
    <2> SUFFICES ASSUME IInv, process = "serving", ~ monitorStopped
                 PROVE  snapshot.probed /\ snapshot.age <= ProbeInterval + 2 * ProbeTimeout
      BY DEF SnapshotIsRecent
    <2>1. snapshot.probed
      BY DEF IInv, Ages
    <2>2. snapshot.age \in Nat /\ elapsed \in 0..ProbeTimeout
      BY DEF IInv, LifecycleTypeOK, MonitorTypeOK, Snapshots, Oldest
    <2>3. CASE probing
      BY <2>1, <2>2, <2>3 DEF IInv, Ages
    <2>4. CASE ~ probing
      BY <2>2, <2>4 DEF IInv, Ages
    <2> QED
      BY <2>1, <2>3, <2>4 DEF IInv, LifecycleTypeOK, MonitorTypeOK
  <1> QED
    BY <1>1, IInvAlways, PTL

(* An outage of the broker shows on the page after an interval and two      *)
(* timeouts, whatever they are and however the broker fails (probes.ts:45,  *)
(* monitor.ts:70-103).                                                      *)
THEOREM OutageShowsHolds == LifecycleSpec => []OutageShows
  <1>1. IInv => OutageShows
    <2> SUFFICES ASSUME IInv, process = "serving", ~ monitorStopped, snapshot.status = "healthy"
                 PROVE  ~ (unheard > ProbeInterval + 2 * ProbeTimeout)
      BY DEF OutageShows
    <2>1. unheard <= snapshot.age /\ snapshot.probed
      BY DEF IInv, Heard, Ages
    <2>2. snapshot.age \in Nat /\ elapsed \in 0..ProbeTimeout /\ unheard \in Nat
      BY DEF IInv, LifecycleTypeOK, MonitorTypeOK, Snapshots, Oldest
    <2>3. CASE probing
      BY <2>1, <2>2, <2>3 DEF IInv, Ages
    <2>4. CASE ~ probing
      BY <2>1, <2>2, <2>4 DEF IInv, Ages
    <2> QED
      BY <2>3, <2>4
  <1> QED
    BY <1>1, IInvAlways, PTL

=============================================================================
