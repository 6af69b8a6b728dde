-------------------------------- MODULE Replay --------------------------------
(***************************************************************************)
(* The replay of dead-lettered records of one partition of one route: the  *)
(* job store (replay/jobStore.ts, outbox/db.ts), the runner of a job       *)
(* (replay/runner.ts, replay/consumer.ts), the scheduler of automatic jobs *)
(* (replay/scheduler.ts) and the operator's requests                       *)
(* (admin/replayEndpoint.ts): a bulk job, a single record, a cancellation. *)
(* Partitions share the scheduler, which handles them one after the other, *)
(* the breaker and nothing else.                                           *)
(*                                                                         *)
(* Several jobs run at once in the one thread: a job is cut at its awaits. *)
(* The breaker, the brokers and the log of dead letters are environment.   *)
(* A slot of Jobs is taken over by a new job once its job has ended and    *)
(* its runner is gone; the table keeps the row, and reads it no more.      *)
(***************************************************************************)
EXTENDS Integers, FiniteSets

CONSTANTS
  Jobs,        \* slots for jobs; bounds how many are alive at a time
  N,           \* bound on the records ever dead-lettered; offsets are 0..N-1
  ToPark,      \* the offsets whose record triage parks
  ParkTopic,   \* whether config.replay.parkingTopicSuffix is not empty
  Persistent,  \* whether the job store is the SQLite one
  Threshold,   \* config.replay.auto.dlqDepthThreshold
  MaxRecords,  \* config.replay.maxRecordsPerJob
  MaxRequests, \* bound on the operator's bulk and single requests
  MaxFaults,   \* bound on the failures of a consumer
  MaxStops,    \* bound on shutdowns and crashes
  MaxCopies    \* bound on the copies of a record and on their causes

ASSUME ReplayAssumption ==
  /\ IsFiniteSet(Jobs)
  /\ N \in Nat \ {0}
  /\ ToPark \subseteq 0..(N - 1)
  /\ ParkTopic \in BOOLEAN /\ Persistent \in BOOLEAN
  /\ Threshold \in Nat
  /\ MaxRecords \in Nat \ {0}
  /\ MaxRequests \in Nat /\ MaxFaults \in Nat /\ MaxStops \in Nat
  /\ MaxCopies \in Nat \ {0}

VARIABLES
  \* The job store: survives the process when Persistent.
  job,        \* replay_jobs: mode, dry, status and the counters (tally)
  watermark,  \* replay_state: last_replayed_offset, or None
  \* The process.
  process,    \* "up", "stopping", "closing" (jobs aborted) or "down"
  run,        \* the runner of each job
  depth,      \* the cached depth of the partition, or None
  \* The environment.
  hi,         \* the end offset of the dead-letter partition
  copies,     \* copies of a record sent on to its topic or to the parking topic
  breakerOpen, requests, faults, stops,
  \* History.
  visited,    \* the offsets automatic jobs have read
  redo,       \* reasons for sending a record once more, up to MaxCopies
  acked,      \* records of a job whose delivery was acknowledged
  late        \* those among them acknowledged after the job was cancelled

environment == <<hi, breakerOpen, stops>>
history == <<visited, redo, acked, late>>
vars == <<job, watermark, process, run, depth, environment, copies, requests, faults, history>>

Offsets == 0..(N - 1)
None == -1
AtMost(n, bound) == IF n > bound THEN bound ELSE n

Terminal == {"done", "failed", "cancelled"}
Statuses == Terminal \cup {"none", "pending", "running", "paused"}
Modes == {"auto", "manual", "single"}
Phases == {"off", "connecting", "reading", "waiting", "sending", "leaving", "closing"}

Tallies ==
  [scanned : 0..N, replayed : 0..N, parked : 0..N, errors : 0..N, last : None..(N - 1)]

NoTally == [scanned |-> 0, replayed |-> 0, parked |-> 0, errors |-> 0, last |-> None]
NoJob == [mode |-> "manual", dry |-> FALSE, status |-> "none", tally |-> NoTally]

\* next: the next offset to read; to: the last one wanted; left: records still wanted.
NoRun ==
  [phase |-> "off", next |-> 0, to |-> 0, left |-> 0, aborted |-> FALSE,
   outcome |-> "done", tally |-> NoTally]

Init ==
  /\ job = [j \in Jobs |-> NoJob]
  /\ watermark = None
  /\ process = "up"
  /\ run = [j \in Jobs |-> NoRun]
  /\ depth = None
  /\ hi = 0 /\ copies = [o \in Offsets |-> 0] /\ breakerOpen = FALSE
  /\ requests = 0 /\ faults = 0 /\ stops = 0
  /\ visited = {} /\ redo = 0
  /\ acked = [j \in Jobs |-> 0] /\ late = [j \in Jobs |-> 0]

-----------------------------------------------------------------------------
(* The job store.                                                          *)

\* Mutated form: a late write of the status wins.
WithStatusUnguarded(r, s, t) == [r EXCEPT !.status = s, !.tally = t]

\* update with a status.  A terminal row is left alone by the SQLite store; the
\* store in memory keeps its status and merges the rest.
WithStatus(r, s, t) ==
  CASE r.status \notin Terminal -> [r EXCEPT !.status = s, !.tally = t]
    [] r.status \in Terminal /\ Persistent -> r
    [] OTHER -> [r EXCEPT !.tally = t]

\* update with counters only: onProgress.
WithTally(r, t) == [r EXCEPT !.tally = t]

Failed(r) == WithStatus(r, "failed", r.tally)

\* Mutated form: failed is not taken for terminal.
HasActiveJobFailedToo == \E j \in Jobs : job[j].status \notin {"none", "done", "cancelled"}

HasActiveJob == \E j \in Jobs : job[j].status \notin Terminal \cup {"none"}

Free(j) == run[j].phase = "off" /\ job[j].status \in Terminal \cup {"none"}

\* create, setCancelHandle and, for a bulk or automatic job, update to running.
Create(j, mode, dry, status, from, to, max) ==
  /\ Free(j)
  /\ job' = [job EXCEPT ![j] =
               [mode |-> mode, dry |-> dry, status |-> status, tally |-> NoTally]]
  /\ run' = [run EXCEPT ![j] =
               [phase |-> "connecting", next |-> from, to |-> to, left |-> max,
                aborted |-> FALSE, outcome |-> "done", tally |-> NoTally]]
  /\ acked' = [acked EXCEPT ![j] = 0]
  /\ late' = [late EXCEPT ![j] = 0]

-----------------------------------------------------------------------------
(* The scheduler and the operator.                                         *)

\* Mutated form: a job starts at the watermark instead of after it.
FromWatermarkAgain == IF watermark = None THEN 0 ELSE watermark

FromWatermark == IF watermark = None THEN 0 ELSE watermark + 1

\* A tick awaits its job; the next one is armed only when it has ended.
TickInFlight == \E j \in Jobs : job[j].mode = "auto" /\ run[j].phase # "off"

StartAuto(j) ==
  /\ process = "up" /\ ~ TickInFlight
  /\ depth # None /\ depth >= Threshold
  /\ ~ HasActiveJob
  /\ Create(j, "auto", FALSE, "running", FromWatermark, N - 1, MaxRecords)
  /\ UNCHANGED <<watermark, process, depth, environment, copies, requests, faults, visited, redo>>

\* A request whose body is still read when the shutdown begins is handled.
Requested(dry) ==
  /\ process # "down" /\ requests < MaxRequests
  /\ requests' = requests + 1
  /\ redo' = IF dry THEN redo ELSE AtMost(redo + 1, MaxCopies)
  /\ UNCHANGED <<watermark, process, depth, environment, copies, faults, visited>>

StartBulk(j) ==
  \E dry \in BOOLEAN, from \in Offsets, to \in Offsets :
    /\ Create(j, "manual", dry, "running", from, to, N)
    /\ Requested(dry)

StartSingle(j) ==
  \E dry \in BOOLEAN, o \in Offsets :
    /\ Create(j, "single", dry, "pending", o, o, 1)
    /\ Requested(dry)

\* Mutated form: the row is cancelled and its runner is not told.
CancelWithoutAbort(j) ==
  /\ process = "up" /\ job[j].status \notin Terminal \cup {"none"}
  /\ job' = [job EXCEPT ![j].status = "cancelled"]
  /\ UNCHANGED <<watermark, process, run, depth, environment, copies, requests, faults, history>>

\* A single replay has no handle to abort.
Cancel(j) ==
  /\ process = "up" /\ job[j].status \notin Terminal \cup {"none"}
  /\ job' = [job EXCEPT ![j].status = "cancelled"]
  /\ run' = [run EXCEPT ![j].aborted = @ \/ (run[j].phase # "off" /\ job[j].mode # "single")]
  /\ UNCHANGED <<watermark, process, depth, environment, copies, requests, faults, history>>

-----------------------------------------------------------------------------
(* The runner of a job.                                                    *)

Runner == <<process, depth, environment, requests>>

Alive(j, phase) == process # "down" /\ run[j].phase = phase

\* A run that ends with an exception closes its consumer, then fails its job.
\* An automatic job that fails leaves the watermark behind what it has read.
Throws(j) ==
  /\ run' = [run EXCEPT ![j].phase = "closing", ![j].outcome = "failed"]
  /\ redo' = IF job[j].mode = "auto" THEN AtMost(redo + 1, MaxCopies) ELSE redo
  /\ UNCHANGED <<job, visited, acked, late>>

Fault == faults < MaxFaults /\ faults' = faults + 1

\* Mutated form: a consumer that cannot connect throws past the job.
ConnectUncaught(j) ==
  /\ Alive(j, "connecting")
  /\ \/ /\ run' = [run EXCEPT ![j].phase = "reading"]
        /\ UNCHANGED faults
     \/ /\ Fault
        /\ run' = [run EXCEPT ![j].phase = "off"]
  /\ UNCHANGED <<job, watermark, Runner, copies, history>>

Connect(j) ==
  /\ Alive(j, "connecting")
  /\ \/ /\ run' = [run EXCEPT ![j].phase = "reading"]
        /\ UNCHANGED <<job, faults>>
     \/ /\ Fault
        /\ run' = [run EXCEPT ![j].phase = "off"]
        /\ job' = [job EXCEPT ![j] = Failed(@)]
  /\ UNCHANGED <<watermark, Runner, copies, history>>

HasMore(j) == run[j].left > 0 /\ run[j].next <= run[j].to /\ run[j].next < hi

\* The record at run[j].next counts as scanned before anything is done with it.
Scanned(j) == [run[j].tally EXCEPT !.scanned = @ + 1, !.last = run[j].next]

Moved(j, phase, tally) ==
  [run[j] EXCEPT !.phase = phase, !.next = @ + 1, !.left = @ - 1, !.tally = tally]

CountOnly(o) == o \in ToPark /\ ~ ParkTopic

Gets(j) ==
  /\ Alive(j, "reading") /\ job[j].mode # "single"
  /\ ~ run[j].aborted /\ HasMore(j)

\* A dry run counts what it reads, and that is all.
ReadDry(j) ==
  /\ Gets(j) /\ job[j].dry
  /\ run' = [run EXCEPT ![j] = Moved(j, "reading", Scanned(j))]
  /\ UNCHANGED <<job, watermark, Runner, copies, faults, history>>

Read(j) ==
  /\ Gets(j) /\ ~ job[j].dry
  /\ visited' = IF job[j].mode = "auto" THEN visited \cup {run[j].next} ELSE visited
  /\ \/ /\ CountOnly(run[j].next)
        /\ LET tally == [Scanned(j) EXCEPT !.parked = @ + 1]
           IN  /\ run' = [run EXCEPT ![j] = Moved(j, "reading", tally)]
               /\ job' = [job EXCEPT ![j] = WithTally(@, tally)]
     \/ /\ ~ CountOnly(run[j].next)
        /\ run' = [run EXCEPT ![j] = Moved(j, "waiting", Scanned(j))]
        /\ UNCHANGED job
  /\ UNCHANGED <<watermark, Runner, copies, faults, redo, acked, late>>

\* The stream ends: nothing more is wanted or there, or the budget of fetches,
\* each of which brings a record if there is one, is spent.
EndStream(j) ==
  /\ Alive(j, "reading") /\ job[j].mode # "single"
  /\ run[j].aborted \/ ~ HasMore(j) \/ run[j].tally.scanned > 0
  /\ run' = [run EXCEPT ![j].phase = "leaving"]
  /\ UNCHANGED <<job, watermark, Runner, copies, faults, history>>

\* Reading, or closing the stream on the way out, throws.
StreamFails(j) ==
  /\ Alive(j, "reading") \/ Alive(j, "leaving")
  /\ Fault
  /\ Throws(j)
  /\ UNCHANGED <<watermark, Runner, copies>>

\* The token bucket let the record through.
Send(j) ==
  /\ Alive(j, "waiting")
  /\ \/ /\ run[j].aborted
        /\ run' = [run EXCEPT ![j].phase = "leaving"]
        /\ UNCHANGED job
     \/ /\ ~ run[j].aborted /\ breakerOpen
        /\ run' = [run EXCEPT ![j].phase = "leaving", ![j].outcome = "paused"]
        /\ job' = [job EXCEPT ![j] = WithTally(@, run[j].tally)]
     \/ /\ ~ run[j].aborted /\ ~ breakerOpen
        /\ run' = [run EXCEPT ![j].phase = "sending"]
        /\ UNCHANGED job
  /\ UNCHANGED <<watermark, Runner, copies, faults, history>>

Arrives(o) == copies' = [copies EXCEPT ![o] = AtMost(@ + 1, MaxCopies)]

\* The record in flight, the last one that was read.
InFlight(j) == run[j].next - 1

Counted(o, tally) ==
  IF o \in ToPark THEN [tally EXCEPT !.parked = @ + 1] ELSE [tally EXCEPT !.replayed = @ + 1]

Acknowledged(j) ==
  /\ Arrives(InFlight(j))
  /\ acked' = [acked EXCEPT ![j] = @ + 1]
  /\ late' = [late EXCEPT ![j] = IF job[j].status = "cancelled" THEN @ + 1 ELSE @]

Progress(j, tally) ==
  /\ run' = [run EXCEPT ![j].phase = "reading", ![j].tally = tally]
  /\ job' = [job EXCEPT ![j] = WithTally(@, tally)]

\* Mutated form: progress is reported before the record is counted.
LandsReportedFirst(j) ==
  /\ Alive(j, "sending") /\ job[j].mode # "single"
  /\ Acknowledged(j)
  /\ run' = [run EXCEPT ![j].phase = "reading", ![j].tally = Counted(InFlight(j), @)]
  /\ job' = [job EXCEPT ![j] = WithTally(@, run[j].tally)]
  /\ UNCHANGED <<watermark, Runner, faults, visited, redo>>

Lands(j) ==
  /\ Alive(j, "sending") /\ job[j].mode # "single"
  /\ Acknowledged(j)
  /\ Progress(j, Counted(InFlight(j), run[j].tally))
  /\ UNCHANGED <<watermark, Runner, faults, visited, redo>>

\* Mutated form: an error that is not the breaker's goes uncounted.
SendErrsUncounted(j) ==
  /\ Alive(j, "sending") /\ job[j].mode # "single"
  /\ UNCHANGED copies \/ Arrives(InFlight(j))
  /\ Progress(j, run[j].tally)
  /\ UNCHANGED <<watermark, Runner, faults, history>>

\* The producer rejects: the run goes on, though the record may have arrived.
SendErrs(j) ==
  /\ Alive(j, "sending") /\ job[j].mode # "single"
  /\ UNCHANGED copies \/ Arrives(InFlight(j))
  /\ Progress(j, [run[j].tally EXCEPT !.errors = @ + 1])
  /\ UNCHANGED <<watermark, Runner, faults, history>>

\* Mutated form: a finished job takes the whole partition for done.
NewWatermarkAtEnd(j) ==
  IF job[j].mode = "auto" /\ hi > 0 THEN hi - 1 ELSE watermark

\* Mutated form: every job moves the watermark.
NewWatermarkAnyMode(j) == IF run[j].tally.last # None THEN run[j].tally.last ELSE watermark

\* An automatic job moves the watermark to the last record it read, however it
\* came to stop there.
NewWatermark(j) ==
  IF job[j].mode = "auto" /\ run[j].tally.last # None THEN run[j].tally.last ELSE watermark

Conclude(j) ==
  /\ Alive(j, "leaving")
  /\ watermark' = NewWatermark(j)
  /\ job' = [job EXCEPT ![j] = WithStatus(@, run[j].outcome, run[j].tally)]
  /\ run' = [run EXCEPT ![j].phase = "closing"]
  /\ UNCHANGED <<Runner, copies, faults, history>>

\* The consumer is closed.  An exception, the consumer's or an earlier one, ends
\* in a write of "failed", which a paused job takes and a done job does not.
Close(j) ==
  /\ Alive(j, "closing")
  /\ run' = [run EXCEPT ![j] = NoRun]
  /\ \/ /\ job' = IF run[j].outcome = "failed" THEN [job EXCEPT ![j] = Failed(@)] ELSE job
        /\ UNCHANGED faults
     \/ /\ Fault
        /\ job' = [job EXCEPT ![j] = Failed(@)]
  /\ UNCHANGED <<watermark, Runner, copies, history>>

\* The request for a single record: no progress, no pause, no abort.
Finish(j, tally) ==
  /\ job' = [job EXCEPT ![j] = WithStatus(@, "done", tally)]
  /\ run' = [run EXCEPT ![j].phase = "closing"]

Found(o) == o < hi

Fetch(j) ==
  /\ Alive(j, "reading") /\ job[j].mode = "single"
  /\ LET o == run[j].next
     IN  \/ /\ ~ Found(o)
            /\ Finish(j, NoTally)
            /\ UNCHANGED history
         \/ /\ Found(o) /\ (job[j].dry \/ CountOnly(o))
            /\ Finish(j, [NoTally EXCEPT !.scanned = 1, !.parked = IF job[j].dry THEN 0 ELSE 1])
            /\ UNCHANGED history
         \/ /\ Found(o) /\ ~ job[j].dry /\ ~ CountOnly(o) /\ breakerOpen
            /\ Throws(j)
         \/ /\ Found(o) /\ ~ job[j].dry /\ ~ CountOnly(o) /\ ~ breakerOpen
            /\ run' = [run EXCEPT ![j].phase = "sending", ![j].next = o + 1]
            /\ UNCHANGED <<job, history>>
  /\ UNCHANGED <<watermark, Runner, copies, faults>>

SingleLands(j) ==
  /\ Alive(j, "sending") /\ job[j].mode = "single"
  /\ \/ /\ Acknowledged(j)
        /\ Finish(j, Counted(InFlight(j), [NoTally EXCEPT !.scanned = 1]))
        /\ UNCHANGED <<visited, redo>>
     \/ /\ UNCHANGED copies \/ Arrives(InFlight(j))
        /\ Throws(j)
  /\ UNCHANGED <<watermark, Runner, faults>>

-----------------------------------------------------------------------------
(* The process.                                                            *)

Stop == stops < MaxStops /\ stops' = stops + 1

\* Requests and ticks end; an automatic job in flight is waited for.
Shutdown ==
  /\ process = "up"
  /\ Stop
  /\ process' = "stopping"
  /\ UNCHANGED <<job, watermark, run, depth, hi, copies, breakerOpen, requests, faults, history>>

\* Mutated form: the shutdown waits for every job that is not terminal.
CancelAllWhenNoneActive ==
  /\ process = "stopping" /\ ~ TickInFlight /\ ~ HasActiveJob
  /\ process' = "closing"
  /\ run' = [j \in Jobs |->
               [run[j] EXCEPT !.aborted = @ \/ (run[j].phase # "off" /\ job[j].mode # "single")]]
  /\ UNCHANGED <<job, watermark, depth, environment, copies, requests, faults, history>>

CancelAll ==
  /\ process = "stopping" /\ ~ TickInFlight
  /\ process' = "closing"
  /\ run' = [j \in Jobs |->
               [run[j] EXCEPT !.aborted = @ \/ (run[j].phase # "off" /\ job[j].mode # "single")]]
  /\ UNCHANGED <<job, watermark, depth, environment, copies, requests, faults, history>>

Unconcluded ==
  \E j \in Jobs : job[j].mode = "auto" /\ run[j].phase \in {"reading", "waiting", "sending", "leaving"}

\* The runners vanish with the process; what is in flight may still arrive.  An
\* automatic job that has not concluded leaves the watermark behind.
Vanish ==
  /\ process' = "down"
  /\ run' = [j \in Jobs |-> NoRun]
  /\ depth' = None
  /\ \E s \in SUBSET {j \in Jobs : run[j].phase = "sending"} :
       copies' = [o \in Offsets |->
                    AtMost(copies[o] + Cardinality({j \in s : InFlight(j) = o}), MaxCopies)]
  /\ redo' = IF Unconcluded THEN AtMost(redo + 1, MaxCopies) ELSE redo
  /\ UNCHANGED <<job, watermark, hi, breakerOpen, requests, faults, visited, acked, late>>

\* What is left of the shutdown does not wait for the operator's jobs.
Exit ==
  /\ process = "closing"
  /\ Vanish
  /\ UNCHANGED stops

Crash ==
  /\ process # "down"
  /\ Stop
  /\ Vanish

\* sweepReplayGhostJobs.
Swept(r) ==
  IF r.status \in {"pending", "running", "paused"} THEN [r EXCEPT !.status = "failed"] ELSE r

\* The store in memory starts empty.
Restart ==
  /\ process = "down"
  /\ process' = "up"
  /\ job' = [j \in Jobs |-> IF Persistent THEN Swept(job[j]) ELSE NoJob]
  /\ watermark' = IF Persistent THEN watermark ELSE None
  /\ redo' = IF Persistent THEN redo ELSE AtMost(redo + 1, MaxCopies)
  /\ acked' = IF Persistent THEN acked ELSE [j \in Jobs |-> 0]
  /\ UNCHANGED <<run, depth, environment, copies, requests, faults, visited, late>>

-----------------------------------------------------------------------------
(* The environment.                                                        *)

\* A sink gives up on a record.
DeadLetter ==
  /\ hi < N
  /\ hi' = hi + 1
  /\ UNCHANGED <<job, watermark, process, run, depth, copies, breakerOpen, requests, faults, stops, history>>

\* The inspector caches what the brokers hold; a failed probe leaves the cache.
Probe ==
  /\ process # "down"
  /\ depth' = hi
  /\ UNCHANGED <<job, watermark, process, run, environment, copies, requests, faults, history>>

BreakerChanges ==
  /\ breakerOpen' = ~ breakerOpen
  /\ UNCHANGED <<job, watermark, process, run, depth, hi, copies, requests, faults, stops, history>>

Step(j) ==
  \/ Connect(j) \/ Read(j) \/ ReadDry(j) \/ EndStream(j) \/ StreamFails(j)
  \/ Send(j) \/ Lands(j) \/ SendErrs(j) \/ Conclude(j) \/ Close(j)
  \/ Fetch(j) \/ SingleLands(j)

Next ==
  \/ \E j \in Jobs : StartAuto(j) \/ StartBulk(j) \/ StartSingle(j) \/ Cancel(j) \/ Step(j)
  \/ Shutdown \/ CancelAll \/ Exit \/ Crash \/ Restart
  \/ DeadLetter \/ Probe \/ BreakerChanges

Spec == Init /\ [][Next]_vars

(* A run goes on as long as the process does, ticks and probes recur, a     *)
(* shutdown goes on to its end and the supervisor starts the gateway again. *)
(* Nothing is assumed of the operator, the sinks or the breaker.            *)
Fairness ==
  /\ \A j \in Jobs : WF_vars(Step(j))
  /\ WF_vars(\E j \in Jobs : StartAuto(j))
  /\ WF_vars(Probe) /\ WF_vars(CancelAll) /\ WF_vars(Exit) /\ WF_vars(Restart)

FairSpec == Spec /\ Fairness

-----------------------------------------------------------------------------
TypeOK ==
  /\ job \in [Jobs -> [mode : Modes, dry : BOOLEAN, status : Statuses, tally : Tallies]]
  /\ watermark \in None..(N - 1)
  /\ process \in {"up", "stopping", "closing", "down"}
  /\ run \in [Jobs -> [phase : Phases, next : 0..N, to : 0..N,
                       left : 0..(IF MaxRecords > N THEN MaxRecords ELSE N),
                       aborted : BOOLEAN, outcome : {"done", "paused", "failed"},
                       tally : Tallies]]
  /\ depth \in None..N
  /\ hi \in 0..N
  /\ copies \in [Offsets -> 0..MaxCopies]
  /\ breakerOpen \in BOOLEAN
  /\ requests \in 0..MaxRequests
  /\ faults \in 0..MaxFaults
  /\ stops \in 0..MaxStops
  /\ visited \subseteq Offsets
  /\ redo \in 0..MaxCopies
  /\ acked \in [Jobs -> 0..N]
  /\ late \in [Jobs -> 0..N]

(* The watermark covers only what automatic jobs have read: whatever        *)
(* failed, was cancelled, paused or cut off, and however jobs overlapped, no *)
(* record is passed over that no job has looked at.                        *)
WatermarkCovers == \A o \in Offsets : o <= watermark => o \in visited

(* Nothing ever moves the watermark back, so that no automatic job redoes   *)
(* what an earlier one has concluded.                                      *)
WatermarkAdvances == [][ Persistent => watermark' >= watermark ]_vars

(* A record is sent on again only for a reason: an operator's request, or   *)
(* an automatic job that could not conclude (dlq-replay.md:177: "the        *)
(* watermark ensures no duplication of completed work").                   *)
RepeatsHaveACause == \A o \in Offsets : copies[o] <= 1 + redo

(* "At most one record after the cancel timestamp may be replayed"          *)
(* (dlq-replay.md:181).                                                    *)
AtMostOneAfterCancel == \A j \in Jobs : late[j] <= 1

(* The first terminal status of a job stays, whoever loses the race: the    *)
(* operator's cancel, the runner, the sweep after a restart.  Only a new    *)
(* job takes the slot over.                                                *)
StatusIsSticky ==
  [][ \A j \in Jobs :
        Persistent /\ job[j].status \in Terminal =>
          \/ job'[j].status = job[j].status
          \/ run[j].phase = "off" /\ run'[j].phase = "connecting" ]_vars

Batch(j) == job[j].mode # "single" /\ ~ job[j].dry

(* A record acknowledged before its job was cancelled is in the counters of *)
(* the job for good, whoever writes the row after that: the runner, the     *)
(* operator's cancel, a failure, the sweep (jobStore.ts:17-20).  Of the one *)
(* that lands after the cancellation nothing is claimed here.              *)
AcksAreCounted ==
  \A j \in Jobs :
    Batch(j) => job[j].tally.replayed + job[j].tally.parked >= acked[j] - late[j]

(* A scanned record is replayed, parked or an error; only the record on     *)
(* which a run was broken off, by a pause or an abort, is none of these.    *)
ScannedIsAccountedFor ==
  \A j \in Jobs :
    LET t == job[j].tally
        rest == t.scanned - (t.replayed + t.parked + t.errors)
    IN  Batch(j) => \/ rest = 0
                    \/ rest = 1 /\ (run[j].aborted \/ run[j].phase \in {"leaving", "closing", "off"})

(* Every job comes to an end, its process crashing or not: no ghost stays   *)
(* pending or running (db.ts:73-77).                                       *)
JobsEnd ==
  \A j \in Jobs : job[j].status \in {"pending", "running"}
                    ~> job[j].status \notin {"pending", "running"}

(* While the breaker stays closed, and unless the operator goes on           *)
(* cancelling for ever, a partition that reaches the threshold is worked    *)
(* off to its last record, across failing consumers, crashes and restarts.  *)
DeadLettersAreRead ==
  ([]~breakerOpen /\ <>[](\A j \in Jobs : ~ run[j].aborted)) =>
    \A o \in Offsets : (o < hi /\ hi >= Threshold) ~> (o \in visited)

(* A shutdown ends, and no paused or cancelled job holds it up.             *)
ShutdownEnds == (process = "stopping") ~> (process = "down")

-----------------------------------------------------------------------------
(* The contract of the replay, read off this state.                        *)
Contract ==
  INSTANCE ReplayContract WITH
    status <- [j \in Jobs |-> job[j].status],
    automatic <- {j \in Jobs : job[j].mode = "auto"},
    examined <- visited,
    causes <- redo

(* What runners, scheduler, endpoint and both stores do together is what    *)
(* the contract promises: statuses, watermark and copies move only as it   *)
(* says, through cancellations, pauses, failures, shutdowns and crashes.   *)
ImplementsReplayContract == Contract!Spec

-----------------------------------------------------------------------------
(* What the repository says, and the code does not do.                     *)

(* "lastOffset still points at the record that triggered the breaker so a   *)
(* resume picks up at the same offset" (runner.ts:62-63).                  *)
ResumesWhereItPaused ==
  \A j \in Jobs :
    job[j].mode = "auto" /\ job[j].status = "paused" => FromWatermark <= job[j].tally.last

(* "at most one record after the cancel timestamp may be replayed; it is     *)
(* logged but not counted in `replayed`" (dlq-replay.md:181): what counts as *)
(* replayed was acknowledged before the cancellation.                       *)
LateAckIsUncounted ==
  \A j \in Jobs : Batch(j) => job[j].tally.replayed <= acked[j] - late[j]

(* "runner pauses on breaker open; scheduler picks it up on the next tick   *)
(* as a fresh job" (scheduler.ts:34-35): once the breaker is closed for     *)
(* good, a paused automatic job has a successor.                           *)
PausedIsPickedUp ==
  <>[]~breakerOpen =>
    \A j \in Jobs : (job[j].mode = "auto" /\ job[j].status = "paused") ~> TickInFlight

=============================================================================
