---------------------------- MODULE ReplayProofs ----------------------------
(***************************************************************************)
(* Theorems about the replay of one partition, for any number of jobs at a *)
(* time, of records, requests, failures and crashes, and for both stores:  *)
(* what the watermark covers and that it advances, what a cancellation     *)
(* leaves to happen, that counters add up and that repeats have a cause.   *)
(***************************************************************************)
EXTENDS Replay, FiniteSetTheorems, TLAPS

USE ReplayAssumption

JobRows == [mode : Modes, dry : BOOLEAN, status : Statuses, tally : Tallies]

Runs ==
  [phase : Phases, next : 0..N, to : 0..N,
   left : 0..(IF MaxRecords > N THEN MaxRecords ELSE N),
   aborted : BOOLEAN, outcome : {"done", "paused", "failed"}, tally : Tallies]

-----------------------------------------------------------------------------
(* The inductive invariant.                                                *)

\* The records whose fate a tally knows.
Settled(t) == t.replayed + t.parked + t.errors

Single(j) == job[j].mode = "single"
Running(j) == run[j].phase # "off"

\* The counters of a run lag behind what it has read by the record in hand.
RunInv(j) ==
  LET r == run[j]
      t == run[j].tally
  IN  /\ Settled(t) <= t.scanned /\ t.scanned <= r.next
      /\ Batch(j) => t.scanned <= Settled(t) + 1
      /\ Batch(j) /\ r.phase \in {"connecting", "reading"} => Settled(t) = t.scanned
      /\ Batch(j) /\ r.phase \in {"waiting", "sending"} => Settled(t) + 1 = t.scanned
      /\ t.last # None => t.last = r.next - 1 /\ ~ Single(j)
      /\ r.phase \in {"waiting", "sending"} => r.next > 0 /\ ~ job[j].dry
      /\ r.phase \in {"waiting", "leaving"} => ~ Single(j)

\* The row of a job counts what was acknowledged, and so does its run, which
\* the row will be overwritten with.
RowInv(j) ==
  LET t == job[j].tally
  IN  /\ Batch(j) => acked[j] <= t.replayed + t.parked
      /\ Batch(j) /\ Running(j) => acked[j] <= run[j].tally.replayed + run[j].tally.parked
      /\ Single(j) /\ run[j].phase \in {"connecting", "reading", "sending"} => acked[j] = 0
      /\ Batch(j) => \/ Settled(t) = t.scanned
                     \/ /\ Settled(t) + 1 = t.scanned
                        /\ run[j].phase \in {"leaving", "closing", "off"}

\* A cancelled batch has been told; once a record of it landed late, nothing
\* more of it is sent.
CancelInv(j) ==
  /\ ~ Single(j) /\ Running(j) /\ job[j].status = "cancelled" => run[j].aborted
  /\ late[j] # 0 =>
       /\ late[j] = 1
       /\ \/ run[j].phase \in {"closing", "off"}
          \/ ~ Single(j) /\ run[j].phase \in {"reading", "leaving"} /\ run[j].aborted

AutoRuns(j) == job[j].mode = "auto" /\ Running(j)

\* An automatic job is ahead of the watermark, and nothing behind it is unread.
AutoInv(j) ==
  /\ job[j].mode = "auto" => ~ job[j].dry
  /\ AutoRuns(j) => /\ run[j].next > watermark
                /\ \A o \in Offsets : o < run[j].next => o \in visited

OneAuto == \A j, k \in Jobs : AutoRuns(j) /\ AutoRuns(k) => j = k

DownIsOff == process = "down" => \A j \in Jobs : ~ Running(j) /\ run[j].tally = NoTally

EachInv(j) == RunInv(j) /\ RowInv(j) /\ CancelInv(j) /\ AutoInv(j)

IInv ==
  /\ TypeOK
  /\ \A j \in Jobs : EachInv(j)
  /\ OneAuto
  /\ DownIsOff
  /\ WatermarkCovers

-----------------------------------------------------------------------------
(* What every action's proof uses.                                         *)

\* The types in pieces: the maps of jobs, and the rest.
MapsOK ==
  /\ job \in [Jobs -> JobRows] /\ run \in [Jobs -> Runs]
  /\ acked \in [Jobs -> 0..N] /\ late \in [Jobs -> 0..N]

RestOK ==
  /\ watermark \in None..(N - 1)
  /\ process \in {"up", "stopping", "closing", "down"}
  /\ depth \in None..N
  /\ hi \in 0..N
  /\ copies \in [Offsets -> 0..MaxCopies]
  /\ breakerOpen \in BOOLEAN
  /\ requests \in 0..MaxRequests
  /\ faults \in 0..MaxFaults
  /\ stops \in 0..MaxStops
  /\ visited \subseteq Offsets
  /\ redo \in 0..MaxCopies

LEMMA TypeParts == TypeOK <=> MapsOK /\ RestOK
  BY DEF TypeOK, MapsOK, RestOK, JobRows, Runs

LEMMA TypeFromParts ==
  ASSUME MapsOK', RestOK'
  PROVE  TypeOK'
  BY DEF TypeOK, MapsOK, RestOK, JobRows, Runs

LEMMA JobFacts ==
  ASSUME IInv, NEW j \in Jobs
  PROVE  /\ job[j] \in JobRows /\ run[j] \in Runs /\ acked[j] \in 0..N /\ late[j] \in 0..N
         /\ EachInv(j)
  BY TypeParts DEF IInv, MapsOK

LEMMA NoTallyFacts == NoTally \in Tallies /\ Settled(NoTally) = 0
  BY DEF NoTally, Tallies, None, Settled

LEMMA OneRecordTally ==
  ASSUME NEW n \in {0, 1}
  PROVE  [NoTally EXCEPT !.scanned = 1, !.parked = n] \in Tallies
  <1>1. 0 \in 0..N /\ 1 \in 0..N /\ n \in 0..N /\ None \in None..(N - 1)
    BY DEF None
  <1> QED
    BY <1>1 DEF NoTally, Tallies

LEMMA InitIInv == Init => IInv
  <1> SUFFICES ASSUME Init PROVE IInv
    OBVIOUS
  <1>1. NoTally \in Tallies
    BY NoTallyFacts
  <1>2. NoJob \in JobRows /\ NoRun \in Runs
    BY <1>1 DEF NoJob, NoRun, JobRows, Runs, Modes, Statuses, Phases
  <1>3. TypeOK
    <2>1. MapsOK
      BY <1>2 DEF Init, MapsOK
    <2>2. RestOK
      <3>1. copies \in [Offsets -> 0..MaxCopies]
        BY DEF Init
      <3>2. breakerOpen \in BOOLEAN /\ visited \subseteq Offsets
        BY DEF Init
      <3> QED
        BY <3>1, <3>2 DEF Init, RestOK, None
    <2> QED
      BY <2>1, <2>2, TypeParts
  <1>4. ASSUME NEW j \in Jobs PROVE EachInv(j)
    <2>1. job[j] = NoJob /\ run[j] = NoRun /\ acked[j] = 0 /\ late[j] = 0
      BY DEF Init
    <2> QED
      BY <2>1 DEF EachInv, RunInv, RowInv, CancelInv, AutoInv, AutoRuns, Single, Running, Batch,
                  Settled, NoJob, NoRun, NoTally
  <1>5. \A j \in Jobs : ~ Running(j)
    BY DEF Init, NoRun, Running
  <1> QED
    BY <1>3, <1>4, <1>5 DEF IInv, OneAuto, AutoRuns, DownIsOff, WatermarkCovers, Init, Offsets, None

\* An action of one job leaves the others as they were.
LEMMA OneJobMoves ==
  ASSUME IInv, NEW j \in Jobs,
         \A k \in Jobs \ {j} : /\ run'[k] = run[k] /\ job'[k] = job[k]
                               /\ acked'[k] = acked[k] /\ late'[k] = late[k],
         process # "down" /\ process' = process,
         AutoRuns(j)' => AutoRuns(j) \/ ~ TickInFlight,
         visited \subseteq visited',
         watermark' = watermark \/ AutoRuns(j),
         TypeOK', EachInv(j)', WatermarkCovers'
  PROVE  IInv'
  <1>1. ASSUME NEW k \in Jobs, k # j PROVE EachInv(k)'
    <2>1. run'[k] = run[k] /\ job'[k] = job[k] /\ acked'[k] = acked[k] /\ late'[k] = late[k]
      BY <1>1
    <2>2. EachInv(k)
      BY <1>1 DEF IInv
    <2>3. RunInv(k)'
      BY <2>1, <2>2 DEF EachInv, RunInv, Batch, Single
    <2>4. RowInv(k)'
      BY <2>1, <2>2 DEF EachInv, RowInv, Batch, Single, Running
    <2>5. CancelInv(k)'
      BY <2>1, <2>2 DEF EachInv, CancelInv, Single, Running
    <2>6. AutoRuns(k)' => watermark' = watermark
      BY <1>1, <2>1 DEF IInv, OneAuto, AutoRuns, Running
    <2>7. AutoInv(k)'
      BY <2>1, <2>2, <2>6 DEF EachInv, AutoInv, AutoRuns, Running
    <2> QED
      BY <2>3, <2>4, <2>5, <2>7 DEF EachInv
  <1>2. OneAuto'
    <2> SUFFICES ASSUME NEW k \in Jobs, NEW l \in Jobs, AutoRuns(k)', AutoRuns(l)' PROVE k = l
      BY DEF OneAuto
    <2>1. \A i \in Jobs \ {j} : AutoRuns(i)' => AutoRuns(i)
      BY DEF AutoRuns, Running
    <2>2. ~ TickInFlight => \A i \in Jobs : ~ AutoRuns(i)
      BY DEF TickInFlight, AutoRuns, Running
    <2> QED
      BY <2>1, <2>2 DEF IInv, OneAuto
  <1>3. DownIsOff'
    BY DEF DownIsOff
  <1> QED
    BY <1>1, <1>2, <1>3 DEF IInv

-----------------------------------------------------------------------------
(* The runner of a job.                                                    *)

\* A step of the runner of job j, which leaves r and w for run and row.
LEMMA RunnerMoves ==
  ASSUME IInv, NEW j \in Jobs, NEW r \in Runs, NEW w \in JobRows,
         process # "down", run[j].phase # "off",
         run' = [run EXCEPT ![j] = r], job' = [job EXCEPT ![j] = w],
         w.mode = job[j].mode,
         acked' \in [Jobs -> 0..N], late' \in [Jobs -> 0..N],
         \A k \in Jobs \ {j} : acked'[k] = acked[k] /\ late'[k] = late[k],
         UNCHANGED Runner,
         copies' \in [Offsets -> 0..MaxCopies], faults' \in 0..MaxFaults,
         redo' \in 0..MaxCopies, visited \subseteq visited', visited' \subseteq Offsets,
         watermark' \in None..(N - 1), watermark' = watermark \/ AutoRuns(j),
         EachInv(j)', WatermarkCovers'
  PROVE  IInv'
  <1>1. MapsOK /\ RestOK
    BY TypeParts DEF IInv
  <1>2. MapsOK'
    BY <1>1 DEF MapsOK
  <1>3. RestOK'
    BY <1>1 DEF RestOK, Runner, environment
  <1>4. \A k \in Jobs \ {j} : run'[k] = run[k] /\ job'[k] = job[k]
    BY <1>1 DEF MapsOK
  <1>5. job'[j].mode = job[j].mode
    BY <1>1 DEF MapsOK
  <1>6. AutoRuns(j)' => AutoRuns(j)
    BY <1>5 DEF AutoRuns, Running
  <1>7. process' = process /\ TypeOK'
    BY <1>2, <1>3, TypeFromParts DEF Runner
  <1> QED
    BY <1>4, <1>6, <1>7, OneJobMoves

\* What a step of a runner leaves alone keeps its type.
LEMMA Unmoved ==
  ASSUME IInv
  PROVE  /\ \A j \in Jobs : job = [job EXCEPT ![j] = job[j]] /\ run = [run EXCEPT ![j] = run[j]]
         /\ MapsOK /\ RestOK
         /\ WatermarkCovers
  <1>1. MapsOK /\ RestOK
    BY TypeParts DEF IInv
  <1> QED
    BY <1>1 DEF IInv, MapsOK

LEMMA ConnectIInv ==
  ASSUME IInv, NEW j \in Jobs, Connect(j)
  PROVE  IInv'
  <1>1. job[j] \in JobRows /\ run[j] \in Runs /\ EachInv(j) /\ MapsOK /\ RestOK
    BY JobFacts, TypeParts DEF IInv
  <1>2. PICK phase \in {"reading", "off"} : run' = [run EXCEPT ![j].phase = phase]
    BY DEF Connect
  <1>3. run'[j] = [run[j] EXCEPT !.phase = phase] /\ run'[j] \in Runs
    BY <1>1, <1>2 DEF MapsOK, Runs, Phases
  <1>4. Failed(job[j]) \in JobRows
    BY <1>1 DEF Failed, WithStatus, JobRows, Statuses, Terminal
  <1>5. job' = [job EXCEPT ![j] = job'[j]] /\ job'[j] \in {job[j], Failed(job[j])}
    BY <1>1 DEF Connect, MapsOK
  <1>6. /\ job'[j].mode = job[j].mode /\ job'[j].dry = job[j].dry /\ job'[j].tally = job[j].tally
        /\ job'[j].status = "cancelled" => job[j].status = "cancelled"
    BY <1>1, <1>5 DEF Failed, WithStatus, JobRows
  <1>7. EachInv(j)'
    BY <1>1, <1>2, <1>3, <1>6 DEF EachInv, RunInv, RowInv, CancelInv, AutoInv, AutoRuns, Single,
      Running, Batch, Connect, Alive, history, Runs, Runner
  <1>8. run' = [run EXCEPT ![j] = run'[j]]
    BY <1>1, <1>2, <1>3 DEF MapsOK
  <1>9. WatermarkCovers'
    BY DEF Connect, IInv, WatermarkCovers, history
  <1>10. /\ process # "down" /\ run[j].phase # "off" /\ UNCHANGED Runner /\ faults' \in 0..MaxFaults
         /\ UNCHANGED <<acked, late, redo, visited, copies, watermark>>
    BY <1>1 DEF Connect, Alive, Fault, history, RestOK
  <1> QED
    BY <1>1, <1>3, <1>4, <1>5, <1>6, <1>7, <1>8, <1>9, <1>10, RunnerMoves DEF MapsOK, RestOK

\* The next record counts as scanned, and there is one.
LEMMA ScannedFacts ==
  ASSUME IInv, NEW j \in Jobs, Gets(j)
  PROVE  /\ run[j].next \in Offsets
         /\ Scanned(j) \in Tallies
         /\ Scanned(j).scanned = run[j].tally.scanned + 1
         /\ Scanned(j).last = run[j].next
         /\ Scanned(j).replayed = run[j].tally.replayed
         /\ Scanned(j).parked = run[j].tally.parked
         /\ Scanned(j).errors = run[j].tally.errors
  <1>1. run[j] \in Runs /\ RunInv(j) /\ hi \in 0..N
    BY JobFacts, TypeParts DEF IInv, EachInv, RestOK
  <1>2. run[j].tally \in Tallies /\ run[j].next \in 0..N /\ run[j].tally.scanned <= run[j].next
    BY <1>1 DEF Runs, RunInv
  <1>3. run[j].next < hi
    BY DEF Gets, HasMore
  <1>4. run[j].next \in Offsets
    BY <1>1, <1>2, <1>3 DEF Offsets
  <1> DEFINE t == run[j].tally
  <1>5. /\ t.scanned + 1 \in 0..N /\ run[j].next \in None..(N - 1)
        /\ Scanned(j) = [t EXCEPT !.scanned = t.scanned + 1, !.last = run[j].next]
    BY <1>2, <1>4 DEF Scanned, Tallies, Offsets, None
  <1> HIDE DEF t
  <1> QED
    BY <1>2, <1>4, <1>5 DEF t, Tallies

LEMMA MovedFacts ==
  ASSUME IInv, NEW j \in Jobs, Gets(j), NEW phase \in Phases, NEW tally \in Tallies
  PROVE  /\ Moved(j, phase, tally) \in Runs
         /\ Moved(j, phase, tally).phase = phase
         /\ Moved(j, phase, tally).next = run[j].next + 1
         /\ Moved(j, phase, tally).tally = tally
         /\ Moved(j, phase, tally).aborted = run[j].aborted
  <1>1. run[j] \in Runs /\ run[j].next \in Offsets /\ run[j].left > 0
    BY JobFacts, ScannedFacts DEF Gets, HasMore
  <1>2. run[j].next + 1 \in 0..N
    BY <1>1 DEF Offsets
  <1>3. run[j].left - 1 \in 0..(IF MaxRecords > N THEN MaxRecords ELSE N)
    BY <1>1 DEF Runs
  <1> QED
    BY <1>1, <1>2, <1>3 DEF Moved, Runs

LEMMA ReadDryIInv ==
  ASSUME IInv, NEW j \in Jobs, ReadDry(j)
  PROVE  IInv'
  <1> DEFINE r == Moved(j, "reading", Scanned(j))
  <1>1. job[j] \in JobRows /\ run[j] \in Runs /\ EachInv(j) /\ MapsOK /\ RestOK
    BY JobFacts, TypeParts DEF IInv
  <1>2. Gets(j) /\ job[j].dry /\ run[j].phase = "reading" /\ process # "down"
    BY DEF ReadDry, Gets, Alive
  <1>3. /\ r \in Runs /\ r.phase = "reading" /\ r.next = run[j].next + 1
        /\ r.tally = Scanned(j) /\ r.aborted = run[j].aborted
    BY <1>2, ScannedFacts, MovedFacts DEF Phases
  <1>4. run' = [run EXCEPT ![j] = r] /\ job' = [job EXCEPT ![j] = job[j]] /\ run'[j] = r
    BY <1>1, Unmoved DEF ReadDry, MapsOK
  <1>5. job' = job /\ UNCHANGED <<watermark, Runner, copies, faults, history>>
    BY DEF ReadDry
  <1> HIDE DEF r
  <1>6. EachInv(j)'
    BY <1>1, <1>2, <1>3, <1>4, <1>5, ScannedFacts
    DEF EachInv, RunInv, RowInv, CancelInv, AutoInv, AutoRuns, Single, Running, Batch, Settled,
        history, Gets, Runs, Tallies
  <1>7. WatermarkCovers'
    BY <1>5 DEF IInv, WatermarkCovers, history
  <1> QED
    BY <1>1, <1>2, <1>3, <1>4, <1>5, <1>6, <1>7, RunnerMoves DEF MapsOK, RestOK, history

\* An automatic job adds what it reads to what was looked at.
LEMMA ReadIInv ==
  ASSUME IInv, NEW j \in Jobs, Read(j)
  PROVE  IInv'
  <1>1. /\ job[j] \in JobRows /\ run[j] \in Runs /\ EachInv(j) /\ MapsOK /\ RestOK
        /\ run[j].next \in Offsets /\ acked[j] \in 0..N
    BY JobFacts, TypeParts, ScannedFacts DEF IInv, Read
  <1>2. Gets(j) /\ ~ job[j].dry /\ run[j].phase = "reading" /\ process # "down" /\ ~ Single(j)
    BY DEF Read, Gets, Alive, Single
  <1>3. /\ visited \subseteq visited' /\ visited' \subseteq Offsets
        /\ job[j].mode = "auto" => visited' = visited \cup {run[j].next}
        /\ UNCHANGED <<watermark, Runner, copies, faults, redo, acked, late>>
    BY <1>1 DEF Read, RestOK
  <1>4. WatermarkCovers'
    BY <1>3 DEF IInv, WatermarkCovers
  <1>5. AutoRuns(j) => \A o \in Offsets : o < run[j].next + 1 => o \in visited'
    BY <1>1, <1>3 DEF AutoRuns, EachInv, AutoInv, Offsets
  <1>6. CASE CountOnly(run[j].next)
    <2> DEFINE tally == [Scanned(j) EXCEPT !.parked = @ + 1]
               r == Moved(j, "reading", tally)
               w == WithTally(job[j], tally)
    <2>1. /\ tally \in Tallies /\ tally.scanned = run[j].tally.scanned + 1
          /\ tally.last = run[j].next /\ tally.replayed = run[j].tally.replayed
          /\ tally.parked = run[j].tally.parked + 1 /\ tally.errors = run[j].tally.errors
      <3>1. Scanned(j).parked + 1 \in 0..N
        BY <1>1, <1>2, ScannedFacts DEF EachInv, RunInv, Settled, Tallies, Runs
      <3> QED
        BY <1>2, <3>1, ScannedFacts DEF Tallies
    <2> HIDE DEF tally
    <2>2. /\ r \in Runs /\ r.phase = "reading" /\ r.next = run[j].next + 1 /\ r.tally = tally
          /\ r.aborted = run[j].aborted
      BY <1>2, <2>1, MovedFacts DEF Phases
    <2>3. /\ w \in JobRows /\ w.mode = job[j].mode /\ w.dry = job[j].dry /\ w.status = job[j].status
          /\ w.tally = tally
      BY <1>1, <2>1 DEF WithTally, JobRows
    <2>4. run' = [run EXCEPT ![j] = r] /\ job' = [job EXCEPT ![j] = w] /\ run'[j] = r /\ job'[j] = w
      BY <1>1, <1>6 DEF Read, MapsOK, tally
    <2> HIDE DEF r, w
    <2>5. RunInv(j)'
      BY <1>1, <1>2, <2>1, <2>2, <2>3, <2>4 DEF EachInv, RunInv, Single, Batch, Settled, Runs, Tallies
    <2>6. RowInv(j)'
      <3>1. Settled(tally) = tally.scanned /\ acked[j] <= tally.replayed + tally.parked
        BY <1>1, <1>2, <2>1 DEF EachInv, RunInv, RowInv, Single, Running, Batch, Settled, Runs, Tallies
      <3> QED
        BY <1>2, <1>3, <2>2, <2>3, <2>4, <3>1 DEF RowInv, Single
    <2>7. CancelInv(j)'
      BY <1>1, <1>2, <1>3, <2>2, <2>3, <2>4 DEF EachInv, CancelInv, Single, Running
    <2>8. AutoInv(j)'
      BY <1>1, <1>2, <1>3, <1>5, <2>2, <2>3, <2>4
      DEF EachInv, AutoInv, AutoRuns, Running, Runs, RestOK, None
    <2> QED
      BY <1>1, <1>2, <1>3, <1>4, <2>2, <2>3, <2>4, <2>5, <2>6, <2>7, <2>8, RunnerMoves
      DEF EachInv, MapsOK, RestOK
  <1>7. CASE ~ CountOnly(run[j].next)
    <2> DEFINE r == Moved(j, "waiting", Scanned(j))
    <2>1. /\ r \in Runs /\ r.phase = "waiting" /\ r.next = run[j].next + 1 /\ r.tally = Scanned(j)
          /\ r.aborted = run[j].aborted
      BY <1>2, ScannedFacts, MovedFacts DEF Phases
    <2>2. run' = [run EXCEPT ![j] = r] /\ job' = [job EXCEPT ![j] = job[j]] /\ run'[j] = r /\ job' = job
      BY <1>1, <1>7, Unmoved DEF Read, MapsOK
    <2> HIDE DEF r
    <2>3. RunInv(j)'
      BY <1>1, <1>2, <2>1, <2>2, ScannedFacts DEF EachInv, RunInv, Single, Batch, Settled, Runs, Tallies
    <2>4. RowInv(j)'
      BY <1>1, <1>2, <1>3, <2>1, <2>2, ScannedFacts
      DEF EachInv, RowInv, Single, Running, Batch, Settled, Runs, Tallies
    <2>5. CancelInv(j)'
      BY <1>1, <1>2, <1>3, <2>1, <2>2 DEF EachInv, CancelInv, Single, Running, Gets
    <2>6. AutoInv(j)'
      BY <1>1, <1>2, <1>3, <1>5, <2>1, <2>2 DEF EachInv, AutoInv, AutoRuns, Running, Runs, RestOK, None
    <2> QED
      BY <1>1, <1>2, <1>3, <1>4, <2>1, <2>2, <2>3, <2>4, <2>5, <2>6, RunnerMoves
      DEF EachInv, MapsOK, RestOK
  <1> QED
    BY <1>6, <1>7

\* A run that leaves what it did behind keeps its counters.
LEMMA PhaseMoves ==
  ASSUME IInv, NEW j \in Jobs, NEW r \in Runs,
         process # "down",
         run[j].phase \in {"reading", "waiting", "sending", "leaving"},
         r.phase \in {"leaving", "closing"}, r.phase = "leaving" => ~ Single(j),
         r.next = run[j].next, r.tally = run[j].tally, r.aborted = run[j].aborted,
         \/ run[j].phase # "sending"
         \/ late[j] = 0,
         run' = [run EXCEPT ![j] = r],
         UNCHANGED <<job, watermark, Runner, visited, acked, late>>,
         copies' \in [Offsets -> 0..MaxCopies], faults' \in 0..MaxFaults, redo' \in 0..MaxCopies
  PROVE  IInv'
  <1>1. job[j] \in JobRows /\ run[j] \in Runs /\ EachInv(j) /\ MapsOK /\ RestOK /\ WatermarkCovers
    BY JobFacts, TypeParts DEF IInv
  <1>2. run'[j] = r /\ job' = [job EXCEPT ![j] = job[j]]
    BY <1>1, Unmoved DEF MapsOK
  <1>3. RunInv(j)'
    BY <1>1, <1>2 DEF EachInv, RunInv, Single, Batch
  <1>4. RowInv(j)'
    BY <1>1, <1>2 DEF EachInv, RowInv, Single, Running, Batch
  <1>5. CancelInv(j)'
    BY <1>1, <1>2 DEF EachInv, CancelInv, Single, Running
  <1>6. AutoInv(j)'
    BY <1>1, <1>2 DEF EachInv, AutoInv, AutoRuns, Running
  <1>7. WatermarkCovers'
    BY <1>1 DEF WatermarkCovers
  <1> QED
    BY <1>1, <1>2, <1>3, <1>4, <1>5, <1>6, <1>7, RunnerMoves DEF EachInv, MapsOK, RestOK

LEMMA EndStreamIInv ==
  ASSUME IInv, NEW j \in Jobs, EndStream(j)
  PROVE  IInv'
  <1>1. run[j] \in Runs /\ MapsOK /\ RestOK
    BY JobFacts, TypeParts DEF IInv
  <1> DEFINE r == [run[j] EXCEPT !.phase = "leaving"]
  <1>2. /\ r \in Runs /\ r.phase = "leaving" /\ r.next = run[j].next /\ r.tally = run[j].tally
        /\ r.aborted = run[j].aborted
    BY <1>1 DEF Runs, Phases
  <1>3. run' = [run EXCEPT ![j] = r]
    BY DEF EndStream
  <1> HIDE DEF r
  <1>4. /\ run[j].phase = "reading" /\ process # "down" /\ ~ Single(j)
        /\ UNCHANGED <<job, watermark, Runner, copies, visited, redo, acked, late, faults>>
    BY DEF EndStream, Alive, Single, history
  <1> QED
    BY <1>1, <1>2, <1>3, <1>4, PhaseMoves DEF RestOK

\* What an exception leaves.
LEMMA ThrowsFacts ==
  ASSUME IInv, NEW j \in Jobs, Throws(j)
  PROVE  \E r \in Runs :
           /\ run' = [run EXCEPT ![j] = r]
           /\ r.phase = "closing" /\ r.next = run[j].next /\ r.tally = run[j].tally
           /\ r.aborted = run[j].aborted
           /\ redo' \in 0..MaxCopies /\ UNCHANGED <<job, visited, acked, late>>
  <1>1. run[j] \in Runs /\ MapsOK /\ RestOK
    BY JobFacts, TypeParts DEF IInv
  <1> DEFINE r == [run[j] EXCEPT !.phase = "closing", !.outcome = "failed"]
  <1>2. /\ r \in Runs /\ r.phase = "closing" /\ r.next = run[j].next /\ r.tally = run[j].tally
        /\ r.aborted = run[j].aborted
    BY <1>1 DEF Runs, Phases
  <1>3. run' = [run EXCEPT ![j] = r]
    BY <1>1 DEF Throws, MapsOK
  <1>4. redo' \in 0..MaxCopies /\ UNCHANGED <<job, visited, acked, late>>
    BY <1>1 DEF Throws, RestOK, AtMost
  <1> HIDE DEF r
  <1> QED
    BY <1>2, <1>3, <1>4

LEMMA StreamFailsIInv ==
  ASSUME IInv, NEW j \in Jobs, StreamFails(j)
  PROVE  IInv'
  <1>1. PICK r \in Runs :
           /\ run' = [run EXCEPT ![j] = r]
           /\ r.phase = "closing" /\ r.next = run[j].next /\ r.tally = run[j].tally
           /\ r.aborted = run[j].aborted
           /\ redo' \in 0..MaxCopies /\ UNCHANGED <<job, visited, acked, late>>
    BY ThrowsFacts DEF StreamFails
  <1>2. /\ run[j].phase \in {"reading", "leaving"} /\ process # "down"
        /\ UNCHANGED <<watermark, Runner, copies>>
    BY DEF StreamFails, Alive
  <1>3. copies' \in [Offsets -> 0..MaxCopies] /\ faults' \in 0..MaxFaults
    BY <1>2, TypeParts DEF StreamFails, Fault, IInv, RestOK
  <1> QED
    BY <1>1, <1>2, <1>3, PhaseMoves

LEMMA SendIInv ==
  ASSUME IInv, NEW j \in Jobs, Send(j)
  PROVE  IInv'
  <1>1. job[j] \in JobRows /\ run[j] \in Runs /\ EachInv(j) /\ MapsOK /\ RestOK
    BY JobFacts, TypeParts DEF IInv
  <1>2. /\ run[j].phase = "waiting" /\ process # "down" /\ ~ Single(j) /\ ~ job[j].dry /\ run[j].next > 0
        /\ late[j] = 0
        /\ UNCHANGED <<watermark, Runner, copies, faults, redo, visited, acked, late>>
    BY <1>1 DEF Send, Alive, history, EachInv, RunInv, CancelInv
  <1>3. WatermarkCovers'
    BY <1>2 DEF IInv, WatermarkCovers
  <1>4. CASE run' = [run EXCEPT ![j].phase = "leaving"] /\ UNCHANGED job
    <2> DEFINE r == [run[j] EXCEPT !.phase = "leaving"]
    <2>1. /\ r \in Runs /\ r.phase = "leaving" /\ r.next = run[j].next /\ r.tally = run[j].tally
          /\ r.aborted = run[j].aborted /\ run' = [run EXCEPT ![j] = r]
      BY <1>1, <1>4 DEF Runs, Phases
    <2> HIDE DEF r
    <2> QED
      BY <1>1, <1>2, <1>4, <2>1, PhaseMoves DEF RestOK
  <1>5. CASE /\ run' = [run EXCEPT ![j].phase = "leaving", ![j].outcome = "paused"]
             /\ job' = [job EXCEPT ![j] = WithTally(@, run[j].tally)]
    <2> DEFINE r == [run[j] EXCEPT !.phase = "leaving", !.outcome = "paused"]
               w == WithTally(job[j], run[j].tally)
    <2>1. /\ r \in Runs /\ r.phase = "leaving" /\ r.next = run[j].next /\ r.tally = run[j].tally
          /\ r.aborted = run[j].aborted
      BY <1>1 DEF Runs, Phases
    <2>2. /\ w \in JobRows /\ w.mode = job[j].mode /\ w.dry = job[j].dry /\ w.status = job[j].status
          /\ w.tally = run[j].tally
      BY <1>1 DEF WithTally, JobRows, Runs
    <2>3. run' = [run EXCEPT ![j] = r] /\ job' = [job EXCEPT ![j] = w] /\ run'[j] = r /\ job'[j] = w
      BY <1>1, <1>5 DEF MapsOK
    <2> HIDE DEF r, w
    <2>4. EachInv(j)'
      BY <1>1, <1>2, <2>1, <2>2, <2>3
      DEF EachInv, RunInv, RowInv, CancelInv, AutoInv, AutoRuns, Single, Running, Batch
    <2> QED
      BY <1>1, <1>2, <1>3, <2>1, <2>2, <2>3, <2>4, RunnerMoves DEF MapsOK, RestOK
  <1>6. CASE run' = [run EXCEPT ![j].phase = "sending"] /\ UNCHANGED job /\ ~ run[j].aborted
    <2> DEFINE r == [run[j] EXCEPT !.phase = "sending"]
    <2>1. /\ r \in Runs /\ r.phase = "sending" /\ r.next = run[j].next /\ r.tally = run[j].tally
          /\ r.aborted = run[j].aborted /\ run' = [run EXCEPT ![j] = r]
      BY <1>1, <1>6 DEF Runs, Phases
    <2>2. run'[j] = r /\ job' = [job EXCEPT ![j] = job[j]]
      BY <1>1, <1>6, <2>1, Unmoved DEF MapsOK
    <2> HIDE DEF r
    <2>3. EachInv(j)'
      BY <1>1, <1>2, <1>6, <2>1, <2>2
      DEF EachInv, RunInv, RowInv, CancelInv, AutoInv, AutoRuns, Single, Running, Batch
    <2> QED
      BY <1>1, <1>2, <1>3, <2>1, <2>2, <2>3, RunnerMoves DEF MapsOK, RestOK
  <1> QED
    BY <1>4, <1>5, <1>6 DEF Send

\* The record in hand becomes one of those whose fate is known.
LEMMA CountedFacts ==
  ASSUME NEW tally \in Tallies, Settled(tally) < N, NEW o
  PROVE  LET t == Counted(o, tally)
         IN  /\ t \in Tallies
             /\ Settled(t) = Settled(tally) + 1
             /\ t.replayed + t.parked = tally.replayed + tally.parked + 1
             /\ t.scanned = tally.scanned /\ t.last = tally.last
  <1>1. tally.replayed + 1 \in 0..N /\ tally.parked + 1 \in 0..N
    BY DEF Settled, Tallies
  <1>2. CASE o \in ToPark
    BY <1>1, <1>2 DEF Counted, Settled, Tallies
  <1>3. CASE o \notin ToPark
    BY <1>1, <1>3 DEF Counted, Settled, Tallies
  <1> QED
    BY <1>2, <1>3

\* A record whose fate is known leaves the run ready for the next one.
LEMMA ProgressIInv ==
  ASSUME IInv, NEW j \in Jobs, NEW tally \in Tallies,
         Alive(j, "sending"), ~ Single(j), Progress(j, tally),
         Settled(tally) = Settled(run[j].tally) + 1,
         tally.scanned = run[j].tally.scanned, tally.last = run[j].tally.last,
         \/ /\ tally.replayed + tally.parked = run[j].tally.replayed + run[j].tally.parked
            /\ UNCHANGED <<acked, late>>
         \/ /\ tally.replayed + tally.parked = run[j].tally.replayed + run[j].tally.parked + 1
            /\ acked' = [acked EXCEPT ![j] = @ + 1]
            /\ late' = [late EXCEPT ![j] = IF job[j].status = "cancelled" THEN @ + 1 ELSE @],
         copies' \in [Offsets -> 0..MaxCopies],
         UNCHANGED <<watermark, Runner, faults, visited, redo>>
  PROVE  IInv'
  <1> DEFINE r == [run[j] EXCEPT !.phase = "reading", !.tally = tally]
             w == WithTally(job[j], tally)
  <1>1. /\ job[j] \in JobRows /\ run[j] \in Runs /\ EachInv(j) /\ MapsOK /\ RestOK /\ acked[j] \in 0..N
    BY JobFacts, TypeParts DEF IInv
  <1>2. /\ run[j].phase = "sending" /\ process # "down" /\ ~ job[j].dry /\ Batch(j) /\ late[j] = 0
        /\ acked[j] <= run[j].tally.replayed + run[j].tally.parked
    BY <1>1 DEF Alive, EachInv, RunInv, RowInv, CancelInv, Batch, Single, Running
  <1>3. /\ r \in Runs /\ r.phase = "reading" /\ r.next = run[j].next /\ r.tally = tally
        /\ r.aborted = run[j].aborted
    BY <1>1 DEF Runs, Phases
  <1>4. /\ w \in JobRows /\ w.mode = job[j].mode /\ w.dry = job[j].dry /\ w.status = job[j].status
        /\ w.tally = tally
    BY <1>1 DEF WithTally, JobRows
  <1>5. run' = [run EXCEPT ![j] = r] /\ job' = [job EXCEPT ![j] = w] /\ run'[j] = r /\ job'[j] = w
    BY <1>1 DEF Progress, MapsOK
  <1> HIDE DEF r, w
  <1>6. Settled(tally) = tally.scanned /\ tally.scanned <= run[j].next /\ run[j].next \in 0..N
    BY <1>1, <1>2 DEF EachInv, RunInv, Batch, Runs
  <1>7. acked'[j] <= tally.replayed + tally.parked /\ acked'[j] \in 0..N
    BY <1>1, <1>2, <1>6 DEF MapsOK, Settled, Tallies, Runs
  <1>8. late'[j] \in {0, 1} /\ (late'[j] = 1 => job[j].status = "cancelled")
    BY <1>1, <1>2 DEF MapsOK
  <1>9. /\ acked' \in [Jobs -> 0..N] /\ late' \in [Jobs -> 0..N]
        /\ \A k \in Jobs \ {j} : acked'[k] = acked[k] /\ late'[k] = late[k]
    BY <1>1, <1>7, <1>8 DEF MapsOK
  <1>10. RunInv(j)'
    BY <1>1, <1>2, <1>3, <1>4, <1>5, <1>6 DEF EachInv, RunInv, Single, Batch, Tallies
  <1>11. RowInv(j)'
    BY <1>2, <1>3, <1>4, <1>5, <1>6, <1>7 DEF RowInv, Single, Running, Batch
  <1>12. CancelInv(j)'
    BY <1>1, <1>2, <1>3, <1>4, <1>5, <1>8 DEF EachInv, CancelInv, Single, Running
  <1>13. AutoInv(j)'
    BY <1>1, <1>2, <1>3, <1>4, <1>5 DEF EachInv, AutoInv, AutoRuns, Running
  <1>14. WatermarkCovers'
    BY DEF IInv, WatermarkCovers
  <1> QED
    BY <1>1, <1>2, <1>3, <1>4, <1>5, <1>9, <1>10, <1>11, <1>12, <1>13, <1>14, RunnerMoves
    DEF EachInv, RestOK

LEMMA ArrivesType ==
  ASSUME IInv, NEW o, UNCHANGED copies \/ Arrives(o)
  PROVE  copies' \in [Offsets -> 0..MaxCopies]
  <1>1. copies \in [Offsets -> 0..MaxCopies]
    BY TypeParts DEF IInv, RestOK
  <1> QED
    BY <1>1 DEF Arrives, AtMost

\* There is room for the record in hand in the counters of a batch.
LEMMA HasRoom ==
  ASSUME IInv, NEW j \in Jobs, Alive(j, "sending"), ~ Single(j)
  PROVE  run[j].tally \in Tallies /\ Settled(run[j].tally) < N
  <1>1. run[j] \in Runs /\ RunInv(j)
    BY JobFacts DEF EachInv
  <1> QED
    BY <1>1 DEF Alive, RunInv, Single, Batch, Runs, Settled, Tallies

LEMMA LandsIInv ==
  ASSUME IInv, NEW j \in Jobs, Lands(j)
  PROVE  IInv'
  <1>1. /\ Alive(j, "sending") /\ ~ Single(j) /\ Acknowledged(j)
        /\ Progress(j, Counted(InFlight(j), run[j].tally))
        /\ UNCHANGED <<watermark, Runner, faults, visited, redo>>
    BY DEF Lands, Single
  <1>2. copies' \in [Offsets -> 0..MaxCopies]
    BY <1>1, ArrivesType DEF Acknowledged
  <1> QED
    BY <1>1, <1>2, HasRoom, CountedFacts, ProgressIInv DEF Acknowledged

LEMMA SendErrsIInv ==
  ASSUME IInv, NEW j \in Jobs, SendErrs(j)
  PROVE  IInv'
  <1> DEFINE tally == [run[j].tally EXCEPT !.errors = @ + 1]
  <1>1. /\ Alive(j, "sending") /\ ~ Single(j) /\ Progress(j, tally)
        /\ UNCHANGED <<watermark, Runner, faults, visited, redo, acked, late>>
    BY DEF SendErrs, Single, history
  <1>2. copies' \in [Offsets -> 0..MaxCopies]
    BY ArrivesType DEF SendErrs
  <1>3. /\ tally \in Tallies /\ Settled(tally) = Settled(run[j].tally) + 1
        /\ tally.scanned = run[j].tally.scanned /\ tally.last = run[j].tally.last
        /\ tally.replayed + tally.parked = run[j].tally.replayed + run[j].tally.parked
    <2>1. run[j].tally \in Tallies /\ run[j].tally.errors + 1 \in 0..N
      BY <1>1, HasRoom DEF Settled, Tallies
    <2> QED
      BY <2>1 DEF Settled, Tallies
  <1> QED
    BY <1>1, <1>2, <1>3, ProgressIInv

\* The watermark moves to the last record read, of which the whole past is.
LEMMA ConcludeIInv ==
  ASSUME IInv, NEW j \in Jobs, Conclude(j)
  PROVE  IInv'
  <1> DEFINE r == [run[j] EXCEPT !.phase = "closing"]
             w == WithStatus(job[j], run[j].outcome, run[j].tally)
  <1>1. /\ job[j] \in JobRows /\ run[j] \in Runs /\ EachInv(j) /\ MapsOK /\ RestOK /\ WatermarkCovers
    BY JobFacts, TypeParts DEF IInv
  <1>2. /\ run[j].phase = "leaving" /\ process # "down" /\ ~ Single(j)
        /\ UNCHANGED <<Runner, copies, faults, redo, visited, acked, late>>
    BY <1>1 DEF Conclude, Alive, EachInv, RunInv, history
  <1>3. /\ r \in Runs /\ r.phase = "closing" /\ r.next = run[j].next /\ r.tally = run[j].tally
        /\ r.aborted = run[j].aborted
    BY <1>1 DEF Runs, Phases
  <1>4. /\ w \in JobRows /\ w.mode = job[j].mode /\ w.dry = job[j].dry
        /\ w.status = "cancelled" => job[j].status = "cancelled"
        /\ w.tally \in {job[j].tally, run[j].tally}
    BY <1>1 DEF WithStatus, JobRows, Runs, Statuses, Terminal
  <1>5. run' = [run EXCEPT ![j] = r] /\ job' = [job EXCEPT ![j] = w] /\ run'[j] = r /\ job'[j] = w
    BY <1>1 DEF Conclude, MapsOK
  <1> HIDE DEF r, w
  <1>6. \/ watermark' = watermark
        \/ AutoRuns(j) /\ watermark' = run[j].next - 1 /\ watermark' \in None..(N - 1)
    BY <1>1, <1>2 DEF Conclude, NewWatermark, AutoRuns, Running, EachInv, RunInv, Runs, Tallies
  <1>7. RunInv(j)'
    BY <1>1, <1>2, <1>3, <1>4, <1>5 DEF EachInv, RunInv, Single, Batch
  <1>8. RowInv(j)'
    <2>1. CASE w.tally = job[j].tally
      BY <1>1, <1>2, <1>3, <1>4, <1>5, <2>1 DEF EachInv, RowInv, Single, Running, Batch
    <2>2. CASE w.tally = run[j].tally
      <3>1. Batch(j) => Settled(run[j].tally) = run[j].tally.scanned \/ Settled(run[j].tally) + 1 = run[j].tally.scanned
        BY <1>1 DEF EachInv, RunInv, Settled, Runs, Tallies
      <3> QED
        BY <1>1, <1>2, <1>3, <1>4, <1>5, <2>2, <3>1 DEF EachInv, RowInv, Single, Running, Batch
    <2> QED
      BY <1>4, <2>1, <2>2
  <1>9. CancelInv(j)'
    BY <1>1, <1>2, <1>3, <1>4, <1>5 DEF EachInv, CancelInv, Single, Running
  <1>10. AutoInv(j)'
    BY <1>1, <1>2, <1>3, <1>4, <1>5, <1>6 DEF EachInv, AutoInv, AutoRuns, Running, Runs
  <1>11. WatermarkCovers'
    BY <1>1, <1>2, <1>6 DEF WatermarkCovers, EachInv, AutoInv, Offsets, Runs
  <1> QED
    BY <1>1, <1>2, <1>3, <1>4, <1>5, <1>6, <1>7, <1>8, <1>9, <1>10, <1>11, RunnerMoves
    DEF EachInv, MapsOK, RestOK

LEMMA CloseIInv ==
  ASSUME IInv, NEW j \in Jobs, Close(j)
  PROVE  IInv'
  <1>1. /\ job[j] \in JobRows /\ run[j] \in Runs /\ EachInv(j) /\ MapsOK /\ RestOK /\ WatermarkCovers
    BY JobFacts, TypeParts DEF IInv
  <1>2. /\ run[j].phase = "closing" /\ process # "down"
        /\ UNCHANGED <<watermark, Runner, copies, redo, visited, acked, late>>
        /\ faults' \in 0..MaxFaults
    BY <1>1 DEF Close, Alive, Fault, history, RestOK
  <1>3. PICK w \in {job[j], Failed(job[j])} : job' = [job EXCEPT ![j] = w]
    BY <1>1, Unmoved DEF Close
  <1>4. /\ w \in JobRows /\ w.mode = job[j].mode /\ w.dry = job[j].dry /\ w.tally = job[j].tally
    BY <1>1, <1>3 DEF Failed, WithStatus, JobRows, Statuses, Terminal
  <1>5. NoTally \in Tallies
    BY DEF NoTally, Tallies, None
  <1>6. NoRun \in Runs /\ NoRun.phase = "off" /\ NoRun.next = 0 /\ NoRun.tally = NoTally
    BY <1>5 DEF NoRun, Runs, Phases
  <1>7. run' = [run EXCEPT ![j] = NoRun] /\ run'[j] = NoRun /\ job'[j] = w
    BY <1>1, <1>3 DEF Close, MapsOK
  <1>8. RunInv(j)'
    BY <1>6, <1>7 DEF RunInv, Settled, NoTally
  <1>9. RowInv(j)'
    BY <1>1, <1>2, <1>4, <1>6, <1>7 DEF EachInv, RowInv, Single, Running, Batch
  <1>10. CancelInv(j)'
    BY <1>1, <1>2, <1>4, <1>6, <1>7 DEF EachInv, CancelInv, Single, Running
  <1>11. AutoInv(j)'
    BY <1>1, <1>4, <1>6, <1>7 DEF EachInv, AutoInv, AutoRuns, Running
  <1>12. WatermarkCovers'
    BY <1>1, <1>2 DEF WatermarkCovers
  <1> QED
    BY <1>1, <1>2, <1>3, <1>4, <1>6, <1>7, <1>8, <1>9, <1>10, <1>11, <1>12, RunnerMoves
    DEF EachInv, MapsOK, RestOK

\* The request for a single record writes its row once.
LEMMA FinishIInv ==
  ASSUME IInv, NEW j \in Jobs, NEW tally \in Tallies,
         process # "down", Single(j), Finish(j, tally),
         \/ run[j].phase = "reading" /\ UNCHANGED <<acked, late>>
         \/ /\ run[j].phase = "sending"
            /\ acked' = [acked EXCEPT ![j] = @ + 1]
            /\ late' = [late EXCEPT ![j] = IF job[j].status = "cancelled" THEN @ + 1 ELSE @],
         copies' \in [Offsets -> 0..MaxCopies],
         UNCHANGED <<watermark, Runner, faults, visited, redo>>
  PROVE  IInv'
  <1> DEFINE r == [run[j] EXCEPT !.phase = "closing"]
             w == WithStatus(job[j], "done", tally)
  <1>1. /\ job[j] \in JobRows /\ run[j] \in Runs /\ EachInv(j) /\ MapsOK /\ RestOK /\ WatermarkCovers
    BY JobFacts, TypeParts DEF IInv
  <1>2. /\ r \in Runs /\ r.phase = "closing" /\ r.next = run[j].next /\ r.tally = run[j].tally
        /\ r.aborted = run[j].aborted
    BY <1>1 DEF Runs, Phases
  <1>3. w \in JobRows /\ w.mode = job[j].mode /\ w.dry = job[j].dry
    BY <1>1 DEF WithStatus, JobRows, Statuses, Terminal
  <1>4. run' = [run EXCEPT ![j] = r] /\ job' = [job EXCEPT ![j] = w] /\ run'[j] = r /\ job'[j] = w
    BY <1>1 DEF Finish, MapsOK
  <1> HIDE DEF r, w
  <1>5. late[j] = 0 /\ acked[j] = 0
    BY <1>1 DEF EachInv, CancelInv, RowInv
  <1>6. /\ acked' \in [Jobs -> 0..N] /\ late' \in [Jobs -> 0..N] /\ late'[j] \in {0, 1}
        /\ \A k \in Jobs \ {j} : acked'[k] = acked[k] /\ late'[k] = late[k]
    BY <1>1, <1>5 DEF MapsOK
  <1>7. RunInv(j)'
    BY <1>1, <1>2, <1>3, <1>4 DEF EachInv, RunInv, Single, Batch
  <1>8. RowInv(j)' /\ CancelInv(j)' /\ AutoInv(j)'
    BY <1>2, <1>3, <1>4, <1>6 DEF RowInv, CancelInv, AutoInv, AutoRuns, Single, Batch
  <1>9. WatermarkCovers'
    BY <1>1 DEF WatermarkCovers
  <1> QED
    BY <1>1, <1>2, <1>3, <1>4, <1>6, <1>7, <1>8, <1>9, RunnerMoves
    DEF EachInv, MapsOK, RestOK, Single

LEMMA FetchIInv ==
  ASSUME IInv, NEW j \in Jobs, Fetch(j)
  PROVE  IInv'
  <1> DEFINE o == run[j].next
             t == [NoTally EXCEPT !.scanned = 1, !.parked = IF job[j].dry THEN 0 ELSE 1]
  <1>1. /\ job[j] \in JobRows /\ run[j] \in Runs /\ EachInv(j) /\ MapsOK /\ RestOK /\ WatermarkCovers
    BY JobFacts, TypeParts DEF IInv
  <1>2. /\ run[j].phase = "reading" /\ process # "down" /\ Single(j)
        /\ UNCHANGED <<watermark, Runner, copies, faults>>
        /\ copies' \in [Offsets -> 0..MaxCopies] /\ faults' \in 0..MaxFaults
    BY <1>1 DEF Fetch, Alive, Single, RestOK
  <1>3. ASSUME NEW tally \in Tallies, Finish(j, tally), UNCHANGED history PROVE IInv'
    BY <1>2, <1>3, FinishIInv DEF history
  <1>4. NoTally \in Tallies /\ t \in Tallies
    <2>1. NoTally \in Tallies
      BY NoTallyFacts
    <2>2. ASSUME NEW n \in {0, 1} PROVE [NoTally EXCEPT !.scanned = 1, !.parked = n] \in Tallies
      BY OneRecordTally
    <2> QED
      BY <2>1, <2>2
  <1>5. CASE Throws(j)
    BY <1>2, <1>5, ThrowsFacts, PhaseMoves
  <1>6. CASE /\ Found(o) /\ ~ job[j].dry /\ UNCHANGED <<job, history>>
             /\ run' = [run EXCEPT ![j].phase = "sending", ![j].next = o + 1]
    <2> DEFINE r == [run[j] EXCEPT !.phase = "sending", !.next = o + 1]
    <2>1. o \in 0..N /\ o + 1 \in 0..N
      BY <1>1, <1>6 DEF Found, RestOK, Runs
    <2>2. /\ r \in Runs /\ r.phase = "sending" /\ r.next = o + 1 /\ r.tally = run[j].tally
          /\ r.aborted = run[j].aborted
      BY <1>1, <2>1 DEF Runs, Phases
    <2>3. run' = [run EXCEPT ![j] = r] /\ job' = [job EXCEPT ![j] = job[j]] /\ run'[j] = r
      BY <1>1, <1>6, Unmoved DEF MapsOK
    <2> HIDE DEF r
    <2>4. RunInv(j)'
      BY <1>1, <1>2, <1>6, <2>1, <2>2, <2>3 DEF EachInv, RunInv, Single, Batch, Runs, Tallies
    <2>5. RowInv(j)' /\ CancelInv(j)' /\ AutoInv(j)'
      BY <1>1, <1>2, <1>6, <2>2, <2>3
      DEF EachInv, RowInv, CancelInv, AutoInv, AutoRuns, Single, Running, Batch, history
    <2>6. WatermarkCovers'
      BY <1>1, <1>2, <1>6 DEF WatermarkCovers, history
    <2> QED
      BY <1>1, <1>2, <1>6, <2>2, <2>3, <2>4, <2>5, <2>6, RunnerMoves
      DEF EachInv, MapsOK, RestOK, history
  <1> HIDE DEF t
  <1>7. \/ Finish(j, NoTally) /\ UNCHANGED history
        \/ Finish(j, t) /\ UNCHANGED history
        \/ Throws(j)
        \/ /\ Found(o) /\ ~ job[j].dry /\ UNCHANGED <<job, history>>
           /\ run' = [run EXCEPT ![j].phase = "sending", ![j].next = o + 1]
    BY DEF Fetch, t
  <1> QED
    BY <1>3, <1>4, <1>5, <1>6, <1>7

LEMMA SingleLandsIInv ==
  ASSUME IInv, NEW j \in Jobs, SingleLands(j)
  PROVE  IInv'
  <1> DEFINE t == Counted(InFlight(j), [NoTally EXCEPT !.scanned = 1])
  <1>1. /\ run[j].phase = "sending" /\ process # "down" /\ Single(j)
        /\ UNCHANGED <<watermark, Runner, faults>>
    BY DEF SingleLands, Alive, Single
  <1>2. CASE Acknowledged(j) /\ Finish(j, t) /\ UNCHANGED <<visited, redo>>
    <2>1. [NoTally EXCEPT !.scanned = 1] \in Tallies /\ Settled([NoTally EXCEPT !.scanned = 1]) = 0
      BY DEF NoTally, Tallies, None, Settled
    <2>2. t \in Tallies
      BY <2>1, CountedFacts
    <2>3. copies' \in [Offsets -> 0..MaxCopies]
      BY <1>2, ArrivesType DEF Acknowledged
    <2> QED
      BY <1>1, <1>2, <2>2, <2>3, FinishIInv DEF Acknowledged
  <1>3. CASE (UNCHANGED copies \/ Arrives(InFlight(j))) /\ Throws(j)
    <2>1. copies' \in [Offsets -> 0..MaxCopies] /\ faults' \in 0..MaxFaults
      BY <1>1, <1>3, ArrivesType, TypeParts DEF IInv, RestOK
    <2>2. late[j] = 0
      BY <1>1, JobFacts DEF EachInv, CancelInv
    <2> QED
      BY <1>1, <1>3, <2>1, <2>2, ThrowsFacts, PhaseMoves
  <1> QED
    BY <1>2, <1>3 DEF SingleLands

LEMMA StepIInv ==
  ASSUME IInv, NEW j \in Jobs, Step(j)
  PROVE  IInv'
  BY ConnectIInv, ReadIInv, ReadDryIInv, EndStreamIInv, StreamFailsIInv, SendIInv, LandsIInv,
     SendErrsIInv, ConcludeIInv, CloseIInv, FetchIInv, SingleLandsIInv DEF Step

-----------------------------------------------------------------------------
(* The scheduler and the operator.                                         *)

\* A new job has read and counted nothing, and an automatic one starts behind
\* the watermark.
LEMMA CreateIInv ==
  ASSUME IInv, NEW j \in Jobs, NEW mode \in Modes, NEW dry \in BOOLEAN,
         NEW status \in {"pending", "running"}, NEW from \in 0..N, NEW to \in 0..N,
         NEW max \in {1, N, MaxRecords},
         Create(j, mode, dry, status, from, to, max),
         process # "down",
         mode = "auto" => ~ dry /\ from = FromWatermark /\ ~ TickInFlight,
         UNCHANGED <<watermark, process, depth, environment, copies, faults, visited>>,
         requests' \in 0..MaxRequests, redo' \in 0..MaxCopies
  PROVE  IInv'
  <1> DEFINE w == [mode |-> mode, dry |-> dry, status |-> status, tally |-> NoTally]
             r == [phase |-> "connecting", next |-> from, to |-> to, left |-> max,
                   aborted |-> FALSE, outcome |-> "done", tally |-> NoTally]
  <1>1. MapsOK /\ RestOK /\ WatermarkCovers
    BY TypeParts DEF IInv
  <1>2. NoTally \in Tallies /\ Settled(NoTally) = 0
    BY NoTallyFacts
  <1>3. w \in JobRows /\ r \in Runs
    BY <1>2 DEF JobRows, Runs, Statuses, Phases
  <1>4. /\ job' = [job EXCEPT ![j] = w] /\ run' = [run EXCEPT ![j] = r]
        /\ acked' = [acked EXCEPT ![j] = 0] /\ late' = [late EXCEPT ![j] = 0]
    BY DEF Create
  <1>5. job'[j] = w /\ run'[j] = r /\ acked'[j] = 0 /\ late'[j] = 0
    BY <1>1, <1>4 DEF MapsOK
  <1>6. MapsOK'
    BY <1>1, <1>3, <1>4 DEF MapsOK
  <1>7. RestOK'
    BY <1>1 DEF RestOK, environment
  <1>8. RunInv(j)' /\ RowInv(j)' /\ CancelInv(j)'
    BY <1>2, <1>5 DEF RunInv, RowInv, CancelInv, Single, Running, Batch, NoTally, Settled, None
  <1>9. AutoInv(j)'
    BY <1>1, <1>5 DEF AutoInv, AutoRuns, Running, FromWatermark, RestOK, None, WatermarkCovers, Offsets
  <1>10. /\ \A k \in Jobs \ {j} : /\ run'[k] = run[k] /\ job'[k] = job[k]
                                  /\ acked'[k] = acked[k] /\ late'[k] = late[k]
         /\ AutoRuns(j)' => ~ TickInFlight
    BY <1>1, <1>4, <1>5 DEF MapsOK, AutoRuns
  <1>11. WatermarkCovers'
    BY <1>1 DEF WatermarkCovers
  <1> QED
    BY <1>6, <1>7, <1>8, <1>9, <1>10, <1>11, TypeFromParts, OneJobMoves DEF EachInv

LEMMA StartAutoIInv ==
  ASSUME IInv, NEW j \in Jobs, StartAuto(j)
  PROVE  IInv'
  <1>1. RestOK
    BY TypeParts DEF IInv
  <1>2. FromWatermark \in 0..N /\ N - 1 \in 0..N
    BY <1>1 DEF FromWatermark, RestOK, None
  <1>3. /\ process # "down" /\ ~ TickInFlight
        /\ Create(j, "auto", FALSE, "running", FromWatermark, N - 1, MaxRecords)
        /\ UNCHANGED <<watermark, process, depth, environment, copies, faults, visited>>
        /\ requests' \in 0..MaxRequests /\ redo' \in 0..MaxCopies
    BY <1>1 DEF StartAuto, RestOK
  <1> QED
    BY <1>2, <1>3, CreateIInv DEF Modes

LEMMA RequestedFacts ==
  ASSUME IInv, NEW dry \in BOOLEAN, Requested(dry)
  PROVE  /\ process # "down"
         /\ UNCHANGED <<watermark, process, depth, environment, copies, faults, visited>>
         /\ requests' \in 0..MaxRequests /\ redo' \in 0..MaxCopies
  <1>1. RestOK
    BY TypeParts DEF IInv
  <1> QED
    BY <1>1 DEF Requested, RestOK, AtMost

LEMMA StartBulkIInv ==
  ASSUME IInv, NEW j \in Jobs, StartBulk(j)
  PROVE  IInv'
  <1>1. PICK dry \in BOOLEAN, from \in Offsets, to \in Offsets :
          Create(j, "manual", dry, "running", from, to, N) /\ Requested(dry)
    BY DEF StartBulk
  <1>2. from \in 0..N /\ to \in 0..N
    BY DEF Offsets
  <1> QED
    BY <1>1, <1>2, RequestedFacts, CreateIInv DEF Modes

LEMMA StartSingleIInv ==
  ASSUME IInv, NEW j \in Jobs, StartSingle(j)
  PROVE  IInv'
  <1>1. PICK dry \in BOOLEAN, o \in Offsets :
          Create(j, "single", dry, "pending", o, o, 1) /\ Requested(dry)
    BY DEF StartSingle
  <1>2. o \in 0..N
    BY DEF Offsets
  <1> QED
    BY <1>1, <1>2, RequestedFacts, CreateIInv DEF Modes

LEMMA CancelIInv ==
  ASSUME IInv, NEW j \in Jobs, Cancel(j)
  PROVE  IInv'
  <1> DEFINE w == [job[j] EXCEPT !.status = "cancelled"]
             r == [run[j] EXCEPT !.aborted = @ \/ (run[j].phase # "off" /\ job[j].mode # "single")]
  <1>1. /\ job[j] \in JobRows /\ run[j] \in Runs /\ EachInv(j) /\ MapsOK /\ RestOK /\ WatermarkCovers
    BY JobFacts, TypeParts DEF IInv
  <1>2. /\ w \in JobRows /\ w.mode = job[j].mode /\ w.dry = job[j].dry /\ w.tally = job[j].tally
    BY <1>1 DEF JobRows, Statuses, Terminal
  <1>3. /\ r \in Runs /\ r.phase = run[j].phase /\ r.next = run[j].next /\ r.tally = run[j].tally
        /\ run[j].aborted \/ (run[j].phase # "off" /\ ~ Single(j)) => r.aborted
    BY <1>1 DEF Runs, Single
  <1>4. job' = [job EXCEPT ![j] = w] /\ run' = [run EXCEPT ![j] = r] /\ job'[j] = w /\ run'[j] = r
    BY <1>1 DEF Cancel, MapsOK
  <1> HIDE DEF w, r
  <1>5. UNCHANGED <<watermark, process, depth, environment, copies, requests, faults, history>>
    BY DEF Cancel
  <1>6. MapsOK' /\ RestOK'
    BY <1>1, <1>2, <1>3, <1>4, <1>5 DEF MapsOK, RestOK, environment, history
  <1>7. EachInv(j)'
    BY <1>1, <1>2, <1>3, <1>4, <1>5
    DEF EachInv, RunInv, RowInv, CancelInv, AutoInv, AutoRuns, Single, Running, Batch, history
  <1>8. /\ \A k \in Jobs \ {j} : /\ run'[k] = run[k] /\ job'[k] = job[k]
                                 /\ acked'[k] = acked[k] /\ late'[k] = late[k]
        /\ AutoRuns(j)' => AutoRuns(j)
        /\ process # "down"
    BY <1>1, <1>2, <1>3, <1>4, <1>5 DEF MapsOK, AutoRuns, Running, history, Cancel
  <1>9. WatermarkCovers'
    BY <1>1, <1>5 DEF WatermarkCovers, history
  <1> QED
    BY <1>5, <1>6, <1>7, <1>8, <1>9, TypeFromParts, OneJobMoves DEF history

-----------------------------------------------------------------------------
(* The process and its environment.                                        *)

\* Steps that change no job.
LEMMA NoJobMoves ==
  ASSUME IInv, UNCHANGED <<job, run, watermark, visited, acked, late>>,
         process' = "down" => process = "down", RestOK'
  PROVE  IInv'
  <1>1. MapsOK /\ \A j \in Jobs : EachInv(j)
    BY TypeParts DEF IInv
  <1>2. MapsOK'
    BY <1>1 DEF MapsOK
  <1>3. ASSUME NEW j \in Jobs PROVE EachInv(j)'
    BY <1>1 DEF EachInv, RunInv, RowInv, CancelInv, AutoInv, AutoRuns, Single, Running, Batch
  <1>4. OneAuto' /\ DownIsOff' /\ WatermarkCovers'
    BY DEF IInv, OneAuto, AutoRuns, Running, DownIsOff, WatermarkCovers
  <1> QED
    BY <1>2, <1>3, <1>4, TypeFromParts DEF IInv

LEMMA EnvironmentIInv ==
  ASSUME IInv, Shutdown \/ DeadLetter \/ Probe \/ BreakerChanges \/ UNCHANGED vars
  PROVE  IInv'
  <1>1. RestOK
    BY TypeParts DEF IInv
  <1>2. CASE Shutdown
    BY <1>1, <1>2, NoJobMoves DEF Shutdown, Stop, RestOK, history
  <1>3. CASE DeadLetter
    BY <1>1, <1>3, NoJobMoves DEF DeadLetter, RestOK, history
  <1>4. CASE Probe
    BY <1>1, <1>4, NoJobMoves DEF Probe, RestOK, environment, history, None
  <1>5. CASE BreakerChanges
    BY <1>1, <1>5, NoJobMoves DEF BreakerChanges, RestOK, history
  <1>6. CASE UNCHANGED vars
    BY <1>1, <1>6, NoJobMoves DEF vars, RestOK, environment, history
  <1> QED
    BY <1>2, <1>3, <1>4, <1>5, <1>6

LEMMA CancelAllIInv ==
  ASSUME IInv, CancelAll
  PROVE  IInv'
  <1>1. MapsOK /\ RestOK /\ \A j \in Jobs : EachInv(j) /\ run[j] \in Runs
    BY TypeParts, JobFacts DEF IInv
  <1>2. UNCHANGED <<job, watermark, depth, environment, copies, requests, faults, history>>
    BY DEF CancelAll
  <1> DEFINE a(j) == run[j].aborted \/ (run[j].phase # "off" /\ job[j].mode # "single")
             r(j) == [run[j] EXCEPT !.aborted = a(j)]
  <1>3. ASSUME NEW j \in Jobs
        PROVE  /\ run'[j] \in Runs /\ run'[j].phase = run[j].phase /\ run'[j].next = run[j].next
               /\ run'[j].tally = run[j].tally /\ (run[j].aborted => run'[j].aborted)
    <2>1. run'[j] = r(j)
      BY DEF CancelAll
    <2>2. run[j] \in Runs /\ a(j) \in BOOLEAN
      BY <1>1 DEF Runs
    <2>3. run[j].aborted => a(j)
      OBVIOUS
    <2> HIDE DEF a
    <2> QED
      BY <2>1, <2>2, <2>3 DEF Runs
  <1>4. MapsOK' /\ RestOK'
    <2>1. run' = [j \in Jobs |-> run'[j]]
      BY DEF CancelAll
    <2>2. run' \in [Jobs -> Runs]
      BY <1>3, <2>1
    <2>3. MapsOK'
      BY <1>1, <1>2, <2>2 DEF MapsOK, history
    <2>4. RestOK'
      BY <1>1, <1>2 DEF CancelAll, RestOK, environment, history
    <2> QED
      BY <2>3, <2>4
  <1>5. ASSUME NEW j \in Jobs PROVE EachInv(j)'
    <2>1. RunInv(j)' /\ RowInv(j)'
      BY <1>1, <1>2, <1>3 DEF EachInv, RunInv, RowInv, Single, Running, Batch, history
    <2>2. CancelInv(j)'
      BY <1>1, <1>2, <1>3 DEF EachInv, CancelInv, Single, Running, history
    <2>3. AutoInv(j)'
      BY <1>1, <1>2, <1>3 DEF EachInv, AutoInv, AutoRuns, Running, history
    <2> QED
      BY <2>1, <2>2, <2>3 DEF EachInv
  <1>6. OneAuto' /\ DownIsOff' /\ WatermarkCovers'
    <2>1. OneAuto'
      BY <1>2, <1>3 DEF IInv, OneAuto, AutoRuns, Running
    <2>2. DownIsOff'
      BY DEF CancelAll, DownIsOff
    <2>3. WatermarkCovers'
      BY <1>2 DEF IInv, WatermarkCovers, history
    <2> QED
      BY <2>1, <2>2, <2>3
  <1> QED
    BY <1>4, <1>5, <1>6, TypeFromParts DEF IInv

\* Without runners nothing is in hand, and the rows are as they were.
LEMMA VanishIInv ==
  ASSUME IInv, Vanish, stops' \in 0..MaxStops
  PROVE  IInv'
  <1>1. MapsOK /\ RestOK /\ \A j \in Jobs : EachInv(j)
    BY TypeParts DEF IInv
  <1>2. NoTally \in Tallies /\ Settled(NoTally) = 0
    BY NoTallyFacts
  <1>3. NoRun \in Runs /\ NoRun.phase = "off" /\ NoRun.next = 0 /\ NoRun.tally = NoTally
    BY <1>2 DEF NoRun, Runs, Phases
  <1>4. /\ UNCHANGED <<job, watermark, hi, breakerOpen, requests, faults, visited, acked, late>>
        /\ process' = "down" /\ depth' = None /\ redo' \in 0..MaxCopies
    BY <1>1 DEF Vanish, RestOK, AtMost
  <1>5. \A j \in Jobs : run'[j] = NoRun
    BY DEF Vanish
  <1>6. copies' \in [Offsets -> 0..MaxCopies]
    <2>1. PICK s \in SUBSET {j \in Jobs : run[j].phase = "sending"} :
            copies' = [o \in Offsets |->
                         AtMost(copies[o] + Cardinality({j \in s : InFlight(j) = o}), MaxCopies)]
      BY DEF Vanish
    <2>2. ASSUME NEW o \in Offsets
          PROVE  AtMost(copies[o] + Cardinality({j \in s : InFlight(j) = o}), MaxCopies) \in 0..MaxCopies
      <3>1. IsFiniteSet({j \in s : InFlight(j) = o})
        BY FS_Subset
      <3>2. Cardinality({j \in s : InFlight(j) = o}) \in Nat
        BY <3>1, FS_CardinalityType
      <3>3. copies[o] \in Nat
        BY <1>1 DEF RestOK
      <3> QED
        BY <3>2, <3>3 DEF AtMost
    <2> QED
      BY <2>1, <2>2
  <1>7. MapsOK'
    BY <1>1, <1>3, <1>4 DEF Vanish, MapsOK
  <1>8. RestOK'
    BY <1>1, <1>4, <1>6 DEF RestOK, None
  <1>9. ASSUME NEW j \in Jobs PROVE EachInv(j)'
    <2>1. RunInv(j)'
      BY <1>2, <1>3, <1>5 DEF RunInv, NoTally, None
    <2>2. RowInv(j)' /\ CancelInv(j)' /\ AutoInv(j)'
      BY <1>1, <1>3, <1>4, <1>5
      DEF EachInv, RowInv, CancelInv, AutoInv, AutoRuns, Single, Running, Batch
    <2> QED
      BY <2>1, <2>2 DEF EachInv
  <1>10. OneAuto' /\ DownIsOff' /\ WatermarkCovers'
    BY <1>3, <1>4, <1>5 DEF IInv, OneAuto, AutoRuns, Running, DownIsOff, WatermarkCovers
  <1> QED
    BY <1>7, <1>8, <1>9, <1>10, TypeFromParts DEF IInv

\* A restart finds the rows swept, or none; nothing runs yet.
LEMMA RestartIInv ==
  ASSUME IInv, Restart
  PROVE  IInv'
  <1>1. MapsOK /\ RestOK /\ \A j \in Jobs : /\ EachInv(j) /\ job[j] \in JobRows
                                        /\ ~ Running(j) /\ run[j].tally = NoTally
    BY TypeParts, JobFacts DEF IInv, DownIsOff, Restart
  <1>2. NoTally \in Tallies /\ Settled(NoTally) = 0
    BY NoTallyFacts
  <1>3. NoJob \in JobRows
    BY <1>2 DEF NoJob, JobRows, Modes, Statuses
  <1>4. ASSUME NEW j \in Jobs
        PROVE  /\ Swept(job[j]) \in JobRows /\ Swept(job[j]).mode = job[j].mode
               /\ Swept(job[j]).dry = job[j].dry /\ Swept(job[j]).tally = job[j].tally
    BY <1>1 DEF Swept, JobRows, Statuses, Terminal
  <1>5. /\ UNCHANGED <<run, depth, environment, copies, requests, faults, visited, late>>
        /\ process' = "up" /\ watermark' \in {watermark, None} /\ redo' \in 0..MaxCopies
    BY <1>1 DEF Restart, RestOK, AtMost
  <1>6. MapsOK'
    BY <1>1, <1>3, <1>4, <1>5 DEF Restart, MapsOK
  <1>7. RestOK'
    BY <1>1, <1>5 DEF RestOK, environment, None
  <1>8. ASSUME NEW j \in Jobs PROVE EachInv(j)'
    <2>1. CASE Persistent
      <3>1. job'[j] = Swept(job[j]) /\ acked'[j] = acked[j] /\ watermark' = watermark
        BY <2>1 DEF Restart
      <3> QED
        BY <1>1, <1>4, <1>5, <3>1
        DEF EachInv, RunInv, RowInv, CancelInv, AutoInv, AutoRuns, Single, Running, Batch
    <2>2. CASE ~ Persistent
      <3>1. job'[j] = NoJob /\ acked'[j] = 0
        BY <2>2 DEF Restart
      <3>2. NoJob.mode = "manual" /\ ~ NoJob.dry /\ NoJob.tally = NoTally /\ NoJob.status = "none"
        BY DEF NoJob
      <3>3. RunInv(j)'
        BY <1>1, <1>2, <1>5, <3>1, <3>2 DEF EachInv, RunInv, Single, Running, Batch, NoTally
      <3>4. RowInv(j)' /\ CancelInv(j)' /\ AutoInv(j)'
        BY <1>1, <1>2, <1>5, <3>1, <3>2
        DEF EachInv, RowInv, CancelInv, AutoInv, AutoRuns, Single, Running, Batch, NoTally
      <3> QED
        BY <3>3, <3>4 DEF EachInv
    <2> QED
      BY <2>1, <2>2
  <1>9. OneAuto' /\ DownIsOff'
    BY <1>1, <1>5 DEF OneAuto, AutoRuns, Running, DownIsOff
  <1>10. WatermarkCovers'
    BY <1>1, <1>5 DEF IInv, WatermarkCovers, Offsets, None
  <1> QED
    BY <1>6, <1>7, <1>8, <1>9, <1>10, TypeFromParts DEF IInv

LEMMA NextIInv == IInv /\ [Next]_vars => IInv'
  <1> SUFFICES ASSUME IInv, [Next]_vars PROVE IInv'
    OBVIOUS
  <1>1. ASSUME NEW j \in Jobs, StartAuto(j) \/ StartBulk(j) \/ StartSingle(j) \/ Cancel(j) \/ Step(j)
        PROVE  IInv'
    BY <1>1, StartAutoIInv, StartBulkIInv, StartSingleIInv, CancelIInv, StepIInv
  <1>2. CASE CancelAll
    BY <1>2, CancelAllIInv
  <1>3. CASE Exit \/ Crash
    BY <1>3, VanishIInv, TypeParts DEF Exit, Crash, Stop, IInv, RestOK
  <1>4. CASE Restart
    BY <1>4, RestartIInv
  <1>5. CASE Shutdown \/ DeadLetter \/ Probe \/ BreakerChanges \/ UNCHANGED vars
    BY <1>5, EnvironmentIInv
  <1> QED
    BY <1>1, <1>2, <1>3, <1>4, <1>5 DEF Next

-----------------------------------------------------------------------------
(* What holds always.                                                      *)

\* The invariant holds of every state of the replay.
THEOREM IInvAlways == Spec => []IInv
  BY InitIInv, NextIInv, PTL DEF Spec

\* Rows, runs, counters, offsets and bounds keep their types, whatever is
\* started, cancelled, broken off or restarted.
THEOREM ReplayTypeCorrect == Spec => []TypeOK
  <1>1. IInv => TypeOK
    BY DEF IInv
  <1> QED
    BY <1>1, IInvAlways, PTL

\* Conclude never moves the watermark over a record no automatic job has read,
\* however many jobs overlap and wherever they are broken off.
THEOREM WatermarkCoversHolds == Spec => []WatermarkCovers
  <1>1. IInv => WatermarkCovers
    BY DEF IInv
  <1> QED
    BY <1>1, IInvAlways, PTL

\* After a cancellation at most the record in flight is delivered: the request
\* for a single record has no other, a batch has been aborted.
THEOREM AtMostOneAfterCancelHolds == Spec => []AtMostOneAfterCancel
  <1>1. IInv => AtMostOneAfterCancel
    BY JobFacts DEF EachInv, CancelInv, AtMostOneAfterCancel
  <1> QED
    BY <1>1, IInvAlways, PTL

\* The row of a job, which its runner overwrites after the operator, the sweep
\* and the failures, never forgets a record acknowledged before a cancellation.
THEOREM AcksAreCountedHolds == Spec => []AcksAreCounted
  <1>1. IInv => AcksAreCounted
    <2> SUFFICES ASSUME IInv, NEW j \in Jobs, Batch(j)
                 PROVE  job[j].tally.replayed + job[j].tally.parked >= acked[j] - late[j]
      BY DEF AcksAreCounted
    <2>1. /\ job[j].tally.replayed + job[j].tally.parked >= acked[j]
          /\ job[j].tally.replayed \in Int /\ job[j].tally.parked \in Int
          /\ acked[j] \in Nat /\ late[j] \in Nat
      BY JobFacts DEF EachInv, RowInv, JobRows, Tallies
    <2> QED
      BY <2>1
  <1> QED
    BY <1>1, IInvAlways, PTL

\* The counters of a row add up but for the record on which its run broke off.
THEOREM ScannedIsAccountedForHolds == Spec => []ScannedIsAccountedFor
  <1>1. IInv => ScannedIsAccountedFor
    <2> SUFFICES ASSUME IInv, NEW j \in Jobs, Batch(j)
                 PROVE  LET t == job[j].tally
                            rest == t.scanned - (t.replayed + t.parked + t.errors)
                        IN  \/ rest = 0
                            \/ rest = 1 /\ (run[j].aborted \/ run[j].phase \in {"leaving", "closing", "off"})
      BY DEF ScannedIsAccountedFor
    <2>1. job[j] \in JobRows /\ RowInv(j)
      BY JobFacts DEF EachInv
    <2> QED
      BY <2>1 DEF RowInv, JobRows, Tallies, Settled
  <1> QED
    BY <1>1, IInvAlways, PTL

-----------------------------------------------------------------------------
(* What no step does.                                                      *)

\* Every step of a runner but Conclude leaves the watermark alone.
LEMMA StepsKeepWatermark ==
  ASSUME NEW j \in Jobs, Step(j), ~ Conclude(j)
  PROVE  UNCHANGED watermark
  BY DEF Step, Connect, Read, ReadDry, EndStream, StreamFails, Send, Lands, SendErrs, Close, Fetch,
         SingleLands

\* Conclude writes the last offset that an automatic job read, and that job is
\* ahead of the watermark.
LEMMA ConcludeAdvances ==
  ASSUME IInv, NEW j \in Jobs, Conclude(j)
  PROVE  watermark' >= watermark
  <1>1. watermark \in Int
    BY TypeParts DEF IInv, RestOK, None
  <1>2. CASE job[j].mode = "auto" /\ run[j].tally.last # None
    <2>1. watermark' = run[j].tally.last /\ AutoRuns(j)
      BY <1>2 DEF Conclude, NewWatermark, AutoRuns, Running, Alive
    <2>2. run[j].tally.last = run[j].next - 1 /\ run[j].next > watermark /\ run[j].next \in Int
      BY <1>2, <2>1, JobFacts DEF EachInv, RunInv, AutoInv, Runs
    <2> QED
      BY <1>1, <2>1, <2>2
  <1> QED
    BY <1>1, <1>2 DEF Conclude, NewWatermark

\* Only Conclude moves the watermark, and the SQLite store brings it back after
\* a restart.
THEOREM WatermarkAdvancesHolds == Spec => WatermarkAdvances
  <1>1. IInv /\ [Next]_vars => (Persistent => watermark' >= watermark)
    <2> SUFFICES ASSUME IInv, [Next]_vars, Persistent PROVE watermark' >= watermark
      OBVIOUS
    <2>1. watermark \in Int
      BY TypeParts DEF IInv, RestOK, None
    <2>2. ASSUME NEW j \in Jobs, Conclude(j) PROVE watermark' >= watermark
      BY <2>2, ConcludeAdvances
    <2>3. ASSUME NEW j \in Jobs, StartAuto(j) \/ StartBulk(j) \/ StartSingle(j) \/ Cancel(j)
          PROVE  UNCHANGED watermark
      BY <2>3 DEF StartAuto, StartBulk, StartSingle, Requested, Cancel
    <2>4. CASE Shutdown \/ CancelAll \/ Exit \/ Crash \/ Restart
      BY <2>1, <2>4 DEF Shutdown, CancelAll, Exit, Crash, Vanish, Restart
    <2>5. CASE DeadLetter \/ Probe \/ BreakerChanges \/ UNCHANGED vars
      BY <2>1, <2>5 DEF DeadLetter, Probe, BreakerChanges, vars
    <2> QED
      BY <2>1, <2>2, <2>3, <2>4, <2>5, StepsKeepWatermark DEF Next
  <1> QED
    BY <1>1, IInvAlways, PTL DEF Spec, WatermarkAdvances

\* A terminal row of the SQLite store is closed to every write of a status.
LEMMA TerminalStays ==
  ASSUME Persistent, NEW r \in JobRows, r.status \in Terminal, NEW s, NEW t
  PROVE  /\ WithStatus(r, s, t) = r /\ Failed(r) = r /\ Swept(r) = r
         /\ WithTally(r, t).status = r.status
  BY DEF WithStatus, Failed, WithTally, Swept, JobRows, Terminal

\* Nor does any step of a runner take a terminal status back.
LEMMA StepsAreSticky ==
  ASSUME IInv, Persistent, NEW j \in Jobs, job[j].status \in Terminal,
         NEW k \in Jobs, Step(k)
  PROVE  job'[j].status = job[j].status
  <1>1. job \in [Jobs -> JobRows] /\ job[j] \in JobRows /\ job[k] \in JobRows
    BY TypeParts DEF IInv, MapsOK
  <1>2. ASSUME NEW w, job' = [job EXCEPT ![k] = w], k = j => w.status = job[j].status
        PROVE  job'[j].status = job[j].status
    BY <1>1, <1>2
  <1>3. CASE Connect(k)
    BY <1>1, <1>2, <1>3, TerminalStays DEF Connect
  <1>4. CASE Read(k)
    BY <1>1, <1>2, <1>4, TerminalStays DEF Read
  <1>5. CASE ReadDry(k) \/ EndStream(k) \/ StreamFails(k)
    BY <1>5 DEF ReadDry, EndStream, StreamFails, Throws
  <1>6. CASE Send(k)
    BY <1>1, <1>2, <1>6, TerminalStays DEF Send
  <1>7. CASE Lands(k) \/ SendErrs(k)
    BY <1>1, <1>2, <1>7, TerminalStays DEF Lands, SendErrs, Progress
  <1>8. CASE Conclude(k)
    BY <1>1, <1>2, <1>8, TerminalStays DEF Conclude
  <1>9. CASE Close(k)
    BY <1>1, <1>2, <1>9, TerminalStays DEF Close
  <1>10. CASE Fetch(k)
    BY <1>1, <1>2, <1>10, TerminalStays DEF Fetch, Finish, Throws
  <1>11. CASE SingleLands(k)
    BY <1>1, <1>2, <1>11, TerminalStays DEF SingleLands, Finish, Throws
  <1> QED
    BY <1>3, <1>4, <1>5, <1>6, <1>7, <1>8, <1>9, <1>10, <1>11 DEF Step

\* The operator, the runner and the sweep race for the row of a job, and the
\* first terminal status stays until a new job takes the slot.
THEOREM StatusIsStickyHolds == Spec => StatusIsSticky
  <1> DEFINE Sticky(j) ==
               Persistent /\ job[j].status \in Terminal =>
                 \/ job'[j].status = job[j].status
                 \/ run[j].phase = "off" /\ run'[j].phase = "connecting"
  <1>1. IInv /\ [Next]_vars => \A j \in Jobs : Sticky(j)
    <2> SUFFICES ASSUME IInv, [Next]_vars, Persistent, NEW j \in Jobs, job[j].status \in Terminal
                 PROVE  \/ job'[j].status = job[j].status
                        \/ run[j].phase = "off" /\ run'[j].phase = "connecting"
      OBVIOUS
    <2>1. job \in [Jobs -> JobRows] /\ run \in [Jobs -> Runs] /\ job[j] \in JobRows
      BY TypeParts DEF IInv, MapsOK
    <2>2. ASSUME NEW k \in Jobs, NEW mode, NEW dry, NEW status, NEW from, NEW to, NEW max,
                 Create(k, mode, dry, status, from, to, max)
          PROVE  \/ job'[j].status = job[j].status
                 \/ run[j].phase = "off" /\ run'[j].phase = "connecting"
      BY <2>1, <2>2 DEF Create, Free
    <2>3. ASSUME NEW k \in Jobs, StartAuto(k) \/ StartBulk(k) \/ StartSingle(k)
          PROVE  \/ job'[j].status = job[j].status
                 \/ run[j].phase = "off" /\ run'[j].phase = "connecting"
      BY <2>2, <2>3 DEF StartAuto, StartBulk, StartSingle
    <2>4. ASSUME NEW k \in Jobs, Cancel(k) PROVE job'[j].status = job[j].status
      BY <2>1, <2>4 DEF Cancel
    <2>5. CASE Restart
      BY <2>1, <2>5, TerminalStays DEF Restart
    <2>6. CASE Shutdown \/ CancelAll \/ Exit \/ Crash
      BY <2>6 DEF Shutdown, CancelAll, Exit, Crash, Vanish
    <2>7. CASE DeadLetter \/ Probe \/ BreakerChanges \/ UNCHANGED vars
      BY <2>7 DEF DeadLetter, Probe, BreakerChanges, vars
    <2> QED
      BY <2>3, <2>4, <2>5, <2>6, <2>7, StepsAreSticky DEF Next
  <1> QED
    BY <1>1, IInvAlways, PTL DEF Spec, StatusIsSticky, Sticky

-----------------------------------------------------------------------------
(* Repeats have a cause.                                                   *)

\* An operator's run may still send offset o, or an automatic one has passed it.
Reaches(j, o) ==
  IF run[j].phase \in {"waiting", "sending"} THEN run[j].next - 1 <= o ELSE run[j].next <= o

Claims(j, o) ==
  /\ job[j].mode # "auto" /\ ~ job[j].dry
  /\ run[j].phase \in {"connecting", "reading", "waiting", "sending"}
  /\ Reaches(j, o)

Claimants(o) == {j \in Jobs : Claims(j, o)}

Passed(j, o) == AutoRuns(j) /\ run[j].phase # "closing" /\ ~ Reaches(j, o)

\* An automatic job, present or future, may send o without a new cause.
AutoClaims(o) == o > watermark /\ \A j \in Jobs : ~ Passed(j, o)

AutoShare(o) == IF AutoClaims(o) THEN 1 ELSE 0

\* An automatic run starts after the watermark.
NextInv(j) ==
  AutoRuns(j) /\ run[j].phase # "closing" =>
    IF run[j].tally.last = None
    THEN run[j].next = watermark + 1 /\ run[j].phase \in {"connecting", "reading", "leaving"}
    ELSE run[j].next - 1 > watermark /\ run[j].phase # "connecting"

\* The copies that arrived and those that may still be sent have their causes.
Budget(o) ==
  \/ redo = MaxCopies
  \/ copies[o] + Cardinality(Claimants(o)) + AutoShare(o) <= 1 + redo

CauseInv == (\A j \in Jobs : NextInv(j)) /\ \A o \in Offsets : Budget(o)

\* What a move of job j does to the account of offset o.
Keeps(j, o) == o > watermark /\ Passed(j, o) => Passed(j, o)'

Accounted(j, o) ==
  \/ redo' = MaxCopies
  \/ redo' = redo + 1 /\ copies'[o] <= copies[o] /\ (Claims(j, o)' => Claims(j, o))
  \/ redo' = redo + 1 /\ copies'[o] <= copies[o] /\ Keeps(j, o)
  \/ copies'[o] <= copies[o] /\ (Claims(j, o)' => Claims(j, o)) /\ Keeps(j, o)
  \/ copies'[o] <= copies[o] + 1 /\ Claims(j, o) /\ ~ Claims(j, o)' /\ Keeps(j, o)
  \/ copies'[o] <= copies[o] + 1 /\ (Claims(j, o)' => Claims(j, o)) /\ AutoClaims(o) /\ Passed(j, o)'

Others(j) ==
  \A k \in Jobs \ {j} :
    run'[k] = run[k] /\ job'[k].mode = job[k].mode /\ job'[k].dry = job[k].dry

SameKind(j) == job'[j].mode = job[j].mode /\ job'[j].dry = job[j].dry

\* The types before and after a step, as far as accounts need them.
LEMMA AccountTypes ==
  ASSUME IInv, IInv', NEW o \in Offsets
  PROVE  /\ redo \in 0..MaxCopies /\ redo' \in 0..MaxCopies
         /\ copies[o] \in 0..MaxCopies /\ copies'[o] \in 0..MaxCopies
         /\ watermark \in Int /\ watermark' \in Int /\ o \in Int
         /\ AutoShare(o) \in {0, 1} /\ AutoShare(o)' \in {0, 1}
         /\ Cardinality(Claimants(o)) \in Nat /\ Cardinality(Claimants(o))' \in Nat
  <1>1. /\ redo \in 0..MaxCopies /\ redo' \in 0..MaxCopies
        /\ copies[o] \in 0..MaxCopies /\ copies'[o] \in 0..MaxCopies
        /\ watermark \in Int /\ watermark' \in Int /\ o \in Int
    BY DEF IInv, TypeOK, None, Offsets
  <1>2. Claimants(o) \in SUBSET Jobs /\ Claimants(o)' \in SUBSET Jobs
    BY DEF Claimants
  <1>3. IsFiniteSet(Claimants(o)) /\ IsFiniteSet(Claimants(o)')
    BY <1>2, FS_Subset
  <1>4. Cardinality(Claimants(o)) \in Nat /\ Cardinality(Claimants(o)') \in Nat
    BY <1>3, FS_CardinalityType
  <1> QED
    BY <1>1, <1>4 DEF AutoShare

LEMMA ClaimsShrink ==
  ASSUME NEW o, \A j \in Jobs : Claims(j, o)' => Claims(j, o)
  PROVE  Cardinality(Claimants(o)') <= Cardinality(Claimants(o))
  <1>1. Claimants(o)' \in SUBSET Claimants(o) /\ Claimants(o) \in SUBSET Jobs
    BY DEF Claimants
  <1>2. IsFiniteSet(Claimants(o))
    BY <1>1, FS_Subset
  <1> QED
    BY <1>1, <1>2, FS_Subset

LEMMA ClaimSpent ==
  ASSUME NEW o, NEW j \in Jobs, Claims(j, o), ~ Claims(j, o)',
         \A k \in Jobs : Claims(k, o)' => Claims(k, o)
  PROVE  Cardinality(Claimants(o)') <= Cardinality(Claimants(o)) - 1
  <1> DEFINE S == Claimants(o) \ {j}
  <1>1. /\ Claimants(o)' \in SUBSET S /\ Claimants(o) \in SUBSET Jobs /\ j \in Claimants(o)
    BY DEF Claimants
  <1>2. IsFiniteSet(Claimants(o))
    BY <1>1, FS_Subset
  <1>3. IsFiniteSet(S) /\ Cardinality(S) = Cardinality(Claimants(o)) - 1
    BY <1>1, <1>2, FS_RemoveElement
  <1> HIDE DEF S
  <1>4. Cardinality(Claimants(o)') <= Cardinality(S)
    BY <1>1, <1>3, FS_Subset
  <1> QED
    BY <1>3, <1>4

LEMMA ClaimAdded ==
  ASSUME NEW o, NEW j \in Jobs, \A k \in Jobs \ {j} : Claims(k, o)' => Claims(k, o)
  PROVE  Cardinality(Claimants(o)') <= Cardinality(Claimants(o)) + 1
  <1> DEFINE S == Claimants(o) \cup {j}
  <1>1. /\ Claimants(o)' \in SUBSET S /\ Claimants(o) \in SUBSET Jobs
    BY DEF Claimants
  <1>2. IsFiniteSet(Claimants(o)) /\ Cardinality(Claimants(o)) \in Nat
    BY <1>1, FS_Subset, FS_CardinalityType
  <1>3. IsFiniteSet(S) /\ Cardinality(S) <= Cardinality(Claimants(o)) + 1
    <2>1. /\ IsFiniteSet(S)
          /\ Cardinality(S) = IF j \in Claimants(o) THEN Cardinality(Claimants(o))
                              ELSE Cardinality(Claimants(o)) + 1
      BY <1>2, FS_AddElement
    <2> HIDE DEF S
    <2> QED
      BY <1>2, <2>1
  <1>4. Cardinality(S) \in Nat
    BY <1>3, FS_CardinalityType
  <1> HIDE DEF S
  <1>5. Cardinality(Claimants(o)') <= Cardinality(S) /\ Cardinality(Claimants(o)') \in Nat
    BY <1>1, <1>3, FS_Subset, FS_CardinalityType
  <1> QED
    BY <1>2, <1>3, <1>4, <1>5

\* A move of one job keeps the accounts if it accounts for itself.
LEMMA MoveCause ==
  ASSUME IInv, IInv', CauseInv, NEW j \in Jobs, Others(j),
         redo' >= redo, UNCHANGED watermark, NextInv(j)',
         \A o \in Offsets : Accounted(j, o)
  PROVE  CauseInv'
  <1>1. ASSUME NEW k \in Jobs PROVE NextInv(k)'
    BY DEF Others, CauseInv, NextInv, AutoRuns, Running
  <1>2. ASSUME NEW o \in Offsets PROVE Budget(o)'
    <2>1. \A k \in Jobs \ {j} : Claims(k, o)' <=> Claims(k, o)
      BY DEF Others, Claims, Reaches
    <2>2. \A k \in Jobs \ {j} : Passed(k, o)' <=> Passed(k, o)
      BY DEF Others, Passed, AutoRuns, Running, Reaches
    <2>3. Keeps(j, o) => AutoShare(o)' <= AutoShare(o)
      BY <2>2 DEF Keeps, AutoShare, AutoClaims
    <2>4. AutoClaims(o) /\ Passed(j, o)' => AutoShare(o)' <= AutoShare(o) - 1
      BY DEF AutoShare, AutoClaims
    <2> DEFINE c == Cardinality(Claimants(o))
               d == Cardinality(Claimants(o)')
    <2>5. (Claims(j, o)' => Claims(j, o)) => d <= c
      BY <2>1, ClaimsShrink
    <2>6. Claims(j, o) /\ ~ Claims(j, o)' => d <= c - 1
      BY <2>1, ClaimSpent
    <2>7. d <= c + 1
      BY <2>1, ClaimAdded
    <2>8. c \in Nat /\ d \in Nat /\ Budget(o) /\ Accounted(j, o)
      BY AccountTypes DEF CauseInv
    <2> DEFINE before == copies[o] + c + AutoShare(o)
               after == copies'[o] + d + AutoShare(o)'
    <2>9. \/ redo' = MaxCopies
          \/ after - before <= redo' - redo
      <3> HIDE DEF c, d
      <3> QED
        BY <2>3, <2>4, <2>5, <2>6, <2>7, <2>8, AccountTypes DEF Accounted
    <2>10. before \in Int /\ after \in Int
      <3> HIDE DEF c, d
      <3> QED
        BY <2>8, AccountTypes
    <2>11. redo = MaxCopies \/ before <= 1 + redo
      BY <2>8 DEF Budget
    <2>12. redo' = MaxCopies \/ after <= 1 + redo'
      <3> HIDE DEF before, after
      <3> QED
        BY <2>9, <2>10, <2>11, AccountTypes
    <2> QED
      BY <2>12 DEF Budget
  <1> QED
    BY <1>1, <1>2 DEF CauseInv

LEMMA KindStays ==
  ASSUME NEW row \in JobRows, NEW s, NEW t
  PROVE  /\ WithStatus(row, s, t).mode = row.mode /\ WithStatus(row, s, t).dry = row.dry
         /\ WithTally(row, t).mode = row.mode /\ WithTally(row, t).dry = row.dry
         /\ Failed(row).mode = row.mode /\ Failed(row).dry = row.dry
         /\ Swept(row).mode = row.mode /\ Swept(row).dry = row.dry
  BY DEF WithStatus, WithTally, Failed, Swept, JobRows

\* A step of one job, which leaves r and w for run and row.
LEMMA OthersHold ==
  ASSUME IInv, NEW j \in Jobs, NEW r, NEW w,
         run' = [run EXCEPT ![j] = r], job' = [job EXCEPT ![j] = w],
         w.mode = job[j].mode, w.dry = job[j].dry
  PROVE  Others(j) /\ SameKind(j) /\ run'[j] = r
  <1>1. MapsOK
    BY TypeParts DEF IInv
  <1> QED
    BY <1>1 DEF MapsOK, Others, SameKind

\* A run changes phase and reads nothing.
LEMMA PhaseCause ==
  ASSUME IInv, IInv', CauseInv, NEW j \in Jobs, Others(j), SameKind(j),
         UNCHANGED <<watermark, copies, redo>>,
         run'[j].next = run[j].next, run'[j].tally = run[j].tally,
         \/ run'[j].phase = run[j].phase
         \/ run[j].phase = "connecting" /\ run'[j].phase \in {"reading", "off"}
         \/ run[j].phase \in {"reading", "waiting"} /\ run'[j].phase = "leaving"
         \/ run[j].phase = "waiting" /\ run'[j].phase = "sending"
  PROVE  CauseInv'
  <1>1. NextInv(j) /\ run[j].next \in Int /\ watermark \in Int /\ redo \in Int
    BY JobFacts DEF CauseInv, IInv, TypeOK, None
  <1>2. NextInv(j)'
    BY <1>1 DEF NextInv, AutoRuns, Running, SameKind
  <1>3. ASSUME NEW o \in Offsets PROVE Accounted(j, o)
    <2>1. o \in Int /\ copies[o] \in Int
      BY AccountTypes
    <2>2. Claims(j, o)' => Claims(j, o)
      BY <1>1, <2>1 DEF Claims, Reaches, SameKind
    <2>3. Keeps(j, o)
      BY <1>1, <2>1 DEF Keeps, Passed, AutoRuns, Running, Reaches, NextInv, SameKind
    <2> QED
      BY <2>1, <2>2, <2>3 DEF Accounted
  <1> QED
    BY <1>1, <1>2, <1>3, MoveCause

\* A run reads a record.
LEMMA GetsCause ==
  ASSUME IInv, IInv', CauseInv, NEW j \in Jobs, Others(j), SameKind(j),
         UNCHANGED <<watermark, copies, redo>>,
         run[j].phase = "reading", run'[j].phase \in {"reading", "waiting"},
         run'[j].next = run[j].next + 1, run'[j].tally.last = run[j].next
  PROVE  CauseInv'
  <1>1. /\ AutoInv(j) /\ run[j].next \in 0..N /\ watermark \in Int /\ redo \in Int
    BY JobFacts DEF IInv, TypeOK, None, EachInv
  <1>2. NextInv(j)'
    BY <1>1 DEF NextInv, AutoInv, AutoRuns, Running, SameKind, None
  <1>3. ASSUME NEW o \in Offsets PROVE Accounted(j, o)
    <2>1. o \in Int /\ copies[o] \in Int
      BY AccountTypes
    <2>2. Claims(j, o)' => Claims(j, o)
      BY <1>1, <2>1 DEF Claims, Reaches, SameKind
    <2>3. Keeps(j, o)
      BY <1>1, <2>1 DEF Keeps, Passed, AutoRuns, Running, Reaches, SameKind
    <2> QED
      BY <2>1, <2>2, <2>3 DEF Accounted
  <1> QED
    BY <1>1, <1>2, <1>3, MoveCause

\* What is in flight arrives, or not.
MayArrive(j) == UNCHANGED copies \/ Arrives(InFlight(j))

LEMMA ArrivalFacts ==
  ASSUME IInv, IInv', NEW j \in Jobs, MayArrive(j), NEW o \in Offsets
  PROVE  copies'[o] <= copies[o] + 1 /\ (o # run[j].next - 1 => copies'[o] = copies[o])
  <1>1. copies \in [Offsets -> 0..MaxCopies]
    BY DEF IInv, TypeOK
  <1> QED
    BY <1>1 DEF MayArrive, Arrives, AtMost, InFlight

\* A batch has a send behind it and reads on.
LEMMA LandsCause ==
  ASSUME IInv, IInv', CauseInv, NEW j \in Jobs, Others(j), SameKind(j),
         UNCHANGED <<watermark, redo>>, MayArrive(j),
         run[j].phase = "sending", run'[j].phase = "reading",
         run'[j].next = run[j].next, run'[j].tally.last = run[j].tally.last
  PROVE  CauseInv'
  <1>1. /\ NextInv(j) /\ RunInv(j) /\ OneAuto /\ run[j].next \in 0..N /\ watermark \in Int
        /\ redo \in Int
    BY JobFacts DEF IInv, TypeOK, None, EachInv, CauseInv
  <1>2. NextInv(j)'
    BY <1>1 DEF NextInv, AutoRuns, Running, SameKind
  <1>3. ASSUME NEW o \in Offsets PROVE Accounted(j, o)
    <2>1. o \in Int /\ copies[o] \in Int /\ copies'[o] \in Int
      BY AccountTypes
    <2>2. Claims(j, o)' => Claims(j, o)
      BY <1>1, <2>1 DEF Claims, Reaches, SameKind
    <2>3. Keeps(j, o)
      BY <1>1, <2>1 DEF Keeps, Passed, AutoRuns, Running, Reaches, SameKind
    <2>4. CASE o # run[j].next - 1
      BY <2>1, <2>2, <2>3, <2>4, ArrivalFacts DEF Accounted
    <2>5. CASE o = run[j].next - 1 /\ job[j].mode # "auto"
      <3>1. Claims(j, o) /\ ~ Claims(j, o)'
        BY <1>1, <2>1, <2>5 DEF Claims, Reaches, RunInv
      <3> QED
        BY <2>3, <3>1, ArrivalFacts DEF Accounted
    <2>6. CASE o = run[j].next - 1 /\ job[j].mode = "auto"
      <3>1. AutoRuns(j) /\ Reaches(j, o) /\ o > watermark
        BY <1>1, <2>1, <2>6 DEF AutoRuns, Running, Reaches, NextInv
      <3>2. AutoClaims(o)
        BY <1>1, <3>1 DEF AutoClaims, Passed, OneAuto
      <3>3. Passed(j, o)'
        BY <1>1, <2>1, <2>6 DEF Passed, AutoRuns, Running, Reaches, SameKind
      <3> QED
        BY <2>2, <3>2, <3>3, ArrivalFacts DEF Accounted
    <2> QED
      BY <2>4, <2>5, <2>6
  <1> QED
    BY <1>1, <1>2, <1>3, MoveCause

\* A run has read and sent its last.  One that is broken off is a cause.
LEMMA EndsCause ==
  ASSUME IInv, IInv', CauseInv, NEW j \in Jobs, Others(j), SameKind(j),
         UNCHANGED watermark,
         run'[j].phase \in {"closing", "off"},
         \/ /\ redo' = redo /\ (job[j].mode # "auto" \/ run[j].phase = "closing")
            /\ UNCHANGED copies \/ (MayArrive(j) /\ Single(j) /\ run[j].phase = "sending")
         \/ redo' = AtMost(redo + 1, MaxCopies) /\ UNCHANGED copies
  PROVE  CauseInv'
  <1>1. /\ redo \in 0..MaxCopies /\ redo' \in 0..MaxCopies /\ RunInv(j) /\ run[j].next \in 0..N
    BY JobFacts DEF IInv, TypeOK, EachInv
  <1>2. redo' >= redo
    BY <1>1 DEF AtMost
  <1>3. NextInv(j)'
    BY DEF NextInv, AutoRuns, Running
  <1>4. ASSUME NEW o \in Offsets PROVE Accounted(j, o)
    <2>1. o \in Int /\ copies[o] \in Int /\ copies'[o] \in Int
      BY AccountTypes
    <2>2. ~ Claims(j, o)'
      BY DEF Claims
    <2>3. CASE redo' = AtMost(redo + 1, MaxCopies) /\ UNCHANGED copies
      <3>1. redo' = MaxCopies \/ redo' = redo + 1
        BY <1>1, <2>3 DEF AtMost
      <3> QED
        BY <2>1, <2>2, <2>3, <3>1 DEF Accounted
    <2>4. CASE /\ redo' = redo /\ (job[j].mode # "auto" \/ run[j].phase = "closing")
               /\ UNCHANGED copies \/ (MayArrive(j) /\ Single(j) /\ run[j].phase = "sending")
      <3>1. Keeps(j, o)
        BY <2>4 DEF Keeps, Passed, AutoRuns
      <3>2. CASE copies'[o] = copies[o]
        BY <2>1, <2>2, <3>1, <3>2 DEF Accounted
      <3>3. CASE copies'[o] # copies[o]
        <4>1. /\ Single(j) /\ run[j].phase = "sending"
              /\ o = run[j].next - 1 /\ copies'[o] <= copies[o] + 1
          BY <2>4, <3>3, ArrivalFacts
        <4>2. Claims(j, o)
          BY <1>1, <2>1, <4>1 DEF Claims, Reaches, RunInv, Single
        <4> QED
          BY <2>2, <3>1, <4>1, <4>2 DEF Accounted
      <3> QED
        BY <3>2, <3>3
    <2> QED
      BY <2>3, <2>4
  <1> QED
    BY <1>1, <1>2, <1>3, <1>4, MoveCause

\* An automatic job takes the watermark to where it has come.
LEMMA ConcludeCause ==
  ASSUME IInv, IInv', CauseInv, NEW j \in Jobs, Conclude(j)
  PROVE  CauseInv'
  <1>1. /\ job[j] \in JobRows /\ run[j] \in Runs /\ RunInv(j) /\ AutoInv(j) /\ NextInv(j)
        /\ OneAuto /\ watermark \in Int
    BY JobFacts DEF IInv, TypeOK, None, EachInv, CauseInv
  <1>2. /\ Others(j) /\ SameKind(j) /\ run'[j] = [run[j] EXCEPT !.phase = "closing"]
        /\ run[j].phase = "leaving" /\ watermark' = NewWatermark(j)
        /\ UNCHANGED <<copies, redo>>
    <2>1. Others(j) /\ SameKind(j) /\ run'[j] = [run[j] EXCEPT !.phase = "closing"]
      <3> DEFINE w == WithStatus(job[j], run[j].outcome, run[j].tally)
                 r == [run[j] EXCEPT !.phase = "closing"]
      <3>1. run' = [run EXCEPT ![j] = r] /\ job' = [job EXCEPT ![j] = w]
        BY DEF Conclude
      <3>2. w.mode = job[j].mode /\ w.dry = job[j].dry
        BY <1>1, KindStays
      <3> HIDE DEF w, r
      <3>3. Others(j) /\ SameKind(j) /\ run'[j] = r
        BY <3>1, <3>2, OthersHold
      <3> QED
        BY <3>3 DEF r
    <2> QED
      BY <2>1 DEF Conclude, Alive, history
  <1>3. run'[j].phase = "closing"
    BY <1>1, <1>2 DEF Runs
  <1>4. ASSUME NEW k \in Jobs PROVE NextInv(k)'
    <2>1. CASE k = j
      BY <1>3, <2>1 DEF NextInv
    <2>2. CASE k # j /\ AutoRuns(k)
      <3>1. watermark' = watermark
        BY <1>1, <1>2, <2>2 DEF OneAuto, AutoRuns, Running, NewWatermark
      <3> QED
        BY <1>2, <2>2, <3>1 DEF Others, CauseInv, NextInv, AutoRuns, Running
    <2>3. CASE k # j /\ ~ AutoRuns(k)
      BY <1>2, <2>3 DEF Others, NextInv, AutoRuns, Running
    <2> QED
      BY <2>1, <2>2, <2>3
  <1>5. ASSUME NEW o \in Offsets PROVE Budget(o)'
    <2>1. /\ o \in Int /\ watermark' \in Int
          /\ AutoShare(o) \in {0, 1} /\ AutoShare(o)' \in {0, 1}
          /\ Cardinality(Claimants(o)) \in Nat /\ Cardinality(Claimants(o))' \in Nat
      BY AccountTypes
    <2>2. \A k \in Jobs : Claims(k, o)' => Claims(k, o)
      BY <1>2, <1>3 DEF Claims, Others, Reaches
    <2>3. Cardinality(Claimants(o)') <= Cardinality(Claimants(o))
      BY <2>2, ClaimsShrink
    <2>4. AutoClaims(o)' => AutoClaims(o)
      <3> SUFFICES ASSUME AutoClaims(o)' PROVE AutoClaims(o)
        OBVIOUS
      <3>1. o > watermark' /\ \A k \in Jobs \ {j} : ~ Passed(k, o)
        BY <1>2 DEF AutoClaims, Passed, Others, AutoRuns, Running, Reaches
      <3>2. o > watermark /\ ~ Passed(j, o)
        BY <1>1, <1>2, <2>1, <3>1
        DEF NewWatermark, Passed, AutoRuns, Running, Reaches, NextInv, RunInv, AutoInv, Runs, None
      <3> QED
        BY <3>1, <3>2 DEF AutoClaims
    <2>5. Budget(o)
      BY DEF CauseInv
    <2>6. redo \in Int /\ copies[o] \in Int
      BY AccountTypes
    <2> QED
      BY <1>2, <2>1, <2>3, <2>4, <2>5, <2>6 DEF Budget, AutoShare
  <1> QED
    BY <1>4, <1>5 DEF CauseInv

LEMMA BatchStepCause ==
  ASSUME IInv, IInv', CauseInv, NEW j \in Jobs,
         Connect(j) \/ ReadDry(j) \/ Read(j) \/ EndStream(j) \/ Send(j) \/ Lands(j) \/ SendErrs(j)
  PROVE  CauseInv'
  <1>1. /\ job[j] \in JobRows /\ run[j] \in Runs /\ job = [job EXCEPT ![j] = job[j]] /\ RunInv(j)
    BY JobFacts, Unmoved DEF EachInv
  <1>2. ASSUME NEW phase, NEW outcome, NEW w, w.mode = job[j].mode, w.dry = job[j].dry,
               \/ run' = [run EXCEPT ![j].phase = phase]
               \/ run' = [run EXCEPT ![j].phase = phase, ![j].outcome = outcome],
               job' = [job EXCEPT ![j] = w]
        PROVE  /\ Others(j) /\ SameKind(j) /\ run'[j].phase = phase
               /\ run'[j].next = run[j].next /\ run'[j].tally = run[j].tally
    <2>1. CASE run' = [run EXCEPT ![j].phase = phase]
      <3> DEFINE r == [run[j] EXCEPT !.phase = phase]
      <3>1. run' = [run EXCEPT ![j] = r]
        BY <2>1
      <3>2. r.phase = phase /\ r.next = run[j].next /\ r.tally = run[j].tally
        BY <1>1 DEF Runs
      <3> HIDE DEF r
      <3> QED
        BY <1>2, <3>1, <3>2, OthersHold
    <2>2. CASE run' = [run EXCEPT ![j].phase = phase, ![j].outcome = outcome]
      <3> DEFINE r == [run[j] EXCEPT !.phase = phase, !.outcome = outcome]
      <3>1. run' = [run EXCEPT ![j] = r]
        BY <2>2, Unmoved DEF MapsOK
      <3>2. r.phase = phase /\ r.next = run[j].next /\ r.tally = run[j].tally
        BY <1>1 DEF Runs
      <3> HIDE DEF r
      <3> QED
        BY <1>2, <3>1, <3>2, OthersHold
    <2> QED
      BY <1>2, <2>1, <2>2
  <1>3. CASE Connect(j)
    <2>1. run[j].phase = "connecting" /\ UNCHANGED <<watermark, copies, redo>>
      BY <1>3 DEF Connect, Alive, history
    <2>2. /\ Others(j) /\ SameKind(j) /\ run'[j].phase \in {"reading", "off"}
          /\ run'[j].next = run[j].next /\ run'[j].tally = run[j].tally
      <3>1. PICK phase \in {"reading", "off"}, w \in {job[j], Failed(job[j])} :
              run' = [run EXCEPT ![j].phase = phase] /\ job' = [job EXCEPT ![j] = w]
        BY <1>1, <1>3 DEF Connect
      <3>2. w.mode = job[j].mode /\ w.dry = job[j].dry
        BY <1>1, KindStays
      <3> QED
        BY <1>2, <3>1, <3>2
    <2> QED
      BY <2>1, <2>2, PhaseCause
  <1>4. CASE EndStream(j)
    BY <1>1, <1>2, <1>4, PhaseCause DEF EndStream, Alive, history
  <1>5. CASE Send(j)
    <2>1. run[j].phase = "waiting" /\ UNCHANGED <<watermark, copies, redo>>
      BY <1>5 DEF Send, Alive, history
    <2>2. /\ Others(j) /\ SameKind(j) /\ run'[j].phase \in {"leaving", "sending"}
          /\ run'[j].next = run[j].next /\ run'[j].tally = run[j].tally
      <3>1. PICK phase \in {"leaving", "sending"}, w \in {job[j], WithTally(job[j], run[j].tally)} :
              /\ \/ run' = [run EXCEPT ![j].phase = phase]
                 \/ run' = [run EXCEPT ![j].phase = phase, ![j].outcome = "paused"]
              /\ job' = [job EXCEPT ![j] = w]
        BY <1>1, <1>5 DEF Send
      <3>2. w.mode = job[j].mode /\ w.dry = job[j].dry
        BY <1>1, KindStays
      <3> QED
        BY <1>2, <3>1, <3>2
    <2> QED
      BY <2>1, <2>2, PhaseCause
  <1>6. CASE ReadDry(j) \/ Read(j)
    <2>1. /\ Gets(j) /\ run[j].phase = "reading" /\ UNCHANGED <<watermark, copies, redo>>
      BY <1>6 DEF ReadDry, Read, Gets, Alive, history
    <2>2. ASSUME NEW phase \in {"reading", "waiting"}, NEW tally, tally.last = run[j].next,
                 NEW w, w.mode = job[j].mode, w.dry = job[j].dry,
                 run' = [run EXCEPT ![j] = Moved(j, phase, tally)], job' = [job EXCEPT ![j] = w]
          PROVE  CauseInv'
      <3>1. Others(j) /\ SameKind(j) /\ run'[j] = Moved(j, phase, tally)
        BY <2>2, OthersHold
      <3>2. /\ Moved(j, phase, tally).phase = phase /\ Moved(j, phase, tally).next = run[j].next + 1
            /\ Moved(j, phase, tally).tally = tally
        BY <1>1 DEF Moved, Runs
      <3> QED
        BY <2>1, <2>2, <3>1, <3>2, GetsCause
    <2>3. Scanned(j).last = run[j].next /\ [Scanned(j) EXCEPT !.parked = @ + 1].last = run[j].next
      BY <2>1, ScannedFacts DEF Tallies
    <2>4. \/ run' = [run EXCEPT ![j] = Moved(j, "reading", Scanned(j))] /\ UNCHANGED job
          \/ /\ run' = [run EXCEPT ![j] = Moved(j, "reading", [Scanned(j) EXCEPT !.parked = @ + 1])]
             /\ job' = [job EXCEPT ![j] = WithTally(@, [Scanned(j) EXCEPT !.parked = @ + 1])]
          \/ run' = [run EXCEPT ![j] = Moved(j, "waiting", Scanned(j))] /\ UNCHANGED job
      BY <1>6 DEF ReadDry, Read
    <2> QED
      BY <1>1, <2>2, <2>3, <2>4, KindStays
  <1>7. CASE Lands(j) \/ SendErrs(j)
    <2>1. /\ run[j].phase = "sending" /\ MayArrive(j) /\ UNCHANGED <<watermark, redo>>
      BY <1>7 DEF Lands, SendErrs, Alive, MayArrive, Acknowledged, history
    <2>2. PICK tally : Progress(j, tally) /\ tally.last = run[j].tally.last
      <3>1. run[j].tally \in Tallies
        BY <1>1 DEF Runs
      <3>2. Counted(InFlight(j), run[j].tally).last = run[j].tally.last
        BY <3>1 DEF Counted, Tallies
      <3>3. [run[j].tally EXCEPT !.errors = @ + 1].last = run[j].tally.last
        BY <3>1 DEF Tallies
      <3> QED
        BY <1>7, <3>2, <3>3 DEF Lands, SendErrs
    <2> DEFINE r == [run[j] EXCEPT !.phase = "reading", !.tally = tally]
    <2>3. run' = [run EXCEPT ![j] = r] /\ job' = [job EXCEPT ![j] = WithTally(job[j], tally)]
      BY <2>2, Unmoved DEF Progress, MapsOK
    <2>4. r.phase = "reading" /\ r.next = run[j].next /\ r.tally = tally
      BY <1>1 DEF Runs
    <2> HIDE DEF r
    <2>5. Others(j) /\ SameKind(j) /\ run'[j] = r
      BY <1>1, <2>3, KindStays, OthersHold
    <2> QED
      BY <2>1, <2>2, <2>4, <2>5, LandsCause
  <1> QED
    BY <1>3, <1>4, <1>5, <1>6, <1>7

\* An exception is a cause if it ends an automatic job.
LEMMA ThrowsCause ==
  ASSUME IInv, IInv', CauseInv, NEW j \in Jobs, Throws(j), UNCHANGED watermark,
         \/ UNCHANGED copies
         \/ MayArrive(j) /\ Single(j) /\ run[j].phase = "sending"
  PROVE  CauseInv'
  <1>1. run[j] \in Runs
    BY JobFacts
  <1> DEFINE r == [run[j] EXCEPT !.phase = "closing", !.outcome = "failed"]
  <1>2. run' = [run EXCEPT ![j] = r] /\ job' = [job EXCEPT ![j] = job[j]]
    BY Unmoved DEF Throws, MapsOK
  <1>3. r.phase = "closing"
    BY <1>1 DEF Runs
  <1> HIDE DEF r
  <1>4. Others(j) /\ SameKind(j) /\ run'[j] = r
    BY <1>2, OthersHold
  <1>5. redo' = IF job[j].mode = "auto" THEN AtMost(redo + 1, MaxCopies) ELSE redo
    BY DEF Throws
  <1> QED
    BY <1>3, <1>4, <1>5, EndsCause DEF Single

LEMMA FinishCause ==
  ASSUME IInv, IInv', CauseInv, NEW j \in Jobs, NEW tally, Finish(j, tally), Single(j),
         UNCHANGED <<watermark, redo>>,
         \/ UNCHANGED copies
         \/ MayArrive(j) /\ run[j].phase = "sending"
  PROVE  CauseInv'
  <1>1. run[j] \in Runs /\ job[j] \in JobRows
    BY JobFacts
  <1> DEFINE r == [run[j] EXCEPT !.phase = "closing"]
             w == WithStatus(job[j], "done", tally)
  <1>2. run' = [run EXCEPT ![j] = r] /\ job' = [job EXCEPT ![j] = w]
    BY DEF Finish
  <1>3. r.phase = "closing" /\ w.mode = job[j].mode /\ w.dry = job[j].dry
    BY <1>1, KindStays DEF Runs
  <1> HIDE DEF r, w
  <1>4. Others(j) /\ SameKind(j) /\ run'[j] = r
    BY <1>2, <1>3, OthersHold
  <1> QED
    BY <1>3, <1>4, EndsCause DEF Single

LEMMA StepCause ==
  ASSUME IInv, IInv', CauseInv, NEW j \in Jobs, Step(j)
  PROVE  CauseInv'
  <1>1. job[j] \in JobRows /\ run[j] \in Runs /\ job = [job EXCEPT ![j] = job[j]]
    BY JobFacts, Unmoved
  <1>2. CASE StreamFails(j)
    BY <1>2, ThrowsCause DEF StreamFails
  <1>3. CASE Close(j)
    <2>1. PICK w \in {job[j], Failed(job[j])} : job' = [job EXCEPT ![j] = w]
      BY <1>1, <1>3 DEF Close
    <2>2. w.mode = job[j].mode /\ w.dry = job[j].dry
      BY <1>1, KindStays
    <2>3. /\ run' = [run EXCEPT ![j] = NoRun] /\ run[j].phase = "closing"
          /\ UNCHANGED <<watermark, copies, redo>>
      BY <1>3 DEF Close, Alive, history
    <2>4. Others(j) /\ SameKind(j) /\ run'[j] = NoRun
      BY <2>1, <2>2, <2>3, OthersHold
    <2>5. run'[j].phase = "off"
      BY <2>4 DEF NoRun
    <2> QED
      BY <2>3, <2>4, <2>5, EndsCause
  <1>4. CASE Fetch(j)
    <2>1. Single(j) /\ run[j].phase = "reading" /\ UNCHANGED <<watermark, copies>>
      BY <1>4 DEF Fetch, Alive, Single
    <2>2. ASSUME NEW tally, Finish(j, tally), UNCHANGED history PROVE CauseInv'
      BY <2>1, <2>2, FinishCause DEF history
    <2>3. CASE Throws(j)
      BY <2>1, <2>3, ThrowsCause
    <2>4. CASE /\ run' = [run EXCEPT ![j].phase = "sending", ![j].next = run[j].next + 1]
               /\ UNCHANGED <<job, history>>
      <3> DEFINE r == [run[j] EXCEPT !.phase = "sending", !.next = run[j].next + 1]
      <3>1. run' = [run EXCEPT ![j] = r] /\ job' = [job EXCEPT ![j] = job[j]]
        BY <2>4, Unmoved DEF MapsOK
      <3>2. r.phase = "sending" /\ r.next = run[j].next + 1
        BY <1>1 DEF Runs
      <3> HIDE DEF r
      <3>3. Others(j) /\ SameKind(j) /\ run'[j] = r
        BY <3>1, OthersHold
      <3>4. NextInv(j)'
        BY <2>1, <3>3 DEF NextInv, AutoRuns, Single, SameKind
      <3>5. redo' = redo /\ redo \in Int
        BY <2>4 DEF history, IInv, TypeOK
      <3>6. ASSUME NEW o \in Offsets PROVE Accounted(j, o)
        <4>1. o \in Int /\ copies[o] \in Int /\ run[j].next \in Int
          BY <1>1, AccountTypes DEF Runs
        <4>2. Claims(j, o)' => Claims(j, o)
          BY <2>1, <3>2, <3>3, <4>1 DEF Claims, Reaches, SameKind
        <4>3. Keeps(j, o)
          BY <2>1 DEF Keeps, Passed, AutoRuns, Single
        <4> QED
          BY <2>1, <4>1, <4>2, <4>3 DEF Accounted
      <3> QED
        BY <2>1, <3>3, <3>4, <3>5, <3>6, MoveCause
    <2> QED
      BY <1>4, <2>2, <2>3, <2>4 DEF Fetch
  <1>5. CASE SingleLands(j)
    <2>1. Single(j) /\ run[j].phase = "sending" /\ UNCHANGED watermark /\ MayArrive(j)
      BY <1>5 DEF SingleLands, Alive, Single, MayArrive, Acknowledged
    <2>2. CASE Throws(j)
      BY <2>1, <2>2, ThrowsCause
    <2>3. ASSUME NEW tally, Finish(j, tally), UNCHANGED redo PROVE CauseInv'
      BY <2>1, <2>3, FinishCause
    <2> QED
      BY <1>5, <2>2, <2>3 DEF SingleLands
  <1> QED
    BY <1>2, <1>3, <1>4, <1>5, BatchStepCause, ConcludeCause DEF Step

\* A new automatic job takes over the claim of the watermark, an operator's is
\* a cause of its own.
LEMMA CreateCause ==
  ASSUME IInv, IInv', CauseInv, NEW j \in Jobs, NEW mode, NEW dry, NEW status, NEW from, NEW to, NEW max,
         Create(j, mode, dry, status, from, to, max),
         UNCHANGED <<watermark, copies>>,
         \/ mode = "auto" /\ from = watermark + 1 /\ UNCHANGED redo
         \/ mode # "auto" /\ dry /\ UNCHANGED redo
         \/ mode # "auto" /\ redo' = AtMost(redo + 1, MaxCopies)
  PROVE  CauseInv'
  <1>1. /\ MapsOK /\ redo \in 0..MaxCopies /\ watermark \in Int
    BY TypeParts DEF IInv, TypeOK, None
  <1> DEFINE r == [phase |-> "connecting", next |-> from, to |-> to, left |-> max,
                   aborted |-> FALSE, outcome |-> "done", tally |-> NoTally]
             w == [mode |-> mode, dry |-> dry, status |-> status, tally |-> NoTally]
  <1>2. /\ r.phase = "connecting" /\ r.next = from /\ r.tally.last = None
        /\ w.mode = mode /\ w.dry = dry
    BY DEF NoTally
  <1>3. run[j].phase = "off" /\ run' = [run EXCEPT ![j] = r] /\ job' = [job EXCEPT ![j] = w]
    BY DEF Create, Free
  <1> HIDE DEF r, w
  <1>4. Others(j) /\ run'[j] = r /\ job'[j] = w
    BY <1>1, <1>3 DEF MapsOK, Others
  <1>5. NextInv(j)'
    BY <1>2, <1>4 DEF NextInv, AutoRuns, Running
  <1>6. redo' >= redo /\ (redo' = redo \/ redo' = MaxCopies \/ redo' = redo + 1)
    BY <1>1 DEF AtMost
  <1>7. ASSUME NEW o \in Offsets PROVE Accounted(j, o)
    <2>1. copies[o] \in Int
      BY AccountTypes
    <2>2. Keeps(j, o)
      BY <1>3 DEF Keeps, Passed, AutoRuns, Running
    <2>3. mode = "auto" \/ dry => ~ Claims(j, o)'
      BY <1>2, <1>4 DEF Claims
    <2>4. redo' = redo => ~ Claims(j, o)' \/ redo' = MaxCopies
      BY <1>1, <2>3 DEF AtMost
    <2> QED
      BY <1>6, <2>1, <2>2, <2>4 DEF Accounted
  <1> QED
    BY <1>4, <1>5, <1>6, <1>7, MoveCause

LEMMA StartsCause ==
  ASSUME IInv, IInv', CauseInv, NEW j \in Jobs, StartAuto(j) \/ StartBulk(j) \/ StartSingle(j)
  PROVE  CauseInv'
  <1>1. watermark \in Int
    BY DEF IInv, TypeOK, None
  <1>2. CASE StartAuto(j)
    <2>1. FromWatermark = watermark + 1
      BY <1>1 DEF FromWatermark, None
    <2> QED
      BY <1>2, <2>1, CreateCause DEF StartAuto
  <1>3. ASSUME NEW mode \in {"manual", "single"}, NEW dry \in BOOLEAN, NEW status, NEW from, NEW to, NEW max,
               Create(j, mode, dry, status, from, to, max), Requested(dry)
        PROVE  CauseInv'
    BY <1>3, CreateCause DEF Requested
  <1> QED
    BY <1>2, <1>3 DEF StartBulk, StartSingle

LEMMA CancelCause ==
  ASSUME IInv, IInv', CauseInv, NEW j \in Jobs, Cancel(j)
  PROVE  CauseInv'
  <1>1. job[j] \in JobRows /\ run[j] \in Runs /\ MapsOK
    BY JobFacts, TypeParts DEF IInv
  <1> DEFINE r == [run[j] EXCEPT !.aborted = @ \/ (run[j].phase # "off" /\ job[j].mode # "single")]
             w == [job[j] EXCEPT !.status = "cancelled"]
  <1>2. run' = [run EXCEPT ![j] = r] /\ job' = [job EXCEPT ![j] = w]
    BY <1>1 DEF Cancel, MapsOK
  <1>3. /\ r.phase = run[j].phase /\ r.next = run[j].next /\ r.tally = run[j].tally
        /\ w.mode = job[j].mode /\ w.dry = job[j].dry
    BY <1>1 DEF Runs, JobRows
  <1> HIDE DEF r, w
  <1>4. Others(j) /\ SameKind(j) /\ run'[j] = r
    BY <1>2, <1>3, OthersHold
  <1>5. UNCHANGED <<watermark, copies, redo>>
    BY DEF Cancel, history
  <1> QED
    BY <1>3, <1>4, <1>5, PhaseCause

\* Steps that read and send nothing, and start and end no run.
LEMMA StillCause ==
  ASSUME IInv, IInv', CauseInv, UNCHANGED <<watermark, copies, redo, job>>,
         \A j \in Jobs : /\ run'[j].phase = run[j].phase /\ run'[j].next = run[j].next
                         /\ run'[j].tally = run[j].tally
  PROVE  CauseInv'
  <1>1. ASSUME NEW j \in Jobs PROVE NextInv(j)'
    BY DEF CauseInv, NextInv, AutoRuns, Running
  <1>2. ASSUME NEW o \in Offsets PROVE Budget(o)'
    <2>1. Claimants(o)' = Claimants(o)
      BY DEF Claimants, Claims, Reaches
    <2>2. AutoShare(o)' = AutoShare(o)
      BY DEF AutoShare, AutoClaims, Passed, AutoRuns, Running, Reaches
    <2> QED
      BY <2>1, <2>2 DEF CauseInv, Budget
  <1> QED
    BY <1>1, <1>2 DEF CauseInv

\* What a vanishing process had in flight was claimed, and what an automatic
\* job has not concluded is a cause.
LEMMA VanishCause ==
  ASSUME IInv, IInv', CauseInv, Vanish
  PROVE  CauseInv'
  <1>1. /\ \A j \in Jobs : run'[j].phase = "off"
        /\ UNCHANGED <<job, watermark>>
        /\ redo' = IF Unconcluded THEN AtMost(redo + 1, MaxCopies) ELSE redo
    BY DEF Vanish, NoRun
  <1>2. PICK s \in SUBSET {j \in Jobs : run[j].phase = "sending"} :
          copies' = [o \in Offsets |->
                       AtMost(copies[o] + Cardinality({j \in s : InFlight(j) = o}), MaxCopies)]
    BY DEF Vanish
  <1>3. ASSUME NEW j \in Jobs PROVE NextInv(j)'
    BY <1>1 DEF NextInv, AutoRuns, Running
  <1>4. ASSUME NEW o \in Offsets PROVE Budget(o)'
    <2> DEFINE F == {j \in s : InFlight(j) = o}
               c == Cardinality(Claimants(o))
    <2>1. /\ redo \in 0..MaxCopies /\ copies[o] \in 0..MaxCopies /\ o \in Int /\ watermark \in Int
          /\ AutoShare(o) \in {0, 1} /\ AutoShare(o)' \in {0, 1} /\ c \in Nat /\ Budget(o)
      BY AccountTypes DEF CauseInv
    <2>2. IsFiniteSet(F) /\ Cardinality(F) \in Nat
      BY FS_Subset, FS_CardinalityType
    <2>3. copies'[o] <= copies[o] + Cardinality(F)
      <3> DEFINE f == Cardinality(F)
      <3>1. copies'[o] = AtMost(copies[o] + f, MaxCopies)
        BY <1>2
      <3>2. f \in Nat
        BY <2>2
      <3> HIDE DEF f
      <3>3. copies'[o] <= copies[o] + f
        BY <2>1, <3>1, <3>2 DEF AtMost
      <3> QED
        BY <3>3 DEF f
    <2>4. Cardinality(Claimants(o)') = 0
      <3>1. Claimants(o)' = {}
        BY <1>1 DEF Claimants, Claims
      <3> QED
        BY <3>1, FS_EmptySet
    <2>5. ASSUME NEW j \in F PROVE j \in Jobs /\ run[j].phase = "sending" /\ run[j].next - 1 = o
      BY <2>5 DEF InFlight
    <2>6. ASSUME NEW j \in F, job[j].mode # "auto" PROVE j \in Claimants(o)
      <3>1. run[j].next \in Int /\ ~ job[j].dry
        BY <2>5, JobFacts DEF Runs, EachInv, RunInv
      <3> QED
        BY <2>1, <2>5, <2>6, <3>1 DEF Claimants, Claims, Reaches
    <2>7. IsFiniteSet(Claimants(o))
      <3>1. Claimants(o) \in SUBSET Jobs
        BY DEF Claimants
      <3> QED
        BY <3>1, FS_Subset
    <2>8. CASE \A j \in F : job[j].mode # "auto"
      <3>1. F \in SUBSET Claimants(o)
        BY <2>6, <2>8
      <3>2. Cardinality(F) <= c
        BY <2>7, <3>1, FS_Subset
      <3>3. ~ Unconcluded => AutoShare(o)' <= AutoShare(o)
        <4> SUFFICES ASSUME ~ Unconcluded, AutoClaims(o)' PROVE AutoClaims(o)
          BY <2>1 DEF AutoShare
        <4>1. o > watermark
          BY <1>1 DEF AutoClaims
        <4>2. ASSUME NEW j \in Jobs, Passed(j, o) PROVE FALSE
          <5>1. run[j].phase = "connecting" /\ NextInv(j) /\ AutoRuns(j) /\ run[j] \in Runs
            BY <4>2, JobFacts DEF Unconcluded, Passed, AutoRuns, Running, Runs, Phases, CauseInv
          <5>2. run[j].next = watermark + 1
            BY <5>1 DEF NextInv
          <5> QED
            BY <2>1, <4>1, <4>2, <5>1, <5>2 DEF Passed, Reaches
        <4> QED
          BY <4>1, <4>2 DEF AutoClaims
      <3> DEFINE f == Cardinality(F)
      <3>4. f \in Nat /\ f <= c /\ copies'[o] <= copies[o] + f /\ copies'[o] \in Int
        BY <2>2, <2>3, <3>2, AccountTypes
      <3> HIDE DEF f, c
      <3>5. redo' = MaxCopies \/ copies'[o] + 0 + AutoShare(o)' <= 1 + redo'
        BY <1>1, <2>1, <3>3, <3>4 DEF Budget, AtMost, c
      <3> QED
        BY <2>4, <3>5 DEF Budget
    <2>9. CASE \E j \in F : job[j].mode = "auto"
      <3>1. PICK a \in F : job[a].mode = "auto"
        BY <2>9
      <3>2. /\ a \in Jobs /\ AutoRuns(a) /\ NextInv(a) /\ OneAuto /\ Reaches(a, o) /\ run[a] \in Runs
            /\ Unconcluded
        BY <2>1, <2>5, <3>1, JobFacts
        DEF AutoRuns, Running, CauseInv, IInv, Reaches, Runs, Unconcluded
      <3>3. o > watermark
        BY <2>1, <2>5, <3>2 DEF NextInv
      <3>4. AutoShare(o) = 1
        BY <3>2, <3>3 DEF AutoShare, AutoClaims, Passed, OneAuto
      <3>5. F \in SUBSET (Claimants(o) \cup {a})
        BY <2>5, <2>6, <3>2 DEF OneAuto, AutoRuns, Running
      <3> DEFINE f == Cardinality(F)
                 S == Claimants(o) \cup {a}
      <3>6. f <= c + 1
        <4>1. IsFiniteSet(S) /\ Cardinality(S) = IF a \in Claimants(o) THEN c ELSE c + 1
          BY <2>7, FS_AddElement
        <4>2. f <= Cardinality(S)
          <5> HIDE DEF S, f
          <5>1. Cardinality(F) <= Cardinality(S)
            BY <3>5, <4>1, FS_Subset DEF S
          <5> QED
            BY <5>1 DEF f
        <4>3. f \in Nat
          BY <2>2
        <4> HIDE DEF S, f, c
        <4> QED
          BY <2>1, <4>1, <4>2, <4>3
      <3>7. f \in Nat /\ copies'[o] <= copies[o] + f /\ copies'[o] \in Int
        BY <2>2, <2>3, AccountTypes
      <3> HIDE DEF f, c
      <3>8. redo' = MaxCopies \/ copies'[o] + 0 + AutoShare(o)' <= 1 + redo'
        BY <1>1, <2>1, <3>2, <3>4, <3>6, <3>7 DEF Budget, AtMost, c
      <3> QED
        BY <2>4, <3>8 DEF Budget
    <2> QED
      BY <2>8, <2>9
  <1> QED
    BY <1>3, <1>4 DEF CauseInv

\* The SQLite store brings the watermark back; losing it is a cause.
LEMMA RestartCause ==
  ASSUME IInv, IInv', CauseInv, Restart
  PROVE  CauseInv'
  <1>1. \A j \in Jobs : run[j].phase = "off" /\ run'[j].phase = "off"
    BY DEF IInv, DownIsOff, Restart, Running
  <1>2. ASSUME NEW j \in Jobs PROVE NextInv(j)'
    BY <1>1 DEF NextInv, AutoRuns, Running
  <1>3. ASSUME NEW o \in Offsets PROVE Budget(o)'
    <2>1. Claimants(o)' = {} /\ Claimants(o) = {}
      BY <1>1 DEF Claimants, Claims
    <2>2. \A j \in Jobs : ~ Passed(j, o) /\ ~ Passed(j, o)'
      BY <1>1 DEF Passed, AutoRuns, Running
    <2>3. Persistent => AutoShare(o)' = AutoShare(o)
      BY <2>2 DEF AutoShare, AutoClaims, Restart
    <2>4. /\ redo \in 0..MaxCopies /\ copies[o] \in 0..MaxCopies
          /\ AutoShare(o) \in {0, 1} /\ AutoShare(o)' \in {0, 1} /\ Budget(o)
      BY AccountTypes DEF CauseInv
    <2>5. Cardinality(Claimants(o)) = 0 /\ Cardinality(Claimants(o)') = 0
      BY <2>1, FS_EmptySet
    <2>6. copies' = copies /\ redo' = IF Persistent THEN redo ELSE AtMost(redo + 1, MaxCopies)
      BY DEF Restart
    <2> QED
      BY <2>3, <2>4, <2>5, <2>6 DEF Budget, AtMost
  <1> QED
    BY <1>2, <1>3 DEF CauseInv

LEMMA NextCause == IInv /\ IInv' /\ CauseInv /\ [Next]_vars => CauseInv'
  <1> SUFFICES ASSUME IInv, IInv', CauseInv, [Next]_vars PROVE CauseInv'
    OBVIOUS
  <1>1. ASSUME NEW j \in Jobs, StartAuto(j) \/ StartBulk(j) \/ StartSingle(j) \/ Cancel(j) \/ Step(j)
        PROVE  CauseInv'
    BY <1>1, StartsCause, CancelCause, StepCause
  <1>2. CASE CancelAll
    <2>1. /\ UNCHANGED <<watermark, copies, redo, job>>
          /\ \A j \in Jobs : run[j] \in Runs
      BY <1>2, JobFacts DEF CancelAll, history
    <2>2. \A j \in Jobs : /\ run'[j].phase = run[j].phase /\ run'[j].next = run[j].next
                          /\ run'[j].tally = run[j].tally
      BY <1>2, <2>1 DEF CancelAll, Runs
    <2> QED
      BY <2>1, <2>2, StillCause
  <1>3. CASE Exit \/ Crash
    BY <1>3, VanishCause DEF Exit, Crash
  <1>4. CASE Restart
    BY <1>4, RestartCause
  <1>5. CASE Shutdown \/ DeadLetter \/ Probe \/ BreakerChanges \/ UNCHANGED vars
    BY <1>5, StillCause DEF Shutdown, DeadLetter, Probe, BreakerChanges, vars, history
  <1> QED
    BY <1>1, <1>2, <1>3, <1>4, <1>5 DEF Next

LEMMA InitCause == Init => CauseInv
  <1> SUFFICES ASSUME Init PROVE CauseInv
    OBVIOUS
  <1>1. \A j \in Jobs : run[j].phase = "off"
    BY DEF Init, NoRun
  <1>2. ASSUME NEW j \in Jobs PROVE NextInv(j)
    BY <1>1 DEF NextInv, AutoRuns, Running
  <1>3. ASSUME NEW o \in Offsets PROVE Budget(o)
    <2>1. Claimants(o) = {}
      BY <1>1 DEF Claimants, Claims
    <2>2. Cardinality(Claimants(o)) = 0
      BY <2>1, FS_EmptySet
    <2> QED
      BY <2>2 DEF Budget, AutoShare, Init
  <1> QED
    BY <1>2, <1>3 DEF CauseInv

\* A record is sent on again only if an operator asked for it, an automatic job
\* could not conclude, or a restart lost the watermark: what Conclude has
\* stored is not sent again by a later automatic job.
THEOREM RepeatsHaveACauseHolds == Spec => []RepeatsHaveACause
  <1>1. IInv /\ CauseInv => RepeatsHaveACause
    <2> SUFFICES ASSUME IInv, CauseInv, NEW o \in Offsets PROVE copies[o] <= 1 + redo
      BY DEF RepeatsHaveACause
    <2>1. Claimants(o) \in SUBSET Jobs
      BY DEF Claimants
    <2>2. Cardinality(Claimants(o)) \in Nat
      BY <2>1, FS_Subset, FS_CardinalityType
    <2>3. Budget(o) /\ copies[o] \in 0..MaxCopies /\ redo \in 0..MaxCopies /\ AutoShare(o) \in {0, 1}
      BY DEF CauseInv, IInv, TypeOK, AutoShare
    <2> QED
      BY <2>2, <2>3 DEF Budget
  <1>2. IInv /\ IInv' /\ CauseInv /\ [Next]_vars => CauseInv'
    BY NextCause
  <1>3. Spec => []CauseInv
    BY <1>2, InitCause, IInvAlways, PTL DEF Spec
  <1> QED
    BY <1>1, <1>3, IInvAlways, PTL

-----------------------------------------------------------------------------
(* The contract.                                                           *)

\* The statuses and the automatic jobs, as the contract sees them.
StatusOf == [j \in Jobs |-> job[j].status]
AutomaticJobs == {j \in Jobs : job[j].mode = "auto"}

Unseen == UNCHANGED <<watermark, visited, copies, redo>>

AtWorkPhase(p) == p \notin {"off", "closing"}

IsLive(row) == row.status \in {"pending", "running"}

\* A run that still works belongs to a job that is live or was cancelled; a live
\* job without a run that works is one whose run is about to fail it.
StatusInv(j) ==
  /\ AtWorkPhase(run[j].phase) =>
       job[j].status \in {IF Single(j) THEN "pending" ELSE "running", "cancelled"}
  /\ Running(j) => job[j].status # "none"
  /\ run[j].phase = "closing" /\ IsLive(job[j]) => run[j].outcome = "failed"
  /\ run[j].phase = "off" /\ IsLive(job[j]) => process = "down"

\* What a step of a runner may write to its run and to its row.
Written(j, r, w) ==
  /\ run' = [run EXCEPT ![j] = r] /\ job' = [job EXCEPT ![j] = w]
  /\ w.mode = job[j].mode
  /\ w.status = job[j].status \/ w.status \in Contract!Successors(job[j].status)
  /\ \/ /\ ~ AtWorkPhase(r.phase)
        /\ IsLive(w) => r.phase = "closing" /\ r.outcome = "failed"
     \/ AtWorkPhase(run[j].phase) /\ AtWorkPhase(r.phase) /\ w.status = job[j].status

LEMMA RowWrites ==
  ASSUME NEW row \in JobRows, NEW s, NEW t
  PROVE  /\ WithStatus(row, s, t).mode = row.mode /\ WithTally(row, t).mode = row.mode
         /\ WithTally(row, t).status = row.status
         /\ WithStatus(row, s, t).status = IF row.status \in Terminal THEN row.status ELSE s
         /\ Failed(row).mode = row.mode
         /\ Failed(row).status = IF row.status \in Terminal THEN row.status ELSE "failed"
  BY DEF WithStatus, WithTally, Failed, JobRows

LEMMA StepWrites ==
  ASSUME IInv, NEW j \in Jobs, StatusInv(j), Step(j)
  PROVE  \E r, w : Written(j, r, w)
  <1>1. /\ job[j] \in JobRows /\ run[j] \in Runs /\ MapsOK
        /\ job = [job EXCEPT ![j] = job[j]] /\ run = [run EXCEPT ![j] = run[j]]
        /\ RunInv(j)
    BY JobFacts, Unmoved, TypeParts DEF EachInv, IInv
  <1>2. ASSUME NEW r, NEW w, run' = [run EXCEPT ![j] = r], job' = [job EXCEPT ![j] = w],
               w.mode = job[j].mode,
               w.status = job[j].status \/ w.status \in Contract!Successors(job[j].status),
               \/ /\ ~ AtWorkPhase(r.phase)
                  /\ IsLive(w) => r.phase = "closing" /\ r.outcome = "failed"
               \/ AtWorkPhase(run[j].phase) /\ AtWorkPhase(r.phase) /\ w.status = job[j].status
        PROVE  \E s, v : Written(j, s, v)
    BY <1>2 DEF Written
  <1>3. \A p, o : /\ [run[j] EXCEPT !.phase = p].phase = p
                  /\ [run[j] EXCEPT !.phase = p, !.outcome = o].phase = p
                  /\ [run[j] EXCEPT !.phase = p, !.outcome = o].outcome = o
    BY <1>1 DEF Runs
  <1>4. \A p, o : /\ [run EXCEPT ![j].phase = p] = [run EXCEPT ![j] = [run[j] EXCEPT !.phase = p]]
                  /\ [run EXCEPT ![j].phase = p, ![j].outcome = o]
                       = [run EXCEPT ![j] = [run[j] EXCEPT !.phase = p, !.outcome = o]]
    BY <1>1, Unmoved DEF MapsOK
  <1> DEFINE row == job[j]
             Kept(w) == w.mode = row.mode /\ w.status = row.status
             Ended(w) == /\ w.mode = row.mode
                         /\ w.status = row.status \/ w.status \in Contract!Successors(row.status)
  <1>5. ASSUME Running(j) PROVE Ended(Failed(row)) /\ ~ IsLive(Failed(row))
    BY <1>1, <1>5, RowWrites DEF IsLive, StatusInv, Contract!Successors, JobRows, Statuses, Terminal
  <1>6. ASSUME NEW t, AtWorkPhase(run[j].phase), ~ Single(j)
        PROVE  /\ Ended(WithStatus(row, run[j].outcome, t))
               /\ ~ IsLive(WithStatus(row, run[j].outcome, t))
    BY <1>1, <1>6, RowWrites DEF IsLive, StatusInv, Contract!Successors, JobRows, Runs, Terminal
  <1>7. ASSUME NEW t, AtWorkPhase(run[j].phase)
        PROVE  Ended(WithStatus(row, "done", t)) /\ ~ IsLive(WithStatus(row, "done", t))
    BY <1>1, <1>7, RowWrites DEF IsLive, StatusInv, Contract!Successors, JobRows, Terminal
  <1>8. \A t : Kept(WithTally(row, t))
    BY <1>1, RowWrites
  <1> HIDE DEF Kept, Ended
  <1>9. Kept(row) /\ \A w : Kept(w) => Ended(w)
    BY DEF Kept, Ended
  <1>10. ASSUME NEW r, NEW w, run' = [run EXCEPT ![j] = r], job' = [job EXCEPT ![j] = w],
                \/ /\ Ended(w) /\ ~ AtWorkPhase(r.phase)
                   /\ IsLive(w) => r.phase = "closing" /\ r.outcome = "failed"
                \/ Kept(w) /\ AtWorkPhase(run[j].phase) /\ AtWorkPhase(r.phase)
         PROVE  \E s, v : Written(j, s, v)
    BY <1>2, <1>9, <1>10 DEF Kept, Ended
  <1>11. ASSUME NEW p, NEW o, NEW w, job' = [job EXCEPT ![j] = w],
                \/ run' = [run EXCEPT ![j].phase = p]
                \/ run' = [run EXCEPT ![j].phase = p, ![j].outcome = o],
                \/ Ended(w) /\ ~ AtWorkPhase(p) /\ ~ IsLive(w)
                \/ Kept(w) /\ AtWorkPhase(run[j].phase) /\ AtWorkPhase(p)
         PROVE  \E s, v : Written(j, s, v)
    <2>1. CASE run' = [run EXCEPT ![j].phase = p]
      <3> DEFINE r == [run[j] EXCEPT !.phase = p]
      <3>1. run' = [run EXCEPT ![j] = r] /\ r.phase = p
        BY <1>3, <1>4, <2>1
      <3> HIDE DEF r
      <3> QED
        BY <1>10, <1>11, <3>1
    <2>2. CASE run' = [run EXCEPT ![j].phase = p, ![j].outcome = o]
      <3> DEFINE r == [run[j] EXCEPT !.phase = p, !.outcome = o]
      <3>1. run' = [run EXCEPT ![j] = r] /\ r.phase = p
        BY <1>3, <1>4, <2>2
      <3> HIDE DEF r
      <3> QED
        BY <1>10, <1>11, <3>1
    <2> QED
      BY <1>11, <2>1, <2>2
  <1>22. ASSUME Throws(j) PROVE \E s, v : Written(j, s, v)
    <2> DEFINE r == [run[j] EXCEPT !.phase = "closing", !.outcome = "failed"]
    <2>1. run' = [run EXCEPT ![j] = r] /\ r.phase = "closing" /\ r.outcome = "failed"
      BY <1>3, <1>4, <1>22 DEF Throws
    <2>2. job' = [job EXCEPT ![j] = row]
      BY <1>1, <1>22 DEF Throws
    <2> HIDE DEF r, row
    <2> QED
      BY <1>9, <1>10, <2>1, <2>2 DEF AtWorkPhase
  <1>12. CASE Connect(j)
    <2>1. AtWorkPhase(run[j].phase) /\ Running(j)
      BY <1>12 DEF Connect, Alive, AtWorkPhase, Running
    <2>2. AtWorkPhase("reading") /\ ~ AtWorkPhase("off")
      BY DEF AtWorkPhase
    <2>3. CASE run' = [run EXCEPT ![j].phase = "reading"] /\ UNCHANGED job
      <3>1. job' = [job EXCEPT ![j] = row]
        BY <1>1, <2>3
      <3> HIDE DEF row
      <3> QED
        BY <1>9, <1>11, <2>1, <2>2, <2>3, <3>1
    <2>4. CASE run' = [run EXCEPT ![j].phase = "off"] /\ job' = [job EXCEPT ![j] = Failed(row)]
      <3> HIDE DEF row
      <3> QED
        BY <1>5, <1>11, <2>1, <2>2, <2>4
    <2> QED
      BY <1>12, <2>3, <2>4 DEF Connect
  <1>13. CASE Read(j) \/ ReadDry(j)
    <2>1. AtWorkPhase(run[j].phase)
      BY <1>13 DEF Read, ReadDry, Gets, Alive, AtWorkPhase
    <2>2. ASSUME NEW p \in {"reading", "waiting"}, NEW t, NEW w \in {row, WithTally(row, t)},
                 run' = [run EXCEPT ![j] = Moved(j, p, t)], job' = [job EXCEPT ![j] = w]
          PROVE  \E s, v : Written(j, s, v)
      <3> DEFINE r == Moved(j, p, t)
      <3>1. AtWorkPhase(r.phase)
        BY <1>1 DEF Moved, Runs, AtWorkPhase
      <3> HIDE DEF r, row
      <3> QED
        BY <1>8, <1>9, <1>10, <2>1, <2>2, <3>1 DEF r
    <2>3. \/ run' = [run EXCEPT ![j] = Moved(j, "reading", Scanned(j))] /\ UNCHANGED job
          \/ /\ run' = [run EXCEPT ![j] = Moved(j, "reading", [Scanned(j) EXCEPT !.parked = @ + 1])]
             /\ job' = [job EXCEPT ![j] = WithTally(@, [Scanned(j) EXCEPT !.parked = @ + 1])]
          \/ run' = [run EXCEPT ![j] = Moved(j, "waiting", Scanned(j))] /\ UNCHANGED job
      BY <1>13 DEF ReadDry, Read
    <2> QED
      BY <1>1, <2>2, <2>3
  <1>14. CASE EndStream(j) \/ Send(j)
    <2>1. AtWorkPhase(run[j].phase)
      BY <1>14 DEF EndStream, Send, Alive, AtWorkPhase
    <2>2. PICK p \in {"leaving", "sending"}, w \in {row, WithTally(row, run[j].tally)} :
            /\ \/ run' = [run EXCEPT ![j].phase = p]
               \/ run' = [run EXCEPT ![j].phase = p, ![j].outcome = "paused"]
            /\ job' = [job EXCEPT ![j] = w]
      BY <1>1, <1>14 DEF EndStream, Send
    <2>3. AtWorkPhase(p)
      BY DEF AtWorkPhase
    <2> HIDE DEF row
    <2> QED
      BY <1>8, <1>9, <1>11, <2>1, <2>2, <2>3
  <1>15. CASE StreamFails(j)
    BY <1>15, <1>22 DEF StreamFails
  <1>16. CASE Lands(j) \/ SendErrs(j)
    <2>1. \E t : Progress(j, t)
      <3>1. CASE Lands(j)
        BY <3>1 DEF Lands
      <3>2. CASE SendErrs(j)
        <4> DEFINE t == [run[j].tally EXCEPT !.errors = @ + 1]
        <4>1. Progress(j, t)
          BY <3>2 DEF SendErrs
        <4> HIDE DEF t
        <4> QED
          BY <4>1
      <3> QED
        BY <1>16, <3>1, <3>2
    <2>5. PICK t : Progress(j, t)
      BY <2>1
    <2>2. run' = [run EXCEPT ![j] = [run[j] EXCEPT !.phase = "reading", !.tally = t]]
      BY <1>1, <2>5 DEF Progress, MapsOK
    <2>3. job' = [job EXCEPT ![j] = WithTally(row, t)]
      BY <1>1, <2>5 DEF Progress, MapsOK
    <2>4. AtWorkPhase(run[j].phase)
      BY <1>16 DEF Lands, SendErrs, Alive, AtWorkPhase
    <2> DEFINE r == [run[j] EXCEPT !.phase = "reading", !.tally = t]
    <2>6. AtWorkPhase(r.phase)
      BY <1>1 DEF Runs, AtWorkPhase
    <2> HIDE DEF row
    <2> QED
      BY <1>8, <1>10, <2>2, <2>3, <2>4, <2>6
  <1>17. CASE Conclude(j)
    <2>1. ~ Single(j) /\ run[j].phase = "leaving"
      BY <1>1, <1>17 DEF Conclude, Alive, RunInv
    <2> QED
      BY <1>6, <1>11, <1>17, <2>1 DEF Conclude, AtWorkPhase
  <1>18. CASE Close(j)
    <2>1. NoRun.phase = "off"
      BY DEF NoRun
    <2>2. Running(j) /\ (run[j].outcome # "failed" => ~ IsLive(row))
      BY <1>18 DEF Close, Alive, Running, StatusInv
    <2>3. run' = [run EXCEPT ![j] = NoRun]
      BY <1>18 DEF Close
    <2>4. \/ job' = [job EXCEPT ![j] = Failed(row)]
          \/ job' = [job EXCEPT ![j] = row] /\ run[j].outcome # "failed"
      BY <1>1, <1>18 DEF Close
    <2> HIDE DEF row
    <2> QED
      BY <1>5, <1>9, <1>10, <2>1, <2>2, <2>3, <2>4 DEF AtWorkPhase
  <1>19. ASSUME NEW t, Finish(j, t), AtWorkPhase(run[j].phase)
         PROVE  \E s, v : Written(j, s, v)
    BY <1>7, <1>11, <1>19 DEF Finish, AtWorkPhase
  <1>20. CASE Fetch(j)
    <2>1. AtWorkPhase(run[j].phase)
      BY <1>20 DEF Fetch, Alive, AtWorkPhase
    <2>2. ASSUME run' = [run EXCEPT ![j].phase = "sending", ![j].next = run[j].next + 1], UNCHANGED job
          PROVE  \E s, v : Written(j, s, v)
      <3>1. run' = [run EXCEPT ![j] = [run[j] EXCEPT !.phase = "sending", !.next = run[j].next + 1]]
        BY <1>1, <2>2 DEF MapsOK
      <3> DEFINE r == [run[j] EXCEPT !.phase = "sending", !.next = run[j].next + 1]
      <3>2. AtWorkPhase(r.phase)
        BY <1>1 DEF Runs, AtWorkPhase
      <3>3. job' = [job EXCEPT ![j] = row]
        BY <1>1, <2>2
      <3> HIDE DEF row
      <3> QED
        BY <1>9, <1>10, <2>1, <3>1, <3>2, <3>3
    <2> QED
      BY <1>19, <1>20, <1>22, <2>1, <2>2 DEF Fetch
  <1>21. CASE SingleLands(j)
    <2>1. AtWorkPhase(run[j].phase)
      BY <1>21 DEF SingleLands, Alive, AtWorkPhase
    <2> QED
      BY <1>19, <1>21, <1>22, <2>1 DEF SingleLands
  <1> QED
    BY <1>12, <1>13, <1>14, <1>15, <1>16, <1>17, <1>18, <1>20, <1>21 DEF Step

AllStatuses == \A j \in Jobs : StatusInv(j)

\* A step of one job, and what it writes.
LEMMA WritesKeepStatus ==
  ASSUME MapsOK, AllStatuses, NEW j \in Jobs, NEW r, NEW w,
         run' = [run EXCEPT ![j] = r], job' = [job EXCEPT ![j] = w],
         UNCHANGED process,
         r.phase = "off" => ~ IsLive(w),
         r.phase = "closing" /\ IsLive(w) => r.outcome = "failed",
         \/ r.phase = "off"
         \/ /\ w.status # "none"
            /\ AtWorkPhase(r.phase) =>
                 w.status \in {IF w.mode = "single" THEN "pending" ELSE "running", "cancelled"}
  PROVE  AllStatuses'
  <1>1. /\ run'[j] = r /\ job'[j] = w
        /\ \A k \in Jobs \ {j} : run'[k] = run[k] /\ job'[k] = job[k]
    BY DEF MapsOK
  <1>2. StatusInv(j)'
    BY <1>1 DEF StatusInv, IsLive, Single, Running, AtWorkPhase
  <1>3. \A k \in Jobs \ {j} : StatusInv(k)'
    BY <1>1 DEF AllStatuses, StatusInv, IsLive, Single, Running
  <1> QED
    BY <1>2, <1>3 DEF AllStatuses

LEMMA InitStatuses == Init => AllStatuses
  BY DEF Init, NoRun, NoJob, AllStatuses, StatusInv, IsLive, Running, AtWorkPhase

LEMMA StepStatuses ==
  ASSUME IInv, AllStatuses, NEW j \in Jobs, Step(j)
  PROVE  AllStatuses'
  <1>1. MapsOK /\ StatusInv(j)
    BY TypeParts DEF IInv, AllStatuses
  <1>2. PICK r, w : Written(j, r, w)
    BY <1>1, StepWrites
  <1>3. Running(j)
    BY DEF Step, Connect, Read, ReadDry, Gets, EndStream, StreamFails, Send, Lands, SendErrs, Conclude,
           Close, Fetch, SingleLands, Alive, Running
  <1>4. w.status # "none"
    BY <1>1, <1>2, <1>3 DEF Written, StatusInv, Contract!Successors
  <1>5. AtWorkPhase(r.phase) =>
          w.status \in {IF w.mode = "single" THEN "pending" ELSE "running", "cancelled"}
    BY <1>1, <1>2 DEF Written, StatusInv, Single
  <1>6. /\ UNCHANGED process
        /\ r.phase = "off" => ~ IsLive(w)
        /\ r.phase = "closing" /\ IsLive(w) => r.outcome = "failed"
    <2>1. UNCHANGED process
      BY DEF Step, Connect, Read, ReadDry, EndStream, StreamFails, Send, Lands, SendErrs, Conclude, Close,
             Fetch, SingleLands, Runner
    <2> QED
      BY <1>2, <2>1 DEF Written, AtWorkPhase
  <1> QED
    BY <1>1, <1>2, <1>4, <1>5, <1>6, WritesKeepStatus DEF Written

LEMMA NextStatuses ==
  ASSUME IInv, AllStatuses, [Next]_vars
  PROVE  AllStatuses'
  <1>1. MapsOK /\ \A j \in Jobs : job[j] \in JobRows /\ run[j] \in Runs
    BY JobFacts, TypeParts DEF IInv
  <1>2. ASSUME NEW j \in Jobs, NEW mode, NEW dry, NEW from, NEW to, NEW max,
               Create(j, mode, dry, IF mode = "single" THEN "pending" ELSE "running", from, to, max),
               UNCHANGED process
        PROVE  AllStatuses'
    <2> DEFINE r == [phase |-> "connecting", next |-> from, to |-> to, left |-> max,
                     aborted |-> FALSE, outcome |-> "done", tally |-> NoTally]
               w == [mode |-> mode, dry |-> dry, tally |-> NoTally,
                     status |-> IF mode = "single" THEN "pending" ELSE "running"]
    <2>1. run' = [run EXCEPT ![j] = r] /\ job' = [job EXCEPT ![j] = w]
      BY <1>2 DEF Create
    <2>2. /\ w.status = (IF w.mode = "single" THEN "pending" ELSE "running") /\ w.status # "none"
          /\ r.phase = "connecting"
      OBVIOUS
    <2> HIDE DEF r, w
    <2> QED
      BY <1>1, <1>2, <2>1, <2>2, WritesKeepStatus
  <1>3. ASSUME NEW j \in Jobs, StartAuto(j) \/ StartBulk(j) \/ StartSingle(j)
        PROVE  AllStatuses'
    <2>1. CASE StartAuto(j)
      <3>1. Create(j, "auto", FALSE, "running", FromWatermark, N - 1, MaxRecords)
        BY <2>1 DEF StartAuto
      <3> QED
        BY <1>2, <2>1, <3>1 DEF StartAuto
    <2>2. CASE StartBulk(j)
      <3>1. PICK dry, from, to : Create(j, "manual", dry, "running", from, to, N)
        BY <2>2 DEF StartBulk
      <3> QED
        BY <1>2, <2>2, <3>1 DEF StartBulk, Requested
    <2>3. CASE StartSingle(j)
      <3>1. PICK dry, o : Create(j, "single", dry, "pending", o, o, 1)
        BY <2>3 DEF StartSingle
      <3> QED
        BY <1>2, <2>3, <3>1 DEF StartSingle, Requested
    <2> QED
      BY <1>3, <2>1, <2>2, <2>3
  <1>4. ASSUME NEW j \in Jobs, Cancel(j) PROVE AllStatuses'
    <2> DEFINE r == [run[j] EXCEPT !.aborted = @ \/ (run[j].phase # "off" /\ job[j].mode # "single")]
               w == [job[j] EXCEPT !.status = "cancelled"]
    <2>1. run' = [run EXCEPT ![j] = r] /\ job' = [job EXCEPT ![j] = w]
      BY <1>1, <1>4 DEF Cancel, MapsOK
    <2>2. w.status = "cancelled" /\ UNCHANGED process
      BY <1>1, <1>4 DEF JobRows, Cancel
    <2> HIDE DEF r, w
    <2> QED
      BY <1>1, <2>1, <2>2, WritesKeepStatus DEF IsLive
  <1>5. CASE CancelAll
    <2>1. /\ UNCHANGED job /\ process # "down"
          /\ \A j \in Jobs : run'[j].phase = run[j].phase /\ run'[j].outcome = run[j].outcome
      BY <1>1, <1>5 DEF CancelAll, Runs
    <2> QED
      BY <2>1 DEF AllStatuses, StatusInv, IsLive, Single, Running
  <1>6. CASE Exit \/ Crash
    BY <1>6 DEF Exit, Crash, Vanish, NoRun, AllStatuses, StatusInv, Running, AtWorkPhase
  <1>7. CASE Restart
    <2>1. \A j \in Jobs : run'[j].phase = "off"
      BY <1>7 DEF Restart, IInv, DownIsOff, Running
    <2>2. \A j \in Jobs : ~ IsLive(job'[j])
      BY <1>1, <1>7 DEF Restart, Swept, NoJob, JobRows, IsLive
    <2> QED
      BY <2>1, <2>2 DEF AllStatuses, StatusInv, IsLive, Running, AtWorkPhase
  <1>8. CASE Shutdown \/ DeadLetter \/ Probe \/ BreakerChanges \/ UNCHANGED vars
    <2>1. UNCHANGED <<run, job>> /\ (process = "down" => process' = "down")
      BY <1>8 DEF Shutdown, DeadLetter, Probe, BreakerChanges, vars
    <2> QED
      BY <2>1 DEF AllStatuses, StatusInv, IsLive, Single, Running
  <1> QED
    BY <1>3, <1>4, <1>5, <1>6, <1>7, <1>8, StepStatuses DEF Next

\* A step of the contract or none.
Promised == Contract!Next \/ UNCHANGED Contract!vars

LEMMA RowMoves ==
  ASSUME MapsOK, NEW j \in Jobs, NEW w, job' = [job EXCEPT ![j] = w]
  PROVE  /\ StatusOf' = [StatusOf EXCEPT ![j] = w.status]
         /\ w.mode = job[j].mode => AutomaticJobs' = AutomaticJobs
         /\ w.status = job[j].status => StatusOf' = StatusOf
  <1>1. job'[j] = w /\ \A k \in Jobs \ {j} : job'[k] = job[k]
    BY DEF MapsOK
  <1>2. StatusOf' = [StatusOf EXCEPT ![j] = w.status]
    <2>1. \A k \in Jobs : job'[k].status = IF k = j THEN w.status ELSE job[k].status
      BY <1>1
    <2> QED
      BY <2>1 DEF StatusOf
  <1>3. w.mode = job[j].mode => AutomaticJobs' = AutomaticJobs
    BY <1>1 DEF AutomaticJobs
  <1>4. w.status = job[j].status => StatusOf' = StatusOf
    <2>1. \A k \in Jobs : w.status = job[j].status => job'[k].status = job[k].status
      BY <1>1
    <2> QED
      BY <2>1 DEF StatusOf
  <1> QED
    BY <1>2, <1>3, <1>4

LEMMA StatusesStay ==
  ASSUME UNCHANGED <<StatusOf, AutomaticJobs>>, Unseen
  PROVE  Promised
  BY DEF Promised, Contract!vars, StatusOf, AutomaticJobs, Unseen

LEMMA OneEnds ==
  ASSUME NEW j \in Jobs, NEW s \in Contract!Successors(StatusOf[j]),
         StatusOf' = [StatusOf EXCEPT ![j] = s], UNCHANGED AutomaticJobs, Unseen
  PROVE  Promised
  <1>1. Contract!End(j)
    BY DEF Contract!End, StatusOf, AutomaticJobs, Unseen
  <1> QED
    BY <1>1 DEF Promised, Contract!Next

\* What a runner writes without moving records on is one ending, or nothing.
LEMMA WrittenIsPromised ==
  ASSUME MapsOK, NEW j \in Jobs, NEW r, NEW w, Written(j, r, w), Unseen
  PROVE  Promised
  <1>1. StatusOf[j] = job[j].status
    BY DEF StatusOf
  <1>2. CASE w.status = job[j].status
    BY <1>2, RowMoves, StatusesStay DEF Written
  <1>3. CASE w.status \in Contract!Successors(job[j].status)
    BY <1>1, <1>3, RowMoves, OneEnds DEF Written
  <1> QED
    BY <1>2, <1>3 DEF Written

\* A run that works belongs to a job that the contract has at work.
LEMMA WorkIsSeen ==
  ASSUME AllStatuses, NEW j \in Jobs, AtWorkPhase(run[j].phase)
  PROVE  Contract!AtWork(j) /\ StatusOf[j] = job[j].status
  BY DEF AllStatuses, StatusInv, Contract!AtWork, Contract!Live, StatusOf

LEMMA ReadIsPromised ==
  ASSUME IInv, AllStatuses, NEW j \in Jobs, Read(j)
  PROVE  Promised
  <1>1. MapsOK /\ job[j] \in JobRows /\ run[j] \in Runs /\ AtWorkPhase(run[j].phase)
    BY JobFacts, TypeParts DEF IInv, Read, Gets, Alive, AtWorkPhase
  <1>2. UNCHANGED <<StatusOf, AutomaticJobs>>
    <2>1. \/ UNCHANGED job
          \/ \E t : job' = [job EXCEPT ![j] = WithTally(job[j], t)]
      <3> DEFINE t == [Scanned(j) EXCEPT !.parked = @ + 1]
      <3>1. job' = [job EXCEPT ![j] = WithTally(job[j], t)] \/ UNCHANGED job
        BY DEF Read
      <3> HIDE DEF t
      <3> QED
        BY <3>1
    <2>2. CASE UNCHANGED job
      BY <2>2 DEF StatusOf, AutomaticJobs
    <2>3. ASSUME NEW t, job' = [job EXCEPT ![j] = WithTally(job[j], t)]
          PROVE  UNCHANGED <<StatusOf, AutomaticJobs>>
      <3>1. WithTally(job[j], t).mode = job[j].mode /\ WithTally(job[j], t).status = job[j].status
        BY <1>1, RowWrites
      <3> QED
        BY <1>1, <2>3, <3>1, RowMoves
    <2> QED
      BY <2>1, <2>2, <2>3
  <1>3. UNCHANGED <<watermark, copies, redo>>
    BY DEF Read
  <1>4. CASE visited' = visited
    BY <1>2, <1>3, <1>4, StatusesStay DEF Unseen
  <1>5. CASE job[j].mode = "auto" /\ visited' = visited \cup {run[j].next}
    <2>1. run[j].next \in Contract!Offsets
      <3>1. run[j].next \in Nat /\ run[j].next < hi /\ hi \in 0..N
        <4>1. run[j].next \in Nat
          BY <1>1 DEF Runs
        <4>2. run[j].next < hi
          BY DEF Read, Gets, HasMore
        <4>3. hi \in 0..N
          BY TypeParts DEF IInv, RestOK
        <4> QED
          BY <4>1, <4>2, <4>3
      <3> QED
        BY <3>1 DEF Contract!Offsets
    <2>2. Contract!Examine(j, run[j].next)
      BY <1>1, <1>2, <1>3, <1>5, WorkIsSeen
      DEF Contract!Examine, StatusOf, AutomaticJobs
    <2> QED
      BY <2>1, <2>2 DEF Promised, Contract!Next
  <1> QED
    BY <1>4, <1>5 DEF Read

\* An arrival of the record in hand, counted up to the bound on copies.
LEMMA ArrivalIsPromised ==
  ASSUME IInv, RepeatsHaveACause', NEW j \in Jobs, run[j].phase = "sending", AllStatuses,
         MayArrive(j), UNCHANGED <<watermark, visited, redo, AutomaticJobs>>,
         \/ UNCHANGED StatusOf
         \/ StatusOf[j] = "pending" /\ StatusOf' = [StatusOf EXCEPT ![j] = "done"]
  PROVE  Promised
  <1>1. copies \in [Offsets -> 0..MaxCopies] /\ redo \in 0..MaxCopies
    BY TypeParts DEF IInv, RestOK
  <1>2. CASE copies' = copies
    <2>1. CASE UNCHANGED StatusOf
      BY <1>2, <2>1, StatusesStay DEF Unseen
    <2>2. CASE StatusOf[j] = "pending" /\ StatusOf' = [StatusOf EXCEPT ![j] = "done"]
      BY <1>2, <2>2, OneEnds DEF Unseen, Contract!Successors
    <2> QED
      BY <2>1, <2>2
  <1>3. CASE copies' # copies
    <2>1. PICK o \in Offsets : copies' = [copies EXCEPT ![o] = AtMost(copies[o] + 1, MaxCopies)]
      <3>1. InFlight(j) \in Offsets
        BY <1>1, <1>3 DEF MayArrive, Arrives
      <3> QED
        BY <1>3, <3>1 DEF MayArrive, Arrives
    <2>2. copies[o] \in 0..MaxCopies /\ copies'[o] = AtMost(copies[o] + 1, MaxCopies)
      BY <1>1, <2>1
    <2>3. copies[o] # MaxCopies
      BY <1>1, <1>3, <2>1 DEF AtMost
    <2>4. copies'[o] = copies[o] + 1 /\ AtMost(copies[o] + 1, MaxCopies) = Contract!OneMore(copies[o])
      BY <2>2, <2>3 DEF AtMost, Contract!OneMore
    <2>5. copies[o] <= redo
      BY <1>1, <2>1, <2>2, <2>4 DEF RepeatsHaveACause
    <2>6. Contract!AtWork(j)
      BY WorkIsSeen DEF AtWorkPhase
    <2>7. copies' = [copies EXCEPT ![o] = Contract!OneMore(copies[o])]
      BY <2>1, <2>4
    <2>8. \/ UNCHANGED [k \in Jobs |-> job[k].status]
          \/ /\ [k \in Jobs |-> job[k].status][j] = "pending"
             /\ [k \in Jobs |-> job[k].status]'
                  = [[k \in Jobs |-> job[k].status] EXCEPT ![j] = "done"]
      BY DEF StatusOf
    <2>9. UNCHANGED {k \in Jobs : job[k].mode = "auto"}
      BY DEF AutomaticJobs
    <2>10. Contract!MoveOn(j, o)
      BY <2>5, <2>6, <2>7, <2>8, <2>9, Zenon DEF Contract!MoveOn
    <2>11. o \in Contract!Offsets
      BY <2>1 DEF Offsets, Contract!Offsets
    <2>12. Contract!Next
      BY <2>10, <2>11 DEF Contract!Next
    <2> QED
      BY <2>12 DEF Promised
  <1> QED
    BY <1>2, <1>3

LEMMA LandsIsPromised ==
  ASSUME IInv, AllStatuses, RepeatsHaveACause', NEW j \in Jobs,
         Lands(j) \/ SendErrs(j) \/ SingleLands(j)
  PROVE  Promised
  <1>1. /\ MapsOK /\ job[j] \in JobRows /\ run[j] \in Runs /\ run[j].phase = "sending" /\ StatusInv(j)
        /\ MayArrive(j) /\ UNCHANGED <<watermark, visited>>
    BY JobFacts, TypeParts
    DEF IInv, AllStatuses, Lands, SendErrs, SingleLands, Alive, MayArrive, Acknowledged, history, Throws
  <1>2. StatusOf[j] = job[j].status
    BY DEF StatusOf
  <1>3. ASSUME NEW w, job' = [job EXCEPT ![j] = w], w.mode = job[j].mode, UNCHANGED redo,
               \/ w.status = job[j].status
               \/ job[j].status = "pending" /\ w.status = "done"
        PROVE  Promised
    BY <1>1, <1>2, <1>3, RowMoves, ArrivalIsPromised
  <1>4. CASE Lands(j) \/ SendErrs(j)
    <2> DEFINE one == Counted(InFlight(j), run[j].tally)
               two == [run[j].tally EXCEPT !.errors = @ + 1]
    <2>1. /\ UNCHANGED redo
          /\ \/ job' = [job EXCEPT ![j] = WithTally(job[j], one)]
             \/ job' = [job EXCEPT ![j] = WithTally(job[j], two)]
      BY <1>1, <1>4 DEF Lands, SendErrs, Progress, history, MapsOK
    <2> HIDE DEF one, two
    <2> QED
      BY <1>1, <1>3, <2>1, RowWrites
  <1>5. CASE SingleLands(j)
    <2>1. ASSUME NEW t, Finish(j, t), UNCHANGED redo PROVE Promised
      <3>1. job' = [job EXCEPT ![j] = WithStatus(job[j], "done", t)]
        BY <1>1, <2>1 DEF Finish, MapsOK
      <3>2. job[j].status \in {"pending", "cancelled"}
        BY <1>1, <1>5 DEF SingleLands, StatusInv, AtWorkPhase, Single
      <3> DEFINE w == WithStatus(job[j], "done", t)
      <3>3. /\ w.status = IF job[j].status = "pending" THEN "done" ELSE job[j].status
            /\ w.mode = job[j].mode /\ job' = [job EXCEPT ![j] = w]
        BY <1>1, <3>1, <3>2, RowWrites DEF Terminal
      <3> HIDE DEF w
      <3> QED
        BY <1>3, <2>1, <3>2, <3>3
    <2>2. ASSUME Throws(j) PROVE Promised
      <3>1. UNCHANGED job /\ redo' = redo
        BY <1>5, <2>2 DEF SingleLands, Throws
      <3> QED
        BY <1>1, <3>1, ArrivalIsPromised DEF StatusOf, AutomaticJobs
    <2> QED
      BY <1>5, <2>1, <2>2 DEF SingleLands
  <1> QED
    BY <1>4, <1>5

\* A step that moves nothing that consumers or later jobs see.
LEMMA QuietStepIsPromised ==
  ASSUME IInv, AllStatuses, NEW j \in Jobs, Step(j), Unseen
  PROVE  Promised
  <1>1. MapsOK /\ StatusInv(j)
    BY TypeParts DEF IInv, AllStatuses
  <1> QED
    BY <1>1, StepWrites, WrittenIsPromised

LEMMA ConcludeIsPromised ==
  ASSUME IInv, IInv', AllStatuses, NEW j \in Jobs, Conclude(j)
  PROVE  Promised
  <1>1. MapsOK /\ StatusInv(j) /\ Step(j)
    BY TypeParts DEF IInv, AllStatuses, Step
  <1>2. UNCHANGED <<visited, copies, redo>>
    BY DEF Conclude, history
  <1>3. CASE watermark' = watermark
    BY <1>1, <1>2, <1>3, QuietStepIsPromised DEF Unseen
  <1>4. CASE watermark' # watermark
    <2>1. job[j].mode = "auto"
      BY <1>4 DEF Conclude, NewWatermark
    <2>2. PICK r, w : Written(j, r, w)
      BY <1>1, StepWrites
    <2>3. UNCHANGED AutomaticJobs /\ j \in AutomaticJobs
      BY <1>1, <2>1, <2>2, RowMoves DEF Written, AutomaticJobs
    <2>4. \/ UNCHANGED StatusOf
          \/ \E s \in Contract!Successors(StatusOf[j]) : StatusOf' = [StatusOf EXCEPT ![j] = s]
      <3>1. StatusOf[j] = job[j].status
        BY DEF StatusOf
      <3> QED
        BY <1>1, <2>2, <3>1, RowMoves DEF Written
    <2>5. watermark' \in watermark..(N - 1)
      <3>1. watermark \in Int /\ watermark' \in Int /\ watermark' <= N - 1
        BY TypeParts DEF IInv, TypeOK, None
      <3> QED
        BY <3>1, ConcludeAdvances
    <2>6. \A o \in Contract!Offsets : o <= watermark' => o \in visited
      BY <1>2 DEF IInv, WatermarkCovers, Offsets, Contract!Offsets
    <2>7. Contract!AtWork(j)
      BY WorkIsSeen DEF Conclude, Alive, AtWorkPhase
    <2>8. Contract!Advance(j)
      BY <1>2, <2>3, <2>4, <2>5, <2>6, <2>7 DEF Contract!Advance, StatusOf, AutomaticJobs
    <2> QED
      BY <2>8 DEF Promised, Contract!Next
  <1> QED
    BY <1>3, <1>4

LEMMA CauseIsCounted ==
  ASSUME IInv, redo' = AtMost(redo + 1, MaxCopies)
  PROVE  redo' = Contract!OneMore(redo)
  <1>1. redo \in 0..MaxCopies
    BY TypeParts DEF IInv, RestOK
  <1> QED
    BY <1>1 DEF AtMost, Contract!OneMore

\* Jobs, or one of them, are broken off.
LEMMA BreakIsPromised ==
  ASSUME IInv, IInv', AllStatuses, RepeatsHaveACause', UNCHANGED <<watermark, visited, job>>,
         NEW k \in Jobs, AtWorkPhase(run[k].phase),
         \/ UNCHANGED redo
         \/ redo' = AtMost(redo + 1, MaxCopies) /\ job[k].mode = "auto",
         \A o \in Offsets : copies[o] <= copies'[o]
  PROVE  Promised
  <1>1. Contract!AtWork(k)
    BY WorkIsSeen
  <1>2. redo' = redo \/ (redo' = Contract!OneMore(redo) /\ \E j \in AutomaticJobs : Contract!AtWork(j))
    BY <1>1, CauseIsCounted DEF AutomaticJobs
  <1>3. copies' \in [Offsets -> 0..MaxCopies] /\ Contract!Offsets = Offsets
    BY TypeParts DEF IInv, TypeOK, Contract!Offsets, Offsets
  <1>4. \A o \in Offsets : copies'[o] <= 1 + redo'
    BY DEF RepeatsHaveACause
  <1>5. Contract!BreakOff
    BY <1>1, <1>2, <1>3, <1>4 DEF Contract!BreakOff, AutomaticJobs
  <1> QED
    BY <1>5 DEF Promised, Contract!Next

LEMMA StreamFailsIsPromised ==
  ASSUME IInv, IInv', AllStatuses, RepeatsHaveACause', NEW j \in Jobs, StreamFails(j)
  PROVE  Promised
  <1>1. AtWorkPhase(run[j].phase) /\ UNCHANGED <<watermark, copies>> /\ Throws(j)
    BY DEF StreamFails, Alive, AtWorkPhase
  <1>2. /\ UNCHANGED <<job, visited>>
        /\ redo' = redo \/ (redo' = AtMost(redo + 1, MaxCopies) /\ job[j].mode = "auto")
    BY <1>1 DEF Throws
  <1>3. \A o \in Offsets : copies[o] <= copies'[o]
    BY <1>1, TypeParts DEF IInv, RestOK
  <1> QED
    BY <1>1, <1>2, <1>3, BreakIsPromised

LEMMA VanishIsPromised ==
  ASSUME IInv, IInv', AllStatuses, RepeatsHaveACause', Vanish
  PROVE  Promised
  <1>1. UNCHANGED <<watermark, visited, job>>
    BY DEF Vanish
  <1>2. PICK s \in SUBSET {j \in Jobs : run[j].phase = "sending"} :
          copies' = [o \in Offsets |->
                       AtMost(copies[o] + Cardinality({j \in s : InFlight(j) = o}), MaxCopies)]
    BY DEF Vanish
  <1>3. copies \in [Offsets -> 0..MaxCopies] /\ s \in SUBSET Jobs
    BY <1>2, TypeParts DEF IInv, RestOK
  <1>4. ASSUME NEW o \in Offsets PROVE copies[o] <= copies'[o]
    <2>1. {j \in s : InFlight(j) = o} \in SUBSET Jobs
      BY <1>3
    <2>2. Cardinality({j \in s : InFlight(j) = o}) \in Nat
      BY <2>1, FS_Subset, FS_CardinalityType
    <2> HIDE <1>2
    <2>3. copies'[o] = AtMost(copies[o] + Cardinality({j \in s : InFlight(j) = o}), MaxCopies)
      BY <1>2
    <2> QED
      BY <1>3, <2>2, <2>3 DEF AtMost
  <1>5. CASE s = {} /\ UNCHANGED redo
    <2>1. \A o \in Offsets : {j \in s : InFlight(j) = o} = {}
      BY <1>5
    <2>2. \A o \in Offsets : copies'[o] = AtMost(copies[o] + 0, MaxCopies)
      BY <1>2, <2>1, FS_EmptySet
    <2>3. copies' = copies
      BY <1>2, <1>3, <2>2 DEF AtMost
    <2> QED
      BY <1>1, <1>5, <2>3, StatusesStay DEF Unseen, StatusOf, AutomaticJobs
  <1>6. CASE s # {} /\ UNCHANGED redo
    <2>1. PICK k \in Jobs : run[k].phase = "sending"
      BY <1>2, <1>6
    <2> QED
      BY <1>1, <1>4, <1>6, <2>1, BreakIsPromised DEF AtWorkPhase
  <1>7. CASE ~ UNCHANGED redo
    <2>1. redo' = AtMost(redo + 1, MaxCopies) /\ Unconcluded
      BY <1>7 DEF Vanish
    <2> QED
      BY <1>1, <1>4, <2>1, BreakIsPromised DEF Unconcluded, AtWorkPhase
  <1> QED
    BY <1>5, <1>6, <1>7

LEMMA StepIsPromised ==
  ASSUME IInv, IInv', AllStatuses, RepeatsHaveACause', NEW j \in Jobs, Step(j)
  PROVE  Promised
  <1>1. CASE Connect(j) \/ ReadDry(j) \/ EndStream(j) \/ Send(j) \/ Close(j) \/ Fetch(j)
    <2>1. Unseen
      BY <1>1 DEF Unseen, Connect, ReadDry, EndStream, Send, Close, Fetch, Throws, history
    <2> QED
      BY <2>1, QuietStepIsPromised
  <1> QED
    BY <1>1, ReadIsPromised, StreamFailsIsPromised, LandsIsPromised, ConcludeIsPromised DEF Step

LEMMA CreateIsPromised ==
  ASSUME IInv, NEW j \in Jobs, NEW mode, NEW dry, NEW status \in {"pending", "running"},
         NEW from, NEW to, NEW max,
         Create(j, mode, dry, status, from, to, max), UNCHANGED <<watermark, visited, copies>>,
         \/ mode = "auto" /\ status = "running" /\ ~ HasActiveJob /\ UNCHANGED redo
         \/ mode # "auto" /\ (redo' = redo \/ redo' = AtMost(redo + 1, MaxCopies))
  PROVE  Promised
  <1>1. MapsOK
    BY TypeParts DEF IInv
  <1> DEFINE w == [mode |-> mode, dry |-> dry, status |-> status, tally |-> NoTally]
  <1>2. w.mode = mode /\ w.status = status /\ job' = [job EXCEPT ![j] = w]
    BY DEF Create
  <1> HIDE DEF w
  <1>3. StatusOf' = [StatusOf EXCEPT ![j] = status]
    BY <1>1, <1>2, RowMoves
  <1>4. job'[j].mode = mode /\ \A k \in Jobs \ {j} : job'[k].mode = job[k].mode
    BY <1>1, <1>2 DEF MapsOK
  <1>5. AutomaticJobs' = IF mode = "auto" THEN AutomaticJobs \cup {j} ELSE AutomaticJobs \ {j}
    BY <1>4 DEF AutomaticJobs
  <1>6. CASE mode = "auto"
    <2>1. \A k \in Jobs : StatusOf[k] \notin Contract!Active
      BY <1>6, JobFacts DEF HasActiveJob, StatusOf, JobRows, Statuses, Terminal, Contract!Active, Contract!Live
    <2>2. Contract!StartAutomatic(j)
      BY <1>3, <1>5, <1>6, <2>1 DEF Contract!StartAutomatic, StatusOf, AutomaticJobs
    <2> QED
      BY <2>2 DEF Promised, Contract!Next
  <1>7. CASE mode # "auto"
    <2>1. StatusOf[j] \notin Contract!Active
      BY DEF Create, Free, StatusOf, Terminal, Contract!Active, Contract!Live
    <2>2. redo' \in {redo, Contract!OneMore(redo)}
      BY <1>7, CauseIsCounted
    <2>3. Contract!StartRequested(j)
      BY <1>3, <1>5, <1>7, <2>1, <2>2 DEF Contract!StartRequested, StatusOf, AutomaticJobs, Contract!Live
    <2> QED
      BY <2>3 DEF Promised, Contract!Next
  <1> QED
    BY <1>6, <1>7

LEMMA CancelIsPromised ==
  ASSUME IInv, NEW j \in Jobs, Cancel(j)
  PROVE  Promised
  <1>1. MapsOK /\ job[j] \in JobRows
    BY JobFacts, TypeParts DEF IInv
  <1> DEFINE w == [job[j] EXCEPT !.status = "cancelled"]
  <1>2. w.mode = job[j].mode /\ w.status = "cancelled" /\ job' = [job EXCEPT ![j] = w]
    BY <1>1 DEF Cancel, JobRows, MapsOK
  <1> HIDE DEF w
  <1>3. Unseen
    BY DEF Cancel, history, Unseen
  <1>4. "cancelled" \in Contract!Successors(StatusOf[j])
    BY <1>1 DEF Cancel, StatusOf, JobRows, Statuses, Terminal, Contract!Successors
  <1> QED
    BY <1>1, <1>2, <1>3, <1>4, RowMoves, OneEnds

LEMMA RestartIsPromised ==
  ASSUME IInv, Restart
  PROVE  Promised
  <1>1. \A j \in Jobs : job[j] \in JobRows
    BY JobFacts
  <1>2. UNCHANGED <<visited, copies>>
    BY DEF Restart
  <1>3. CASE Persistent
    <2>1. \A j \in Jobs : /\ job'[j].mode = job[j].mode
                          /\ job'[j].status = IF StatusOf[j] \in Contract!Active THEN "failed"
                                              ELSE StatusOf[j]
      BY <1>1, <1>3 DEF Restart, Swept, JobRows, StatusOf, Contract!Active, Contract!Live
    <2>2. UNCHANGED AutomaticJobs
      BY <2>1 DEF AutomaticJobs
    <2>3. StatusOf' = [j \in Jobs |-> IF StatusOf[j] \in Contract!Active THEN "failed" ELSE StatusOf[j]]
      BY <2>1 DEF StatusOf
    <2>4. UNCHANGED <<watermark, redo>>
      BY <1>3 DEF Restart
    <2>5. Contract!Recover
      BY <1>2, <1>3, <2>2, <2>3, <2>4 DEF Contract!Recover, StatusOf, AutomaticJobs
    <2> QED
      BY <2>5 DEF Promised, Contract!Next
  <1>4. CASE ~ Persistent
    <2>1. \A j \in Jobs : job'[j].mode = "manual" /\ job'[j].status = "none"
      BY <1>4 DEF Restart, NoJob
    <2>2. AutomaticJobs' = {} /\ StatusOf' = [j \in Jobs |-> "none"]
      BY <2>1 DEF AutomaticJobs, StatusOf
    <2>3. redo' = Contract!OneMore(redo) /\ watermark' = -1
      BY <1>4, CauseIsCounted DEF Restart, None
    <2>4. Contract!Forget
      BY <1>2, <1>4, <2>2, <2>3 DEF Contract!Forget, StatusOf, AutomaticJobs
    <2> QED
      BY <2>4 DEF Promised, Contract!Next
  <1> QED
    BY <1>3, <1>4

LEMMA NextIsPromised ==
  ASSUME IInv, IInv', AllStatuses, RepeatsHaveACause', [Next]_vars
  PROVE  Promised
  <1>1. ASSUME NEW j \in Jobs, StartAuto(j) PROVE Promised
    BY <1>1, CreateIsPromised DEF StartAuto
  <1>2. ASSUME NEW j \in Jobs, StartBulk(j) PROVE Promised
    BY <1>2, CreateIsPromised DEF StartBulk, Requested
  <1>3. ASSUME NEW j \in Jobs, StartSingle(j) PROVE Promised
    BY <1>3, CreateIsPromised DEF StartSingle, Requested
  <1>4. CASE Exit \/ Crash
    BY <1>4, VanishIsPromised DEF Exit, Crash
  <1>5. CASE Shutdown \/ CancelAll \/ DeadLetter \/ Probe \/ BreakerChanges \/ UNCHANGED vars
    <2>1. UNCHANGED job /\ Unseen
      BY <1>5 DEF Shutdown, CancelAll, DeadLetter, Probe, BreakerChanges, vars, history, Unseen
    <2> QED
      BY <2>1, StatusesStay DEF StatusOf, AutomaticJobs
  <1> QED
    BY <1>1, <1>2, <1>3, <1>4, <1>5, StepIsPromised, CancelIsPromised, RestartIsPromised DEF Next

LEMMA InitIsPromised == Init => Contract!Init
  BY DEF Init, Contract!Init, NoJob, None, Offsets, Contract!Offsets

LEMMA AllStatusesAlways == Spec => []AllStatuses
  <1>1. IInv /\ AllStatuses /\ [Next]_vars => AllStatuses'
    BY NextStatuses
  <1> QED
    BY <1>1, InitStatuses, IInvAlways, PTL DEF Spec

\* Runners, scheduler, endpoint, sweep and either store, interleaved in every
\* way and cut off anywhere, move statuses, watermark and records only as the
\* contract says.
THEOREM ImplementsReplayContractHolds == Spec => ImplementsReplayContract
  <1>1. IInv /\ IInv' /\ AllStatuses /\ RepeatsHaveACause' /\ [Next]_vars
          => [Contract!Next]_(Contract!vars)
    BY NextIsPromised DEF Promised
  <1> QED
    BY <1>1, AllStatusesAlways, InitIsPromised, IInvAlways, RepeatsHaveACauseHolds, PTL
    DEF Spec, ImplementsReplayContract, Contract!Spec

\* A contract step takes a paused job nowhere but to its end.
LEMMA ContractEndsPaused ==
  ASSUME Promised, Persistent, NEW j \in Jobs, job[j].status = "paused"
  PROVE  job'[j].status \in {"paused", "failed", "cancelled"}
  <1> DEFINE s == [k \in Jobs |-> job[k].status]
             t == [k \in Jobs |-> job'[k].status]
  <1>1. DOMAIN s = Jobs /\ s[j] = "paused" /\ t[j] = job'[j].status
    OBVIOUS
  <1>2. \/ t = s
        \/ \E k \in Jobs, v \in Contract!Live :
             s[k] \notin Contract!Active /\ t = [s EXCEPT ![k] = v]
        \/ \E k \in Jobs : \E v \in Contract!Successors(s[k]) : t = [s EXCEPT ![k] = v]
        \/ \E k \in Jobs : s[k] = "pending" /\ t = [s EXCEPT ![k] = "done"]
        \/ t = [k \in Jobs |-> IF s[k] \in Contract!Active THEN "failed" ELSE s[k]]
    BY DEF Promised, Contract!Next, Contract!vars, Contract!StartRequested, Contract!StartAutomatic,
           Contract!Examine, Contract!MoveOn, Contract!End, Contract!Advance, Contract!BreakOff,
           Contract!Recover, Contract!Forget, Contract!Live
  <1>3. "paused" \in Contract!Active /\ Contract!Successors("paused") = {"failed", "cancelled"}
    BY DEF Contract!Active, Contract!Successors
  <1> HIDE DEF s, t
  <1>4. t[j] \in {"paused", "failed", "cancelled"}
    BY <1>1, <1>2, <1>3
  <1> QED
    BY <1>1, <1>4

\* Only a tick starts an automatic run, and it looks for active jobs before.
LEMMA AutomaticStartsAlone ==
  ASSUME IInv, AllStatuses, [Next]_vars, NEW k \in Jobs,
         run[k].phase = "off", run'[k].phase # "off", job'[k].mode = "auto"
  PROVE  ~ HasActiveJob
  <1>1. MapsOK /\ \A i \in Jobs : run[i] \in Runs
    BY JobFacts, TypeParts DEF IInv
  <1>2. ASSUME NEW i \in Jobs, NEW mode, NEW dry, NEW status, NEW from, NEW to, NEW max,
               Create(i, mode, dry, status, from, to, max)
        PROVE  mode = "auto"
    BY <1>1, <1>2 DEF Create, MapsOK
  <1>3. ASSUME NEW i \in Jobs, StartAuto(i) \/ StartBulk(i) \/ StartSingle(i) PROVE ~ HasActiveJob
    BY <1>2, <1>3 DEF StartAuto, StartBulk, StartSingle
  <1>4. ASSUME NEW i \in Jobs, Step(i) PROVE FALSE
    <2>1. PICK r, w : Written(i, r, w)
      BY <1>4, StepWrites DEF AllStatuses
    <2>2. run[i].phase # "off"
      BY <1>4 DEF Step, Connect, Read, ReadDry, Gets, EndStream, StreamFails, Send, Lands, SendErrs,
                  Conclude, Close, Fetch, SingleLands, Alive
    <2> QED
      BY <1>1, <2>1, <2>2 DEF Written, MapsOK
  <1>5. ASSUME NEW i \in Jobs, Cancel(i) PROVE FALSE
    <2>1. run'[k].phase = run[k].phase
      BY <1>1, <1>5 DEF Cancel, MapsOK, Runs
    <2> QED
      BY <2>1
  <1>6. CASE CancelAll
    BY <1>1, <1>6 DEF CancelAll, Runs
  <1>7. CASE Exit \/ Crash
    BY <1>7 DEF Exit, Crash, Vanish, NoRun
  <1>8. CASE Shutdown \/ DeadLetter \/ Probe \/ BreakerChanges \/ Restart \/ UNCHANGED vars
    BY <1>8 DEF Shutdown, DeadLetter, Probe, BreakerChanges, Restart, vars
  <1> QED
    BY <1>3, <1>4, <1>5, <1>6, <1>7, <1>8 DEF Next

\* No ghost stays behind: a job that is pending or running has a runner that will
\* end it, unless the process is down, whose next start sweeps it.
THEOREM NoGhosts ==
  Spec => [](\A j \in Jobs :
               job[j].status \in {"pending", "running"} /\ process # "down" => Running(j))
  <1>1. AllStatuses => \A j \in Jobs :
          job[j].status \in {"pending", "running"} /\ process # "down" => Running(j)
    BY DEF AllStatuses, StatusInv, IsLive, Running
  <1> QED
    BY <1>1, AllStatusesAlways, PTL

\* Nothing takes a paused job up again: it waits for a cancellation or for the
\* sweep of the next start, and until then no automatic job starts.
THEOREM PausedIsNotResumed ==
  ASSUME Persistent
  PROVE  Spec =>
           [][ \A j \in Jobs : job[j].status = "paused" =>
                 /\ job'[j].status \in {"paused", "failed", "cancelled"}
                 /\ \A k \in Jobs : run[k].phase = "off" /\ run'[k].phase # "off"
                                      => job'[k].mode # "auto" ]_vars
  <1> DEFINE Waits ==
        \A j \in Jobs : job[j].status = "paused" =>
          /\ job'[j].status \in {"paused", "failed", "cancelled"}
          /\ \A k \in Jobs : run[k].phase = "off" /\ run'[k].phase # "off" => job'[k].mode # "auto"
  <1>1. IInv /\ IInv' /\ AllStatuses /\ RepeatsHaveACause' /\ [Next]_vars => Waits
    <2> SUFFICES ASSUME IInv, IInv', AllStatuses, RepeatsHaveACause', [Next]_vars,
                        NEW j \in Jobs, job[j].status = "paused"
                 PROVE  /\ job'[j].status \in {"paused", "failed", "cancelled"}
                        /\ \A k \in Jobs : run[k].phase = "off" /\ run'[k].phase # "off"
                                             => job'[k].mode # "auto"
      BY DEF Waits
    <2>1. HasActiveJob
      BY DEF HasActiveJob, Terminal
    <2> QED
      BY <2>1, NextIsPromised, ContractEndsPaused, AutomaticStartsAlone
  <1> HIDE DEF Waits
  <1>2. Spec => [][Waits]_vars
    BY <1>1, AllStatusesAlways, IInvAlways, RepeatsHaveACauseHolds, PTL DEF Spec
  <1> QED
    BY <1>2 DEF Waits

\* What the contract keeps by itself, whatever implements it.
ContractInv ==
  /\ copies \in [Offsets -> Nat] /\ redo \in Nat /\ watermark \in Int
  /\ WatermarkCovers /\ RepeatsHaveACause

LEMMA ContractKeeps ==
  ASSUME ContractInv, [Contract!Next]_(Contract!vars)
  PROVE  ContractInv' /\ (Persistent => watermark' >= watermark)
  <1> DEFINE Covers == \A o \in Offsets : o <= watermark => o \in visited
             Goes(n) == n \in Nat /\ redo <= n
  <1>1. /\ copies \in [Offsets -> Nat] /\ redo \in Nat /\ watermark \in Int /\ Covers
        /\ \A o \in Offsets : copies[o] \in Nat /\ copies[o] <= 1 + redo
    BY DEF ContractInv, WatermarkCovers, RepeatsHaveACause
  <1>2. \A n \in Nat : /\ Contract!OneMore(n) \in Nat /\ n <= Contract!OneMore(n)
                       /\ Contract!OneMore(n) <= n + 1
    BY DEF Contract!OneMore
  <1>3. Contract!Offsets = Offsets /\ N \in Nat /\ Goes(redo) /\ Goes(Contract!OneMore(redo))
    <2>1. Contract!Offsets = Offsets /\ N \in Nat
      BY ReplayAssumption DEF Contract!Offsets, Offsets
    <2>2. Goes(redo) /\ Goes(Contract!OneMore(redo))
      BY <1>1, <1>2
    <2> QED
      BY <2>1, <2>2
  <1>4. ASSUME copies' \in [Offsets -> Nat], redo' \in Nat, watermark' \in Int, Covers',
               \A o \in Offsets : copies'[o] <= 1 + redo'
        PROVE  ContractInv'
    BY <1>4 DEF ContractInv, WatermarkCovers, RepeatsHaveACause
  <1>5. ASSUME Goes(redo'), UNCHANGED copies, watermark' \in Int, Covers'
        PROVE  ContractInv'
    <2>1. \A o \in Offsets : copies[o] <= 1 + redo'
      BY <1>1, <1>5
    <2> QED
      BY <1>1, <1>4, <1>5, <2>1
  <1> HIDE DEF Goes
  <1>6. ASSUME NEW j \in Jobs, Contract!StartRequested(j) \/ Contract!StartAutomatic(j) \/ Contract!End(j)
        PROVE  ContractInv' /\ watermark' >= watermark
    <2>1. UNCHANGED <<watermark, visited, copies>> /\ redo' \in {redo, Contract!OneMore(redo)}
      BY <1>6 DEF Contract!StartRequested, Contract!StartAutomatic, Contract!End
    <2> QED
      BY <1>1, <1>3, <1>5, <2>1
  <1>7. ASSUME NEW j \in Jobs, Contract!Advance(j) PROVE ContractInv' /\ watermark' >= watermark
    <2>1. /\ watermark' \in watermark..(N - 1) /\ UNCHANGED <<visited, copies, redo>>
          /\ \A o \in Offsets : o <= watermark' => o \in visited
      BY <1>3, <1>7 DEF Contract!Advance
    <2> QED
      BY <1>1, <1>3, <1>5, <2>1
  <1>8. ASSUME NEW j \in Jobs, NEW o \in Offsets, Contract!Examine(j, o)
        PROVE  ContractInv' /\ watermark' >= watermark
    <2>1. visited' = visited \cup {o} /\ UNCHANGED <<watermark, copies, redo>>
      BY <1>8 DEF Contract!Examine
    <2> QED
      BY <1>1, <1>3, <1>5, <2>1
  <1>9. ASSUME NEW j \in Jobs, NEW o \in Offsets, Contract!MoveOn(j, o)
        PROVE  ContractInv' /\ watermark' >= watermark
    <2>1. /\ copies' = [copies EXCEPT ![o] = Contract!OneMore(copies[o])] /\ copies[o] <= redo
          /\ UNCHANGED <<watermark, visited, redo>>
      BY <1>9 DEF Contract!MoveOn
    <2>2. Contract!OneMore(copies[o]) \in Nat /\ Contract!OneMore(copies[o]) <= 1 + redo
      BY <1>1, <1>2, <2>1
    <2>3. \A p \in Offsets : copies'[p] <= 1 + redo'
      BY <1>1, <2>1, <2>2
    <2>4. copies' \in [Offsets -> Nat]
      BY <1>1, <2>1, <2>2
    <2> QED
      BY <1>1, <1>4, <2>1, <2>3, <2>4
  <1>10. CASE Contract!BreakOff
    <2>1. /\ redo' \in {redo, Contract!OneMore(redo)} /\ UNCHANGED <<watermark, visited>>
          /\ copies' \in [Offsets -> 0..MaxCopies] /\ \A o \in Offsets : copies'[o] <= 1 + redo'
      BY <1>3, <1>10 DEF Contract!BreakOff
    <2>2. copies' \in [Offsets -> Nat] /\ redo' \in Nat
      BY <1>3, <2>1, ReplayAssumption DEF Goes
    <2> QED
      BY <1>1, <1>4, <2>1, <2>2
  <1>11. CASE Contract!Recover
    <2>1. UNCHANGED <<watermark, visited, copies, redo>>
      BY <1>11 DEF Contract!Recover
    <2> QED
      BY <1>1, <1>3, <1>5, <2>1
  <1>12. CASE Contract!Forget
    <2>1. /\ UNCHANGED <<visited, copies>> /\ watermark' = -1 /\ redo' = Contract!OneMore(redo)
          /\ ~ Persistent
      BY <1>12 DEF Contract!Forget
    <2>2. Covers'
      BY <2>1, ReplayAssumption DEF Offsets
    <2> QED
      BY <1>3, <1>5, <2>1, <2>2
  <1>13. CASE UNCHANGED Contract!vars
    <2>1. UNCHANGED <<watermark, visited, copies, redo>>
      BY <1>13 DEF Contract!vars
    <2> QED
      BY <1>1, <1>3, <1>5, <2>1
  <1> QED
    BY <1>3, <1>6, <1>7, <1>8, <1>9, <1>10, <1>11, <1>12, <1>13 DEF Contract!Next

\* The contract says enough: whoever implements it passes no record over, sends
\* none on again without a cause, and goes back to none.
THEOREM ContractIsEnough ==
  ImplementsReplayContract => [](WatermarkCovers /\ RepeatsHaveACause) /\ WatermarkAdvances
  <1>1. Contract!Init => ContractInv
    BY ReplayAssumption
    DEF Contract!Init, ContractInv, WatermarkCovers, RepeatsHaveACause, Offsets, Contract!Offsets
  <1>2. ContractInv /\ [Contract!Next]_(Contract!vars) => ContractInv'
    BY ContractKeeps
  <1>3. ContractInv /\ [Contract!Next]_(Contract!vars) => [Persistent => watermark' >= watermark]_vars
    BY ContractKeeps
  <1>4. ContractInv => WatermarkCovers /\ RepeatsHaveACause
    BY DEF ContractInv
  <1> QED
    BY <1>1, <1>2, <1>3, <1>4, PTL DEF ImplementsReplayContract, Contract!Spec, WatermarkAdvances

=============================================================================
