---------------------------- MODULE ReplayContract ----------------------------
(***************************************************************************)
(* What the replay of one partition promises (docs/architecture/           *)
(* dlq-replay.md).  To those who watch its jobs: a job goes from pending   *)
(* or running, perhaps over paused, to one final status, and automatic     *)
(* jobs keep out of the way of every other.  To the consumers of the       *)
(* topic: a record is moved on once, and once more for each cause that the *)
(* operator or a broken job gave.  To the operator: the watermark passes   *)
(* only examined records and goes back over none.  When it moves is left   *)
(* open: after each record (jobStore.ts:30-31) or at the end of a job      *)
(* (scheduler.ts:82).  Runners, streams, the breaker, aborts, shutdowns    *)
(* and the process do not appear.                                          *)
(***************************************************************************)
EXTENDS Integers

CONSTANTS
  Jobs,        \* slots for jobs
  N,           \* bound on the records; offsets are 0..N-1
  Persistent,  \* whether jobs and watermark survive a restart
  MaxCopies    \* bound on the copies of a record and on their causes

VARIABLES
  status,     \* of the job of each slot, "none" before the first
  automatic,  \* the slots whose job is an automatic one
  watermark,  \* the last offset that is done with, or -1
  examined,   \* the offsets automatic jobs have read
  copies,     \* copies of each record that were moved on
  causes      \* reasons for moving a record on once more

vars == <<status, automatic, watermark, examined, copies, causes>>

Offsets == 0..(N - 1)
Live == {"pending", "running"}
Active == Live \cup {"paused"}

Init ==
  /\ status = [j \in Jobs |-> "none"]
  /\ automatic = {}
  /\ watermark = -1
  /\ examined = {}
  /\ copies = [o \in Offsets |-> 0]
  /\ causes = 0

OneMore(n) == IF n < MaxCopies THEN n + 1 ELSE n

\* A job may be at work: a cancelled one as long as it has not seen that it is.
AtWork(j) == status[j] \in Live \cup {"cancelled"}

\* What may follow a status: a paused job is not taken up again.
Successors(s) ==
  CASE s = "pending" -> {"done", "failed", "cancelled"}
    [] s = "running" -> {"paused", "done", "failed", "cancelled"}
    [] s = "paused"  -> {"failed", "cancelled"}
    [] OTHER         -> {}

\* A request for records is a cause to move them on again, unless it is dry.
StartRequested(j) ==
  /\ status[j] \notin Active
  /\ \E s \in Live : status' = [status EXCEPT ![j] = s]
  /\ automatic' = automatic \ {j}
  /\ causes' \in {causes, OneMore(causes)}
  /\ UNCHANGED <<watermark, examined, copies>>

\* An automatic job waits for every other job of the partition.
StartAutomatic(j) ==
  /\ \A k \in Jobs : status[k] \notin Active
  /\ status' = [status EXCEPT ![j] = "running"]
  /\ automatic' = automatic \cup {j}
  /\ UNCHANGED <<watermark, examined, copies, causes>>

Examine(j, o) ==
  /\ j \in automatic /\ AtWork(j)
  /\ examined' = examined \cup {o}
  /\ UNCHANGED <<status, automatic, watermark, copies, causes>>

\* A record is moved on; the request for it alone may end with that.
MoveOn(j, o) ==
  /\ AtWork(j)
  /\ copies[o] <= causes
  /\ copies' = [copies EXCEPT ![o] = OneMore(@)]
  /\ \/ UNCHANGED status
     \/ status[j] = "pending" /\ status' = [status EXCEPT ![j] = "done"]
  /\ UNCHANGED <<automatic, watermark, examined, causes>>

End(j) ==
  /\ \E s \in Successors(status[j]) : status' = [status EXCEPT ![j] = s]
  /\ UNCHANGED <<automatic, watermark, examined, copies, causes>>

\* A job at work moves the watermark on, as often as it likes and perhaps with
\* its last step: no record is passed over unexamined, none is gone back to.
Advance(j) ==
  /\ AtWork(j)
  /\ \/ UNCHANGED status
     \/ \E s \in Successors(status[j]) : status' = [status EXCEPT ![j] = s]
  /\ watermark' \in watermark..(N - 1)
  /\ \A o \in Offsets : o <= watermark' => o \in examined
  /\ UNCHANGED <<automatic, examined, copies, causes>>

\* Jobs are broken off, one or all of them: what they had in flight may arrive,
\* and an automatic one among them is a cause.
BreakOff ==
  /\ \E j \in Jobs : AtWork(j)
  /\ causes' = causes \/ (causes' = OneMore(causes) /\ \E j \in automatic : AtWork(j))
  /\ copies' \in [Offsets -> 0..MaxCopies]
  /\ \A o \in Offsets : copies[o] <= copies'[o] /\ copies'[o] <= 1 + causes'
  /\ UNCHANGED <<status, automatic, watermark, examined>>

\* A restart ends what was active, and keeps the rest.
Recover ==
  /\ Persistent
  /\ status' = [j \in Jobs |-> IF status[j] \in Active THEN "failed" ELSE status[j]]
  /\ UNCHANGED <<automatic, watermark, examined, copies, causes>>

\* A restart that forgets the watermark is a cause to begin anew.
Forget ==
  /\ ~ Persistent
  /\ status' = [j \in Jobs |-> "none"]
  /\ automatic' = {}
  /\ watermark' = -1
  /\ causes' = OneMore(causes)
  /\ UNCHANGED <<examined, copies>>

Next ==
  \/ \E j \in Jobs : StartRequested(j) \/ StartAutomatic(j) \/ End(j) \/ Advance(j)
  \/ \E j \in Jobs, o \in Offsets : Examine(j, o) \/ MoveOn(j, o)
  \/ BreakOff \/ Recover \/ Forget

Spec == Init /\ [][Next]_vars

=============================================================================
