-------------------------------- MODULE Outbox --------------------------------
(***************************************************************************)
(* The ingest path with the outbox enabled: the webhook handler            *)
(* (gateway/handler.ts), the writer and its SQLite table (outbox/writer.ts,*)
(* outbox/db.ts), the drainer (outbox/drainer.ts, outbox/backoff.ts) and   *)
(* the breaker around the producer, which the drainer shares with the      *)
(* replay subsystem.  Around them: a broker that loses messages and        *)
(* acknowledgements while it is down and never takes a poison message, a   *)
(* database whose statements may fail, and a process that is stopped, that *)
(* crashes and that starts again on the same table.                        *)
(*                                                                         *)
(* Time is relative: Tick brings every deadline one tick nearer, so that   *)
(* next_attempt_at <= now is `due <= 0`.  A drainer iteration is cut at    *)
(* every await; what the code runs between two awaits is one action.       *)
(***************************************************************************)
EXTENDS Breaker, Sequences, FiniteSets

CONSTANTS
  Events,        \* the webhook requests; an event becomes at most one row
  Malformed,     \* the requests whose body is no JSON
  Poison,        \* the events the broker always refuses
  BatchSize,     \* config.outbox.batchSize
  BackoffMax,    \* config.outbox.backoffMaxMs; one tick is BASE_MS
  MaxAge,        \* config.outbox.maxAgeHours
  IdlePoll,      \* config.outbox.idlePollMs
  BusyPoll,      \* config.outbox.busyPollMs
  Sharing,       \* whether a replay job shares the breaker
  MaxAttempts,   \* bound on the attempts counted in a row
  MaxOverdue,    \* bound on how long a row is known to be overdue
  MaxCopies,     \* bound on the copies of one event counted in its topic
  MaxDbFaults,   \* bound on the occasions on which statements fail
  MaxStops       \* bound on shutdowns and crashes

ASSUME OutboxAssumption ==
  /\ Malformed \subseteq Events
  /\ Poison \subseteq Events
  /\ BatchSize \in Nat \ {0}
  /\ BackoffMax \in Nat \ {0}
  /\ MaxAge \in Nat
  /\ IdlePoll \in Nat \ {0} /\ BusyPoll \in Nat \ {0}
  /\ Sharing \in BOOLEAN
  /\ MaxAttempts \in Nat \ {0}
  /\ 2 ^ (MaxAttempts - 1) >= BackoffMax  \* the bound hides no longer delay
  /\ MaxOverdue \in Nat
  /\ MaxCopies \in Nat \ {0}
  /\ MaxDbFaults \in Nat /\ MaxStops \in Nat

VARIABLES
  \* What survives a crash.
  row,       \* the outbox table: status, attempts, due (next_attempt_at - now), age
  copies,    \* copies of an event in its Kafka topic
  resp,      \* what the sender of a request has seen, "stored" before the answer
  \* What does not.
  process,   \* "up", "stopping" (after SIGTERM) or "down"
  pc,        \* the drainer: "asleep", at its "next" row, "sending" that row
  batch,     \* the rows of this iteration still to be handled
  full,      \* whether the iteration scanned batchSize rows
  timer,     \* ticks until the drainer's timer fires
  breaker,   \* the producer handle's breaker
  replay,    \* the other user of the handle: "idle" or "sending"
  \* The environment.
  brokerUp, dbFaults, stops,
  \* History.
  tries,     \* publishes of an event the breaker let through, up to MaxAttempts
  unrecorded \* copies that arrived without the row recording it, up to MaxCopies

memory == <<process, pc, batch, full, timer, breaker, replay>>
environment == <<brokerUp, dbFaults, stops>>
vars == <<row, copies, resp, memory, environment, tries, unrecorded>>

AtMost(n, bound) == IF n > bound THEN bound ELSE n

Statuses == {"absent", "pending", "dispatched", "failed"}

Rows ==
  [status : Statuses,
   attempts : 0..MaxAttempts,
   due : (-MaxOverdue)..(IF BackoffMax > RecoveryTimeout THEN BackoffMax ELSE RecoveryTimeout),
   age : 0..(MaxAge + 1)]

Responses == {"none", "stored", "202", "400", "500", "lost"}

NoRow == [status |-> "absent", attempts |-> 0, due |-> 0, age |-> 0]

\* INSERT ... 'pending', 0, $now, $now.
NewRow == [status |-> "pending", attempts |-> 0, due |-> 0, age |-> 0]

Init ==
  /\ row = [e \in Events |-> NoRow]
  /\ copies = [e \in Events |-> 0]
  /\ resp = [e \in Events |-> "none"]
  /\ process = "up" /\ pc = "asleep" /\ batch = << >> /\ full = FALSE /\ timer = BusyPoll
  /\ breaker = InitialBreaker
  /\ replay = "idle"
  /\ brokerUp = TRUE /\ dbFaults = 0 /\ stops = 0
  /\ tries = [e \in Events |-> 0]
  /\ unrecorded = [e \in Events |-> 0]

-----------------------------------------------------------------------------
(* The webhook handler and the writer.  The transaction commits before the *)
(* response leaves, so a crash between the two loses the response only.    *)
(* A request in flight when the server stops is still handled.             *)

RefuseBody(e) ==
  /\ process # "down" /\ resp[e] = "none" /\ e \in Malformed
  /\ resp' = [resp EXCEPT ![e] = "400"]
  /\ UNCHANGED <<row, copies, memory, environment, tries, unrecorded>>

\* Mutated form: a row that could not be inserted is answered like any other.
EnqueueIgnoringErrors(e) ==
  /\ process # "down" /\ resp[e] = "none" /\ e \notin Malformed
  /\ resp' = [resp EXCEPT ![e] = "stored"]
  /\ \/ /\ row' = [row EXCEPT ![e] = NewRow]
        /\ UNCHANGED dbFaults
     \/ /\ dbFaults < MaxDbFaults
        /\ dbFaults' = dbFaults + 1
        /\ UNCHANGED row
  /\ UNCHANGED <<copies, memory, brokerUp, stops, tries, unrecorded>>

Enqueue(e) ==
  /\ process # "down" /\ resp[e] = "none" /\ e \notin Malformed
  /\ \/ /\ row' = [row EXCEPT ![e] = NewRow]
        /\ resp' = [resp EXCEPT ![e] = "stored"]
        /\ UNCHANGED dbFaults
     \/ /\ dbFaults < MaxDbFaults
        /\ dbFaults' = dbFaults + 1
        /\ resp' = [resp EXCEPT ![e] = "500"]
        /\ UNCHANGED row
  /\ UNCHANGED <<copies, memory, brokerUp, stops, tries, unrecorded>>

Respond(e) ==
  /\ process # "down" /\ resp[e] = "stored"
  /\ resp' = [resp EXCEPT ![e] = "202"]
  /\ UNCHANGED <<row, copies, memory, environment, tries, unrecorded>>

-----------------------------------------------------------------------------
(* The drainer.                                                            *)

\* Mutated form: the SELECT loses its condition on the status.
DueRowsAnyStatus == {e \in Events : row[e].status # "absent" /\ row[e].due <= 0}

DueRows == {e \in Events : row[e].status = "pending" /\ row[e].due <= 0}

\* SELECT ... ORDER BY next_attempt_at ASC LIMIT batchSize: ties in any order.
IsBatch(s) ==
  /\ Len(s) = AtMost(Cardinality(DueRows), BatchSize)
  /\ \A i, j \in DOMAIN s : i # j => s[i] # s[j]
  /\ \A i, j \in DOMAIN s : i < j => row[s[i]].due <= row[s[j]].due
  /\ \A i \in DOMAIN s : \A e \in DueRows :
       (\A j \in DOMAIN s : s[j] # e) => row[s[i]].due <= row[e].due

Poll ==
  /\ process = "up" /\ pc = "asleep" /\ timer = 0
  /\ \E n \in 0..BatchSize : \E s \in [1..n -> DueRows] :
       /\ IsBatch(s)
       /\ batch' = s
       /\ full' = (n >= BatchSize)
  /\ pc' = "next"
  /\ UNCHANGED <<row, copies, resp, process, timer, breaker, replay, environment, tries, unrecorded>>

\* nextDelayMs: doubled from one tick for every attempt, up to the cap.
Delay(n) ==
  LET exp == 2 ^ ((IF n < 1 THEN 1 ELSE n) - 1)
  IN  IF exp \in 1..BackoffMax THEN exp ELSE BackoffMax

OneMoreTry(r) == [r EXCEPT !.attempts = AtMost(@ + 1, MaxAttempts)]

\* Mutated form: a row is retried for ever.
AfterErrorNeverOld(r) ==
  LET tried == OneMoreTry(r)
  IN  [tried EXCEPT !.due = Delay(tried.attempts)]

\* The row after an error that is not the breaker's: markFailed or markRetry.
AfterError(r) ==
  LET tried == OneMoreTry(r)
  IN  IF r.age > MaxAge
      THEN [tried EXCEPT !.status = "failed"]
      ELSE [tried EXCEPT !.due = Delay(tried.attempts)]

NextRow == batch' = Tail(batch) /\ pc' = "next"

\* An error that leaves runOutboxIteration: tick() logs it and arms the timer.
GiveUpIteration ==
  /\ dbFaults < MaxDbFaults
  /\ pc' = "asleep" /\ batch' = << >> /\ full' = FALSE
  /\ timer' = IF process = "up" THEN IdlePoll ELSE 0

\* Mutated form: the row is marked before it is published.
SendRowMarkedFirst ==
  /\ pc = "next" /\ batch # << >> /\ ~ Rejects(breaker)
  /\ breaker' = Admit(breaker)
  /\ pc' = "sending"
  /\ row' = [row EXCEPT ![Head(batch)].status = "dispatched"]
  /\ tries' = [tries EXCEPT ![Head(batch)] = AtMost(@ + 1, MaxAttempts)]
  /\ UNCHANGED <<copies, resp, process, batch, full, timer, replay, environment, unrecorded>>

SendRow ==
  /\ pc = "next" /\ batch # << >> /\ ~ Rejects(breaker)
  /\ breaker' = Admit(breaker)
  /\ pc' = "sending"
  /\ tries' = [tries EXCEPT ![Head(batch)] = AtMost(@ + 1, MaxAttempts)]
  /\ UNCHANGED <<row, copies, resp, process, batch, full, timer, replay, environment, unrecorded>>

\* Mutated form: a rejection by the breaker counts as an attempt.
DeferRowCounting ==
  /\ pc = "next" /\ batch # << >> /\ Rejects(breaker)
  /\ row' = [row EXCEPT ![Head(batch)].due = breaker.wait,
                        ![Head(batch)].attempts = AtMost(@ + 1, MaxAttempts)]
  /\ NextRow
  /\ UNCHANGED <<copies, resp, process, full, timer, breaker, replay, environment, tries, unrecorded>>

\* Mutated form: the backoff comes on top of the time the breaker gave.
DeferRowTwice ==
  /\ pc = "next" /\ batch # << >> /\ Rejects(breaker)
  /\ row' = [row EXCEPT ![Head(batch)].due = breaker.wait + Delay(1)]
  /\ NextRow
  /\ UNCHANGED <<copies, resp, process, full, timer, breaker, replay, environment, tries, unrecorded>>

\* CircuitBreakerOpenError: markDeferred to the time the breaker gave.
DeferRow ==
  /\ pc = "next" /\ batch # << >> /\ Rejects(breaker)
  /\ row' = [row EXCEPT ![Head(batch)].due = breaker.wait]
  /\ NextRow
  /\ UNCHANGED <<copies, resp, process, full, timer, breaker, replay, environment, tries, unrecorded>>

\* Mutated form: the row of an acknowledged message stays pending.
RowAckedUnmarked ==
  /\ pc = "sending" /\ brokerUp /\ Head(batch) \notin Poison
  /\ copies' = [copies EXCEPT ![Head(batch)] = AtMost(@ + 1, MaxCopies)]
  /\ breaker' = OnSuccess(breaker)
  /\ NextRow
  /\ UNCHANGED <<row, resp, process, full, timer, replay, environment, tries, unrecorded>>

RowAcked ==
  /\ pc = "sending" /\ brokerUp /\ Head(batch) \notin Poison
  /\ copies' = [copies EXCEPT ![Head(batch)] = AtMost(@ + 1, MaxCopies)]
  /\ breaker' = OnSuccess(breaker)
  /\ row' = [row EXCEPT ![Head(batch)].status = "dispatched"]
  /\ NextRow
  /\ UNCHANGED <<resp, process, full, timer, replay, environment, tries, unrecorded>>

\* The acknowledged message whose markDispatched throws falls into the same
\* catch as a failed publish; when that statement throws too, the iteration ends.
RowAckedMarkFails ==
  /\ pc = "sending" /\ brokerUp /\ Head(batch) \notin Poison
  /\ copies' = [copies EXCEPT ![Head(batch)] = AtMost(@ + 1, MaxCopies)]
  /\ unrecorded' = [unrecorded EXCEPT ![Head(batch)] = AtMost(@ + 1, MaxCopies)]
  /\ breaker' = OnSuccess(breaker)
  /\ \/ /\ dbFaults < MaxDbFaults
        /\ dbFaults' = dbFaults + 1
        /\ row' = [row EXCEPT ![Head(batch)] = AfterError(@)]
        /\ NextRow
        /\ UNCHANGED <<full, timer>>
     \/ /\ GiveUpIteration
        /\ dbFaults' = dbFaults + 1
        /\ UNCHANGED row
  /\ UNCHANGED <<resp, process, replay, brokerUp, stops, tries>>

\* The publish rejects: the broker is down, or refuses a poison message.  The
\* message of a publish that timed out may have arrived all the same.
Arrival(e) ==
  \/ UNCHANGED <<copies, unrecorded>>
  \/ /\ ~ brokerUp /\ e \notin Poison
     /\ copies' = [copies EXCEPT ![e] = AtMost(@ + 1, MaxCopies)]
     /\ unrecorded' = [unrecorded EXCEPT ![e] = AtMost(@ + 1, MaxCopies)]

RowErred ==
  /\ pc = "sending" /\ (~ brokerUp \/ Head(batch) \in Poison)
  /\ Arrival(Head(batch))
  /\ breaker' = OnFailure(breaker)
  /\ \/ /\ row' = [row EXCEPT ![Head(batch)] = AfterError(@)]
        /\ NextRow
        /\ UNCHANGED <<full, timer, dbFaults>>
     \/ /\ GiveUpIteration
        /\ dbFaults' = dbFaults + 1
        /\ UNCHANGED row
  /\ UNCHANGED <<resp, process, replay, brokerUp, stops, tries>>

\* The SELECT, the COUNT or a markDeferred throws.
StatementFails ==
  /\ \/ process = "up" /\ pc = "asleep" /\ timer = 0
     \/ pc = "next" /\ (batch = << >> \/ Rejects(breaker))
  /\ GiveUpIteration
  /\ dbFaults' = dbFaults + 1
  /\ UNCHANGED <<row, copies, resp, process, breaker, replay, brokerUp, stops, tries, unrecorded>>

EndIteration ==
  /\ pc = "next" /\ batch = << >>
  /\ pc' = "asleep" /\ full' = FALSE
  /\ timer' = IF process # "up" THEN 0 ELSE IF full THEN BusyPoll ELSE IdlePoll
  /\ UNCHANGED <<row, copies, resp, process, batch, breaker, replay, environment, tries, unrecorded>>

-----------------------------------------------------------------------------
(* The process.                                                            *)

\* The HTTP server stops and the drainer's stop() clears the timer; it then
\* waits for the iteration in flight, which goes through all its rows.
Shutdown ==
  /\ process = "up"
  /\ stops < MaxStops
  /\ stops' = stops + 1
  /\ process' = "stopping"
  /\ timer' = 0
  /\ UNCHANGED <<row, copies, resp, pc, batch, full, breaker, replay, brokerUp, dbFaults, tries, unrecorded>>

Vanish ==
  /\ process' = "down" /\ pc' = "asleep" /\ batch' = << >> /\ full' = FALSE /\ timer' = 0
  /\ breaker' = InitialBreaker /\ replay' = "idle"
  /\ resp' = [e \in Events |-> IF resp[e] = "stored" THEN "lost" ELSE resp[e]]

Exit ==
  /\ process = "stopping" /\ pc = "asleep"
  /\ Vanish
  /\ UNCHANGED <<row, copies, environment, tries, unrecorded>>

\* A message in flight when the process dies may still arrive.
Crash ==
  /\ process # "down"
  /\ stops < MaxStops
  /\ stops' = stops + 1
  /\ Vanish
  /\ \/ UNCHANGED <<copies, unrecorded>>
     \/ /\ pc = "sending" /\ Head(batch) \notin Poison
        /\ copies' = [copies EXCEPT ![Head(batch)] = AtMost(@ + 1, MaxCopies)]
        /\ unrecorded' = [unrecorded EXCEPT ![Head(batch)] = AtMost(@ + 1, MaxCopies)]
  /\ UNCHANGED <<row, brokerUp, dbFaults, tries>>

Restart ==
  /\ process = "down"
  /\ process' = "up"
  /\ timer' = BusyPoll
  /\ UNCHANGED <<row, copies, resp, pc, batch, full, breaker, replay, environment, tries, unrecorded>>

-----------------------------------------------------------------------------
(* The other user of the producer handle, the broker and the clock.        *)

ReplaySends ==
  /\ Sharing /\ process # "down" /\ replay = "idle" /\ ~ Rejects(breaker)
  /\ replay' = "sending"
  /\ breaker' = Admit(breaker)
  /\ UNCHANGED <<row, copies, resp, process, pc, batch, full, timer, environment, tries, unrecorded>>

ReplayLands ==
  /\ replay = "sending"
  /\ replay' = "idle"
  /\ breaker' = IF brokerUp THEN OnSuccess(breaker) ELSE OnFailure(breaker)
  /\ UNCHANGED <<row, copies, resp, process, pc, batch, full, timer, environment, tries, unrecorded>>

BrokerChanges ==
  /\ brokerUp' = ~ brokerUp
  /\ UNCHANGED <<row, copies, resp, memory, dbFaults, stops, tries, unrecorded>>

\* Only a pending row's deadline and age are ever read again.
Older(r) ==
  IF r.status = "pending"
  THEN [status |-> "pending",
        attempts |-> r.attempts,
        due |-> IF r.due > -MaxOverdue THEN r.due - 1 ELSE r.due,
        age |-> AtMost(r.age + 1, MaxAge + 1)]
  ELSE r

Tick ==
  /\ row' = [e \in Events |-> Older(row[e])]
  /\ timer' = IF timer > 0 THEN timer - 1 ELSE 0
  /\ breaker' = Elapse(breaker)
  /\ UNCHANGED <<copies, resp, process, pc, batch, full, replay, environment, tries, unrecorded>>

Next ==
  \/ \E e \in Events : RefuseBody(e) \/ Enqueue(e) \/ Respond(e)
  \/ Poll \/ SendRow \/ DeferRow
  \/ RowAcked \/ RowAckedMarkFails \/ RowErred
  \/ StatementFails \/ EndIteration
  \/ Shutdown \/ Exit \/ Crash \/ Restart
  \/ ReplaySends \/ ReplayLands
  \/ BrokerChanges \/ Tick

Spec == Init /\ [][Next]_vars

(* Timers fire, every publish settles (the client has its own timeouts),   *)
(* an iteration goes on to its end, and a stopped process is started again *)
(* by its supervisor.  Nothing is assumed of requests or of the broker.    *)
Drain == Poll \/ SendRow \/ DeferRow \/ RowAcked \/ RowErred \/ EndIteration

Fairness ==
  /\ WF_vars(Tick)
  /\ WF_vars(Drain)
  /\ WF_vars(ReplayLands)
  /\ WF_vars(Exit)
  /\ WF_vars(Restart)

FairSpec == Spec /\ Fairness

-----------------------------------------------------------------------------
TypeOK ==
  /\ row \in [Events -> Rows]
  /\ copies \in [Events -> 0..MaxCopies]
  /\ resp \in [Events -> Responses]
  /\ process \in {"up", "stopping", "down"}
  /\ pc \in {"asleep", "next", "sending"}
  /\ batch \in Seq(Events)
  /\ full \in BOOLEAN
  /\ timer \in 0..(IdlePoll + BusyPoll)
  /\ breaker \in BreakerRecords
  /\ replay \in {"idle", "sending"}
  /\ brokerUp \in BOOLEAN
  /\ dbFaults \in 0..MaxDbFaults
  /\ stops \in 0..MaxStops
  /\ tries \in [Events -> 0..MaxAttempts]
  /\ unrecorded \in [Events -> 0..MaxCopies]

(* "By the time 202 returns, the payload is durably in SQLite" (request-   *)
(* flows.md:60): an answered event has a row, whatever statement failed and *)
(* whenever the process crashed.                                           *)
AcceptedIsStored ==
  \A e \in Events : resp[e] \in {"stored", "202"} => row[e].status # "absent"

(* At-least-once: no row is marked dispatched before a copy is in Kafka.   *)
DispatchedWasDelivered ==
  \A e \in Events : row[e].status = "dispatched" => copies[e] > 0

(* A second copy of an event has a cause: a lost acknowledgement, a row     *)
(* that could not be marked, or a crash during the publish.  The drainer   *)
(* never publishes twice what it knows to be published.                    *)
DuplicatesHaveACause ==
  \A e \in Events :
    copies[e] <= unrecorded[e] + (IF row[e].status = "dispatched" THEN 1 ELSE 0)

(* The row that is being published is pending, and stands once in its      *)
(* batch, whatever happened to other rows and to the process meanwhile.    *)
BatchIsPending ==
  /\ pc = "sending" => batch # << >>
  /\ \A i \in DOMAIN batch : row[batch[i]].status = "pending"
  /\ \A i, j \in DOMAIN batch : i # j => batch[i] # batch[j]

(* Give-up is for age alone (outbox.md:80): a failed row has passed the    *)
(* maximal age, and its last publish was really tried.                     *)
GivenUpForAge ==
  \A e \in Events : row[e].status = "failed" => row[e].age > MaxAge /\ tries[e] > 0

(* A rejection by the open breaker is no attempt (circuit-breaker design,  *)
(* line 31): attempts counts publishes that reached the producer.          *)
AttemptsAreTries == \A e \in Events : row[e].attempts <= tries[e]

(* dispatched and failed are final, across retries, crashes and restarts.  *)
SettledIsFinal ==
  [][ \A e \in Events :
        row[e].status \in {"dispatched", "failed"} => row'[e].status = row[e].status ]_vars

Settled(e) == row[e].status \in {"dispatched", "failed"}

(* Every stored event is dispatched or given up in the end once the broker *)
(* stays up, whoever shares the breaker and whatever poison is queued.     *)
StoredIsSettled ==
  <>[]brokerUp => \A e \in Events : row[e].status = "pending" ~> Settled(e)

(* An outage of any length ages rows out (circuit-breaker design, line     *)
(* 179): no stored event stays pending for ever, whatever the broker does, *)
(* unless replays take the breaker's probes away from it for ever.         *)
OutageAgesOut ==
  <>[](replay = "idle") => \A e \in Events : row[e].status = "pending" ~> Settled(e)

(* A poison message delays the others, by the breaker it keeps tripping,   *)
(* but does not cost them: while the broker is up, every stored event that *)
(* it takes reaches its topic.                                             *)
PoisonIsContained ==
  []brokerUp => \A e \in Events \ Poison : row[e].status = "pending" ~> copies[e] > 0

-----------------------------------------------------------------------------
(* The contract of the outbox, read off this state: an event expires when  *)
(* its age passes the maximum.                                             *)
Contract ==
  INSTANCE OutboxContract WITH
    answered <- {e \in Events : resp[e] = "202"},
    status <- [e \in Events |-> row[e].status],
    expired <- {e \in Events : row[e].age > MaxAge}

ImplementsContract == Contract!Spec

=============================================================================
