----------------------------- MODULE OutboxProofs -----------------------------
(***************************************************************************)
(* Theorems about the outbox, for every set of events, every configuration *)
(* of the drainer and every bound: the safety invariants that the runs     *)
(* check, and that Outbox implements OutboxContract.                       *)
(***************************************************************************)
EXTENDS Outbox, BreakerLemmas, TLAPS

-----------------------------------------------------------------------------
(* The inductive invariant.                                                *)

\* Nothing is stored for a request that has not been answered, and what is not
\* stored has no age.
Untouched(e) ==
  /\ resp[e] = "none" => row[e].status = "absent"
  /\ row[e].status = "absent" => row[e].age = 0

\* What holds of one event whatever the drainer is doing.
EventInv(e) ==
  /\ Untouched(e)
  /\ resp[e] \in {"stored", "202"} => row[e].status # "absent"
  /\ row[e].status = "dispatched" => copies[e] > 0
  /\ copies[e] <= unrecorded[e] + (IF row[e].status = "dispatched" THEN 1 ELSE 0)
  /\ row[e].status = "failed" => row[e].age > MaxAge /\ tries[e] > 0
  /\ row[e].attempts <= tries[e]

\* The publish in flight has been counted in the history of its event.
SendingIsCounted ==
  pc = "sending" =>
    /\ tries[batch[1]] > 0
    /\ AtMost(row[batch[1]].attempts + 1, MaxAttempts) <= tries[batch[1]]

\* An open breaker has a retry time.
OpenHasTime == breaker.state = "open" => breaker.wait \in 0..RecoveryTimeout

IInv ==
  /\ TypeOK
  /\ \A e \in Events : EventInv(e)
  /\ BatchIsPending
  /\ SendingIsCounted
  /\ OpenHasTime

-----------------------------------------------------------------------------
(* Rows.                                                                   *)

\* The backoff stays between one tick and its cap.
LEMMA DelayBound == \A n : Delay(n) \in 1..BackoffMax
  BY OutboxAssumption DEF Delay

\* An error leaves a pending row pending or gives it up; the age stays.
LEMMA AfterErrorFacts ==
  ASSUME NEW r \in Rows, r.status = "pending"
  PROVE  /\ AfterError(r) \in Rows
         /\ AfterError(r).status \in {"pending", "failed"}
         /\ AfterError(r).status = "failed" => r.age > MaxAge
         /\ AfterError(r).age = r.age
         /\ AfterError(r).attempts = AtMost(r.attempts + 1, MaxAttempts)
  <1> DEFINE tried == OneMoreTry(r)
  <1> USE OutboxAssumption, BreakerAssumption
  <1>1. tried \in Rows
    BY DEF OneMoreTry, Rows, AtMost
  <1>2. /\ tried.age = r.age
        /\ tried.status = r.status
        /\ tried.attempts = AtMost(r.attempts + 1, MaxAttempts)
    BY DEF OneMoreTry, Rows
  <1>3. CASE r.age > MaxAge
    <2>1. AfterError(r) = [tried EXCEPT !.status = "failed"]
      BY <1>3 DEF AfterError
    <2>2. QED
      BY <1>1, <1>2, <1>3, <2>1 DEF Rows, Statuses
  <1>4. CASE ~ (r.age > MaxAge)
    <2> DEFINE d == Delay(tried.attempts)
    <2>1. AfterError(r) = [tried EXCEPT !.due = d]
      BY <1>4 DEF AfterError
    <2>2. d \in (-MaxOverdue)..(IF BackoffMax > RecoveryTimeout THEN BackoffMax ELSE RecoveryTimeout)
      BY DelayBound
    <2> HIDE DEF d
    <2>3. QED
      BY <1>1, <1>2, <1>4, <2>1, <2>2 DEF Rows, Statuses
  <1>5. QED  BY <1>3, <1>4

\* Getting older changes a row's deadline and age only.
LEMMA OlderFacts ==
  ASSUME NEW r \in Rows
  PROVE  /\ Older(r) \in Rows
         /\ Older(r).status = r.status
         /\ Older(r).attempts = r.attempts
         /\ Older(r).age >= r.age
         /\ r.status # "pending" => Older(r) = r
  <1> USE OutboxAssumption, BreakerAssumption
  <1>1. CASE r.status = "pending"
    <2>1. AtMost(r.age + 1, MaxAge + 1) \in 0..(MaxAge + 1) /\ AtMost(r.age + 1, MaxAge + 1) >= r.age
      BY DEF AtMost, Rows
    <2>2. (IF r.due > -MaxOverdue THEN r.due - 1 ELSE r.due)
            \in (-MaxOverdue)..(IF BackoffMax > RecoveryTimeout THEN BackoffMax ELSE RecoveryTimeout)
      BY DEF Rows
    <2>3. QED
      BY <1>1, <2>1, <2>2 DEF Older, Rows, Statuses
  <1>2. CASE r.status # "pending"
    BY <1>2 DEF Older, Rows
  <1>3. QED  BY <1>1, <1>2

\* A new row, and a row whose deadline or verdict is written, is a row.
LEMMA RowWrites ==
  /\ NewRow \in Rows
  /\ NewRow.status = "pending"
  /\ NewRow.attempts = 0
  /\ \A r \in Rows : /\ [r EXCEPT !.status = "dispatched"] \in Rows
                     /\ [r EXCEPT !.status = "dispatched"].attempts = r.attempts
                     /\ [r EXCEPT !.status = "dispatched"].status = "dispatched"
  /\ \A r \in Rows, d \in 0..RecoveryTimeout :
       /\ [r EXCEPT !.due = d] \in Rows
       /\ [r EXCEPT !.due = d].status = r.status
       /\ [r EXCEPT !.due = d].attempts = r.attempts
       /\ [r EXCEPT !.due = d].age = r.age
  <1> USE OutboxAssumption, BreakerAssumption
  <1>1. /\ NewRow \in Rows
        /\ NewRow.status = "pending"
        /\ NewRow.attempts = 0
    BY DEF NewRow, Rows, Statuses
  <1>2. ASSUME NEW r \in Rows
        PROVE  /\ [r EXCEPT !.status = "dispatched"] \in Rows
               /\ [r EXCEPT !.status = "dispatched"].attempts = r.attempts
               /\ [r EXCEPT !.status = "dispatched"].status = "dispatched"
    BY DEF Rows, Statuses
  <1>3. ASSUME NEW r \in Rows, NEW d \in 0..RecoveryTimeout
        PROVE  /\ [r EXCEPT !.due = d] \in Rows
               /\ [r EXCEPT !.due = d].status = r.status
               /\ [r EXCEPT !.due = d].attempts = r.attempts
               /\ [r EXCEPT !.due = d].age = r.age
    BY DEF Rows
  <1>4. QED  BY <1>1, <1>2, <1>3

\* The rest of a batch without repetition does not hold its first row.
LEMMA BatchTail ==
  ASSUME NEW s \in Seq(Events), s # << >>,
         \A i, j \in DOMAIN s : i # j => s[i] # s[j]
  PROVE  /\ Head(s) = s[1] /\ s[1] \in Events /\ 1 \in DOMAIN s
         /\ Tail(s) \in Seq(Events)
         /\ \A i \in DOMAIN Tail(s) :
              i + 1 \in DOMAIN s /\ Tail(s)[i] = s[i + 1] /\ Tail(s)[i] # s[1]
         /\ \A i, j \in DOMAIN Tail(s) : i # j => Tail(s)[i] # Tail(s)[j]
  <1>1. Len(s) \in Nat /\ Len(s) > 0 /\ DOMAIN s = 1..Len(s)
    OBVIOUS
  <1>2. Head(s) = s[1] /\ s[1] \in Events /\ 1 \in DOMAIN s
    BY <1>1
  <1>3. Tail(s) \in Seq(Events) /\ DOMAIN Tail(s) = 1..(Len(s) - 1)
    BY <1>1
  <1>4. \A i \in DOMAIN Tail(s) : i + 1 \in DOMAIN s /\ Tail(s)[i] = s[i + 1]
    BY <1>1, <1>3
  <1>5. \A i \in DOMAIN Tail(s) : Tail(s)[i] # s[1]
    BY <1>1, <1>3, <1>4
  <1>6. \A i, j \in DOMAIN Tail(s) : i # j => Tail(s)[i] # Tail(s)[j]
    BY <1>1, <1>3, <1>4
  <1>7. QED  BY <1>2, <1>3, <1>4, <1>5, <1>6

-----------------------------------------------------------------------------
(* Steps.  The drainer's steps either write the row at the head of the     *)
(* batch and go on to the next, or leave the iteration, or leave the batch.*)

\* Writing the head row and going on keeps what is known of the batch.
LEMMA HeadWritten ==
  ASSUME IInv, batch # << >>, NEW r \in Rows,
         row' = [row EXCEPT ![Head(batch)] = r], NextRow
  PROVE  /\ Head(batch) = batch[1] /\ batch[1] \in Events
         /\ row[batch[1]].status = "pending"
         /\ row' \in [Events -> Rows]
         /\ row'[batch[1]] = r
         /\ \A e \in Events : e # batch[1] => row'[e] = row[e]
         /\ batch' \in Seq(Events) /\ pc' = "next"
         /\ BatchIsPending' /\ SendingIsCounted'
  <1>1. batch \in Seq(Events) /\ row \in [Events -> Rows]
    BY DEF IInv, TypeOK
  <1>2. /\ \A i \in DOMAIN batch : row[batch[i]].status = "pending"
        /\ \A i, j \in DOMAIN batch : i # j => batch[i] # batch[j]
    BY DEF IInv, BatchIsPending
  <1>3. /\ Head(batch) = batch[1] /\ batch[1] \in Events /\ 1 \in DOMAIN batch
        /\ Tail(batch) \in Seq(Events)
        /\ \A i \in DOMAIN Tail(batch) :
             i + 1 \in DOMAIN batch /\ Tail(batch)[i] = batch[i + 1] /\ Tail(batch)[i] # batch[1]
        /\ \A i, j \in DOMAIN Tail(batch) : i # j => Tail(batch)[i] # Tail(batch)[j]
    BY <1>1, <1>2, BatchTail
  <1>4. /\ row' \in [Events -> Rows]
        /\ row'[batch[1]] = r
        /\ \A e \in Events : e # batch[1] => row'[e] = row[e]
    BY <1>1, <1>3
  <1>5. batch' = Tail(batch) /\ pc' = "next"
    BY DEF NextRow
  <1>6. \A i \in DOMAIN Tail(batch) : Tail(batch)[i] \in Events
    BY <1>1, <1>3
  <1>7. BatchIsPending'
    BY <1>2, <1>3, <1>4, <1>5, <1>6 DEF BatchIsPending
  <1>8. SendingIsCounted'
    BY <1>5 DEF SendingIsCounted
  <1>9. QED  BY <1>2, <1>3, <1>4, <1>5, <1>7, <1>8

\* The next row in the publish is the head of the batch, and pending.
LEMMA HeadFacts ==
  ASSUME IInv, batch # << >>
  PROVE  /\ Head(batch) = batch[1] /\ batch[1] \in Events
         /\ row[batch[1]] \in Rows /\ row[batch[1]].status = "pending"
  <1>1. batch \in Seq(Events) /\ row \in [Events -> Rows]
    BY DEF IInv, TypeOK
  <1>2. Head(batch) = batch[1] /\ batch[1] \in Events /\ 1 \in DOMAIN batch
    BY <1>1
  <1>3. QED
    BY <1>1, <1>2 DEF IInv, BatchIsPending

\* The breaker keeps its type and an open one its retry time, whichever of its
\* operators a step applies.
LEMMA BreakerSteps ==
  ASSUME breaker \in BreakerRecords, OpenHasTime,
         \/ breaker' = InitialBreaker
         \/ breaker' = Admit(breaker)
         \/ breaker' = OnSuccess(breaker)
         \/ breaker' = OnFailure(breaker)
         \/ breaker' = Elapse(breaker)
         \/ breaker' = breaker
  PROVE  breaker' \in BreakerRecords /\ OpenHasTime'
  <1> USE BreakerAssumption DEF OpenHasTime
  <1>1. CASE breaker' = InitialBreaker
    BY <1>1 DEF InitialBreaker, BreakerRecords, NoAttempt
  <1>2. CASE breaker' = Admit(breaker)
    BY <1>2, AdmitFacts
  <1>3. CASE breaker' = OnSuccess(breaker)
    <2>1. ToClosed.state = "closed"
      BY DEF ToClosed, InitialBreaker
    <2>2. QED
      BY <1>3, <2>1, OnSuccessFacts DEF BreakerRecords
  <1>4. CASE breaker' = OnFailure(breaker)
    <2>1. CASE breaker.state = "open"
      BY <1>4, <2>1, OnFailureFacts
    <2>2. CASE breaker.state # "open"
      <3>1. breaker' \in BreakerRecords
        BY <1>4, OnFailureFacts
      <3>2. breaker'.state = "open" => breaker'.wait = RecoveryTimeout
        <4>1. CASE breaker' = [breaker EXCEPT !.failures = breaker.failures + 1]
          BY <2>2, <4>1 DEF BreakerRecords
        <4>2. CASE breaker'.wait = RecoveryTimeout
          BY <4>2
        <4>3. QED  BY <1>4, <2>2, <4>1, <4>2, OnFailureFacts
      <3>3. QED  BY <3>1, <3>2
    <2>3. QED  BY <2>1, <2>2
  <1>5. CASE breaker' = Elapse(breaker)
    BY <1>5, ElapseFacts
  <1>6. CASE breaker' = breaker
    BY <1>6
  <1>7. QED  BY <1>1, <1>2, <1>3, <1>4, <1>5, <1>6

\* The handler: a row is inserted for a request that has none, and only a
\* request with a row is answered 202.
LEMMA RequestIInv ==
  ASSUME IInv, NEW e \in Events, RefuseBody(e) \/ Enqueue(e) \/ Respond(e)
  PROVE  IInv'
  <1> USE OutboxAssumption
  <1>1. CASE RefuseBody(e) \/ Respond(e)
    <2>1. UNCHANGED <<row, copies, memory, environment, tries, unrecorded>>
      BY <1>1 DEF RefuseBody, Respond
    <2>2. resp' \in [Events -> Responses]
      BY <1>1 DEF IInv, TypeOK, RefuseBody, Respond, Responses
    <2>3. \A f \in Events :
            /\ resp'[f] = "none" => resp[f] = "none"
            /\ resp'[f] \in {"stored", "202"} => resp[f] \in {"stored", "202"}
      BY <1>1 DEF IInv, TypeOK, RefuseBody, Respond
    <2>4. TypeOK'
      BY <2>1, <2>2 DEF IInv, TypeOK, memory, environment
    <2>5. \A f \in Events : EventInv(f)'
      BY <2>1, <2>3 DEF IInv, EventInv, Untouched
    <2>6. QED
      BY <2>1, <2>4, <2>5
      DEF IInv, BatchIsPending, SendingIsCounted, OpenHasTime, memory
  <1>2. CASE Enqueue(e)
    <2>1. UNCHANGED <<copies, memory, tries, unrecorded>>
      BY <1>2 DEF Enqueue
    <2>2. row[e].status = "absent"
      BY <1>2 DEF IInv, EventInv, Untouched, Enqueue
    <2>3. /\ row' \in [Events -> Rows]
          /\ resp' \in [Events -> Responses]
          /\ dbFaults' \in 0..MaxDbFaults
      <3>1. row' = [row EXCEPT ![e] = NewRow] \/ row' = row
        BY <1>2 DEF Enqueue
      <3>2. row' \in [Events -> Rows]
        BY <3>1, RowWrites DEF IInv, TypeOK
      <3>3. resp' \in [Events -> Responses]
        BY <1>2 DEF IInv, TypeOK, Enqueue, Responses
      <3>4. dbFaults' \in 0..MaxDbFaults
        BY <1>2 DEF IInv, TypeOK, Enqueue
      <3>5. QED  BY <3>2, <3>3, <3>4
    <2>4. TypeOK'
      BY <1>2, <2>1, <2>3 DEF IInv, TypeOK, Enqueue, memory
    <2>5. \A f \in Events : f # e => row'[f] = row[f] /\ resp'[f] = resp[f]
      BY <1>2 DEF IInv, TypeOK, Enqueue
    <2>6. \/ row'[e].status = "pending" /\ row'[e].attempts = 0 /\ resp'[e] = "stored"
          \/ row'[e] = row[e] /\ resp'[e] = "500"
      <3>1. \/ row' = [row EXCEPT ![e] = NewRow] /\ resp' = [resp EXCEPT ![e] = "stored"]
            \/ row' = row /\ resp' = [resp EXCEPT ![e] = "500"]
        BY <1>2 DEF Enqueue
      <3>2. \/ row'[e] = NewRow /\ resp'[e] = "stored"
            \/ row'[e] = row[e] /\ resp'[e] = "500"
        BY <3>1 DEF IInv, TypeOK
      <3>3. NewRow.status = "pending" /\ NewRow.attempts = 0
        BY DEF NewRow
      <3>4. QED  BY <3>2, <3>3
    <2>7. \A f \in Events : EventInv(f)'
      <3>1. ASSUME NEW f \in Events, f # e
            PROVE  EventInv(f)'
        BY <2>1, <2>5, <3>1 DEF IInv, EventInv, Untouched
      <3>2. EventInv(e)'
        BY <2>1, <2>2, <2>6 DEF IInv, TypeOK, EventInv, Untouched
      <3>3. QED  BY <3>1, <3>2
    <2>8. BatchIsPending' /\ SendingIsCounted'
      <3>1. \A i \in DOMAIN batch : batch[i] \in Events /\ batch[i] # e
        BY <2>2 DEF IInv, TypeOK, BatchIsPending
      <3>2. pc = "sending" => 1 \in DOMAIN batch
        BY DEF IInv, TypeOK, BatchIsPending
      <3>3. batch' = batch /\ pc' = pc /\ tries' = tries
        BY <2>1 DEF memory
      <3>4. QED
        BY <2>5, <3>1, <3>2, <3>3 DEF IInv, BatchIsPending, SendingIsCounted
    <2>9. QED
      BY <2>1, <2>4, <2>7, <2>8 DEF IInv, OpenHasTime, memory
  <1>3. QED  BY <1>1, <1>2

\* The SELECT: the batch holds pending rows, each of them once.
LEMMA PollIInv ==
  ASSUME IInv, Poll
  PROVE  IInv'
  <1> USE OutboxAssumption
  <1>0. PICK n \in 0..BatchSize : \E s \in [1..n -> DueRows] :
          IsBatch(s) /\ batch' = s /\ full' = (n >= BatchSize)
    BY DEF Poll
  <1>1. PICK s \in [1..n -> DueRows] :
          IsBatch(s) /\ batch' = s /\ full' = (n >= BatchSize)
    BY <1>0
  <1>2. UNCHANGED <<row, copies, resp, process, timer, breaker, replay, environment, tries, unrecorded>>
        /\ pc' = "next"
    BY DEF Poll
  <1>3. s \in Seq(Events) /\ DOMAIN s = 1..n
    BY <1>1 DEF DueRows
  <1>4. TypeOK'
    BY <1>1, <1>2, <1>3 DEF IInv, TypeOK, environment
  <1>5. BatchIsPending'
    BY <1>1, <1>2, <1>3 DEF BatchIsPending, DueRows, IsBatch
  <1>6. QED
    BY <1>2, <1>4, <1>5 DEF IInv, EventInv, Untouched, SendingIsCounted, OpenHasTime

\* The publish begins: it is counted before it can fail.
LEMMA SendRowIInv ==
  ASSUME IInv, SendRow
  PROVE  IInv'
  <1> USE OutboxAssumption
  <1>1. batch # << >> /\ pc' = "sending" /\ breaker' = Admit(breaker)
        /\ UNCHANGED <<row, copies, resp, process, batch, full, timer, replay, environment, unrecorded>>
    BY DEF SendRow
  <1>2. /\ Head(batch) = batch[1] /\ batch[1] \in Events
        /\ row[batch[1]] \in Rows /\ row[batch[1]].status = "pending"
    BY <1>1, HeadFacts
  <1>3. tries' = [tries EXCEPT ![batch[1]] = AtMost(@ + 1, MaxAttempts)]
    BY <1>2 DEF SendRow
  <1>4. breaker' \in BreakerRecords /\ OpenHasTime'
    BY <1>1, BreakerSteps DEF IInv, TypeOK
  <1>5. tries' \in [Events -> 0..MaxAttempts]
    <2>1. \A k \in 0..MaxAttempts : AtMost(k + 1, MaxAttempts) \in 0..MaxAttempts
      BY DEF AtMost
    <2>2. tries \in [Events -> 0..MaxAttempts]
      BY DEF IInv, TypeOK
    <2>3. QED  BY <1>2, <1>3, <2>1, <2>2
  <1>6. TypeOK'
    BY <1>1, <1>4, <1>5 DEF IInv, TypeOK, environment
  <1>7. \A e \in Events : tries'[e] >= tries[e]
    BY <1>3 DEF IInv, TypeOK, AtMost
  <1>8. ASSUME NEW e \in Events
        PROVE  EventInv(e)'
    <2>1. /\ row[e].attempts \in 0..MaxAttempts
          /\ tries[e] \in 0..MaxAttempts /\ tries'[e] \in 0..MaxAttempts
      BY <1>5 DEF IInv, TypeOK, Rows
    <2>2. QED
      BY <1>1, <1>7, <2>1 DEF IInv, EventInv, Untouched
  <1>9. SendingIsCounted'
    <2>1. row[batch[1]].attempts <= tries[batch[1]]
      BY <1>2 DEF IInv, EventInv
    <2>2. /\ tries[batch[1]] \in 0..MaxAttempts
          /\ tries'[batch[1]] = AtMost(tries[batch[1]] + 1, MaxAttempts)
      BY <1>2, <1>3 DEF IInv, TypeOK
    <2>3. row[batch[1]].attempts \in 0..MaxAttempts
      BY <1>2 DEF Rows
    <2>4. QED
      BY <1>1, <2>1, <2>2, <2>3 DEF SendingIsCounted, AtMost
  <1>10. BatchIsPending'
    BY <1>1 DEF IInv, BatchIsPending
  <1>11. QED
    BY <1>4, <1>6, <1>8, <1>9, <1>10 DEF IInv

\* A row deferred by the open breaker keeps its status and its attempts.
LEMMA DeferRowIInv ==
  ASSUME IInv, DeferRow
  PROVE  IInv'
  <1> USE OutboxAssumption
  <1>1. batch # << >> /\ NextRow /\ Rejects(breaker)
        /\ UNCHANGED <<copies, resp, process, full, timer, breaker, replay, environment, tries, unrecorded>>
    BY DEF DeferRow
  <1> DEFINE h == batch[1]
             r == [row[h] EXCEPT !.due = breaker.wait]
  <1>2. /\ Head(batch) = h /\ h \in Events
        /\ row[h] \in Rows /\ row[h].status = "pending"
    BY <1>1, HeadFacts
  <1>3. breaker.wait \in 0..RecoveryTimeout
    BY <1>1 DEF IInv, OpenHasTime, Rejects
  <1>4. r \in Rows /\ r.status = "pending" /\ r.attempts = row[h].attempts
    BY <1>2, <1>3, RowWrites
  <1>5. row' = [row EXCEPT ![Head(batch)] = r]
    BY <1>2 DEF DeferRow
  <1> HIDE DEF r
  <1>6. /\ row' \in [Events -> Rows] /\ row'[h] = r
        /\ \A e \in Events : e # h => row'[e] = row[e]
        /\ batch' \in Seq(Events) /\ pc' = "next"
        /\ BatchIsPending' /\ SendingIsCounted'
    BY <1>1, <1>4, <1>5, HeadWritten
  <1>7. TypeOK'
    BY <1>1, <1>6 DEF IInv, TypeOK, environment
  <1>8. ASSUME NEW e \in Events
        PROVE  EventInv(e)'
    <2>1. CASE e # h
      BY <1>1, <1>6, <2>1 DEF IInv, EventInv, Untouched
    <2>2. CASE e = h
      BY <1>1, <1>2, <1>4, <1>6, <2>2 DEF IInv, EventInv, Untouched
    <2>3. QED  BY <2>1, <2>2
  <1>9. QED
    BY <1>1, <1>6, <1>7, <1>8 DEF IInv, OpenHasTime

\* Counting a copy keeps the counters in their range and never lowers them.
LEMMA CopyCounted ==
  \A n \in 0..MaxCopies : AtMost(n + 1, MaxCopies) \in 1..MaxCopies /\ AtMost(n + 1, MaxCopies) >= n
  BY OutboxAssumption DEF AtMost

\* An acknowledged row is dispatched, with one more copy in Kafka.
LEMMA RowAckedIInv ==
  ASSUME IInv, RowAcked
  PROVE  IInv'
  <1> USE OutboxAssumption
  <1> DEFINE h == batch[1]
             r == [row[h] EXCEPT !.status = "dispatched"]
             n == AtMost(copies[h] + 1, MaxCopies)
  <1>1. pc = "sending" /\ NextRow /\ breaker' = OnSuccess(breaker)
        /\ UNCHANGED <<resp, process, full, timer, replay, environment, tries, unrecorded>>
    BY DEF RowAcked
  <1>2. batch # << >>
    BY <1>1 DEF IInv, BatchIsPending
  <1>3. /\ Head(batch) = h /\ h \in Events
        /\ row[h] \in Rows /\ row[h].status = "pending"
    BY <1>2, HeadFacts
  <1>4. r \in Rows /\ r.status = "dispatched" /\ r.attempts = row[h].attempts
    BY <1>3, RowWrites
  <1>5. row' = [row EXCEPT ![Head(batch)] = r] /\ copies' = [copies EXCEPT ![h] = n]
    BY <1>3 DEF RowAcked
  <1>6. copies[h] \in 0..MaxCopies /\ unrecorded[h] \in 0..MaxCopies /\ n \in 1..MaxCopies
    BY <1>3, CopyCounted DEF IInv, TypeOK
  <1>7. copies' \in [Events -> 0..MaxCopies] /\ copies'[h] = n
        /\ \A e \in Events : e # h => copies'[e] = copies[e]
    <2>1. copies \in [Events -> 0..MaxCopies] /\ n \in 0..MaxCopies
      BY <1>6 DEF IInv, TypeOK
    <2>2. copies' = [copies EXCEPT ![h] = n]
      BY <1>5
    <2> HIDE DEF n
    <2>3. QED  BY <1>3, <2>1, <2>2
  <1>8. n <= unrecorded[h] + 1
    BY <1>3, <1>6 DEF IInv, EventInv, AtMost
  <1> HIDE DEF r, n
  <1>9. /\ row' \in [Events -> Rows] /\ row'[h] = r
        /\ \A e \in Events : e # h => row'[e] = row[e]
        /\ batch' \in Seq(Events) /\ pc' = "next"
        /\ BatchIsPending' /\ SendingIsCounted'
    BY <1>1, <1>2, <1>4, <1>5, HeadWritten
  <1>10. breaker' \in BreakerRecords /\ OpenHasTime'
    BY <1>1, BreakerSteps DEF IInv, TypeOK
  <1>11. TypeOK'
    BY <1>1, <1>7, <1>9, <1>10 DEF IInv, TypeOK, environment
  <1>12. ASSUME NEW e \in Events
         PROVE  EventInv(e)'
    <2>1. CASE e # h
      BY <1>1, <1>7, <1>9, <2>1 DEF IInv, EventInv, Untouched
    <2>2. CASE e = h
      BY <1>1, <1>3, <1>4, <1>6, <1>7, <1>8, <1>9, <2>2 DEF IInv, EventInv, Untouched
    <2>3. QED  BY <2>1, <2>2
  <1>13. QED
    BY <1>9, <1>10, <1>11, <1>12 DEF IInv

\* The row in flight after an error, whether its copy arrived or not: retried or
\* given up, and the drainer goes on; or nothing written, and it gives up.
LEMMA RowFailedIInv ==
  ASSUME IInv, pc = "sending",
         breaker' = OnSuccess(breaker) \/ breaker' = OnFailure(breaker),
         \/ UNCHANGED <<copies, unrecorded>>
         \/ /\ copies' = [copies EXCEPT ![Head(batch)] = AtMost(@ + 1, MaxCopies)]
            /\ unrecorded' = [unrecorded EXCEPT ![Head(batch)] = AtMost(@ + 1, MaxCopies)],
         \/ /\ row' = [row EXCEPT ![Head(batch)] = AfterError(@)]
            /\ NextRow
            /\ UNCHANGED <<full, timer>>
         \/ GiveUpIteration /\ UNCHANGED row,
         dbFaults' \in 0..MaxDbFaults,
         UNCHANGED <<resp, process, replay, brokerUp, stops, tries>>
  PROVE  IInv'
  <1> USE OutboxAssumption
  <1> DEFINE h == batch[1]
             r == AfterError(row[h])
  <1>1. batch # << >>
    BY DEF IInv, BatchIsPending
  <1>2. /\ Head(batch) = h /\ h \in Events
        /\ row[h] \in Rows /\ row[h].status = "pending"
    BY <1>1, HeadFacts
  <1>3. /\ r \in Rows /\ r.status \in {"pending", "failed"}
        /\ r.status = "failed" => r.age > MaxAge
        /\ r.attempts = AtMost(row[h].attempts + 1, MaxAttempts)
    BY <1>2, AfterErrorFacts
  <1>4. tries[h] > 0 /\ r.attempts <= tries[h]
    BY <1>3 DEF IInv, SendingIsCounted
  <1> HIDE DEF r
  <1>5. /\ copies' \in [Events -> 0..MaxCopies] /\ unrecorded' \in [Events -> 0..MaxCopies]
        /\ \A e \in Events : e # h => copies'[e] = copies[e] /\ unrecorded'[e] = unrecorded[e]
        /\ copies'[h] <= unrecorded'[h]
    <2>1. /\ copies \in [Events -> 0..MaxCopies] /\ unrecorded \in [Events -> 0..MaxCopies]
          /\ copies[h] <= unrecorded[h]
      <3>1. copies \in [Events -> 0..MaxCopies] /\ unrecorded \in [Events -> 0..MaxCopies]
        BY DEF IInv, TypeOK
      <3>2. copies[h] <= unrecorded[h] + 0
        BY <1>2 DEF IInv, EventInv
      <3>3. QED  BY <1>2, <3>1, <3>2
    <2>2. CASE UNCHANGED <<copies, unrecorded>>
      BY <1>2, <2>1, <2>2
    <2>3. CASE /\ copies' = [copies EXCEPT ![h] = AtMost(@ + 1, MaxCopies)]
               /\ unrecorded' = [unrecorded EXCEPT ![h] = AtMost(@ + 1, MaxCopies)]
      <3>1. AtMost(copies[h] + 1, MaxCopies) \in 0..MaxCopies
            /\ AtMost(unrecorded[h] + 1, MaxCopies) \in 0..MaxCopies
            /\ AtMost(copies[h] + 1, MaxCopies) <= AtMost(unrecorded[h] + 1, MaxCopies)
        BY <1>2, <2>1 DEF AtMost
      <3>2. QED  BY <1>2, <2>1, <2>3, <3>1
    <2>4. QED  BY <1>2, <2>2, <2>3
  <1>6. breaker' \in BreakerRecords /\ OpenHasTime'
    BY BreakerSteps DEF IInv, TypeOK
  <1>7. CASE row' = [row EXCEPT ![h] = r] /\ NextRow /\ UNCHANGED <<full, timer>>
    <2>1. /\ row' \in [Events -> Rows] /\ row'[h] = r
          /\ \A e \in Events : e # h => row'[e] = row[e]
          /\ batch' \in Seq(Events) /\ pc' = "next"
          /\ BatchIsPending' /\ SendingIsCounted'
      BY <1>1, <1>2, <1>3, <1>7, HeadWritten
    <2>2. TypeOK'
      BY <1>5, <1>6, <1>7, <2>1 DEF IInv, TypeOK
    <2>3. ASSUME NEW e \in Events
          PROVE  EventInv(e)'
      <3>1. CASE e # h
        BY <1>5, <2>1, <3>1 DEF IInv, EventInv, Untouched
      <3>2. CASE e = h
        <4>1. copies'[h] \in 0..MaxCopies /\ unrecorded'[h] \in 0..MaxCopies
          BY <1>2, <1>5
        <4>2. row[h].status # "absent" /\ resp'[h] = resp[h] /\ tries'[h] = tries[h]
          BY <1>2
        <4>3. QED
          BY <1>2, <1>3, <1>4, <1>5, <2>1, <3>2, <4>1, <4>2 DEF IInv, EventInv, Untouched
      <3>3. QED  BY <3>1, <3>2
    <2>4. QED
      BY <1>6, <2>1, <2>2, <2>3 DEF IInv
  <1>8. CASE GiveUpIteration /\ UNCHANGED row
    <2>1. pc' = "asleep" /\ batch' = << >> /\ full' = FALSE /\ timer' \in 0..(IdlePoll + BusyPoll)
      <3>1. IdlePoll \in Nat \ {0} /\ BusyPoll \in Nat \ {0}
        OBVIOUS
      <3>2. pc' = "asleep" /\ batch' = << >> /\ full' = FALSE /\ timer' \in {0, IdlePoll}
        BY <1>8 DEF GiveUpIteration
      <3>3. {0, IdlePoll} \subseteq 0..(IdlePoll + BusyPoll)
        BY <3>1
      <3>4. QED  BY <3>2, <3>3
    <2>2. TypeOK'
      <3>1. batch' \in Seq(Events)
        BY <2>1
      <3>2. row' \in [Events -> Rows]
        BY <1>8 DEF IInv, TypeOK
      <3>3. QED
        BY <1>5, <1>6, <2>1, <3>1, <3>2 DEF IInv, TypeOK
    <2>3. BatchIsPending' /\ SendingIsCounted'
      BY <2>1 DEF BatchIsPending, SendingIsCounted
    <2>4. ASSUME NEW e \in Events
          PROVE  EventInv(e)'
      <3>1. CASE e # h
        BY <1>5, <1>8, <3>1 DEF IInv, EventInv, Untouched
      <3>2. CASE e = h
        <4>1. copies'[h] \in 0..MaxCopies /\ unrecorded'[h] \in 0..MaxCopies
          BY <1>2, <1>5
        <4>2. QED
          BY <1>2, <1>5, <1>8, <3>2, <4>1 DEF IInv, EventInv, Untouched
      <3>3. QED  BY <3>1, <3>2
    <2>5. QED
      BY <1>6, <2>2, <2>3, <2>4 DEF IInv
  <1>9. QED  BY <1>2, <1>7, <1>8 DEF r

\* Steps that touch neither the table nor what is known of the copies: the
\* drainer between iterations, the process, the other user of the breaker.
LEMMA QuietIInv ==
  ASSUME IInv,
         \/ StatementFails \/ EndIteration \/ Shutdown \/ Exit \/ Restart
         \/ ReplaySends \/ ReplayLands \/ BrokerChanges
  PROVE  IInv'
  <1> USE OutboxAssumption
  <1>1. UNCHANGED <<row, copies, tries, unrecorded>>
    BY DEF StatementFails, EndIteration, Shutdown, Exit, Restart, ReplaySends, ReplayLands,
           BrokerChanges
  <1>2. /\ \A e \in Events : resp'[e] = resp[e] \/ resp'[e] = "lost"
        /\ resp' \in [Events -> Responses]
    BY DEF StatementFails, EndIteration, Shutdown, Exit, Vanish, Restart, ReplaySends, ReplayLands,
           BrokerChanges, IInv, TypeOK, Responses
  <1>3. breaker' \in BreakerRecords /\ OpenHasTime'
    <2>1. \/ breaker' = InitialBreaker \/ breaker' = Admit(breaker) \/ breaker' = OnSuccess(breaker)
          \/ breaker' = OnFailure(breaker) \/ breaker' = breaker
      BY DEF StatementFails, EndIteration, Shutdown, Exit, Vanish, Restart, ReplaySends,
             ReplayLands, BrokerChanges, memory
    <2>2. QED  BY <2>1, BreakerSteps DEF IInv, TypeOK
  <1>0. \/ batch' = << >> /\ pc' = "asleep" /\ full' = FALSE
        \/ UNCHANGED <<batch, pc, full>>
    <2>1. CASE StatementFails \/ EndIteration \/ Exit
      BY <2>1 DEF StatementFails, GiveUpIteration, EndIteration, Exit, Vanish
    <2>2. CASE Shutdown \/ Restart \/ ReplaySends \/ ReplayLands \/ BrokerChanges
      BY <2>2 DEF Shutdown, Restart, ReplaySends, ReplayLands, BrokerChanges, memory
    <2>3. QED  BY <2>1, <2>2
  <1>4. /\ batch' \in Seq(Events) /\ pc' \in {"asleep", "next", "sending"} /\ full' \in BOOLEAN
        /\ process' \in {"up", "stopping", "down"} /\ replay' \in {"idle", "sending"}
        /\ brokerUp' \in BOOLEAN
    <2>2. process' \in {process, "up", "stopping", "down"} /\ replay' \in {replay, "idle", "sending"}
      BY DEF StatementFails, EndIteration, Shutdown, Exit, Vanish, Restart, ReplaySends, ReplayLands,
             BrokerChanges, memory
    <2>3. brokerUp' = brokerUp \/ brokerUp' = ~ brokerUp
      BY DEF StatementFails, EndIteration, Shutdown, Exit, Restart, ReplaySends, ReplayLands,
             BrokerChanges, environment
    <2>4. brokerUp' \in BOOLEAN
      BY <2>3 DEF IInv, TypeOK
    <2>5. << >> \in Seq(Events)
      OBVIOUS
    <2>6. batch' \in Seq(Events) /\ pc' \in {"asleep", "next", "sending"} /\ full' \in BOOLEAN
      <3>1. CASE batch' = << >> /\ pc' = "asleep" /\ full' = FALSE
        BY <2>5, <3>1
      <3>2. CASE UNCHANGED <<batch, pc, full>>
        BY <3>2 DEF IInv, TypeOK
      <3>3. QED  BY <1>0, <3>1, <3>2
    <2>7. QED
      BY <2>2, <2>4, <2>6 DEF IInv, TypeOK
  <1>5. timer' \in 0..(IdlePoll + BusyPoll)
    <2>1. {0, IdlePoll, BusyPoll} \subseteq 0..(IdlePoll + BusyPoll)
      OBVIOUS
    <2>2. timer' \in {0, IdlePoll, BusyPoll} \/ timer' = timer
      BY DEF StatementFails, GiveUpIteration, EndIteration, Shutdown, Exit, Vanish, Restart,
             ReplaySends, ReplayLands, BrokerChanges, memory
    <2>3. QED  BY <2>1, <2>2 DEF IInv, TypeOK
  <1>6. dbFaults' \in 0..MaxDbFaults /\ stops' \in 0..MaxStops
    BY DEF StatementFails, GiveUpIteration, EndIteration, Shutdown, Exit, Restart, ReplaySends,
           ReplayLands, BrokerChanges, environment, IInv, TypeOK
  <1>7. TypeOK'
    BY <1>1, <1>2, <1>3, <1>4, <1>5, <1>6 DEF IInv, TypeOK
  <1>8. ASSUME NEW e \in Events
        PROVE  EventInv(e)'
    BY <1>1, <1>2 DEF IInv, EventInv, Untouched
  <1>9. BatchIsPending' /\ SendingIsCounted'
    <2>1. CASE batch' = << >> /\ pc' = "asleep" /\ full' = FALSE
      BY <2>1 DEF BatchIsPending, SendingIsCounted
    <2>2. CASE UNCHANGED <<batch, pc, full>>
      BY <1>1, <2>2 DEF IInv, BatchIsPending, SendingIsCounted
    <2>3. QED  BY <1>0, <2>1, <2>2
  <1>10. QED
    BY <1>3, <1>7, <1>8, <1>9 DEF IInv

\* A crash keeps the table; the message in flight may have arrived.
LEMMA CrashIInv ==
  ASSUME IInv, Crash
  PROVE  IInv'
  <1> USE OutboxAssumption
  <1> DEFINE h == batch[1]
  <1>1. /\ process' = "down" /\ pc' = "asleep" /\ batch' = << >> /\ full' = FALSE /\ timer' = 0
        /\ breaker' = InitialBreaker /\ replay' = "idle"
        /\ UNCHANGED <<row, brokerUp, dbFaults, tries>>
    BY DEF Crash, Vanish
  <1>2. /\ \A e \in Events : resp'[e] = resp[e] \/ resp'[e] = "lost"
        /\ resp' \in [Events -> Responses]
    BY DEF Crash, Vanish, IInv, TypeOK, Responses
  <1>3. stops' \in 0..MaxStops
    BY DEF Crash, IInv, TypeOK
  <1>4. breaker' \in BreakerRecords /\ OpenHasTime'
    BY <1>1, BreakerSteps DEF IInv, TypeOK
  <1>5. /\ copies' \in [Events -> 0..MaxCopies] /\ unrecorded' \in [Events -> 0..MaxCopies]
        /\ \A e \in Events :
             /\ copies'[e] >= copies[e]
             /\ copies'[e] <= unrecorded'[e] + (IF row[e].status = "dispatched" THEN 1 ELSE 0)
    <2>1. CASE UNCHANGED <<copies, unrecorded>>
      BY <2>1 DEF IInv, TypeOK, EventInv
    <2>2. CASE /\ pc = "sending"
               /\ copies' = [copies EXCEPT ![Head(batch)] = AtMost(@ + 1, MaxCopies)]
               /\ unrecorded' = [unrecorded EXCEPT ![Head(batch)] = AtMost(@ + 1, MaxCopies)]
      <3>1. /\ Head(batch) = h /\ h \in Events
            /\ row[h] \in Rows /\ row[h].status = "pending"
        BY <2>2, HeadFacts DEF IInv, BatchIsPending
      <3>2. copies \in [Events -> 0..MaxCopies] /\ unrecorded \in [Events -> 0..MaxCopies]
        BY DEF IInv, TypeOK
      <3>3. \A e \in Events :
              copies[e] <= unrecorded[e] + (IF row[e].status = "dispatched" THEN 1 ELSE 0)
        BY DEF IInv, EventInv
      <3>4. /\ AtMost(copies[h] + 1, MaxCopies) \in 0..MaxCopies
            /\ AtMost(copies[h] + 1, MaxCopies) >= copies[h]
            /\ AtMost(unrecorded[h] + 1, MaxCopies) \in 0..MaxCopies
            /\ AtMost(copies[h] + 1, MaxCopies) <= AtMost(unrecorded[h] + 1, MaxCopies) + 0
        <4>1. copies[h] <= unrecorded[h] + 0
          BY <3>1, <3>3
        <4>2. QED  BY <3>1, <3>2, <4>1 DEF AtMost
      <3>5. /\ copies' \in [Events -> 0..MaxCopies] /\ unrecorded' \in [Events -> 0..MaxCopies]
            /\ copies'[h] = AtMost(copies[h] + 1, MaxCopies)
            /\ unrecorded'[h] = AtMost(unrecorded[h] + 1, MaxCopies)
            /\ \A e \in Events : e # h => copies'[e] = copies[e] /\ unrecorded'[e] = unrecorded[e]
        BY <2>2, <3>1, <3>2, <3>4
      <3>6. ASSUME NEW e \in Events
            PROVE  /\ copies'[e] >= copies[e]
                   /\ copies'[e] <= unrecorded'[e] + (IF row[e].status = "dispatched" THEN 1 ELSE 0)
        <4>1. CASE e = h
          BY <3>1, <3>4, <3>5, <4>1
        <4>2. CASE e # h
          BY <3>2, <3>3, <3>5, <4>2
        <4>3. QED  BY <4>1, <4>2
      <3>7. QED  BY <3>5, <3>6
    <2>3. QED  BY <2>1, <2>2 DEF Crash
  <1>6. TypeOK'
    <2>1. batch' \in Seq(Events) /\ 0 \in 0..(IdlePoll + BusyPoll)
      BY <1>1
    <2>2. QED
      BY <1>1, <1>2, <1>3, <1>4, <1>5, <2>1 DEF IInv, TypeOK
  <1>7. ASSUME NEW e \in Events
        PROVE  EventInv(e)'
    <2>1. EventInv(e) /\ copies[e] \in 0..MaxCopies /\ copies'[e] \in 0..MaxCopies
      BY <1>5 DEF IInv, TypeOK
    <2>2. Untouched(e)'
      BY <1>1, <1>2, <2>1 DEF EventInv, Untouched
    <2>3. resp'[e] \in {"stored", "202"} => row'[e].status # "absent"
      BY <1>1, <1>2, <2>1 DEF EventInv
    <2>4. /\ copies'[e] >= copies[e]
          /\ copies'[e] <= unrecorded'[e] + (IF row[e].status = "dispatched" THEN 1 ELSE 0)
      BY <1>5
    <2>5. row[e].status = "dispatched" => copies'[e] > 0
      BY <2>1, <2>4 DEF EventInv
    <2>6. QED
      BY <1>1, <2>1, <2>2, <2>3, <2>4, <2>5 DEF EventInv
  <1>8. BatchIsPending' /\ SendingIsCounted'
    BY <1>1 DEF BatchIsPending, SendingIsCounted
  <1>9. QED
    BY <1>4, <1>6, <1>7, <1>8 DEF IInv

\* The clock ages pending rows only.
LEMMA TickIInv ==
  ASSUME IInv, Tick
  PROVE  IInv'
  <1> USE OutboxAssumption
  <1>1. /\ row' = [e \in Events |-> Older(row[e])]
        /\ timer' = IF timer > 0 THEN timer - 1 ELSE 0
        /\ breaker' = Elapse(breaker)
        /\ UNCHANGED <<copies, resp, process, pc, batch, full, replay, environment, tries, unrecorded>>
    BY DEF Tick
  <1>2. row \in [Events -> Rows] /\ timer \in 0..(IdlePoll + BusyPoll)
    BY DEF IInv, TypeOK
  <1>3. \A e \in Events :
          /\ row'[e] \in Rows
          /\ row'[e].status = row[e].status
          /\ row'[e].attempts = row[e].attempts
          /\ row[e].status # "pending" => row'[e] = row[e]
    BY <1>1, <1>2, OlderFacts
  <1>4. row' \in [Events -> Rows]
    BY <1>1, <1>2, OlderFacts
  <1>5. breaker' \in BreakerRecords /\ OpenHasTime'
    BY <1>1, BreakerSteps DEF IInv, TypeOK
  <1>6. timer' \in 0..(IdlePoll + BusyPoll)
    BY <1>1, <1>2
  <1>7. TypeOK'
    BY <1>1, <1>4, <1>5, <1>6 DEF IInv, TypeOK, environment
  <1>8. ASSUME NEW e \in Events
        PROVE  EventInv(e)'
    <2>1. CASE row[e].status = "failed"
      BY <1>1, <1>3, <2>1 DEF IInv, EventInv, Untouched
    <2>2. CASE row[e].status # "failed"
      BY <1>1, <1>3, <2>2 DEF IInv, EventInv, Untouched
    <2>3. QED  BY <2>1, <2>2
  <1>9. BatchIsPending' /\ SendingIsCounted'
    <2>1. \A i \in DOMAIN batch : batch[i] \in Events
      BY DEF IInv, TypeOK
    <2>2. pc = "sending" => 1 \in DOMAIN batch
      BY DEF IInv, TypeOK, BatchIsPending
    <2>3. QED
      BY <1>1, <1>3, <2>1, <2>2 DEF IInv, BatchIsPending, SendingIsCounted
  <1>10. QED
    BY <1>5, <1>7, <1>8, <1>9 DEF IInv

-----------------------------------------------------------------------------
(* The invariant of the specification.                                     *)

\* The initial state, with an empty table and a closed breaker.
LEMMA InitIInv == Init => IInv
  <1> SUFFICES ASSUME Init
               PROVE  IInv
    OBVIOUS
  <1> USE OutboxAssumption, BreakerAssumption
  <1>1. NoRow \in Rows /\ NoRow.status = "absent" /\ NoRow.age = 0 /\ NoRow.attempts = 0
    BY DEF NoRow, Rows, Statuses
  <1>2. row \in [Events -> Rows] /\ \A e \in Events : row[e] = NoRow
    BY <1>1 DEF Init
  <1>3. /\ copies = [e \in Events |-> 0] /\ unrecorded = [e \in Events |-> 0]
        /\ tries = [e \in Events |-> 0] /\ resp = [e \in Events |-> "none"]
        /\ batch = << >> /\ pc = "asleep" /\ breaker = InitialBreaker
    BY DEF Init
  <1>4. breaker \in BreakerRecords /\ OpenHasTime
    BY <1>3 DEF InitialBreaker, BreakerRecords, NoAttempt, OpenHasTime
  <1>5. TypeOK
    <2>1. BusyPoll \in 0..(IdlePoll + BusyPoll)
      OBVIOUS
    <2>2. << >> \in Seq(Events)
      OBVIOUS
    <2>3. /\ copies \in [Events -> 0..MaxCopies] /\ unrecorded \in [Events -> 0..MaxCopies]
          /\ tries \in [Events -> 0..MaxAttempts] /\ resp \in [Events -> Responses]
      BY <1>3 DEF Responses
    <2>4. 0 \in 0..MaxDbFaults /\ 0 \in 0..MaxStops
      OBVIOUS
    <2>5. QED
      BY <1>2, <1>3, <1>4, <2>1, <2>2, <2>3, <2>4 DEF Init, TypeOK
  <1>6. ASSUME NEW e \in Events
        PROVE  EventInv(e)
    BY <1>1, <1>2, <1>3 DEF EventInv, Untouched
  <1>7. BatchIsPending /\ SendingIsCounted
    BY <1>3 DEF BatchIsPending, SendingIsCounted
  <1>8. QED
    BY <1>4, <1>5, <1>6, <1>7 DEF IInv

\* The two outcomes of a publish that end in the drainer's catch block.
LEMMA ErrorIInv ==
  ASSUME IInv, RowAckedMarkFails \/ RowErred
  PROVE  IInv'
  <1>1. /\ pc = "sending"
        /\ breaker' = OnSuccess(breaker) \/ breaker' = OnFailure(breaker)
        /\ \/ UNCHANGED <<copies, unrecorded>>
           \/ /\ copies' = [copies EXCEPT ![Head(batch)] = AtMost(@ + 1, MaxCopies)]
              /\ unrecorded' = [unrecorded EXCEPT ![Head(batch)] = AtMost(@ + 1, MaxCopies)]
        /\ UNCHANGED <<resp, process, replay, brokerUp, stops, tries>>
    BY DEF RowAckedMarkFails, RowErred, Arrival
  <1>2. \/ /\ row' = [row EXCEPT ![Head(batch)] = AfterError(@)]
           /\ NextRow
           /\ UNCHANGED <<full, timer>>
        \/ GiveUpIteration /\ UNCHANGED row
    BY DEF RowAckedMarkFails, RowErred
  <1>3. dbFaults' \in 0..MaxDbFaults
    BY OutboxAssumption DEF RowAckedMarkFails, RowErred, GiveUpIteration, IInv, TypeOK
  <1>4. QED  BY <1>1, <1>2, <1>3, RowFailedIInv

\* Every step, and every stuttering step, keeps the invariant.
LEMMA NextIInv == IInv /\ [Next]_vars => IInv'
  <1> SUFFICES ASSUME IInv, [Next]_vars
               PROVE  IInv'
    OBVIOUS
  <1>1. ASSUME NEW e \in Events, RefuseBody(e) \/ Enqueue(e) \/ Respond(e)
        PROVE  IInv'
    BY <1>1, RequestIInv
  <1>2. CASE Poll
    BY <1>2, PollIInv
  <1>3. CASE SendRow
    BY <1>3, SendRowIInv
  <1>4. CASE DeferRow
    BY <1>4, DeferRowIInv
  <1>5. CASE RowAcked
    BY <1>5, RowAckedIInv
  <1>6. CASE RowAckedMarkFails \/ RowErred
    BY <1>6, ErrorIInv
  <1>7. CASE \/ StatementFails \/ EndIteration \/ Shutdown \/ Exit \/ Restart
             \/ ReplaySends \/ ReplayLands \/ BrokerChanges
    BY <1>7, QuietIInv
  <1>8. CASE Crash
    BY <1>8, CrashIInv
  <1>9. CASE Tick
    BY <1>9, TickIInv
  <1>10. CASE UNCHANGED vars
    BY <1>10 DEF IInv, TypeOK, EventInv, Untouched, BatchIsPending, SendingIsCounted, OpenHasTime,
                 vars, memory, environment
  <1>11. QED
    BY <1>1, <1>2, <1>3, <1>4, <1>5, <1>6, <1>7, <1>8, <1>9, <1>10 DEF Next

\* Every reachable state satisfies the inductive invariant.
THEOREM IInvAlways == Spec => []IInv
  <1>1. QED  BY InitIInv, NextIInv, PTL DEF Spec

\* The variables stay within their types.
THEOREM TypeCorrect == Spec => []TypeOK
  <1>1. IInv => TypeOK  BY DEF IInv
  <1>2. QED  BY <1>1, IInvAlways, PTL

\* A request that was answered 202 has a row.
THEOREM AcceptedIsStoredHolds == Spec => []AcceptedIsStored
  <1>1. IInv => AcceptedIsStored  BY DEF IInv, EventInv, AcceptedIsStored
  <1>2. QED  BY <1>1, IInvAlways, PTL

\* A row is dispatched only after a copy of its event reached Kafka.
THEOREM DispatchedWasDeliveredHolds == Spec => []DispatchedWasDelivered
  <1>1. IInv => DispatchedWasDelivered  BY DEF IInv, EventInv, DispatchedWasDelivered
  <1>2. QED  BY <1>1, IInvAlways, PTL

\* A copy beyond the recorded one has a fault to explain it.
THEOREM DuplicatesHaveACauseHolds == Spec => []DuplicatesHaveACause
  <1>1. IInv => DuplicatesHaveACause  BY DEF IInv, EventInv, DuplicatesHaveACause
  <1>2. QED  BY <1>1, IInvAlways, PTL

\* The drainer only ever publishes a pending row, once per batch.
THEOREM BatchIsPendingHolds == Spec => []BatchIsPending
  <1>1. IInv => BatchIsPending  BY DEF IInv
  <1>2. QED  BY <1>1, IInvAlways, PTL

\* A row is given up for its age, after a publish.
THEOREM GivenUpForAgeHolds == Spec => []GivenUpForAge
  <1>1. IInv => GivenUpForAge  BY DEF IInv, EventInv, GivenUpForAge
  <1>2. QED  BY <1>1, IInvAlways, PTL

\* attempts never counts a rejection by the breaker.
THEOREM AttemptsAreTriesHolds == Spec => []AttemptsAreTries
  <1>1. IInv => AttemptsAreTries  BY DEF IInv, EventInv, AttemptsAreTries
  <1>2. QED  BY <1>1, IInvAlways, PTL

-----------------------------------------------------------------------------
(* Outbox implements OutboxContract.                                       *)

\* Writing the row of one event changes one status of the contract.
LEMMA StatusWritten ==
  ASSUME NEW e \in Events, NEW r, row' = [row EXCEPT ![e] = r], row \in [Events -> Rows]
  PROVE  [f \in Events |-> row'[f].status]
           = [[f \in Events |-> row[f].status] EXCEPT ![e] = r.status]
  OBVIOUS

\* A written row that keeps its age leaves the set of expired events alone.
LEMMA ExpiredKept ==
  ASSUME NEW e \in Events, NEW r, row' = [row EXCEPT ![e] = r], row \in [Events -> Rows],
         r.age > MaxAge <=> row[e].age > MaxAge
  PROVE  {f \in Events : row'[f].age > MaxAge} = {f \in Events : row[f].age > MaxAge}
  OBVIOUS

\* The two saturating counters of copies agree within their range.
LEMMA SameCopy ==
  \A n \in 0..MaxCopies : AtMost(n + 1, MaxCopies) = Contract!OneMoreCopy(n)
  BY OutboxAssumption DEF AtMost, Contract!OneMoreCopy

\* Each of the contract's steps on one event is a step of the contract.
LEMMA ContractSteps ==
  ASSUME NEW e \in Events,
         Contract!Deliver(e) \/ Contract!Dispatch(e) \/ Contract!GiveUp(e)
  PROVE  Contract!Next
  BY DEF Contract!Next

\* The requests: storing a row, or showing a 202 to the sender of a stored one.
LEMMA RequestSimulates ==
  ASSUME IInv, NEW e \in Events, RefuseBody(e) \/ Enqueue(e) \/ Respond(e)
  PROVE  Contract!Next \/ UNCHANGED Contract!vars
  <1>1. row \in [Events -> Rows] /\ resp \in [Events -> Responses]
    BY DEF IInv, TypeOK
  <1>2. CASE RefuseBody(e)
    <2>1. UNCHANGED <<row, copies>> /\ resp' = [resp EXCEPT ![e] = "400"] /\ resp[e] = "none"
      BY <1>2 DEF RefuseBody
    <2>2. {f \in Events : resp'[f] = "202"} = {f \in Events : resp[f] = "202"}
      BY <1>1, <2>1
    <2>3. QED
      BY <2>1, <2>2 DEF Contract!vars
  <1>3. CASE Enqueue(e)
    <2>1. UNCHANGED copies /\ resp[e] = "none" /\ row[e].status = "absent" /\ row[e].age = 0
      BY <1>3 DEF Enqueue, IInv, EventInv, Untouched
    <2>2. {f \in Events : resp'[f] = "202"} = {f \in Events : resp[f] = "202"}
      BY <1>1, <1>3 DEF Enqueue
    <2>3. CASE row' = row
      BY <2>1, <2>2, <2>3 DEF Contract!vars
    <2>4. CASE row' = [row EXCEPT ![e] = NewRow]
      <3>1. NewRow.status = "pending" /\ NewRow.age = 0
        BY DEF NewRow
      <3>2. [f \in Events |-> row'[f].status]
              = [[f \in Events |-> row[f].status] EXCEPT ![e] = "pending"]
        BY <1>1, <2>4, <3>1, StatusWritten
      <3>3. {f \in Events : row'[f].age > MaxAge} = {f \in Events : row[f].age > MaxAge}
        BY <1>1, <2>1, <2>4, <3>1, ExpiredKept
      <3>4. Contract!Store(e)
        BY <2>1, <2>2, <3>2, <3>3 DEF Contract!Store
      <3>5. QED  BY <3>4 DEF Contract!Next
    <2>5. QED  BY <1>3, <2>3, <2>4 DEF Enqueue
  <1>4. CASE Respond(e)
    <2>1. UNCHANGED <<row, copies>> /\ resp' = [resp EXCEPT ![e] = "202"] /\ resp[e] = "stored"
      BY <1>4 DEF Respond
    <2>2. {f \in Events : resp'[f] = "202"} = {f \in Events : resp[f] = "202"} \cup {e}
      BY <1>1, <2>1
    <2>3. row[e].status # "absent"
      BY <2>1 DEF IInv, EventInv
    <2>4. Contract!Answer(e)
      BY <2>1, <2>2, <2>3 DEF Contract!Answer
    <2>5. QED  BY <2>4 DEF Contract!Next
  <1>5. QED  BY <1>2, <1>3, <1>4

\* A deferred row stutters; an acknowledged one is dispatched.
LEMMA DrainSimulates ==
  ASSUME IInv, DeferRow \/ RowAcked
  PROVE  Contract!Next \/ UNCHANGED Contract!vars
  <1>1. row \in [Events -> Rows] /\ resp' = resp
    BY DEF IInv, TypeOK, DeferRow, RowAcked
  <1>2. batch # << >>
    BY DEF DeferRow, RowAcked, IInv, BatchIsPending
  <1>3. PICK h \in Events : Head(batch) = h /\ row[h] \in Rows /\ row[h].status = "pending"
    BY <1>2, HeadFacts
  <1>4. CASE DeferRow
    <2> DEFINE r == [row[h] EXCEPT !.due = breaker.wait]
    <2>1. row' = [row EXCEPT ![h] = r] /\ copies' = copies
      BY <1>3, <1>4 DEF DeferRow
    <2>2. r.status = row[h].status /\ r.age = row[h].age
      BY <1>3 DEF Rows
    <2> HIDE DEF r
    <2>3. [f \in Events |-> row'[f].status] = [f \in Events |-> row[f].status]
      BY <1>1, <1>3, <2>1, <2>2
    <2>4. {f \in Events : row'[f].age > MaxAge} = {f \in Events : row[f].age > MaxAge}
      BY <1>1, <1>3, <2>1, <2>2, ExpiredKept
    <2>5. QED  BY <1>1, <2>1, <2>3, <2>4 DEF Contract!vars
  <1>5. CASE RowAcked
    <2> DEFINE r == [row[h] EXCEPT !.status = "dispatched"]
    <2>1. row' = [row EXCEPT ![h] = r] /\ copies' = [copies EXCEPT ![h] = AtMost(@ + 1, MaxCopies)]
      BY <1>3, <1>5 DEF RowAcked
    <2>2. r.status = "dispatched" /\ r.age = row[h].age
      BY <1>3 DEF Rows
    <2> HIDE DEF r
    <2>3. [f \in Events |-> row'[f].status]
            = [[f \in Events |-> row[f].status] EXCEPT ![h] = "dispatched"]
      BY <1>1, <1>3, <2>1, <2>2, StatusWritten
    <2>4. {f \in Events : row'[f].age > MaxAge} = {f \in Events : row[f].age > MaxAge}
      BY <1>1, <1>3, <2>1, <2>2, ExpiredKept
    <2>5. copies' = [copies EXCEPT ![h] = Contract!OneMoreCopy(@)]
      BY <1>3, <2>1, SameCopy DEF IInv, TypeOK
    <2>6. Contract!Dispatch(h)
      BY <1>1, <1>3, <2>3, <2>4, <2>5 DEF Contract!Dispatch
    <2>7. QED  BY <1>3, <2>6, ContractSteps
  <1>6. QED  BY <1>4, <1>5

\* After an error the contract sees a copy that arrived, an event given up, both,
\* or nothing.
LEMMA ErrorSimulates ==
  ASSUME IInv, RowAckedMarkFails \/ RowErred
  PROVE  Contract!Next \/ UNCHANGED Contract!vars
  <1>1. /\ row \in [Events -> Rows] /\ copies \in [Events -> 0..MaxCopies] /\ resp' = resp
        /\ pc = "sending"
    BY DEF IInv, TypeOK, RowAckedMarkFails, RowErred
  <1>2. batch # << >>
    BY <1>1 DEF IInv, BatchIsPending
  <1>3. PICK h \in Events : Head(batch) = h /\ row[h] \in Rows /\ row[h].status = "pending"
    BY <1>2, HeadFacts
  <1> DEFINE r == AfterError(row[h])
  <1>4. /\ r.status \in {"pending", "failed"} /\ r.age = row[h].age
        /\ r.status = "failed" => r.age > MaxAge
    BY <1>3, AfterErrorFacts
  <1>5. row' = row \/ row' = [row EXCEPT ![h] = r]
    BY <1>3 DEF RowAckedMarkFails, RowErred
  <1>6. copies' \in {copies, [copies EXCEPT ![h] = Contract!OneMoreCopy(@)]}
    <2>1. copies' = copies \/ copies' = [copies EXCEPT ![h] = AtMost(@ + 1, MaxCopies)]
      BY <1>3 DEF RowAckedMarkFails, RowErred, Arrival
    <2>2. QED  BY <1>1, <1>3, <2>1, SameCopy
  <1> HIDE DEF r
  <1>7. {f \in Events : row'[f].age > MaxAge} = {f \in Events : row[f].age > MaxAge}
    BY <1>1, <1>3, <1>4, <1>5, ExpiredKept
  <1>8. CASE [f \in Events |-> row'[f].status] = [f \in Events |-> row[f].status]
    <2>1. copies' = [copies EXCEPT ![h] = Contract!OneMoreCopy(@)] => Contract!Deliver(h)
      BY <1>1, <1>3, <1>7, <1>8 DEF Contract!Deliver
    <2>2. copies' = copies => UNCHANGED Contract!vars
      BY <1>1, <1>7, <1>8 DEF Contract!vars
    <2>3. QED  BY <1>3, <1>6, <2>1, <2>2, ContractSteps
  <1>9. CASE row' = [row EXCEPT ![h] = r] /\ r.status = "pending"
    <2>1. [f \in Events |-> row'[f].status] = [f \in Events |-> row[f].status]
      BY <1>1, <1>3, <1>9
    <2>2. QED  BY <1>8, <2>1
  <1>10. CASE row' = [row EXCEPT ![h] = r] /\ r.status = "failed"
    <2>1. [f \in Events |-> row'[f].status]
            = [[f \in Events |-> row[f].status] EXCEPT ![h] = "failed"]
      BY <1>1, <1>3, <1>10, StatusWritten
    <2>2. Contract!GiveUp(h)
      BY <1>1, <1>3, <1>4, <1>6, <1>7, <1>10, <2>1 DEF Contract!GiveUp
    <2>3. QED  BY <1>3, <2>2, ContractSteps
  <1>11. QED  BY <1>4, <1>5, <1>8, <1>9, <1>10

\* A crash: the answers on their way are lost, the message may have arrived.
LEMMA CrashSimulates ==
  ASSUME IInv, Crash \/ Exit
  PROVE  Contract!Next \/ UNCHANGED Contract!vars
  <1>1. /\ row' = row
        /\ resp \in [Events -> Responses] /\ copies \in [Events -> 0..MaxCopies]
        /\ resp' = [e \in Events |-> IF resp[e] = "stored" THEN "lost" ELSE resp[e]]
    BY DEF IInv, TypeOK, Crash, Exit, Vanish
  <1>2. {e \in Events : resp'[e] = "202"} = {e \in Events : resp[e] = "202"}
    BY <1>1
  <1>3. CASE copies' = copies
    BY <1>1, <1>2, <1>3 DEF Contract!vars
  <1>4. CASE /\ pc = "sending"
             /\ copies' = [copies EXCEPT ![Head(batch)] = AtMost(@ + 1, MaxCopies)]
    <2>1. batch # << >>
      BY <1>4 DEF IInv, BatchIsPending
    <2>2. PICK h \in Events : Head(batch) = h /\ row[h].status = "pending"
      BY <2>1, HeadFacts
    <2>3. copies' = [copies EXCEPT ![h] = Contract!OneMoreCopy(@)]
      BY <1>1, <1>4, <2>2, SameCopy
    <2>4. Contract!Deliver(h)
      BY <1>1, <1>2, <2>2, <2>3 DEF Contract!Deliver
    <2>5. QED  BY <2>2, <2>4, ContractSteps
  <1>5. QED  BY <1>3, <1>4 DEF Crash, Exit

\* The clock: some pending events pass the maximal age.
LEMMA TickSimulates ==
  ASSUME IInv, Tick
  PROVE  Contract!Next \/ UNCHANGED Contract!vars
  <1> DEFINE pending == {e \in Events : row[e].status = "pending"}
             old == {e \in Events : row[e].age > MaxAge}
             old2 == {e \in Events : row'[e].age > MaxAge}
  <1>1. /\ row \in [Events -> Rows] /\ row' = [e \in Events |-> Older(row[e])]
        /\ UNCHANGED <<resp, copies>>
    BY DEF IInv, TypeOK, Tick
  <1>2. \A e \in Events :
          /\ row'[e].status = row[e].status
          /\ row[e].age > MaxAge => row'[e].age > MaxAge
          /\ row[e].status # "pending" => row'[e] = row[e]
    <2>1. SUFFICES ASSUME NEW e \in Events
                   PROVE  /\ Older(row[e]).status = row[e].status
                          /\ row[e].age > MaxAge => Older(row[e]).age > MaxAge
                          /\ row[e].status # "pending" => Older(row[e]) = row[e]
      BY <1>1
    <2>2. row[e] \in Rows
      BY <1>1
    <2>3. QED  BY <2>2, OlderFacts, OutboxAssumption DEF Rows
  <1>3. [e \in Events |-> row'[e].status] = [e \in Events |-> row[e].status]
    BY <1>2
  <1>4. old \subseteq old2 /\ old2 \ old \subseteq pending
    BY <1>2
  <1>5. /\ old2 = old \cup (old2 \ old)
        /\ (old2 \ old) \in SUBSET {e \in Events : [f \in Events |-> row[f].status][e] = "pending"}
    BY <1>4
  <1> HIDE DEF old, old2
  <1>6. old2 \in {old \cup s :
                   s \in SUBSET {e \in Events : [f \in Events |-> row[f].status][e] = "pending"}}
    BY <1>5
  <1>7. Contract!Expire
    BY <1>1, <1>3, <1>6 DEF Contract!Expire, old, old2
  <1>8. QED  BY <1>7 DEF Contract!Next

\* The steps the contract does not see.
LEMMA QuietSimulates ==
  ASSUME \/ Poll \/ SendRow \/ StatementFails \/ EndIteration \/ Shutdown \/ Restart
         \/ ReplaySends \/ ReplayLands \/ BrokerChanges \/ UNCHANGED vars
  PROVE  UNCHANGED Contract!vars
  <1>1. UNCHANGED <<row, copies, resp>>
    BY DEF Poll, SendRow, StatementFails, EndIteration, Shutdown, Restart,
           ReplaySends, ReplayLands, BrokerChanges, vars
  <1>2. QED  BY <1>1 DEF Contract!vars

LEMMA InitSimulates == Init => Contract!Init
  <1>1. SUFFICES ASSUME Init PROVE Contract!Init
    OBVIOUS
  <1>2. \A e \in Events : row[e].status = "absent" /\ row[e].age = 0 /\ resp[e] = "none"
    BY <1>1 DEF Init, NoRow
  <1>3. /\ {e \in Events : resp[e] = "202"} = {}
        /\ {e \in Events : row[e].age > MaxAge} = {}
        /\ [e \in Events |-> row[e].status] = [e \in Events |-> "absent"]
    BY <1>2, OutboxAssumption
  <1>4. QED  BY <1>1, <1>3 DEF Init, Contract!Init

LEMMA StepSimulates ==
  IInv /\ [Next]_vars => Contract!Next \/ UNCHANGED Contract!vars
  <1>1. SUFFICES ASSUME IInv, [Next]_vars
                 PROVE  Contract!Next \/ UNCHANGED Contract!vars
    OBVIOUS
  <1>2. CASE \E e \in Events : RefuseBody(e) \/ Enqueue(e) \/ Respond(e)
    BY <1>1, <1>2, RequestSimulates
  <1>3. CASE DeferRow \/ RowAcked
    BY <1>1, <1>3, DrainSimulates
  <1>4. CASE RowAckedMarkFails \/ RowErred
    BY <1>1, <1>4, ErrorSimulates
  <1>5. CASE Crash \/ Exit
    BY <1>1, <1>5, CrashSimulates
  <1>6. CASE Tick
    BY <1>1, <1>6, TickSimulates
  <1>7. CASE \/ Poll \/ SendRow \/ StatementFails \/ EndIteration \/ Shutdown \/ Restart
             \/ ReplaySends \/ ReplayLands \/ BrokerChanges \/ UNCHANGED vars
    BY <1>7, QuietSimulates
  <1>8. QED  BY <1>1, <1>2, <1>3, <1>4, <1>5, <1>6, <1>7 DEF Next

\* The whole ingest path implements its contract: it starts where the contract
\* starts, and each of its steps is one of the contract's or none.
THEOREM ImplementsContractHolds == Spec => ImplementsContract
  <1>1. Init => Contract!Init
    BY InitSimulates
  <1>2. IInv /\ [Next]_vars => [Contract!Next]_(Contract!vars)
    BY StepSimulates
  <1>3. QED
    BY <1>1, <1>2, IInvAlways, PTL DEF Spec, ImplementsContract, Contract!Spec

\* A step of the contract never revises a settled status.
LEMMA ContractSettles ==
  ASSUME NEW e \in Events, Contract!Next \/ UNCHANGED Contract!vars,
         row[e].status \in {"dispatched", "failed"}
  PROVE  row'[e].status = row[e].status
  <1> DEFINE s == [f \in Events |-> row[f].status]
             t == [f \in Events |-> row'[f].status]
  <1>1. s[e] = row[e].status /\ t[e] = row'[e].status /\ DOMAIN s = Events
    OBVIOUS
  <1>2. \/ t = s
        \/ \E f \in Events : s[f] = "absent" /\ t = [s EXCEPT ![f] = "pending"]
        \/ \E f \in Events : \E v \in {"dispatched", "failed"} :
             s[f] = "pending" /\ t = [s EXCEPT ![f] = v]
    BY DEF Contract!Next, Contract!vars, Contract!Store, Contract!Answer, Contract!Deliver,
           Contract!Dispatch, Contract!GiveUp, Contract!Expire
  <1> HIDE DEF s, t
  <1>3. t[e] = s[e]
    BY <1>1, <1>2
  <1>4. QED  BY <1>1, <1>3

\* dispatched and failed are final, across retries, crashes and restarts.
THEOREM SettledIsFinalHolds == Spec => SettledIsFinal
  <1>1. IInv /\ [Next]_vars =>
          [\A e \in Events :
             row[e].status \in {"dispatched", "failed"} => row'[e].status = row[e].status]_vars
    BY StepSimulates, ContractSettles
  <1>2. QED
    BY <1>1, IInvAlways, PTL DEF Spec, SettledIsFinal

\* What the contract keeps by itself, whatever implements it.
AnsweredIsStored == \A e \in Events : resp[e] = "202" => row[e].status # "absent"

ContractInv == copies \in [Events -> Nat] /\ AnsweredIsStored /\ DispatchedWasDelivered

LEMMA ContractKeeps ==
  ASSUME ContractInv, Contract!Next \/ UNCHANGED Contract!vars
  PROVE  ContractInv'
  <1> DEFINE s == [e \in Events |-> row[e].status]
             t == [e \in Events |-> row'[e].status]
             A == {e \in Events : resp[e] = "202"}
             B == {e \in Events : resp'[e] = "202"}
             More(n) == IF n < MaxCopies THEN n + 1 ELSE n
             Kept == /\ copies' \in [Events -> Nat]
                     /\ \A e \in B : t[e] # "absent"
                     /\ \A e \in Events : t[e] = "dispatched" => copies'[e] > 0
  <1>1. /\ copies \in [Events -> Nat]
        /\ \A e \in A : s[e] # "absent"
        /\ \A e \in Events : s[e] = "dispatched" => copies[e] > 0
        /\ DOMAIN s = Events /\ A \subseteq Events
    BY DEF ContractInv, AnsweredIsStored, DispatchedWasDelivered
  <1>2. Kept => ContractInv'
    BY DEF ContractInv, AnsweredIsStored, DispatchedWasDelivered
  <1>3. \A n \in Nat : More(n) \in Nat /\ More(n) > 0
    BY OutboxAssumption
  <1>4. \/ \E e \in Events : /\ t = s /\ copies' = copies /\ B = A \cup {e} /\ s[e] # "absent"
        \/ \E e \in Events : /\ t = [s EXCEPT ![e] = "pending"] /\ copies' = copies /\ B = A
        \/ \E e \in Events : \E v \in {s[e], "dispatched"} :
             t = [s EXCEPT ![e] = v] /\ copies' = [copies EXCEPT ![e] = More(copies[e])] /\ B = A
        \/ \E e \in Events :
             /\ t = [s EXCEPT ![e] = "failed"] /\ B = A
             /\ copies' = copies \/ copies' = [copies EXCEPT ![e] = More(copies[e])]
        \/ t = s /\ copies' = copies /\ B = A
    <2>1. ASSUME NEW e \in Events, Contract!Deliver(e)
          PROVE  /\ t = [s EXCEPT ![e] = s[e]] /\ B = A
                 /\ copies' = [copies EXCEPT ![e] = More(copies[e])]
      BY <2>1 DEF Contract!Deliver, Contract!OneMoreCopy
    <2>2. ASSUME NEW e \in Events, Contract!Dispatch(e)
          PROVE  /\ t = [s EXCEPT ![e] = "dispatched"] /\ B = A
                 /\ copies' = [copies EXCEPT ![e] = More(copies[e])]
      BY <2>2 DEF Contract!Dispatch, Contract!OneMoreCopy
    <2>3. ASSUME NEW e \in Events, Contract!GiveUp(e)
          PROVE  /\ t = [s EXCEPT ![e] = "failed"] /\ B = A
                 /\ copies' = copies \/ copies' = [copies EXCEPT ![e] = More(copies[e])]
      BY <2>3 DEF Contract!GiveUp, Contract!OneMoreCopy
    <2>4. ASSUME NEW e \in Events, Contract!Store(e)
          PROVE  t = [s EXCEPT ![e] = "pending"] /\ copies' = copies /\ B = A
      BY <2>4 DEF Contract!Store
    <2>5. ASSUME NEW e \in Events, Contract!Answer(e)
          PROVE  t = s /\ copies' = copies /\ B = A \cup {e} /\ s[e] # "absent"
      BY <2>5 DEF Contract!Answer
    <2>6. ASSUME Contract!Expire \/ UNCHANGED Contract!vars
          PROVE  t = s /\ copies' = copies /\ B = A
      BY <2>6 DEF Contract!Expire, Contract!vars
    <2> HIDE DEF s, t, A, B, More
    <2> QED
      BY <2>1, <2>2, <2>3, <2>4, <2>5, <2>6 DEF Contract!Next
  <1> HIDE DEF s, t, A, B, More
  <1> QED
    BY <1>1, <1>2, <1>3, <1>4

\* The contract says enough: whoever implements it stores what it answers,
\* dispatches only what was delivered, and revises neither verdict.
THEOREM ContractIsEnough ==
  ImplementsContract => [](AnsweredIsStored /\ DispatchedWasDelivered) /\ SettledIsFinal
  <1>1. Contract!Init => ContractInv
    <2>1. ASSUME Contract!Init
          PROVE  /\ copies = [e \in Events |-> 0]
                 /\ \A e \in Events : resp[e] # "202" /\ row[e].status = "absent"
      <3>1. ASSUME NEW e \in Events PROVE resp[e] # "202" /\ row[e].status = "absent"
        <4> DEFINE s == [f \in Events |-> row[f].status]
        <4>1. {f \in Events : resp[f] = "202"} = {} /\ s = [f \in Events |-> "absent"]
          BY <2>1 DEF Contract!Init
        <4>2. s[e] = row[e].status
          OBVIOUS
        <4> HIDE DEF s
        <4> QED
          BY <4>1, <4>2
      <3> QED
        BY <2>1, <3>1 DEF Contract!Init
    <2> QED
      BY <2>1 DEF ContractInv, AnsweredIsStored, DispatchedWasDelivered
  <1>2. ContractInv /\ [Contract!Next]_(Contract!vars) => ContractInv'
    BY ContractKeeps
  <1>3. [Contract!Next]_(Contract!vars) =>
          [\A e \in Events :
             row[e].status \in {"dispatched", "failed"} => row'[e].status = row[e].status]_vars
    BY ContractSettles
  <1>4. ContractInv => AnsweredIsStored /\ DispatchedWasDelivered
    BY DEF ContractInv
  <1> QED
    BY <1>1, <1>2, <1>3, <1>4, PTL DEF ImplementsContract, Contract!Spec, SettledIsFinal

=============================================================================
