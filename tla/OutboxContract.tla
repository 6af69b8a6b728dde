---------------------------- MODULE OutboxContract ----------------------------
(***************************************************************************)
(* What the outbox promises to the sender of a webhook and to the          *)
(* consumers of the topic (docs/architecture/outbox.md, "Delivery          *)
(* semantics"): an event answered 202 is stored, a stored event stays      *)
(* pending until it has reached Kafka at least once or has been given up   *)
(* for its age, and neither verdict is ever revised.  Time, the drainer,   *)
(* the breaker, crashes and retries do not appear.                         *)
(***************************************************************************)
EXTENDS Naturals

CONSTANTS
  Events,     \* the webhook requests
  MaxCopies   \* bound on the copies of one event counted in its topic

VARIABLES
  answered,   \* the events whose sender has seen a 202
  status,     \* "absent", "pending", "dispatched" or "failed"
  copies,     \* copies of the event in its topic
  expired     \* the pending events that have passed the maximal age

vars == <<answered, status, copies, expired>>

Statuses == {"absent", "pending", "dispatched", "failed"}

TypeOK ==
  /\ answered \subseteq Events
  /\ status \in [Events -> Statuses]
  /\ copies \in [Events -> 0..MaxCopies]
  /\ expired \subseteq Events

Init ==
  /\ answered = {}
  /\ status = [e \in Events |-> "absent"]
  /\ copies = [e \in Events |-> 0]
  /\ expired = {}

OneMoreCopy(n) == IF n < MaxCopies THEN n + 1 ELSE n

Store(e) ==
  /\ status[e] = "absent"
  /\ status' = [status EXCEPT ![e] = "pending"]
  /\ UNCHANGED <<answered, copies, expired>>

Answer(e) ==
  /\ status[e] # "absent"
  /\ answered' = answered \cup {e}
  /\ UNCHANGED <<status, copies, expired>>

\* A copy reaches the topic; the outbox may or may not come to know of it.
Deliver(e) ==
  /\ status[e] = "pending"
  /\ copies' = [copies EXCEPT ![e] = OneMoreCopy(@)]
  /\ UNCHANGED <<answered, status, expired>>

\* The outbox learns that the copy it has just sent arrived.
Dispatch(e) ==
  /\ status[e] = "pending"
  /\ copies' = [copies EXCEPT ![e] = OneMoreCopy(@)]
  /\ status' = [status EXCEPT ![e] = "dispatched"]
  /\ UNCHANGED <<answered, expired>>

\* Only an event past the maximal age is given up; its last copy may have arrived.
GiveUp(e) ==
  /\ status[e] = "pending"
  /\ e \in expired
  /\ status' = [status EXCEPT ![e] = "failed"]
  /\ copies' \in {copies, [copies EXCEPT ![e] = OneMoreCopy(@)]}
  /\ UNCHANGED <<answered, expired>>

\* Some pending events pass the maximal age.
Expire ==
  /\ expired' \in {expired \cup s : s \in SUBSET {e \in Events : status[e] = "pending"}}
  /\ UNCHANGED <<answered, status, copies>>

Next ==
  \/ \E e \in Events : Store(e) \/ Answer(e) \/ Deliver(e) \/ Dispatch(e) \/ GiveUp(e)
  \/ Expire

Spec == Init /\ [][Next]_vars

=============================================================================
