------------------------------ MODULE ReplayLoop ------------------------------
(***************************************************************************)
(* The way of one record between its topic and its dead-letter topic: a    *)
(* sink gives up on it, a replay job triages it (replay/triage.ts) and     *)
(* sends it back, or parks it, with its headers rewritten                  *)
(* (replay/headers.ts).  The loop is to end: an attempt header, stamped at *)
(* every replay, is read back at the next triage.                          *)
(*                                                                         *)
(* A name may recur among the headers of a record.  Of a name only the     *)
(* order of its values is ever looked at, so a record carries a sequence   *)
(* of values for each of two names.  The consumer copies the client's map, *)
(* whose keys are buffers, into an array (replay/consumer.ts): a Map tells *)
(* buffers apart by reference, so equal names stay apart as well.          *)
(***************************************************************************)
EXTENDS Integers, Sequences

CONSTANTS
  Classes,          \* exception class names a sink may report
  PoisonErrors,     \* config.replay.poisonErrors
  TransientErrors,  \* config.replay.transientErrors
  Default,          \* config.replay.default: "park" or "replay"
  MaxAttempts,      \* config.replay.maxAttempts
  FirstAttempts,    \* attempt headers a record may come with, malformed ones < 0
  MaxReplays        \* bound on the times a record is sent back

ASSUME ReplayLoopAssumption ==
  /\ PoisonErrors \subseteq Classes /\ TransientErrors \subseteq Classes
  /\ Default \in {"park", "replay"}
  /\ MaxAttempts \in Nat \ {0}
  /\ FirstAttempts \subseteq Int
  /\ MaxReplays \in Nat

VARIABLES
  place,    \* "topic", "dlq", "parked" or "consumed"
  headers,  \* the values of the headers that matter: attempts and exception classes
  first,    \* history: what the first attempt header stood for
  replays,  \* history: how often the record was sent back
  failure   \* history: the class of its last failure

loopVars == <<place, headers, first, replays, failure>>

NoClass == "none"
NoCount == -1

Headers(attempts, classes) == [attempt |-> attempts, class |-> classes]

\* parseAttempt: what is missing, malformed or negative counts as zero.
ParseAttempt(v) == IF v < 0 THEN 0 ELSE v

LoopInit ==
  /\ place = "topic" /\ replays = 0 /\ failure = NoClass
  /\ \/ headers = Headers(<< >>, << >>) /\ first = 0
     \/ \E v \in FirstAttempts : headers = Headers(<<v>>, << >>) /\ first = ParseAttempt(v)

-----------------------------------------------------------------------------
\* readHeader: the first header of that name.
ReadHeader(values, missing) == IF values = << >> THEN missing ELSE Head(values)

Attempt(hs) == ParseAttempt(ReadHeader(hs.attempt, NoCount))
Class(hs) == ReadHeader(hs.class, NoClass)

StripConnectHeaders(hs) == Headers(hs.attempt, << >>)

StampAuditHeaders(hs, attempt) == Headers(Append(hs.attempt, attempt), hs.class)

\* Mutated form: the default comes before the list of poison errors.
TriageDefaultFirst(hs) ==
  CASE Attempt(hs) >= MaxAttempts -> "park"
    [] Attempt(hs) < MaxAttempts /\ Default = "replay" -> "replay"
    [] OTHER -> IF Class(hs) \in TransientErrors THEN "replay" ELSE "park"

Triage(hs) ==
  IF Attempt(hs) >= MaxAttempts \/ Class(hs) \in PoisonErrors THEN "park"
  ELSE IF Class(hs) \in TransientErrors THEN "replay"
  ELSE Default

\* A sink fails: Connect copies the headers to the dead letter and adds its own.
DeadLetter(class) ==
  /\ place = "topic" /\ replays < MaxReplays
  /\ place' = "dlq"
  /\ headers' = [headers EXCEPT !.class = Append(@, class)]
  /\ failure' = class
  /\ UNCHANGED <<first, replays>>

Consume ==
  /\ place = "topic"
  /\ place' = "consumed"
  /\ UNCHANGED <<headers, first, replays, failure>>

SendBack(hs) ==
  /\ place' = "topic"
  /\ headers' = StampAuditHeaders(StripConnectHeaders(hs), Attempt(hs) + 1)
  /\ replays' = replays + 1

\* Parking does not count as an attempt.
Park(hs) ==
  /\ place' = "parked"
  /\ headers' = StampAuditHeaders(StripConnectHeaders(hs), Attempt(hs))
  /\ UNCHANGED replays

ReplayRecord ==
  /\ place = "dlq"
  /\ IF Triage(headers) = "replay" THEN SendBack(headers) ELSE Park(headers)
  /\ UNCHANGED <<first, failure>>

Stay == place \in {"parked", "consumed"} /\ UNCHANGED loopVars

LoopNext == (\E c \in Classes : DeadLetter(c)) \/ Consume \/ ReplayRecord \/ Stay

LoopSpec == LoopInit /\ [][LoopNext]_loopVars

-----------------------------------------------------------------------------
(* Poison is never sent back to its topic: the class that is read is that   *)
(* of the record's last failure, not of an earlier one.                    *)
PoisonStaysOut ==
  [][ place = "dlq" /\ place' = "topic" => failure \notin PoisonErrors ]_loopVars

-----------------------------------------------------------------------------
(* What the repository says, and the code does not do: "Caps retries via a *)
(* self-stamped x-eventgate-replay-attempt header" (dlq-replay.md:21), so  *)
(* a record is not sent back more than maxAttempts times.                  *)
LoopGuard == replays <= (IF first > MaxAttempts THEN 0 ELSE MaxAttempts - first)

=============================================================================
