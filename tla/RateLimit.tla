------------------------------- MODULE RateLimit -------------------------------
(***************************************************************************)
(* The token bucket of a replay job (replay/runner.ts).  The runner takes  *)
(* one token before every record it sends and waits when there is none; a  *)
(* timer puts tokens back ten times a second, and hands one to the runner  *)
(* that waits.  The bucket belongs to one run, so at most one call waits.  *)
(*                                                                         *)
(* What a tick puts back is a whole number, at least one, and not exactly  *)
(* a tenth of the configured rate.  Two rates are told apart below: the    *)
(* configured one, and the greatest that this rounding lets through.       *)
(*                                                                         *)
(* A rate is measured by the sends ahead of it: a send adds ten tenths, a  *)
(* tick takes a tenth of the rate back.  No interval of n ticks holds more *)
(* than b + n * rate / 10 sends exactly if what is ahead is <= 10 * b.     *)
(***************************************************************************)
EXTENDS Integers

CONSTANT Rates  \* values config.replay.rateLimitPerSec may have

ASSUME RateAssumption == Rates \subseteq Nat \ {0}

VARIABLES
  perSec,   \* config.replay.rateLimitPerSec of this run
  tokens,   \* in the bucket
  waiting,  \* whether the runner awaits acquire()
  running,  \* whether the run goes on
  ahead,    \* history: sends ahead of RateLetThrough, up to Limit
  excess    \* history: sends ahead of the configured rate, up to Limit

bucketVars == <<perSec, tokens, waiting, running, ahead, excess>>

Capacity == perSec

\* Mutated form: a refill is rounded up.
RefillRoundedUp == (perSec + 9) \div 10

\* Math.max(1, Math.round(perSec / 10))
RefillPerTick == IF perSec < 10 THEN 1 ELSE (perSec + 5) \div 10

\* The greatest rate the rounding can make of the configured one.
RateLetThrough == IF perSec < 10 THEN 10 ELSE perSec + 5

\* One send more than a full bucket: a bound of the histories.
Limit == 10 * perSec + 10

BucketInit ==
  /\ perSec \in Rates
  /\ tokens = Capacity
  /\ waiting = FALSE
  /\ running = TRUE
  /\ ahead = 0 /\ excess = 0

OneMoreSend(n) == IF n + 10 > Limit THEN Limit ELSE n + 10

\* A tenth of a second takes back what a rate allows for it.
Caught(n, rate) == IF n > rate THEN n - rate ELSE 0

Acquire ==
  /\ running /\ ~ waiting /\ tokens > 0
  /\ tokens' = tokens - 1
  /\ ahead' = OneMoreSend(ahead) /\ excess' = OneMoreSend(excess)
  /\ UNCHANGED <<perSec, waiting, running>>

WaitForToken ==
  /\ running /\ ~ waiting /\ tokens = 0
  /\ waiting' = TRUE
  /\ UNCHANGED <<perSec, tokens, running, ahead, excess>>

\* Mutated form: the bucket overflows.
RefilledOverfull == tokens + RefillPerTick

Refilled == IF tokens + RefillPerTick > Capacity THEN Capacity ELSE tokens + RefillPerTick

\* The timer's callback: it refills first and then serves who waits.
Refill ==
  /\ running
  /\ LET ahead0 == Caught(ahead, RateLetThrough)
         excess0 == Caught(excess, perSec)
     IN  \/ /\ waiting
            /\ waiting' = FALSE
            /\ tokens' = Refilled - 1
            /\ ahead' = OneMoreSend(ahead0) /\ excess' = OneMoreSend(excess0)
         \/ /\ ~ waiting
            /\ tokens' = Refilled
            /\ ahead' = ahead0 /\ excess' = excess0
            /\ UNCHANGED waiting
  /\ UNCHANGED <<perSec, running>>

\* stop(), when the loop of the run is left: never while it awaits a token.
StopRun ==
  /\ running /\ ~ waiting
  /\ running' = FALSE
  /\ UNCHANGED <<perSec, tokens, waiting, ahead, excess>>

BucketNext == Acquire \/ WaitForToken \/ Refill \/ StopRun

BucketSpec == BucketInit /\ [][BucketNext]_bucketVars

-----------------------------------------------------------------------------
BucketTypeOK ==
  /\ perSec \in Rates
  /\ tokens \in 0..Capacity
  /\ waiting \in BOOLEAN
  /\ running \in BOOLEAN
  /\ ahead \in 0..Limit /\ excess \in 0..Limit

(* What the throttle is worth at every rate the schema takes: in n tenths  *)
(* of a second a run sends at most one bucket and n tenths of the          *)
(* configured rate, raised by half a token per tick, or to ten per second  *)
(* where it is below that (runner.ts:81).  Waiting saves nothing up.       *)
Throttled == ahead <= 10 * Capacity

-----------------------------------------------------------------------------
(* What the repository says, and the code does not do: "Refills perSec/10  *)
(* tokens every 100ms" (runner.ts:69), hence in n tenths of a second at    *)
(* most one bucket and n tenths of the configured rate are sent.           *)
ConfiguredRateIsKept == excess <= 10 * Capacity

=============================================================================
