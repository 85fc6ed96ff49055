------------------------------ MODULE RetryApply ------------------------------
(***************************************************************************)
(* The loop that waits for capacity: terraform apply in one availability   *)
(* domain after another, a pause after each refusal, a longer one after a  *)
(* full cycle, a doubling one while the provider limits the rate. Delays   *)
(* are 64-bit integers, as bash computes them; a product is four limbs of  *)
(* 16 bits, the lowest first.                                              *)
(***************************************************************************)
EXTENDS Naturals, FiniteSets

CONSTANTS
  AdCount,                     \* availability domains of the region
  AttemptDelay, CycleDelay,    \* seconds; the second is added after a cycle
  ThrottleDelayBase, MaxDelay,
  MaxThrottles                 \* bound: consecutive throttles

Limbs == 1..4
Limb == 65536   \* the values of a limb

ASSUME DelayAssumption ==
  /\ AdCount \in Nat \ {0} /\ MaxThrottles \in 0..63
  /\ {AttemptDelay, CycleDelay, ThrottleDelayBase, MaxDelay} \subseteq Nat
  /\ 2 * ThrottleDelayBase < Limb

VARIABLES
  loop,        \* "apply", "sleep", "won" or "stopped"
  adIndex,     \* the domain of the next attempt
  throttles,   \* consecutive attempts the provider throttled
  backoff,     \* ThrottleDelayBase * 2^(throttles - 1), modulo 2^64
  pause,       \* seconds the loop sleeps before the next attempt
  refused      \* domains out of capacity since the last full cycle

retryVars == <<loop, adIndex, throttles, backoff, pause, refused>>

Words == [Limbs -> 0..(Limb - 1)]
Word(n) == [i \in Limbs |-> IF i = 1 THEN n ELSE 0]
Doubled(w) ==
  [i \in Limbs |-> (2 * w[i] + (IF i > 1 /\ 2 * w[i - 1] >= Limb THEN 1 ELSE 0)) % Limb]
Negative(w) == 2 * w[4] >= Limb
Fits(w) == w[4] = 0 /\ w[3] = 0 /\ 2 * w[2] < Limb
Smaller(m, n) == IF m < n THEN m ELSE n

\* What `sleep` does with the delay: capped when it is the greater, refused, and
\* no sleep at all, when it is negative.
Slept(w) ==
  IF Negative(w) THEN 0
  ELSE IF Fits(w) THEN Smaller(w[1] + Limb * w[2], MaxDelay) ELSE MaxDelay

Ads == 0..(AdCount - 1)

RetryTypeOK ==
  /\ loop \in {"apply", "sleep", "won", "stopped"} /\ adIndex \in Ads
  /\ throttles \in 0..MaxThrottles /\ backoff \in Words
  /\ pause \in 0..MaxDelay /\ refused \subseteq Ads

RetryInit ==
  /\ loop = "apply" /\ adIndex = 0 /\ throttles = 0 /\ backoff = Word(0)
  /\ pause = 0 /\ refused = {}

\* rc = 0.
Launch ==
  /\ loop = "apply" /\ loop' = "won"
  /\ UNCHANGED <<adIndex, throttles, backoff, pause, refused>>

Capacity ==
  /\ loop = "apply" /\ loop' = "sleep"
  /\ throttles' = 0 /\ backoff' = Word(0)
  /\ adIndex' = (adIndex + 1) % AdCount
  /\ refused' = refused \union {adIndex}
  /\ pause' = Smaller(MaxDelay, AttemptDelay + (IF adIndex' = 0 THEN CycleDelay ELSE 0))

\* Mutant: a throttled attempt moves on to the next domain.
ThrottleAdvancing ==
  /\ loop = "apply" /\ throttles < MaxThrottles /\ loop' = "sleep"
  /\ throttles' = throttles + 1
  /\ backoff' = IF throttles = 0 THEN Word(ThrottleDelayBase) ELSE Doubled(backoff)
  /\ adIndex' = (adIndex + 1) % AdCount
  /\ pause' = Slept(backoff')
  /\ UNCHANGED refused

\* A throttle says nothing of the capacity of the domain, which is held.
Throttle ==
  /\ loop = "apply" /\ throttles < MaxThrottles /\ loop' = "sleep"
  /\ throttles' = throttles + 1
  /\ backoff' = IF throttles = 0 THEN Word(ThrottleDelayBase) ELSE Doubled(backoff)
  /\ pause' = Slept(backoff')
  /\ UNCHANGED <<adIndex, refused>>

\* A fatal error, the last attempt allowed, or a signal.
Stop ==
  /\ loop \in {"apply", "sleep"} /\ loop' = "stopped"
  /\ UNCHANGED <<adIndex, throttles, backoff, pause, refused>>

\* The next cycle begins where the last one ended.
Wake ==
  /\ loop = "sleep" /\ loop' = "apply"
  /\ refused' = IF throttles = 0 /\ adIndex = 0 THEN {} ELSE refused
  /\ UNCHANGED <<adIndex, throttles, backoff, pause>>

\* "Resume with the same command": all of the loop's state starts over.
Resume ==
  /\ loop = "stopped" /\ loop' = "apply" /\ adIndex' = 0 /\ throttles' = 0
  /\ backoff' = Word(0) /\ pause' = 0 /\ refused' = {}

RetryNext == Launch \/ Capacity \/ Throttle \/ Stop \/ Wake \/ Resume

RetrySpec == RetryInit /\ [][RetryNext]_retryVars

(***************************************************************************)
(* Properties.                                                             *)
(***************************************************************************)
\* The long pause, and the next cycle, come when every domain has said that it
\* is out of capacity: throttles in between, however many and in whatever
\* order, make the loop skip none.
CycleSkipsNoDomain ==
  loop = "sleep" /\ adIndex = 0 /\ throttles = 0 => refused = Ads

\* retry-apply.sh "backs off far enough between attempts to stay clear of the
\* rate limit": after a throttle the loop sleeps at least the base delay, or the
\* ceiling where that is lower.
ThrottleIsFollowedByASleep ==
  loop = "sleep" /\ throttles > 0 => pause >= Smaller(ThrottleDelayBase, MaxDelay)
==============================================================================
