-------------------------------- MODULE Backoff --------------------------------
(***************************************************************************)
(* The delays before the next attempt, attempt being 0, 1, 2, ...: those   *)
(* of gretry/retry.go, calculateDelay and applyJitter, as the loop of Do   *)
(* asks for them, and those of gsd/retry.go and gclient/retry.go.          *)
(* A time.Duration is an integer of Width bits (64 in the code); a float64 *)
(* outside its range converts to the least of them (amd64), and integer    *)
(* multiplication wraps.  A random choice is the set of its outcomes.      *)
(***************************************************************************)
EXTENDS Integers

CONSTANTS Width,        \* bits of a time.Duration
          RetryDelays,  \* the values of options.RetryDelay
          Caps,         \* of options.MaxRetryDelay, 0 for "no maximum"
          Multipliers,  \* of options.BackoffMultiplier
          Strategies,   \* of options.RetryStrategy
          Jitters       \* of options.JitterType, "none" for JitterFactor <= 0 too

ASSUME BackoffConstants ==
    /\ Width \in Nat \ {0}
    /\ RetryDelays \subseteq Nat /\ Caps \subseteq Nat
    /\ Multipliers \subseteq Nat \ {0}

Options == [strategy : Strategies, jitter : Jitters, cap : Caps,
            retryDelay : RetryDelays, multiplier : Multipliers]

\* mathPow of an integer base: result[i] is the result after i rounds of its loop.
mathPow(base, exp) ==
    LET result[i \in 0..exp] == IF i = 0 THEN 1 ELSE base * result[i - 1]
    IN  result[exp]

Lowest  == -mathPow(2, Width - 1)
Highest == mathPow(2, Width - 1) - 1

\* time.Duration(x) of a float64 x, and integer multiplication.
FromFloat(x) == IF x \in Lowest..Highest THEN x ELSE Lowest
Wrapped(x)   == ((x - Lowest) % mathPow(2, Width)) + Lowest

\* lo + rand.Float64()*(hi-lo), truncated.
Between(lo, hi) == IF lo < hi THEN lo..(hi - 1)
                   ELSE IF hi < lo THEN (hi + 1)..lo ELSE {lo}

\* Mutant: the exponential delay is divided where it should be multiplied.
baseDelay_Divides(n, o) ==
    IF o.strategy = "exponential" THEN {o.retryDelay \div mathPow(o.multiplier, n)}
    ELSE {o.retryDelay}

baseDelay(n, o) ==
    CASE o.strategy = "exponential" -> {FromFloat(o.retryDelay * mathPow(o.multiplier, n))}
      [] o.strategy = "linear"      -> {Wrapped(o.retryDelay * (n + 1))}
      [] o.strategy = "random"      ->
            {FromFloat(x) : x \in Between(o.retryDelay, IF o.cap <= o.retryDelay
                                          THEN o.retryDelay * 5 ELSE o.cap)}
      [] OTHER                      -> {o.retryDelay}

\* Mutant: the maximum is applied only when the delay is twice as long.
capped_Late(d, o) == IF d > 2 * o.cap /\ o.cap > 0 THEN o.cap ELSE d

capped(d, o) == IF d > o.cap /\ o.cap > 0 THEN o.cap ELSE d

applyJitter(d, o) ==
    CASE o.jitter = "full"         -> Between(0, d)
      [] o.jitter = "equal"        -> Between(d \div 2, d)
      [] o.jitter = "decorrelated" -> {FromFloat(x) : x \in Between(d, 3 * d)}
      [] OTHER                     -> {d}

calculateDelay(n, o) ==
    UNION {applyJitter(capped(d, o), o) : d \in baseDelay(n, o)}

\* rand.Int63n: it panics when there is nothing to choose from.
Int63n(n) == 0..(n - 1)

\* gsd's calculateDelay: a maximum that always applies, and half as much again at most.
registryBase(n, o) ==
    CASE o.strategy = "exponential" -> FromFloat(o.retryDelay * mathPow(o.multiplier, n))
      [] o.strategy = "linear"      -> Wrapped(o.retryDelay * (n + 1))
      [] OTHER                      -> o.retryDelay

registryDelay(n, o) ==
    LET base == registryBase(n, o)
        d    == IF base > o.cap THEN o.cap ELSE base
    IN  {Wrapped(d + jitter) : jitter \in Int63n(d \div 2)}

\* Mutant: the base is multiplied by the attempt, which is zero at first.
clientBase_Linear(n, base) == Wrapped(base * n)

\* gclient's ExponentialBackoff: no maximum.
clientBase(n, base) == Wrapped(base * Wrapped(mathPow(2, n)))

ExponentialBackoff(n, base) ==
    {Wrapped(clientBase(n, base) + jitter) : jitter \in Int63n(clientBase(n, base) \div 2)}

-------------------------------------------------------------------------------
\* The delay of the strategy after attempt n fits in a time.Duration.
FitsDuration(n, o) ==
    /\ o.retryDelay * mathPow(o.multiplier, n) <= Highest
    /\ o.retryDelay * (n + 1) <= Highest

\* "MaxRetryDelay | Maximum delay between retries" (gretry/README.md:105) is the
\* maximum of the delay before jitter: only decorrelated jitter takes a delay over
\* it, to three times the maximum at most, and overflow does not get around it.
CapWithJitter(n, o) ==
    \A d \in calculateDelay(n, o) :
        o.cap > 0 => d <= IF o.jitter = "decorrelated" THEN 3 * o.cap ELSE o.cap

\* Without jitter or chance a wait of Do is no shorter than the one before.
BacksOff(n, o) ==
    (n > 0 /\ o.jitter = "none" /\ o.strategy # "random" /\ FitsDuration(n, o)) =>
        \A before \in calculateDelay(n - 1, o), d \in calculateDelay(n, o) : d >= before

\* gsd's delay exists (Int63n does not panic) and keeps to half as much again as its
\* maximum, for delays of at least two that fit and such maxima, if half as much
\* again as the maximum fits too.
RegistryWaits(n, o) ==
    (o.retryDelay >= 2 /\ o.cap >= 2 /\ 3 * o.cap <= 2 * Highest /\ FitsDuration(n, o)) =>
        /\ registryDelay(n, o) # {}
        /\ \A d \in registryDelay(n, o) : 1 < d /\ 2 * d <= 3 * o.cap

\* gclient's delay exists and is longer than the one before, jitter included, as long
\* as twice of it fits.
ClientBacksOff(n, base) ==
    (base >= 2 /\ 2 * (base * mathPow(2, n)) <= Highest) =>
        /\ ExponentialBackoff(n, base) # {}
        /\ n > 0 =>
              \A before \in ExponentialBackoff(n - 1, base), d \in ExponentialBackoff(n, base) :
                 d > before

===============================================================================
