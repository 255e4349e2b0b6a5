---------------------------- MODULE CacheExpiry ----------------------------
(***************************************************************************)
(* How long an answer may be served from the cache: the TTL a run asks for *)
(* (config.py, parse_ttl) and the rule that turns it and the date of the   *)
(* resolver into an expiry date (resolvers/cache.py).                      *)
(***************************************************************************)
EXTENDS Integers

CONSTANTS
    Horizon,    \* bound: the last moment the clock can show
    NextMonth,  \* NextMonth[t]: the first of the month after t
    Month,      \* the longest month
    Day,        \* one day
    UnitLength, \* length of each unit a TTL may be given in, rounded up
    MaxTTL,     \* _MAX_TTL
    LastDate,   \* datetime.max
    NoValue     \* no usable date, no TTL requested

Units == {"s", "m", "h", "d", "w"}

\* RESOLVE__CACHE_TTL or --cache-ttl: a number and a unit.  `number` is FALSE if what
\* is before the unit is none, "30x" and the like included.
Specs == [amount : Int, unit : Units, number : BOOLEAN]

\* A month is shorter than the cap of 366 days.
ASSUME ExpiryAssumption ==
    /\ Horizon \in Nat /\ Month \in Nat /\ MaxTTL \in Nat /\ LastDate \in Nat
    /\ Day \in Nat \ {0}
    /\ Month <= MaxTTL
    /\ NextMonth \in [0..Horizon -> Nat]
    /\ \A t \in 0..Horizon : t < NextMonth[t] /\ NextMonth[t] <= t + Month
    /\ NoValue \notin Nat
    /\ UnitLength \in [Units -> Nat]
    /\ NoValue \notin Specs

Smaller(a, b) == IF a <= b THEN a ELSE b

\* parse_ttl raises: no number, or a number that is not positive.
Refused(spec) == spec # NoValue /\ (~spec.number \/ spec.amount <= 0)

\* The TTL a run asks for; an empty spec asks for none.
ParseTTL(spec) ==
    IF spec = NoValue \/ Refused(spec) THEN NoValue ELSE spec.amount * UnitLength[spec.unit]

\* min(ttl, _MAX_TTL)
CappedTTL(asked) == Smaller(asked, MaxTTL)

\* The sum of the date the resolver gave and a day is no date any more: OverflowError.
Overflows(expires) == expires # NoValue /\ expires + Day > LastDate

\* Mutant: any date to come is believed.
UsableToCome(candidate, t) == t < candidate
\* now < candidate <= now + _MAX_TTL
Usable(candidate, t) == t < candidate /\ candidate <= t + MaxTTL

\* At moment t, `expires` is the date the resolver gave (paid-till, RDAP expiration), one
\* that does not overflow, and `asked` the TTL of the run.
ComputeExpiry(t, expires, asked) ==
    LET ttlAt == t + CappedTTL(asked)
    IN  IF expires # NoValue /\ Usable(expires + Day, t)
        THEN IF asked # NoValue THEN Smaller(expires + Day, ttlAt) ELSE expires + Day
        ELSE IF asked # NoValue THEN ttlAt ELSE NextMonth[t]
=============================================================================
