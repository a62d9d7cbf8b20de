---------------------------- MODULE RateLimiter ----------------------------
(***************************************************************************)
(* A token bucket per caller (RateLimiter).  Time is in ticks, a token in  *)
(* parts of 1/PerToken, so that a bucket earns one part in a tick; tokens  *)
(* are floats in the code.                                                 *)
(***************************************************************************)
EXTENDS Naturals, FiniteSets

CONSTANTS
  Callers,     \* bucket labels: fingerprints of tokens and addresses
  PerToken,    \* ticks in which a token is earned: 60 s / requests_per_minute
  Second,      \* ticks in a second
  Burst,       \* tokens a bucket holds
  IdleExpiry,  \* ticks after which an idle bucket may be dropped
  MaxTracked   \* MAX_TRACKED_CALLERS

ASSUME LimiterAssumption ==
  /\ {PerToken, Second, Burst, MaxTracked} \subseteq Nat \ {0}
  /\ IdleExpiry \in Nat

Lesser(a, b) == IF a <= b THEN a ELSE b
Greater(a, b) == IF a >= b THEN a ELSE b

\* What a bucket holds at a time.
Refilled(bucket, now) == Lesser(bucket.parts + (now - bucket.refreshed), Burst * PerToken)

\* round_up_to_second: whole seconds, and at least one.
RoundUp(ticks) == Second * Greater((ticks + Second - 1) \div Second, 1)

\* Mutant of Wait: not rounded up to a second.
WaitUnrounded(parts) ==
  LET seconds == (parts * Second) \div PerToken
  IN IF PerToken > seconds THEN PerToken - seconds ELSE 0

\* What a caller is told to wait: a token's time less, oddly, as many seconds
\* as it has tokens.
Wait(parts) ==
  LET seconds == (parts * Second) \div PerToken
  IN RoundUp(IF PerToken > seconds THEN PerToken - seconds ELSE 0)

\* The sweep: only when the table is full and the caller is new to it.
Swept(buckets, caller, now) ==
  LET known == DOMAIN buckets
      kept  == IF Cardinality(known) >= MaxTracked /\ caller \notin known
               THEN {c \in known : now - buckets[c].refreshed < IdleExpiry} ELSE known
  IN [c \in kept |-> buckets[c]]

\* try_acquire: the buckets afterwards, whether it is allowed, or else the wait.
TryAcquire(buckets, caller, now) ==
  LET swept == Swept(buckets, caller, now)
      parts == IF caller \in DOMAIN swept THEN Refilled(swept[caller], now) ELSE Burst * PerToken
      takes == parts >= PerToken
      after == [parts |-> IF takes THEN parts - PerToken ELSE parts, refreshed |-> now]
  IN [buckets  |-> [c \in DOMAIN swept \cup {caller} |-> IF c = caller THEN after ELSE swept[c]],
      allowed  |-> takes,
      retryAfter |-> IF takes THEN 0 ELSE Wait(parts)]
=============================================================================
