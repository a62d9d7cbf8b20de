---------------------------- MODULE AccessProofs ----------------------------
(***************************************************************************)
(* Proofs about Access and the accounts behind it: whom the service opens  *)
(* for, and as whom, after whatever commands; and how often it lets a      *)
(* caller through.                                                         *)
(***************************************************************************)
EXTENDS ToolCalls, FiniteSetTheorems, SequenceTheorems, WellFoundedInduction, TLAPS

Stages == {"idle", "find", "check", "verify", "judge", "insert", "reread",
           "limited", "unauthorized", "forbidden", "served"}

Types ==
  /\ authMode \in {"api_key", None}
  /\ default \in Requests \cup {None}
  /\ stage \in [Requests -> Stages]
  /\ token \in [Requests -> Tokens \cup {Nobody}]
  /\ row \in [Requests -> {None, "live", "revoked"}]
  /\ resolved \in [Requests -> Requests \cup {None}]
  /\ late \in [Requests -> BOOLEAN]

\* The cache holds nothing but verifications of the right secret.
OnlyRightIsCached == \A k \in DOMAIN cache : cache[k].right = TRUE

\* What is known of a request whose key was found: if it came after the
\* revocation, the row it carries along says so.
FoundKeys ==
  \A r \in Requests : stage[r] \in {"check", "verify", "judge"} =>
    /\ authMode = "api_key"
    /\ token[r].prefix \in Issued
    /\ late[r] => row[r] = "revoked"

JudgedSecrets == \A r \in Requests : stage[r] = "judge" => token[r].right = TRUE

AnsweredKeys ==
  \A r \in Requests : authMode = "api_key" /\ stage[r] \in {"served", "forbidden"} =>
    /\ token[r].right = TRUE
    /\ token[r].prefix \in Issued
    /\ late[r] = FALSE

\* Without authentication: once somebody was served the user exists.
DefaultUsers ==
  \A r \in Requests :
    /\ stage[r] \in {"insert", "reread"} => authMode = None
    /\ authMode = None /\ stage[r] = "served" => resolved[r] = default /\ default # None

AccessInv ==
  Types /\ OnlyRightIsCached /\ FoundKeys /\ JudgedSecrets /\ AnsweredKeys /\ DefaultUsers

LEMMA AccessInvInit == Init => AccessInv
<1> SUFFICES ASSUME Init PROVE AccessInv
  OBVIOUS
<1>1. Types
  BY AccessAssumption DEF Init, Types, Stages, None
<1>2. OnlyRightIsCached
  BY DEF Init, OnlyRightIsCached
<1> QED
  BY <1>1, <1>2 DEF Init, AccessInv, FoundKeys, JudgedSecrets, AnsweredKeys, DefaultUsers

\* A step of one request, as far as it is seen by the others.
LEMMA AccessInvArrive ==
  ASSUME AccessInv, NEW r \in Requests, Arrive(r) PROVE AccessInv'
<1> USE DEF AccessInv
<1>1. PICK t \in Tokens :
        /\ token' = [token EXCEPT ![r] = t]
        /\ row' = [row EXCEPT ![r] = None] /\ resolved' = [resolved EXCEPT ![r] = None]
        /\ late' = [late EXCEPT ![r] = FALSE]
        /\ \E s \in {"find", "limited"} : stage' = [stage EXCEPT ![r] = s]
  BY DEF Arrive, To
<1>2. PICK s \in {"find", "limited"} : stage' = [stage EXCEPT ![r] = s]
  BY <1>1
<1>3. UNCHANGED <<authMode, scopes, default, cache>>
  BY DEF Arrive, config, database
<1>4. Types'
  BY <1>1, <1>2, <1>3 DEF Types, Stages
<1> QED
  BY <1>1, <1>2, <1>3, <1>4
     DEF Types, OnlyRightIsCached, FoundKeys, JudgedSecrets, AnsweredKeys, DefaultUsers, Issued

LEMMA AccessInvFind ==
  ASSUME AccessInv, NEW r \in Requests, Find(r) PROVE AccessInv'
<1> USE DEF AccessInv
<1>1. Types'
  BY DEF Find, Types, Stages, To, config, database
<1>2. UNCHANGED <<authMode, scopes, default, cache, token, resolved>> /\ authMode = "api_key"
  BY DEF Find, config, database
<1>3. PICK s \in {"check", "unauthorized"} :
        /\ stage' = [stage EXCEPT ![r] = s]
        /\ s = "check" => /\ token[r].prefix \in Issued
                          /\ row'[r] = IF token[r].prefix \in revoked THEN "revoked" ELSE "live"
  BY DEF Find, To, Types
<1>4. /\ late'[r] = (token[r].prefix \in revoked)
      /\ \A q \in Requests \ {r} : row'[q] = row[q] /\ late'[q] = late[q]
  BY DEF Find, Types
<1>5. FoundKeys'
  BY <1>2, <1>3, <1>4 DEF Types, FoundKeys, Issued
<1> QED
  BY <1>1, <1>2, <1>3, <1>4, <1>5
     DEF Types, OnlyRightIsCached, JudgedSecrets, AnsweredKeys, DefaultUsers, Issued

\* What is verified is right: the cache has right secrets only.
LEMMA AccessInvCheck ==
  ASSUME AccessInv, NEW r \in Requests, Check(r) PROVE AccessInv'
<1> USE DEF AccessInv
<1>1. Types'
  BY DEF Check, Types, Stages, To, config, database
<1>2. Verified(token[r]) => token[r].right = TRUE
  BY DEF Verified, OnlyRightIsCached
<1> QED
  BY <1>1, <1>2 DEF Check, To, config, database, None,
     Types, OnlyRightIsCached, FoundKeys, JudgedSecrets, AnsweredKeys, DefaultUsers, Issued

LEMMA AccessInvVerify ==
  ASSUME AccessInv, NEW r \in Requests, Verify(r) PROVE AccessInv'
<1> USE DEF AccessInv
<1>1. Types'
  BY DEF Verify, Types, Stages, To, config, database
<1>2. Room \subseteq DOMAIN cache
  BY DEF Room
<1>3. OnlyRightIsCached'
  <2> DEFINE k == token[r].prefix
             kept == [p \in Room |-> cache[p]]
  <2>1. CASE cache' = With(kept, k, [right |-> TRUE, at |-> clock])
    <3>1. DOMAIN cache' = Room \cup {k}
      BY <2>1 DEF With
    <3>2. \A p \in Room \cup {k} : cache'[p] = IF p = k THEN [right |-> TRUE, at |-> clock] ELSE cache[p]
      BY <2>1 DEF With
    <3> QED
      BY <1>2, <3>1, <3>2 DEF OnlyRightIsCached
  <2>2. CASE cache' = Forgotten(k) \/ cache' = cache
    BY <2>2 DEF OnlyRightIsCached, Forgotten
  <2> QED
    BY <2>1, <2>2 DEF Verify
<1>4. token[r].right => token[r].right = TRUE
  <2>1. token[r] \in [prefix : Keys, right : BOOLEAN] \cup {Nobody}
    BY AccessAssumption DEF Types, Tokens
  <2>2. token[r].right \in BOOLEAN
    <3>1. CASE token[r] = Nobody
      BY <3>1 DEF Nobody
    <3>2. CASE token[r] \in [prefix : Keys, right : BOOLEAN]
      BY <3>2
    <3> QED
      BY <2>1, <3>1, <3>2
  <2> QED
    BY <2>2
<1>5. UNCHANGED <<authMode, scopes, default, token, row, resolved, late>> /\ stage[r] = "verify"
  BY DEF Verify, config, database
<1>6. PICK s \in {"judge", "unauthorized"} :
        stage' = [stage EXCEPT ![r] = s] /\ (s = "judge" => token[r].right = TRUE)
  BY <1>4 DEF Verify, To
<1> QED
  BY <1>1, <1>3, <1>5, <1>6
     DEF Types, FoundKeys, JudgedSecrets, AnsweredKeys, DefaultUsers, Issued

LEMMA AccessInvJudge ==
  ASSUME AccessInv, NEW r \in Requests, Judge(r) PROVE AccessInv'
<1> USE DEF AccessInv
<1>1. Types'
  BY DEF Judge, Types, Stages, To, config, database
<1>2. OnlyRightIsCached'
  BY DEF Judge, OnlyRightIsCached, Forgotten
<1> QED
  BY <1>1, <1>2 DEF Judge, To, config, database, None,
     Types, FoundKeys, JudgedSecrets, AnsweredKeys, DefaultUsers, Issued

\* The only step that makes the user finds that there is none.
LEMMA AccessInvDefault ==
  ASSUME AccessInv, NEW r \in Requests, FindDefault(r) \/ InsertDefault(r) \/ Reread(r)
  PROVE  AccessInv'
<1> USE DEF AccessInv
<1>1. authMode = None
  BY DEF FindDefault, InsertDefault, Reread, DefaultUsers
<1>2. default = None \/ default' = default
  BY DEF FindDefault, InsertDefault, Reread, database
<1>3. UNCHANGED <<authMode, scopes, cache, token, row, late>>
  BY DEF FindDefault, InsertDefault, Reread, config, database
<1>4. PICK s \in {"insert", "reread", "served"} : stage' = [stage EXCEPT ![r] = s]
  BY DEF FindDefault, InsertDefault, Reread, To
<1>5. /\ default' \in Requests \cup {None}
      /\ resolved' \in [Requests -> Requests \cup {None}]
      /\ \A q \in Requests \ {r} : resolved'[q] = resolved[q]
      /\ s = "served" => resolved'[r] = default' /\ default' # None
  <2>1. CASE FindDefault(r)
    BY <2>1, <1>4 DEF FindDefault, To, database, Types
  <2>2. CASE InsertDefault(r)
    BY <2>2, <1>4, AccessAssumption DEF InsertDefault, To, Types
  <2>3. CASE Reread(r)
    BY <2>3, <1>4 DEF Reread, To, database, Types
  <2> QED
    BY <2>1, <2>2, <2>3
<1>6. Types'
  BY <1>3, <1>4, <1>5 DEF Types, Stages
<1>7. FoundKeys' /\ JudgedSecrets' /\ AnsweredKeys' /\ OnlyRightIsCached'
  BY <1>1, <1>3, <1>4 DEF Types, FoundKeys, JudgedSecrets, AnsweredKeys, OnlyRightIsCached, Issued, None
<1>8. DefaultUsers'
  BY <1>1, <1>2, <1>3, <1>4, <1>5 DEF Types, DefaultUsers
<1> QED
  BY <1>6, <1>7, <1>8

LEMMA AccessInvNext ==
  ASSUME AccessInv, [Next]_vars PROVE AccessInv'
<1> USE DEF AccessInv
<1>1. CASE Tick \/ UNCHANGED vars \/ \E k \in Keys : Revoke(k)
  BY <1>1 DEF Tick, Revoke, vars, config, database, request, Issued,
     Types, OnlyRightIsCached, FoundKeys, JudgedSecrets, AnsweredKeys, DefaultUsers
<1>2. ASSUME NEW k \in Keys, Issue(k) PROVE AccessInv'
  <2>1. Issued \subseteq Issued'
    BY <1>2 DEF Issue, Issued, With
  <2> QED
    BY <1>2, <2>1 DEF Issue, config, request,
       Types, OnlyRightIsCached, FoundKeys, JudgedSecrets, AnsweredKeys, DefaultUsers
<1>3. ASSUME NEW r \in Requests, Request(r) PROVE AccessInv'
  BY <1>3, AccessInvArrive, AccessInvFind, AccessInvCheck, AccessInvVerify, AccessInvJudge,
     AccessInvDefault DEF Request
<1> QED
  BY <1>1, <1>2, <1>3 DEF Next

\* What else is known of every request on its way: the row it carries along
\* tells of a revocation before it, and only a right secret is judged or cached.
THEOREM AccessInvAlways == Spec => []AccessInv
<1> QED
  BY AccessInvInit, AccessInvNext, PTL DEF Spec

\* Whatever is presented under a key's prefix, and however requests,
\* verifications and the cache interleave, a request with a key that the
\* service lets in, or turns away only for its scopes, has the secret of an
\* issued key (verified_key_cache.rs).
THEOREM OnlyTheSecretOpensAlways == Spec => []OnlyTheSecretOpens
<1>1. AccessInv => OnlyTheSecretOpens
  BY DEF AccessInv, AnsweredKeys, OnlyTheSecretOpens
<1> QED
  BY <1>1, AccessInvAlways, PTL

\* A request that looks its key up after the revocation is never let in,
\* though a verification may still enter the cache afterwards.
THEOREM RevocationIsImmediateAlways == Spec => []RevocationIsImmediate
<1>1. AccessInv => RevocationIsImmediate
  BY DEF AccessInv, AnsweredKeys, RevocationIsImmediate
<1> QED
  BY <1>1, AccessInvAlways, PTL

\* Where authentication is off all requests are served as one user, however
\* many of them raced to create it (default_user_resolver.rs).
THEOREM OneDefaultUserAlways == Spec => []OneDefaultUser
<1>1. AccessInv => OneDefaultUser
  BY DEF AccessInv, DefaultUsers, OneDefaultUser
<1> QED
  BY <1>1, AccessInvAlways, PTL

-----------------------------------------------------------------------------
(* The limiter.                                                            *)

LEMMA Division ==
  ASSUME NEW x \in Nat, NEW c \in Nat \ {0}
  PROVE  x \div c \in Nat /\ c * (x \div c) <= x /\ x < c * (x \div c) + c
OBVIOUS

LEMMA ProductsGrow ==
  ASSUME NEW c \in Nat, NEW x \in Nat, NEW y \in Nat, x <= y
  PROVE  c * x \in Nat /\ c * y \in Nat /\ c * x <= c * y
<1>1. PICK d \in Nat : y = x + d
  <2>1. y - x \in Nat /\ y = x + (y - x)
    OBVIOUS
  <2> QED BY <2>1
<1>2. c * y = c * x + c * d /\ c * x \in Nat /\ c * d \in Nat
  BY <1>1
<1> QED BY <1>2

LEMMA ProductsTell ==
  ASSUME NEW c \in Nat \ {0}, NEW x \in Nat, NEW y \in Nat, c * x < c * y + c
  PROVE  x <= y
<1>1. SUFFICES ASSUME x > y PROVE FALSE
  OBVIOUS
<1>2. PICK z \in Nat : z = y + 1 /\ z <= x
  BY <1>1
<1>3. c * z <= c * x
  BY <1>2, ProductsGrow
<1>4. c * z = c * y + c
  BY <1>2
<1>5. c * x \in Nat /\ c * y \in Nat
  OBVIOUS
<1> QED BY <1>3, <1>4, <1>5

\* What is rounded up is not shorter, and at least a second.
LEMMA RoundedUp ==
  ASSUME NEW x \in Nat
  PROVE  RoundUp(x) \in Nat /\ RoundUp(x) >= x /\ RoundUp(x) >= Second
<1>1. PICK s \in Nat \ {0} : s = Second
  BY LimiterAssumption
<1>2. PICK y \in Nat : y = x + s - 1
  BY <1>1
<1>3. PICK q \in Nat : q = y \div s /\ y < s * q + s
  BY <1>1, <1>2, Division
<1>4. PICK g \in Nat : g = Greater(q, 1) /\ g >= q /\ g >= 1
  BY <1>3 DEF Greater
<1>5. s * g \in Nat /\ s * q \in Nat /\ s * q <= s * g
  BY <1>1, <1>3, <1>4, ProductsGrow
<1>6. s * 1 <= s * g /\ s * 1 = s
  BY <1>1, <1>4, ProductsGrow
<1>7. RoundUp(x) = s * g
  BY <1>1, <1>2, <1>3, <1>4 DEF RoundUp
<1> QED BY <1>1, <1>2, <1>3, <1>5, <1>6, <1>7

\* Who waits as told has earned what was missing from a token.
LEMMA WaitEarnsAToken ==
  ASSUME NEW parts \in Nat, parts < PerToken
  PROVE  Wait(parts) \in Nat /\ parts + Wait(parts) >= PerToken
<1>1. PICK p \in Nat \ {0} : p = PerToken
  BY LimiterAssumption
<1>2. PICK s \in Nat \ {0} : s = Second
  BY LimiterAssumption
<1>3. PICK e \in Nat : e = parts * s
  OBVIOUS
<1>4. PICK q \in Nat : q = e \div p /\ p * q <= e
  BY <1>1, <1>3, Division
<1>5. PICK w \in Nat : w = (IF p > q THEN p - q ELSE 0) /\ w + q >= p
  <2>1. CASE p > q
    <3>1. p - q \in Nat /\ (p - q) + q >= p
      BY <1>1, <1>4, <2>1
    <3> QED BY <2>1, <3>1
  <2>2. CASE ~ p > q
    BY <1>1, <1>4, <2>2
  <2> QED BY <2>1, <2>2
<1>6. Wait(parts) = RoundUp(w)
  BY <1>1, <1>2, <1>3, <1>4, <1>5 DEF Wait
<1>7. CASE s >= p
  BY <1>1, <1>2, <1>5, <1>6, <1>7, RoundedUp
<1>8. CASE s < p
  <2>1. parts * s <= parts * p
    BY <1>1, <1>2, <1>8, ProductsGrow
  <2>2. p * q < p * parts + p
    <3>1. parts * p = p * parts /\ p * q \in Nat /\ p * parts \in Nat
      BY <1>1, <1>4
    <3> QED BY <1>1, <1>3, <1>4, <2>1, <3>1
  <2>3. q <= parts
    BY <1>1, <1>4, <2>2, ProductsTell
  <2> QED BY <1>1, <1>4, <1>5, <1>6, <2>3, RoundedUp
<1> QED BY <1>1, <1>2, <1>7, <1>8

Full == Burst * PerToken

\* What a caller has in its bucket at a time, or would be given.
Level(bs, c, now) == IF c \in DOMAIN bs THEN Refilled(bs[c], now) ELSE Full

LEMMA FullHoldsAToken == Full \in Nat /\ Full >= PerToken /\ PerToken \in Nat \ {0}
<1>1. PICK p \in Nat \ {0} : p = PerToken
  BY LimiterAssumption
<1>2. PICK b \in Nat \ {0} : b = Burst
  BY LimiterAssumption
<1>3. p * 1 <= p * b /\ p * 1 = p /\ p * b \in Nat /\ p * b = b * p
  BY <1>1, <1>2, ProductsGrow
<1> QED BY <1>1, <1>2, <1>3 DEF Full

\* A bucket of the caller's is never swept by its own request; those that are
\* swept were idle.
LEMMA AcquiringTakes ==
  ASSUME NEW bs, NEW c, NEW now, Level(bs, c, now) \in Nat
  PROVE  LET taken == TryAcquire(bs, c, now)
             level == Level(bs, c, now)
         IN /\ taken.allowed <=> level >= PerToken
            /\ taken.retryAfter = IF level >= PerToken THEN 0 ELSE Wait(level)
            /\ c \in DOMAIN taken.buckets
            /\ taken.buckets[c] = [parts |-> IF level >= PerToken THEN level - PerToken ELSE level,
                                   refreshed |-> now]
            /\ \A d \in DOMAIN taken.buckets \ {c} : d \in DOMAIN bs /\ taken.buckets[d] = bs[d]
            /\ \A d \in DOMAIN bs \ DOMAIN taken.buckets : ~ (now - bs[d].refreshed < IdleExpiry)
<1>1. PICK swept : swept = Swept(bs, c, now)
  OBVIOUS
<1>2. /\ DOMAIN swept \subseteq DOMAIN bs /\ \A d \in DOMAIN swept : swept[d] = bs[d]
      /\ c \in DOMAIN swept <=> c \in DOMAIN bs
      /\ \A d \in DOMAIN bs \ DOMAIN swept : ~ (now - bs[d].refreshed < IdleExpiry)
  BY <1>1 DEF Swept
<1>3. PICK parts : parts = IF c \in DOMAIN swept THEN Refilled(swept[c], now) ELSE Burst * PerToken
  OBVIOUS
<1>4. parts = Level(bs, c, now)
  BY <1>2, <1>3 DEF Level, Full
<1>5. PICK after : after = [parts |-> IF parts >= PerToken THEN parts - PerToken ELSE parts,
                            refreshed |-> now]
  OBVIOUS
<1>6. PICK table : table = [d \in DOMAIN swept \cup {c} |-> IF d = c THEN after ELSE swept[d]]
  OBVIOUS
<1>7. /\ c \in DOMAIN table /\ table[c] = after
      /\ \A d \in DOMAIN table \ {c} : d \in DOMAIN bs /\ table[d] = bs[d]
      /\ \A d \in DOMAIN bs \ DOMAIN table : ~ (now - bs[d].refreshed < IdleExpiry)
  BY <1>2, <1>6
<1>8. PICK taken : taken = TryAcquire(bs, c, now)
  OBVIOUS
<1>9. CASE parts >= PerToken
  <2>1. taken = [buckets |-> table, allowed |-> TRUE, retryAfter |-> 0]
    BY <1>1, <1>3, <1>5, <1>6, <1>8, <1>9 DEF TryAcquire
  <2> QED BY <1>4, <1>5, <1>7, <1>8, <1>9, <2>1
<1>10. CASE ~ parts >= PerToken
  <2>1. (parts >= PerToken) = FALSE
    BY <1>4, <1>10, FullHoldsAToken
  <2>2. after = [parts |-> parts, refreshed |-> now]
    BY <1>5, <1>10
  <2>3. taken = [buckets |-> table, allowed |-> FALSE, retryAfter |-> Wait(parts)]
    BY <1>1, <1>3, <1>6, <1>8, <2>1, <2>2 DEF TryAcquire
  <2> QED BY <1>4, <1>7, <1>8, <1>10, <2>2, <2>3
<1> QED BY <1>9, <1>10

\* Buckets as they are at a time.
Table(bs, now) ==
  \A c \in DOMAIN bs : bs[c].parts \in Nat /\ bs[c].refreshed \in Nat /\ bs[c].refreshed <= now

LEMMA LevelsAreBounded ==
  ASSUME NEW bs, NEW now \in Nat, Table(bs, now), NEW c
  PROVE  Level(bs, c, now) \in Nat /\ Level(bs, c, now) <= Full
<1>1. CASE c \notin DOMAIN bs
  BY <1>1, FullHoldsAToken DEF Level
<1>2. CASE c \in DOMAIN bs
  <2>1. PICK earned \in Nat : earned = bs[c].parts + (now - bs[c].refreshed)
    BY <1>2 DEF Table
  <2>2. Level(bs, c, now) = Lesser(earned, Full)
    BY <1>2, <2>1 DEF Level, Refilled, Full
  <2> QED BY <2>1, <2>2, FullHoldsAToken DEF Lesser
<1> QED BY <1>1, <1>2

LEMMA LevelsRise ==
  ASSUME NEW bs, NEW now \in Nat, Table(bs, now), NEW c
  PROVE  Level(bs, c, now + 1) <= Level(bs, c, now) + 1
<1>1. CASE c \notin DOMAIN bs
  BY <1>1, FullHoldsAToken DEF Level
<1>2. CASE c \in DOMAIN bs
  <2>1. PICK parts \in Nat, refreshed \in Nat :
          parts = bs[c].parts /\ refreshed = bs[c].refreshed /\ refreshed <= now
    BY <1>2 DEF Table
  <2>2. PICK earned \in Nat : earned = parts + (now - refreshed)
    BY <2>1
  <2>3. parts + ((now + 1) - refreshed) = earned + 1
    BY <2>1, <2>2
  <2>4. Level(bs, c, now) = Lesser(earned, Full) /\ Level(bs, c, now + 1) = Lesser(earned + 1, Full)
    BY <1>2, <2>1, <2>2, <2>3 DEF Level, Refilled, Full
  <2> QED BY <2>2, <2>4, FullHoldsAToken DEF Lesser
<1> QED BY <1>1, <1>2

\* A bucket that was idle for the time in which it fills is full.
LEMMA IdleBucketsAreFull ==
  ASSUME NEW bs, NEW now \in Nat, Table(bs, now), NEW c \in DOMAIN bs,
         Full <= IdleExpiry, ~ (now - bs[c].refreshed < IdleExpiry)
  PROVE  Level(bs, c, now) = Full
<1>1. PICK parts \in Nat, refreshed \in Nat :
        parts = bs[c].parts /\ refreshed = bs[c].refreshed /\ refreshed <= now
  BY DEF Table
<1>2. PICK idle \in Nat : idle = IdleExpiry
  BY LimiterAssumption
<1>3. parts + (now - refreshed) >= Full
  BY <1>1, <1>2, FullHoldsAToken
<1>4. PICK earned \in Nat : earned = parts + (now - refreshed)
  BY <1>1
<1>5. Level(bs, c, now) = Lesser(earned, Full)
  BY <1>1, <1>4 DEF Level, Refilled, Full
<1> QED BY <1>3, <1>4, <1>5, FullHoldsAToken DEF Lesser

\* What the history says of the watched caller and its bucket: what it was let
\* through since any of its requests, and has left, is no more than a burst and
\* what was earned since; and by when it was told to come, it has a token.
LimitTypes ==
  /\ clock \in Nat /\ due \in Nat /\ Table(buckets, clock)
  /\ grants \in Seq(Nat) /\ \A i \in 1..Len(grants) : grants[i] <= clock

NoMoreThanEarned ==
  Full <= IdleExpiry => \A i \in 1..Len(grants) :
    PerToken * (Len(grants) - i + 1) + Level(buckets, Watched, clock) <= Full + (clock - grants[i])

TokenWhenDue ==
  due # 0 /\ Watched \in DOMAIN buckets =>
    buckets[Watched].parts + (due - buckets[Watched].refreshed) >= PerToken

\* The same of any two of its requests.
NoPairTooMany ==
  \A i, j \in 1..Len(grants) : i <= j =>
    /\ grants[i] <= grants[j]
    /\ Full <= IdleExpiry => PerToken * (j - i + 1) <= Full + (grants[j] - grants[i])

LimitInv == LimitTypes /\ NoMoreThanEarned /\ TokenWhenDue /\ NoPairTooMany

LEMMA LimitAtTick ==
  ASSUME LimitInv, Tick
  PROVE  LimitInv'
<1>1. clock' = clock + 1 /\ clock \in Nat /\ UNCHANGED <<buckets, grants, due>>
  BY DEF Tick, LimitInv, LimitTypes
<1>2. LimitTypes' /\ TokenWhenDue' /\ NoPairTooMany'
  BY <1>1 DEF LimitInv, LimitTypes, TokenWhenDue, NoPairTooMany, Table
<1>3. PICK before \in Nat : before = Level(buckets, Watched, clock)
  BY LevelsAreBounded DEF LimitInv, LimitTypes
<1>4. PICK after \in Nat : after = Level(buckets', Watched, clock')
  BY <1>2, LevelsAreBounded DEF LimitTypes
<1>5. after <= before + 1
  BY <1>1, <1>3, <1>4, LevelsRise DEF LimitInv, LimitTypes
<1>6. NoMoreThanEarned'
  <2> SUFFICES ASSUME Full <= IdleExpiry, NEW i \in 1..Len(grants)
               PROVE  PerToken * (Len(grants) - i + 1) + after <= Full + (clock' - grants[i])
    BY <1>1, <1>4 DEF NoMoreThanEarned
  <2>1. PICK p \in Int : p = PerToken * (Len(grants) - i + 1)
    BY FullHoldsAToken, LenProperties DEF LimitInv, LimitTypes
  <2>2. PICK g \in Nat : g = grants[i]
    BY ElementOfSeq DEF LimitInv, LimitTypes
  <2>3. p + before <= Full + (clock - g)
    BY <1>3, <2>1, <2>2 DEF LimitInv, NoMoreThanEarned
  <2>4. p + after <= Full + (clock' - g)
    <3>1. PICK f \in Nat : f = Full
      BY FullHoldsAToken
    <3>2. p + before <= f + (clock - g)
      BY <2>3, <3>1
    <3>3. p + after <= f + (clock + 1 - g)
      BY <1>1, <1>5, <3>2
    <3> QED BY <1>1, <3>1, <3>3
  <2> QED BY <2>1, <2>2, <2>4
<1> QED BY <1>2, <1>6 DEF LimitInv

\* Another caller's request, which may sweep the watched one's bucket.
LEMMA LimitAtOthersRequest ==
  ASSUME LimitInv, NEW t, t # Watched, buckets' = TryAcquire(buckets, t, clock).buckets,
         UNCHANGED <<clock, grants, due>>
  PROVE  LimitInv'
<1>1. Table(buckets, clock) /\ clock \in Nat
  BY DEF LimitInv, LimitTypes
<1>2. PICK level \in Nat : level = Level(buckets, t, clock)
  BY <1>1, LevelsAreBounded
<1>3. /\ buckets'[t] = [parts |-> IF level >= PerToken THEN level - PerToken ELSE level,
                        refreshed |-> clock]
      /\ \A d \in DOMAIN buckets' \ {t} : d \in DOMAIN buckets /\ buckets'[d] = buckets[d]
      /\ \A d \in DOMAIN buckets \ DOMAIN buckets' : ~ (clock - buckets[d].refreshed < IdleExpiry)
  BY <1>2, AcquiringTakes
<1>4. Table(buckets', clock')
  BY <1>1, <1>2, <1>3, FullHoldsAToken DEF Table
<1>5. Full <= IdleExpiry => Level(buckets', Watched, clock) = Level(buckets, Watched, clock)
  <2> SUFFICES ASSUME Full <= IdleExpiry
               PROVE  Level(buckets', Watched, clock) = Level(buckets, Watched, clock)
    OBVIOUS
  <2>1. CASE Watched \in DOMAIN buckets'
    BY <1>3, <2>1 DEF Level
  <2>2. CASE Watched \in DOMAIN buckets \ DOMAIN buckets'
    <3>1. Level(buckets, Watched, clock) = Full
      BY <1>1, <1>3, <2>2, IdleBucketsAreFull
    <3> QED BY <2>2, <3>1 DEF Level
  <2>3. CASE Watched \notin DOMAIN buckets /\ Watched \notin DOMAIN buckets'
    BY <2>3 DEF Level
  <2> QED BY <2>1, <2>2, <2>3
<1>6. LimitTypes' /\ NoPairTooMany'
  BY <1>4 DEF LimitInv, LimitTypes, NoPairTooMany
<1>7. NoMoreThanEarned'
  BY <1>5 DEF LimitInv, NoMoreThanEarned
<1>8. TokenWhenDue'
  BY <1>3 DEF LimitInv, TokenWhenDue
<1> QED BY <1>6, <1>7, <1>8 DEF LimitInv

\* A bucket that was just used holds what was left in it.
LEMMA JustUsed ==
  ASSUME NEW bs, NEW now \in Nat, NEW c \in DOMAIN bs, NEW left \in Nat, left <= Full,
         bs[c] = [parts |-> left, refreshed |-> now]
  PROVE  Level(bs, c, now) = left
<1>1. bs[c].parts + (now - bs[c].refreshed) = left
  OBVIOUS
<1>2. Level(bs, c, now) = Lesser(left, Full)
  BY <1>1 DEF Level, Refilled, Full
<1> QED BY <1>2, FullHoldsAToken DEF Lesser

LEMMA LimitAtGrant ==
  ASSUME LimitInv, buckets' = TryAcquire(buckets, Watched, clock).buckets,
         TryAcquire(buckets, Watched, clock).allowed,
         grants' = Append(grants, clock), due' = 0, clock' = clock
  PROVE  LimitInv'
<1>1. Table(buckets, clock) /\ clock \in Nat
  BY DEF LimitInv, LimitTypes
<1>2. PICK level \in Nat : level = Level(buckets, Watched, clock) /\ level <= Full
  BY <1>1, LevelsAreBounded
<1>3. PICK p \in Nat \ {0} : p = PerToken
  BY FullHoldsAToken
<1>4. PICK f \in Nat : f = Full /\ f >= p
  BY <1>3, FullHoldsAToken
<1>5. /\ level >= p /\ Watched \in DOMAIN buckets'
      /\ buckets'[Watched] = [parts |-> level - p, refreshed |-> clock]
      /\ \A d \in DOMAIN buckets' \ {Watched} : d \in DOMAIN buckets /\ buckets'[d] = buckets[d]
  <2>1. level >= PerToken
    BY <1>2, AcquiringTakes
  <2>2. level - p \in Nat /\ level >= p
    BY <1>2, <1>3, <2>1
  <2> QED BY <1>2, <1>3, <2>1, <2>2, AcquiringTakes
<1>6. level - p \in Nat /\ level - p <= Full
  BY <1>2, <1>3, <1>4, <1>5
<1>7. Table(buckets', clock')
  BY <1>1, <1>5, <1>6 DEF Table
<1>8. Level(buckets', Watched, clock') = level - p
  BY <1>1, <1>5, <1>6, JustUsed
<1>9. PICK n \in Nat : n = Len(grants)
  BY LenProperties DEF LimitInv, LimitTypes
<1>10. /\ grants' \in Seq(Nat) /\ Len(grants') = n + 1 /\ grants'[n + 1] = clock
       /\ \A i \in 1..n : grants'[i] = grants[i] /\ grants[i] \in Nat /\ grants[i] <= clock
  BY <1>1, <1>9, AppendProperties, ElementOfSeq DEF LimitInv, LimitTypes
<1>11. \A i \in 1..(n + 1) : i \in 1..n \/ i = n + 1
  BY <1>9
<1>12. LimitTypes'
  <2>1. \A i \in 1..(n + 1) : grants'[i] <= clock
    BY <1>1, <1>10, <1>11
  <2> QED BY <1>1, <1>7, <1>10, <2>1 DEF LimitTypes
<1>13. ASSUME Full <= IdleExpiry, NEW i \in 1..n
       PROVE  p * (n - i + 2) + (level - p) <= f + (clock - grants[i])
  <2>1. PICK m \in Nat : m = n - i + 1
    BY <1>9, <1>13
  <2>2. p * m + level <= f + (clock - grants[i])
    BY <1>2, <1>3, <1>4, <1>9, <1>13, <2>1 DEF LimitInv, NoMoreThanEarned
  <2>3. n - i + 2 = m + 1 /\ p * (m + 1) = p * m + p /\ p * m \in Nat
    BY <1>3, <1>9, <2>1
  <2>4. PICK g \in Nat : g = grants[i]
    BY <1>10, <1>13
  <2>5. PICK x \in Nat : x = p * m
    BY <2>3
  <2>6. p * (n - i + 2) = x + p
    BY <2>3, <2>5
  <2>7. (x + p) + (level - p) <= f + (clock - g)
    BY <1>1, <1>2, <1>3, <1>4, <2>2, <2>4, <2>5
  <2> QED BY <2>4, <2>6, <2>7
<1>14. NoMoreThanEarned'
  <2> SUFFICES ASSUME Full <= IdleExpiry, NEW i \in 1..(n + 1)
               PROVE  p * ((n + 1) - i + 1) + (level - p) <= f + (clock - grants'[i])
    BY <1>3, <1>4, <1>8, <1>10 DEF NoMoreThanEarned
  <2>1. CASE i \in 1..n
    <3>1. (n + 1) - i + 1 = n - i + 2
      BY <1>9
    <3> QED BY <1>10, <1>13, <2>1, <3>1
  <2>2. CASE i = n + 1
    <3>1. (n + 1) - i + 1 = 1 /\ clock - grants'[i] = 0
      BY <1>1, <1>9, <1>10, <2>2
    <3>2. p * ((n + 1) - i + 1) = p
      BY <1>3, <3>1
    <3>3. p + (level - p) <= f + 0
      BY <1>2, <1>3, <1>4
    <3> QED BY <3>1, <3>2, <3>3
  <2> QED BY <1>11, <2>1, <2>2
<1>15. NoPairTooMany'
  <2> SUFFICES ASSUME NEW i \in 1..(n + 1), NEW j \in 1..(n + 1), i <= j
               PROVE  /\ grants'[i] <= grants'[j]
                      /\ Full <= IdleExpiry => p * (j - i + 1) <= f + (grants'[j] - grants'[i])
    BY <1>3, <1>4, <1>10 DEF NoPairTooMany
  <2>1. CASE j \in 1..n
    <3>1. i \in 1..n
      BY <2>1
    <3> QED BY <1>3, <1>4, <1>9, <1>10, <2>1, <3>1 DEF LimitInv, NoPairTooMany
  <2>2. CASE i \in 1..n /\ j = n + 1
    <3>1. j - i + 1 = n - i + 2
      BY <1>9, <2>2
    <3>2. PICK x \in Int : x = p * (n - i + 2)
      BY <1>3, <1>9, <2>2
    <3>3. grants'[i] = grants[i] /\ grants[i] \in Nat /\ grants[i] <= clock /\ grants'[j] = clock
      BY <1>10, <2>2
    <3>4. ASSUME Full <= IdleExpiry PROVE x <= f + (clock - grants[i])
      <4>1. x + (level - p) <= f + (clock - grants[i])
        BY <1>13, <2>2, <3>2, <3>4
      <4> QED BY <1>1, <1>2, <1>3, <1>4, <1>5, <3>2, <3>3, <4>1
    <3> QED BY <3>1, <3>2, <3>3, <3>4
  <2>3. CASE i = n + 1 /\ j = n + 1
    <3>1. j - i + 1 = 1 /\ grants'[j] - grants'[i] = 0 /\ grants'[i] <= grants'[j]
      BY <1>1, <1>9, <1>10, <2>3
    <3>2. p * (j - i + 1) = p /\ p <= f + 0
      BY <1>3, <1>4, <3>1
    <3> QED BY <3>1, <3>2
  <2> QED BY <1>9, <1>11, <2>1, <2>2, <2>3
<1> QED BY <1>12, <1>14, <1>15 DEF LimitInv, TokenWhenDue

LEMMA LimitAtRefusal ==
  ASSUME LimitInv, buckets' = TryAcquire(buckets, Watched, clock).buckets,
         ~ TryAcquire(buckets, Watched, clock).allowed,
         due' = clock + TryAcquire(buckets, Watched, clock).retryAfter,
         UNCHANGED <<clock, grants>>
  PROVE  LimitInv'
<1>1. Table(buckets, clock) /\ clock \in Nat
  BY DEF LimitInv, LimitTypes
<1>2. PICK level \in Nat : level = Level(buckets, Watched, clock) /\ level <= Full
  BY <1>1, LevelsAreBounded
<1>3. ~ level >= PerToken /\ level < PerToken
  <2>1. ~ level >= PerToken
    BY <1>2, AcquiringTakes
  <2> QED BY <2>1, FullHoldsAToken
<1>4. /\ Watched \in DOMAIN buckets'
      /\ buckets'[Watched] = [parts |-> level, refreshed |-> clock]
      /\ \A d \in DOMAIN buckets' \ {Watched} : d \in DOMAIN buckets /\ buckets'[d] = buckets[d]
      /\ due' = clock + Wait(level)
  BY <1>2, <1>3, AcquiringTakes
<1>5. PICK wait \in Nat : wait = Wait(level) /\ level + wait >= PerToken
  BY <1>3, WaitEarnsAToken
<1>6. Table(buckets', clock')
  BY <1>1, <1>4 DEF Table
<1>7. Level(buckets', Watched, clock') = level
  BY <1>1, <1>2, <1>4, JustUsed
<1>8. LimitTypes' /\ NoPairTooMany'
  BY <1>1, <1>4, <1>5, <1>6 DEF LimitInv, LimitTypes, NoPairTooMany
<1>9. NoMoreThanEarned'
  BY <1>2, <1>7 DEF LimitInv, NoMoreThanEarned
<1>10. TokenWhenDue'
  <2>1. buckets'[Watched].parts = level /\ due' - buckets'[Watched].refreshed = wait
    BY <1>1, <1>4, <1>5
  <2> QED BY <1>5, <2>1 DEF TokenWhenDue
<1> QED BY <1>8, <1>9, <1>10 DEF LimitInv

LEMMA LimitAtArrival ==
  ASSUME LimitInv, NEW r \in Requests, Arrive(r)
  PROVE  LimitInv'
<1>1. clock' = clock
  BY DEF Arrive
<1>2. PICK t \in Tokens :
        LET taken == TryAcquire(buckets, t, clock) IN
        /\ buckets' = IF gated THEN taken.buckets ELSE buckets
        /\ IF gated /\ t = Watched
           THEN IF taken.allowed
                THEN grants' = Append(grants, clock) /\ due' = 0
                ELSE due' = clock + taken.retryAfter /\ UNCHANGED grants
           ELSE UNCHANGED <<grants, due>>
  BY DEF Arrive
<1>3. CASE ~ gated
  BY <1>1, <1>2, <1>3 DEF LimitInv, LimitTypes, NoMoreThanEarned, TokenWhenDue, NoPairTooMany
<1>4. CASE gated /\ t # Watched
  BY <1>1, <1>2, <1>4, LimitAtOthersRequest
<1>5. CASE gated /\ t = Watched /\ TryAcquire(buckets, Watched, clock).allowed
  BY <1>1, <1>2, <1>5, LimitAtGrant
<1>6. CASE gated /\ t = Watched /\ ~ TryAcquire(buckets, Watched, clock).allowed
  BY <1>1, <1>2, <1>6, LimitAtRefusal
<1> QED BY <1>3, <1>4, <1>5, <1>6

LEMMA LimitAtStep == LimitInv /\ [Next]_vars => LimitInv'
<1> SUFFICES ASSUME LimitInv, [Next]_vars PROVE LimitInv'
  OBVIOUS
<1>1. ASSUME UNCHANGED <<clock, buckets, grants, due>> PROVE LimitInv'
  BY <1>1 DEF LimitInv, LimitTypes, NoMoreThanEarned, TokenWhenDue, NoPairTooMany
<1>2. CASE Tick
  BY <1>2, LimitAtTick
<1>3. ASSUME NEW r \in Requests, Arrive(r) PROVE LimitInv'
  BY <1>3, LimitAtArrival
<1>4. ASSUME NEW r \in Requests, Request(r), ~ Arrive(r) PROVE LimitInv'
  BY <1>1, <1>4 DEF Request, Find, Check, Verify, Judge, FindDefault, InsertDefault, Reread
<1>5. ASSUME NEW k \in Keys, Issue(k) \/ Revoke(k) PROVE LimitInv'
  BY <1>1, <1>5 DEF Issue, Revoke
<1>6. CASE UNCHANGED vars
  BY <1>1, <1>6 DEF vars
<1> QED BY <1>2, <1>3, <1>4, <1>5, <1>6 DEF Next

LEMMA LimitAtFirst == Init => LimitInv
<1> SUFFICES ASSUME Init PROVE LimitInv
  OBVIOUS
<1>1. clock = 0 /\ due = 0 /\ grants = <<>> /\ buckets = <<>>
  BY DEF Init
<1>2. grants \in Seq(Nat) /\ Len(grants) = 0 /\ 1..0 = {}
  BY <1>1
<1>3. DOMAIN buckets = {}
  BY <1>1
<1> QED BY <1>1, <1>2, <1>3 DEF LimitInv, LimitTypes, Table, NoMoreThanEarned, TokenWhenDue,
       NoPairTooMany

LEMMA LimitInvLimits == LimitInv => LimitIsKept
<1> SUFFICES ASSUME LimitInv PROVE LimitIsKept
  OBVIOUS
<1>1. PICK p \in Nat \ {0} : p = PerToken
  BY LimiterAssumption
<1>2. PICK b \in Nat \ {0} : b = Burst
  BY LimiterAssumption
<1>3. b * p \in Nat /\ Full = b * p /\ b * p = p * b
  BY <1>1, <1>2 DEF Full
<1>4. DOMAIN grants = 1..Len(grants)
  BY LenProperties DEF LimitInv, LimitTypes
<1>5. RateIsKept
  <2> SUFFICES ASSUME Full <= IdleExpiry, NEW i \in 1..Len(grants), NEW j \in 1..Len(grants), i <= j
               PROVE  j - i + 1 <= Burst + (grants[j] - grants[i]) \div PerToken
    BY <1>4 DEF RateIsKept, Full
  <2>1. PICK d \in Nat : d = grants[j] - grants[i]
    <3>1. grants[i] \in Nat /\ grants[j] \in Nat /\ grants[i] <= grants[j]
      BY ElementOfSeq DEF LimitInv, LimitTypes, NoPairTooMany
    <3> QED BY <3>1
  <2>2. PICK x \in Nat : x = j - i + 1
    OBVIOUS
  <2>3. p * x <= Full + d
    BY <1>1, <2>1, <2>2 DEF LimitInv, NoPairTooMany
  <2>4. PICK q \in Nat : q = d \div p /\ d < p * q + p
    BY <1>1, <2>1, Division
  <2>5. PICK y \in Nat : y = b + q
    BY <1>2, <2>4
  <2>6. p * y = p * b + p * q /\ p * q \in Nat /\ p * y \in Nat /\ p * x \in Nat
    BY <1>1, <1>2, <2>2, <2>4, <2>5
  <2>7. p * x < p * y + p
    <3>1. PICK pb \in Nat, pq \in Nat : pb = p * b /\ pq = p * q
      BY <1>3, <2>6
    <3>2. p * x <= pb + d /\ d < pq + p /\ p * y = pb + pq
      BY <1>3, <2>3, <2>4, <2>6, <3>1
    <3>3. PICK px \in Nat : px = p * x
      BY <2>6
    <3>4. px < (pb + pq) + p
      BY <1>1, <2>1, <3>2, <3>3
    <3> QED BY <3>2, <3>3, <3>4
  <2>8. x <= y
    BY <1>1, <2>2, <2>5, <2>7, ProductsTell
  <2> QED BY <1>1, <1>2, <2>1, <2>2, <2>4, <2>5, <2>8
<1>6. WaitIsEnough
  <2> SUFFICES ASSUME due # 0, clock >= due PROVE Level(buckets, Watched, clock) >= PerToken
    BY AcquiringTakes, LevelsAreBounded DEF WaitIsEnough, LimitInv, LimitTypes
  <2>1. CASE Watched \notin DOMAIN buckets
    BY <2>1, FullHoldsAToken DEF Level
  <2>2. CASE Watched \in DOMAIN buckets
    <3>1. PICK parts \in Nat, refreshed \in Nat :
            /\ parts = buckets[Watched].parts /\ refreshed = buckets[Watched].refreshed
            /\ refreshed <= clock
      BY <2>2 DEF LimitInv, LimitTypes, Table
    <3>2. due \in Nat /\ clock \in Nat /\ parts + (due - refreshed) >= PerToken
      BY <2>2, <3>1 DEF LimitInv, LimitTypes, TokenWhenDue
    <3>3. PICK earned \in Nat : earned = parts + (clock - refreshed) /\ earned >= PerToken
      BY <3>1, <3>2, FullHoldsAToken
    <3>4. Level(buckets, Watched, clock) = Lesser(earned, Full)
      BY <2>2, <3>1, <3>3 DEF Level, Refilled, Full
    <3> QED BY <3>3, <3>4, FullHoldsAToken DEF Lesser
  <2> QED BY <2>1, <2>2
<1> QED BY <1>5, <1>6 DEF LimitIsKept

\* For any rate and burst, any callers and any table of buckets, however small:
\* in any stretch of time a caller is let through a burst and what it earned
\* since, unless its bucket may be swept before it has refilled; and it is let
\* through when it comes back as it was told (rate_limit.rs, try_acquire).
THEOREM LimitIsKeptAlways == Spec => []LimitIsKept
<1> QED
  BY LimitInvLimits, LimitAtFirst, LimitAtStep, PTL DEF Spec

-----------------------------------------------------------------------------
(* Accounts: the store of users and keys.                                  *)

\* What the columns of the two tables hold.
DrawnPrefixes == {d.prefix : d \in Drawn}
Held == {held \in SUBSET AllScopes : held # {}}
Rows == [owner : Nat, prefix : DrawnPrefixes, scopes : {Join(held) : held \in Held},
         hash : [of : {d.secret : d \in Drawn}, salt : Nat], revoked : BOOLEAN]
Secrets == [key : Drawn, owner : Nat, scopes : Held]

StoreTypes(store) ==
  /\ store = [users |-> store.users, keys |-> store.keys, shown |-> store.shown]
  /\ store.users \in Seq(Handles) /\ store.keys \in Seq(Rows) /\ store.shown \subseteq Secrets

\* The row of a key that was shown, and the key that a row was shown as.
IsRowOf(found, shown) ==
  /\ found.prefix = shown.key.prefix /\ found.hash.of = shown.key.secret
  /\ found.owner = shown.owner /\ found.scopes = Join(shown.scopes)

UsersAreUnique(store) == \A u, v \in DOMAIN store.users : store.users[u] = store.users[v] => u = v
KeysAreUnique(store) ==
  \A k, l \in DOMAIN store.keys : store.keys[k].prefix = store.keys[l].prefix => k = l
KeysAreOwned(store) == \A k \in DOMAIN store.keys : store.keys[k].owner \in DOMAIN store.users
KeysAreShown(store) ==
  /\ \A k \in DOMAIN store.keys : \E shown \in store.shown : IsRowOf(store.keys[k], shown)
  /\ \A shown \in store.shown : \E k \in DOMAIN store.keys : IsRowOf(store.keys[k], shown)

\* What every command preserves: a row was shown, to its owner, as the one with
\* its prefix.
StoreInv(store) ==
  /\ StoreTypes(store) /\ UsersAreUnique(store) /\ KeysAreUnique(store)
  /\ KeysAreOwned(store) /\ KeysAreShown(store)

\* A finite set is in the sequence that is made of it, whole.
LEMMA ListedWhole ==
  ASSUME NEW S, IsFiniteSet(S)
  PROVE  /\ Cardinality(S) \in Nat /\ SetToSeq(S) \in [1..Cardinality(S) -> S]
         /\ Range(SetToSeq(S)) = S
<1>1. PICK n \in Nat : n = Cardinality(S) /\ ExistsBijection(1..n, S)
  BY FS_CardinalityType
<1>2. PICK f : f = SetToSeq(S)
  OBVIOUS
<1>3. \E g \in [1..n -> S] : IsInjective(g)
  BY <1>1 DEF ExistsBijection, Bijection, Injection
<1>4. f \in [1..n -> S] /\ IsInjective(f)
  BY <1>1, <1>2, <1>3 DEF SetToSeq
<1>5. f \in Injection(1..n, S)
  BY <1>4 DEF Injection
<1>6. IsFiniteSet(1..n) /\ Cardinality(1..n) = n
  BY <1>1, FS_Interval
<1>7. f \in Surjection(1..n, S)
  BY <1>1, <1>5, <1>6, FS_Injection
<1>8. Range(f) = S
  BY <1>4, <1>7 DEF Range, Surjection
<1> QED BY <1>1, <1>2, <1>4, <1>8

\* Scopes come back from their column as they went in (Scope::join, parse_list).
LEMMA ParsesWhatItJoins ==
  ASSUME NEW held \in Held
  PROVE  ParseList(Join(held)) = held
<1> DEFINE n == Cardinality(held)
           list == SetToSeq(held)
           joined == Join(held)
<1>1. IsFiniteSet(held)
  <2>1. IsFiniteSet({"read", "write", "admin"})
    <3>1. {"read", "write", "admin"} = (({} \cup {"read"}) \cup {"write"}) \cup {"admin"}
      OBVIOUS
    <3>2. IsFiniteSet({} \cup {"read"})
      BY FS_EmptySet, FS_AddElement
    <3>3. IsFiniteSet(({} \cup {"read"}) \cup {"write"})
      BY <3>2, FS_AddElement
    <3>4. IsFiniteSet((({} \cup {"read"}) \cup {"write"}) \cup {"admin"})
      BY <3>3, FS_AddElement
    <3> QED BY <3>1, <3>4
  <2> QED BY <2>1, FS_Subset DEF Held, AllScopes
<1>2. n \in Nat /\ list \in [1..n -> held] /\ Range(list) = held
  BY <1>1, ListedWhole
<1>3. /\ DOMAIN joined = 1..n
      /\ \A i \in 1..n : joined[i].word = list[i]
  BY DEF Join
<1>4. {Spelled(p) : p \in Range(joined)} = Range(list)
  <2> HIDE DEF joined, list
  <2> QED BY <1>2, <1>3 DEF Range, Spelled
<1>5. "" \notin held /\ held # {} /\ held \subseteq AllScopes
  BY DEF Held, AllScopes
<1>6. {Spelled(p) : p \in Range(joined)} \ {""} = held
  <2> HIDE DEF joined, list
  <2> QED BY <1>2, <1>4, <1>5
<1> HIDE DEF joined
<1>7. ParseList(joined) = held
  BY <1>5, <1>6 DEF ParseList
<1> QED BY <1>7 DEF joined

\* What is parsed at all is scopes, and at least one.
LEMMA ParsesToScopes ==
  ASSUME NEW parts, ParseList(parts) # {} PROVE ParseList(parts) \in Held
BY DEF ParseList, Held

\* A prefix finds the one row that has it, or none.
LEMMA FoundByPrefix ==
  ASSUME NEW store, StoreInv(store), NEW prefix
  PROVE  /\ FindByPrefix(store, prefix) # 0 =>
              /\ FindByPrefix(store, prefix) \in DOMAIN store.keys
              /\ store.keys[FindByPrefix(store, prefix)].prefix = prefix
         /\ \A k \in DOMAIN store.keys :
              store.keys[k].prefix = prefix => FindByPrefix(store, prefix) = k /\ k # 0
<1> DEFINE ks == {k \in DOMAIN store.keys : store.keys[k].prefix = prefix}
<1>1. DOMAIN store.keys = 1..Len(store.keys)
  BY LenProperties DEF StoreInv, StoreTypes
<1>2. FindByPrefix(store, prefix) = IF ks = {} THEN 0 ELSE CHOOSE k \in ks : TRUE
  BY DEF FindByPrefix
<1>3. \A k, l \in ks : k = l
  BY DEF StoreInv, KeysAreUnique
<1>4. ASSUME ks = {} PROVE FindByPrefix(store, prefix) = 0
  BY <1>2, <1>4
<1>5. ASSUME ks # {} PROVE FindByPrefix(store, prefix) \in ks
  BY <1>2, <1>5
<1> QED BY <1>1, <1>3, <1>4, <1>5

\* A handle finds the one user who has it, or none.
LEMMA FoundByHandle ==
  ASSUME NEW store, StoreInv(store), NEW typed
  PROVE  /\ FindByHandle(store, typed) # 0 =>
              /\ FindByHandle(store, typed) \in DOMAIN store.users
              /\ store.users[FindByHandle(store, typed)] = Spelled(typed)
         /\ \A u \in DOMAIN store.users :
              store.users[u] = Spelled(typed) => FindByHandle(store, typed) = u /\ u # 0
<1> DEFINE ids == {u \in DOMAIN store.users : store.users[u] = Spelled(typed)}
<1>1. DOMAIN store.users = 1..Len(store.users)
  BY LenProperties DEF StoreInv, StoreTypes
<1>2. FindByHandle(store, typed) = IF ids = {} THEN 0 ELSE CHOOSE u \in ids : TRUE
  BY DEF FindByHandle
<1>3. \A u, v \in ids : u = v
  BY DEF StoreInv, UsersAreUnique
<1>4. ASSUME ids = {} PROVE FindByHandle(store, typed) = 0
  BY <1>2, <1>4
<1>5. ASSUME ids # {} PROVE FindByHandle(store, typed) \in ids
  BY <1>2, <1>5
<1> QED BY <1>1, <1>3, <1>4, <1>5

\* A command that is refused changes nothing.
LEMMA NothingDoneIsKept ==
  ASSUME NEW store, StoreInv(store) PROVE StepIsKept(store, store)
<1>1. Len(store.keys) \in Nat /\ Len(store.users) \in Nat
  BY LenProperties DEF StoreInv, StoreTypes
<1> QED BY <1>1 DEF StepIsKept, IsPrefix

\* The commands, one by one: the store stays sound, and what it held it holds.
LEMMA UserAddKeeps ==
  ASSUME NEW store, StoreInv(store), NEW typed
  PROVE  StoreInv(UserAdd(store, typed)) /\ StepIsKept(store, UserAdd(store, typed))
<1>1. CASE ~ IsHandle(typed) \/ Spelled(typed) \in Range(store.users)
  BY <1>1, NothingDoneIsKept DEF UserAdd
<1>2. CASE IsHandle(typed) /\ Spelled(typed) \notin Range(store.users)
  <2> DEFINE word == Spelled(typed)
             users == store.users
             more == Append(users, word)
             after == UserAdd(store, typed)
  <2>1. /\ store = [users |-> users, keys |-> store.keys, shown |-> store.shown]
        /\ users \in Seq(Handles) /\ word \in Handles
    BY <1>2 DEF StoreInv, StoreTypes, IsHandle, Spelled
  <2>2. after = [users |-> more, keys |-> store.keys, shown |-> store.shown]
    BY <1>2, <2>1 DEF UserAdd
  <2>3. after.users = more /\ after.keys = store.keys /\ after.shown = store.shown
    BY <2>2
  <2>4. /\ Len(users) \in Nat /\ DOMAIN users = 1..Len(users)
        /\ more \in Seq(Handles) /\ Len(more) = Len(users) + 1
        /\ \A i \in 1..Len(users) : more[i] = users[i]
        /\ more[Len(users) + 1] = word
    BY <2>1, AppendProperties, LenProperties
  <2>5. DOMAIN more = 1..Len(users) + 1
    BY <2>4, LenProperties
  <2>6. \A i \in 1..Len(users) : users[i] # word
    BY <1>2, <2>4 DEF Range
  <2> HIDE DEF users, word, more, after
  <2>7. StoreTypes(after)
    BY <2>2, <2>3, <2>4 DEF StoreInv, StoreTypes
  <2>8. UsersAreUnique(after)
    <3> SUFFICES ASSUME NEW u \in 1..Len(users) + 1, NEW v \in 1..Len(users) + 1, more[u] = more[v]
                 PROVE  u = v
      BY <2>3, <2>5 DEF UsersAreUnique
    <3>1. \A i \in 1..Len(users) + 1 : i \in 1..Len(users) \/ i = Len(users) + 1
      BY <2>4
    <3>2. CASE u \in 1..Len(users) /\ v \in 1..Len(users)
      BY <2>4, <3>2 DEF StoreInv, UsersAreUnique, users
    <3>3. CASE u = Len(users) + 1 \/ v = Len(users) + 1
      BY <2>4, <2>6, <3>1, <3>3
    <3> QED BY <3>1, <3>2, <3>3
  <2>9. KeysAreUnique(after) /\ KeysAreShown(after)
    BY <2>3 DEF StoreInv, KeysAreUnique, KeysAreShown
  <2>10. KeysAreOwned(after)
    BY <2>3, <2>4, <2>5 DEF StoreInv, KeysAreOwned, users
  <2>11. IsPrefix(users, more)
    <3>1. /\ SubSeq(users, 1, Len(users)) \in Seq(Handles) /\ Len(SubSeq(users, 1, Len(users))) = Len(users)
          /\ SubSeq(more, 1, Len(users)) \in Seq(Handles) /\ Len(SubSeq(more, 1, Len(users))) = Len(users)
          /\ \A i \in 1..Len(users) : SubSeq(users, 1, Len(users))[i] = users[i]
          /\ \A i \in 1..Len(users) : SubSeq(more, 1, Len(users))[i] = more[i]
      BY <2>1, <2>4, SubSeqProperties DEF users
    <3>2. SubSeq(users, 1, Len(users)) = SubSeq(more, 1, Len(users))
      BY <2>4, <3>1, SeqEqual
    <3> QED BY <2>4, <3>2 DEF IsPrefix
  <2>12. StepIsKept(store, after)
    <3>1. Len(store.keys) \in Nat
      BY LenProperties DEF StoreInv, StoreTypes
    <3> QED BY <2>3, <2>11, <3>1 DEF StepIsKept, users
  <2>13. StoreInv(after)
    BY <2>7, <2>8, <2>9, <2>10 DEF StoreInv
  <2> QED BY <2>12, <2>13 DEF after
<1> QED BY <1>1, <1>2

LEMMA KeyRevokeKeeps ==
  ASSUME NEW store, StoreInv(store), NEW typed
  PROVE  StoreInv(KeyRevoke(store, typed)) /\ StepIsKept(store, KeyRevoke(store, typed))
<1> DEFINE k == FindByPrefix(store, Spelled(typed))
<1>1. CASE k = 0
  BY <1>1, NothingDoneIsKept DEF KeyRevoke
<1>2. CASE k # 0
  <2> DEFINE keys == store.keys
             found == [keys[k] EXCEPT !.revoked = TRUE]
             after == KeyRevoke(store, typed)
  <2>1. /\ store = [users |-> store.users, keys |-> keys, shown |-> store.shown]
        /\ keys \in Seq(Rows) /\ DOMAIN keys = 1..Len(keys) /\ Len(keys) \in Nat
        /\ k \in DOMAIN keys
    BY <1>2, FoundByPrefix, LenProperties DEF StoreInv, StoreTypes
  <2>2. keys[k] \in Rows /\ found \in Rows
    <3>1. keys[k] \in Rows
      BY <2>1, ElementOfSeq
    <3> QED BY <3>1 DEF Rows
  <2>3. after = [users |-> store.users, keys |-> [keys EXCEPT ![k] = found], shown |-> store.shown]
    BY <1>2, <2>1 DEF KeyRevoke
  <2>4. /\ after.users = store.users /\ after.shown = store.shown
        /\ after.keys \in Seq(Rows) /\ Len(after.keys) = Len(keys)
        /\ \A j \in 1..Len(keys) : after.keys[j] = IF j = k THEN found ELSE keys[j]
    BY <2>1, <2>2, <2>3, ExceptSeq
  <2>5. DOMAIN after.keys = DOMAIN keys
    BY <2>1, <2>4, LenProperties
  <2>6. \A j \in DOMAIN keys :
          /\ after.keys[j].owner = keys[j].owner /\ after.keys[j].prefix = keys[j].prefix
          /\ after.keys[j].scopes = keys[j].scopes /\ after.keys[j].hash = keys[j].hash
          /\ keys[j].revoked => after.keys[j].revoked
          /\ [after.keys[j] EXCEPT !.revoked = FALSE] = [keys[j] EXCEPT !.revoked = FALSE]
    <3> SUFFICES ASSUME NEW j \in DOMAIN keys
                 PROVE  LET new == after.keys[j] IN
                          /\ new.owner = keys[j].owner /\ new.prefix = keys[j].prefix
                          /\ new.scopes = keys[j].scopes /\ new.hash = keys[j].hash
                          /\ keys[j].revoked => new.revoked
                          /\ [new EXCEPT !.revoked = FALSE] = [keys[j] EXCEPT !.revoked = FALSE]
      OBVIOUS
    <3>1. keys[j] \in Rows /\ (after.keys[j] = keys[j] \/ after.keys[j] = [keys[j] EXCEPT !.revoked = TRUE])
      BY <2>1, <2>4, ElementOfSeq
    <3> HIDE DEF keys, after
    <3> QED BY <3>1 DEF Rows
  <2> HIDE DEF keys, found, after
  <2>7. StoreTypes(after)
    BY <2>1, <2>3, <2>4 DEF StoreInv, StoreTypes
  <2>8. UsersAreUnique(after) /\ KeysAreUnique(after) /\ KeysAreOwned(after)
    <3>1. UsersAreUnique(after)
      BY <2>4 DEF StoreInv, UsersAreUnique
    <3>2. KeysAreUnique(after)
      <4>1. KeysAreUnique(store)
        BY DEF StoreInv
      <4> QED BY <2>5, <2>6, <4>1 DEF KeysAreUnique, keys
    <3>3. KeysAreOwned(after)
      <4>1. KeysAreOwned(store)
        BY DEF StoreInv
      <4> QED BY <2>4, <2>5, <2>6, <4>1 DEF KeysAreOwned, keys
    <3> QED BY <3>1, <3>2, <3>3
  <2>9. KeysAreShown(after)
    <3>1. \A j \in DOMAIN keys : \A shown \in store.shown :
            IsRowOf(keys[j], shown) => IsRowOf(after.keys[j], shown)
      BY <2>6 DEF IsRowOf
    <3> QED BY <2>4, <2>5, <3>1 DEF StoreInv, KeysAreShown, keys
  <2>10. StepIsKept(store, after)
    <3>1. IsPrefix(store.users, after.users)
      <4>1. Len(store.users) \in Nat
        BY LenProperties DEF StoreInv, StoreTypes
      <4> QED BY <2>4, <4>1 DEF IsPrefix
    <3> QED BY <2>1, <2>4, <2>6, <3>1 DEF StepIsKept, keys
  <2>11. StoreInv(after)
    BY <2>7, <2>8, <2>9 DEF StoreInv
  <2> QED BY <2>10, <2>11 DEF after
<1> QED BY <1>1, <1>2

LEMMA KeyIssueKeeps ==
  ASSUME NEW store, StoreInv(store), NEW typed, NEW name, NEW parts, NEW drawn \in Drawn
  PROVE  /\ StoreInv(KeyIssue(store, typed, name, parts, drawn))
         /\ StepIsKept(store, KeyIssue(store, typed, name, parts, drawn))
<1> DEFINE u == FindByHandle(store, typed)
           held == ParseList(parts)
           refused == held = {} \/ u = 0 \/ name = "" \/ FindByPrefix(store, drawn.prefix) # 0
<1>1. CASE refused
  BY <1>1, NothingDoneIsKept DEF KeyIssue
<1>2. CASE ~ refused
  <2> DEFINE keys == store.keys
             new == [owner |-> u, prefix |-> drawn.prefix, scopes |-> Join(held),
                     hash |-> Hash(drawn.secret, Len(keys)), revoked |-> FALSE]
             said == [key |-> drawn, owner |-> u, scopes |-> held]
             more == Append(keys, new)
             after == KeyIssue(store, typed, name, parts, drawn)
  <2>1. /\ store = [users |-> store.users, keys |-> keys, shown |-> store.shown]
        /\ keys \in Seq(Rows) /\ DOMAIN keys = 1..Len(keys) /\ Len(keys) \in Nat
        /\ store.users \in Seq(Handles) /\ DOMAIN store.users = 1..Len(store.users)
        /\ Len(store.users) \in Nat
    BY LenProperties DEF StoreInv, StoreTypes
  <2>2. held \in Held /\ u \in DOMAIN store.users /\ u \in Nat
    <3>1. held # {} /\ u # 0
      BY <1>2
    <3>2. held \in Held
      BY <3>1, ParsesToScopes
    <3>3. u \in DOMAIN store.users
      BY <3>1, FoundByHandle
    <3> HIDE DEF u, held
    <3> QED BY <2>1, <3>2, <3>3
  <2>3. new \in Rows /\ said \in Secrets
    BY <2>1, <2>2 DEF Rows, Secrets, Hash, DrawnPrefixes
  <2>4. after = [users |-> store.users, keys |-> more, shown |-> store.shown \cup {said}]
    BY <1>2, <2>1 DEF KeyIssue
  <2>5. \A k \in DOMAIN keys : keys[k].prefix # drawn.prefix
    BY <1>2, FoundByPrefix
  <2>6. new.prefix = drawn.prefix /\ new.owner = u /\ IsRowOf(new, said)
    BY DEF IsRowOf, Hash
  <2> HIDE DEF new, said, u, held, refused
  <2>7. /\ more \in Seq(Rows) /\ Len(more) = Len(keys) + 1
        /\ \A i \in 1..Len(keys) : more[i] = keys[i]
        /\ more[Len(keys) + 1] = new
    BY <2>1, <2>3, AppendProperties
  <2>8. /\ DOMAIN more = 1..Len(keys) + 1
        /\ \A i \in 1..Len(keys) + 1 : i \in 1..Len(keys) \/ i = Len(keys) + 1
        /\ Len(keys) + 1 \in 1..Len(keys) + 1
    BY <2>1, <2>7, LenProperties
  <2>9. after.users = store.users /\ after.keys = more /\ after.shown = store.shown \cup {said}
    BY <2>4
  <2> HIDE DEF keys, more, after
  <2>10. StoreTypes(after)
    <3>1. StoreTypes(store)
      BY DEF StoreInv
    <3> QED BY <2>3, <2>4, <2>7, <2>9, <3>1 DEF StoreTypes
  <2>11. UsersAreUnique(after)
    BY <2>9 DEF StoreInv, UsersAreUnique
  <2>12. KeysAreUnique(after)
    <3> SUFFICES ASSUME NEW k \in 1..Len(keys) + 1, NEW l \in 1..Len(keys) + 1,
                        more[k].prefix = more[l].prefix
                 PROVE  k = l
      BY <2>8, <2>9 DEF KeysAreUnique
    <3>1. CASE k \in 1..Len(keys) /\ l \in 1..Len(keys)
      BY <2>1, <2>7, <3>1 DEF StoreInv, KeysAreUnique, keys
    <3>2. CASE k = Len(keys) + 1 \/ l = Len(keys) + 1
      BY <2>1, <2>5, <2>6, <2>7, <2>8, <3>2
    <3> QED BY <2>8, <3>1, <3>2
  <2>13. KeysAreOwned(after)
    <3>1. \A k \in 1..Len(keys) : more[k].owner \in DOMAIN store.users
      BY <2>1, <2>7 DEF StoreInv, KeysAreOwned, keys
    <3> QED BY <2>2, <2>6, <2>7, <2>8, <2>9, <3>1 DEF KeysAreOwned
  <2>14. KeysAreShown(after)
    <3>1. ASSUME NEW k \in 1..Len(keys) + 1 PROVE \E shown \in after.shown : IsRowOf(more[k], shown)
      <4>1. CASE k \in 1..Len(keys)
        BY <2>1, <2>7, <2>9, <4>1 DEF StoreInv, KeysAreShown, keys
      <4>2. CASE k = Len(keys) + 1
        BY <2>6, <2>7, <2>9, <4>2
      <4> QED BY <2>8, <4>1, <4>2
    <3>2. ASSUME NEW shown \in after.shown PROVE \E k \in 1..Len(keys) + 1 : IsRowOf(more[k], shown)
      <4>1. CASE shown \in store.shown
        <5>1. PICK k \in 1..Len(keys) : IsRowOf(keys[k], shown)
          BY <2>1, <4>1 DEF StoreInv, KeysAreShown, keys
        <5>2. k \in 1..Len(keys) + 1
          BY <2>1
        <5> QED BY <2>7, <5>1, <5>2
      <4>2. CASE shown = said
        BY <2>6, <2>7, <2>8, <4>2
      <4> QED BY <2>9, <4>1, <4>2
    <3> QED BY <2>8, <2>9, <3>1, <3>2 DEF KeysAreShown
  <2>15. StepIsKept(store, after)
    <3>1. IsPrefix(store.users, after.users)
      BY <2>1, <2>9 DEF IsPrefix
    <3>2. \A k \in DOMAIN store.keys : after.keys[k] = store.keys[k]
      BY <2>1, <2>7, <2>9 DEF keys
    <3>3. Len(after.keys) >= Len(store.keys)
      BY <2>1, <2>7, <2>9 DEF keys
    <3> QED BY <3>1, <3>2, <3>3 DEF StepIsKept
  <2>16. StoreInv(after)
    BY <2>10, <2>11, <2>12, <2>13, <2>14 DEF StoreInv
  <2> QED BY <2>15, <2>16 DEF after
<1> QED BY <1>1, <1>2

LEMMA RunKeeps ==
  ASSUME NEW store, StoreInv(store), NEW c \in Commands
  PROVE  StoreInv(Run(store, c)) /\ StepIsKept(store, Run(store, c))
<1>1. CASE c.do = "add"
  BY <1>1, UserAddKeeps DEF Run
<1>2. CASE c.do = "issue"
  <2>1. c.drawn \in Drawn
    BY <1>2 DEF Commands
  <2>2. Run(store, c) = KeyIssue(store, c.typed, c.name, c.parts, c.drawn)
    BY <1>2 DEF Run
  <2> QED BY <2>1, <2>2, KeyIssueKeeps
<1>3. CASE c.do = "revoke"
  <2>1. Run(store, c) = KeyRevoke(store, c.typed)
    BY <1>3 DEF Run
  <2> QED BY <2>1, KeyRevokeKeeps
<1> QED BY <1>1, <1>2, <1>3 DEF Commands

\* A set of numbers with 0 and every member's successor has them all: the
\* induction of these proofs, from the well-foundedness of the numbers.
LEMMA CountingUp ==
  ASSUME NEW S, 0 \in S, \A n \in Nat : n \in S => n + 1 \in S
  PROVE  \A n \in Nat : n \in S
<1> DEFINE R == {ss \in Nat \X Nat : ss[1] < ss[2]}
<1>1. IsWellFoundedOn(R, Nat)
  BY NatLessThanWellFounded DEF OpToRel
<1> SUFFICES ASSUME \E n \in Nat : n \notin S PROVE FALSE
  OBVIOUS
<1> DEFINE T == Nat \ S
<1>2. T \subseteq Nat /\ T # {}
  OBVIOUS
<1>3. PICK x \in T : \A y \in T : ~(<<y, x>> \in R)
  <2> HIDE DEF R, T
  <2> QED BY <1>1, <1>2, WFMin
<1>4. x # 0 /\ x - 1 \in Nat
  BY <1>3
<1>5. x - 1 \in S => x \in S
  BY <1>4
<1>6. <<x - 1, x>> \in R
  BY <1>4
<1> QED BY <1>3, <1>4, <1>5, <1>6

\* The stores that one command more leads to.
Led(stores) == stores \cup {Run(s, c) : s \in stores, c \in Commands}

\* The recursion of StoresAfter, unfolded.
LEMMA StoresAreLedTo ==
  \E g : /\ g[MaxCommands] = StoresAfter
         /\ g[0] = {Empty}
         /\ \A n \in 1..MaxCommands : g[n] = Led(g[n - 1])
<1> DEFINE Is(f, m) == f = [n \in 0..m |-> IF n = 0 THEN {Empty} ELSE Led(f[n - 1])]
           top == MaxCommands
           led == CHOOSE f : Is(f, top)
           Possible == {n \in Nat : \E f : Is(f, n)}
<1>0. top \in Nat
  BY AccountsAssumption
<1>1. 0 \in Possible
  <2> DEFINE f == [n \in 0..0 |-> {Empty}]
  <2>1. Is(f, 0)
    OBVIOUS
  <2> QED BY <2>1
<1>2. ASSUME NEW m \in Nat, m \in Possible PROVE m + 1 \in Possible
  <2>0. PICK f : Is(f, m)
    BY <1>2
  <2>1. \A n \in 0..m : f[n] = IF n = 0 THEN {Empty} ELSE Led(f[n - 1])
    BY <2>0, Zenon
  <2> DEFINE g == [n \in 0..m + 1 |-> IF n <= m THEN f[n] ELSE Led(f[m])]
  <2>2. ASSUME NEW n \in 0..m + 1
        PROVE  g[n] = IF n = 0 THEN {Empty} ELSE Led(g[n - 1])
    <3>1. CASE n = 0
      BY <2>1, <3>1
    <3>2. CASE n \in 1..m
      <4>1. f[n] = Led(f[n - 1])
        <5>1. n \in 0..m /\ n # 0
          BY <3>2
        <5> QED BY <2>1, <5>1
      <4>2. g[n] = f[n] /\ g[n - 1] = f[n - 1]
        BY <3>2
      <4> HIDE DEF g
      <4> QED BY <3>2, <4>1, <4>2
    <3>3. CASE n = m + 1
      <4>1. g[n] = Led(f[m]) /\ g[m] = f[m]
        BY <3>3
      <4> HIDE DEF g
      <4> QED BY <3>3, <4>1
    <3> QED BY <3>1, <3>2, <3>3
  <2>3. Is(g, m + 1)
    <3>1. g = [n \in 0..m + 1 |-> g[n]]
      OBVIOUS
    <3> HIDE DEF g
    <3>2. [n \in 0..m + 1 |-> g[n]]
            = [n \in 0..m + 1 |-> IF n = 0 THEN {Empty} ELSE Led(g[n - 1])]
      BY <2>2
    <3> QED BY <3>1, <3>2
  <2> HIDE DEF Is, g
  <2> QED BY <2>3
<1>3. Is(led, top)
  <2>1. top \in Possible
    <3> HIDE DEF Possible, top
    <3> QED BY <1>0, <1>1, <1>2, CountingUp
  <2> HIDE DEF Is
  <2> QED BY <2>1
<1>4. StoresAfter = led[top]
  BY DEF StoresAfter, Led
<1> HIDE DEF led
<1>5. \A n \in 0..top : led[n] = IF n = 0 THEN {Empty} ELSE Led(led[n - 1])
  BY <1>3, Zenon
<1>6. led[0] = {Empty} /\ \A n \in 1..top : led[n] = Led(led[n - 1])
  <2> HIDE DEF top
  <2> QED BY <1>0, <1>5
<1> QED BY <1>4, <1>6

\* Every store that commands lead to is sound, by counting them.
LEMMA EmptyIsSound == StoreInv(Empty)
<1>1. /\ Empty.users = <<>> /\ Empty.keys = <<>> /\ Empty.shown = {}
      /\ Empty = [users |-> Empty.users, keys |-> Empty.keys, shown |-> Empty.shown]
  BY DEF Empty
<1>2. <<>> \in Seq(Handles) /\ <<>> \in Seq(Rows) /\ \A i \in DOMAIN <<>> : FALSE
  BY EmptySeq
<1> HIDE DEF Empty
<1> QED BY <1>1, <1>2 DEF StoreInv, StoreTypes, UsersAreUnique, KeysAreUnique, KeysAreOwned, KeysAreShown

LEMMA StoresAreSound == \A s \in StoresAfter : StoreInv(s)
<1>1. PICK g : /\ g[MaxCommands] = StoresAfter
               /\ g[0] = {Empty}
               /\ \A n \in 1..MaxCommands : g[n] = Led(g[n - 1])
  BY StoresAreLedTo
<1> DEFINE Sound == {n \in Nat : n <= MaxCommands => \A s \in g[n] : StoreInv(s)}
<1>2. 0 \in Sound
  BY <1>1, EmptyIsSound
<1>3. ASSUME NEW n \in Nat, n \in Sound PROVE n + 1 \in Sound
  <2> SUFFICES ASSUME n + 1 <= MaxCommands, NEW s \in g[n + 1] PROVE StoreInv(s)
    OBVIOUS
  <2>1. n + 1 \in 1..MaxCommands /\ (n + 1) - 1 = n /\ n <= MaxCommands
    BY AccountsAssumption
  <2>2. s \in Led(g[n])
    BY <1>1, <2>1
  <2>3. \A r \in g[n] : StoreInv(r)
    BY <1>3, <2>1
  <2> QED BY <2>2, <2>3, RunKeeps DEF Led
<1>4. MaxCommands \in Sound
  <2> HIDE DEF Sound
  <2> QED BY <1>2, <1>3, AccountsAssumption, CountingUp
<1> QED BY <1>1, <1>4, AccountsAssumption

\* Users and keys of a sound store are unique, owned and listed.
LEMMA SoundIsKept ==
  ASSUME NEW store, StoreInv(store) PROVE IsKept(store)
<1>1. IsInjective(store.users)
  BY DEF StoreInv, UsersAreUnique, IsInjective
<1>2. Range(store.users) \subseteq Handles
  <2>1. store.users \in [1..Len(store.users) -> Handles]
    BY LenProperties DEF StoreInv, StoreTypes
  <2> QED BY <2>1 DEF Range
<1>3. \A k \in DOMAIN store.keys : FindByPrefix(store, store.keys[k].prefix) = k
  BY FoundByPrefix
<1>4. ASSUME NEW typed \in Typed(Handles), NEW k \in DOMAIN store.keys
      PROVE  k \in KeyList(store, typed) <=> store.users[store.keys[k].owner] = typed.word
  <2>1. store.keys[k].owner \in DOMAIN store.users
    BY DEF StoreInv, KeysAreOwned
  <2>2. k \in KeyList(store, typed) <=>
          FindByHandle(store, typed) # 0 /\ store.keys[k].owner = FindByHandle(store, typed)
    BY DEF KeyList
  <2> QED BY <2>1, <2>2, FoundByHandle DEF Spelled
<1> QED BY <1>1, <1>2, <1>3, <1>4 DEF IsKept

\* A key is read as it was rendered, however it is spelled.
LEMMA ParsedIsDrawn ==
  ASSUME NEW d \in Drawn, NEW how
  PROVE  /\ Parsed(Rendered(d, how)) = d /\ d # Malformed
BY AccountsAssumption DEF Parsed, Rendered, Malformed

\* A key that was shown finds its row, which gives it its owner and its scopes.
LEMMA ShownOpens ==
  ASSUME NEW store, StoreInv(store), NEW shown \in store.shown, NEW how
  PROVE  LET k == FindByPrefix(store, shown.key.prefix)
             context == Opened(store, Rendered(shown.key, how))
         IN /\ shown.key \in Drawn /\ shown.scopes \in Held
            /\ IF store.keys[k].revoked THEN context = Nowhere
               ELSE context.user = shown.owner /\ context.scopes = shown.scopes
<1> DEFINE k == FindByPrefix(store, shown.key.prefix)
           key == shown.key
<1>1. shown \in Secrets
  BY DEF StoreInv, StoreTypes
<1>2. key \in Drawn /\ shown.scopes \in Held
  BY <1>1 DEF Secrets
<1>3. PICK l \in DOMAIN store.keys : IsRowOf(store.keys[l], shown)
  BY DEF StoreInv, KeysAreShown
<1>4. k = l /\ k # 0
  BY <1>3, FoundByPrefix DEF IsRowOf
<1>5. /\ store.keys[k].hash.of = key.secret /\ store.keys[k].owner = shown.owner
      /\ store.keys[k].scopes = Join(shown.scopes)
  BY <1>3, <1>4 DEF IsRowOf
<1>6. ParseList(store.keys[k].scopes) = shown.scopes
  BY <1>2, <1>5, ParsesWhatItJoins
<1>7. Parsed(Rendered(key, how)) = key /\ key # Malformed
  BY <1>2, ParsedIsDrawn
<1>8. Opened(store, Rendered(key, how)) =
        IF store.keys[k].revoked THEN Nowhere
        ELSE [user |-> store.keys[k].owner, key |-> k, scopes |-> ParseList(store.keys[k].scopes)]
  <2> HIDE DEF key
  <2> QED BY <1>4, <1>5, <1>7 DEF Opened, Verifies, key
<1> QED BY <1>2, <1>5, <1>6, <1>8

\* What was never shown opens nothing: a row with its prefix has another secret.
LEMMA SoundOpens ==
  ASSUME NEW store, StoreInv(store) PROVE OpensWhatWasShown(store)
<1>1. ASSUME NEW d \in Drawn, d \notin {s.key : s \in store.shown}
      PROVE  Opened(store, Rendered(d, "plain")) = Nowhere
  <2> DEFINE k == FindByPrefix(store, d.prefix)
  <2>1. Parsed(Rendered(d, "plain")) = d
    BY ParsedIsDrawn
  <2>2. ASSUME k # 0 PROVE store.keys[k].hash.of # d.secret
    <3>1. k \in DOMAIN store.keys /\ store.keys[k].prefix = d.prefix
      BY <2>2, FoundByPrefix
    <3>2. PICK shown \in store.shown : IsRowOf(store.keys[k], shown)
      BY <3>1 DEF StoreInv, KeysAreShown
    <3>3. shown.key \in Drawn /\ shown.key # d
      BY <1>1, <3>2 DEF StoreInv, StoreTypes, Secrets
    <3>4. d = [prefix |-> d.prefix, secret |-> d.secret]
      BY AccountsAssumption
    <3>5. shown.key = [prefix |-> shown.key.prefix, secret |-> shown.key.secret]
      BY <3>3, AccountsAssumption
    <3> QED BY <3>1, <3>2, <3>3, <3>4, <3>5 DEF IsRowOf
  <2> QED BY <2>1, <2>2 DEF Opened, Verifies
<1>2. ASSUME NEW shown \in store.shown, NEW how \in Spellings
      PROVE  LET context == Opened(store, Rendered(shown.key, how)) IN
             IF store.keys[FindByPrefix(store, shown.key.prefix)].revoked THEN context = Nowhere
             ELSE context.user = shown.owner /\ context.scopes = shown.scopes
  BY ShownOpens
<1> QED BY <1>1, <1>2 DEF OpensWhatWasShown

\* A key may do what its scopes say, and a job is never an administrator.
LEMMA SoundHolds ==
  ASSUME NEW store, StoreInv(store) PROVE AuthorityIsHeld(store)
<1>1. ASSUME NEW shown \in store.shown, NEW needed \in AllScopes,
             Allows(Opened(store, Rendered(shown.key, "plain")), needed)
      PROVE  shown.scopes \cap {needed, "admin"} # {}
  <2> DEFINE context == Opened(store, Rendered(shown.key, "plain"))
  <2>1. context = Nowhere \/ context.scopes = shown.scopes
    BY ShownOpens
  <2>2. {needed, "admin"} \cap context.scopes # {}
    BY <1>1 DEF Allows
  <2> HIDE DEF context
  <2> QED BY <2>1, <2>2 DEF Nowhere
<1>2. ASSUME NEW u \in 0..Len(store.users) PROVE ~ Allows(Background(store, u), "admin")
  <2>1. Background(store, u).scopes = {"read", "write"} \/ Background(store, u).scopes = {}
    BY DEF Background, Nowhere
  <2> QED BY <2>1 DEF Allows
<1> QED BY <1>1, <1>2 DEF AuthorityIsHeld

\* Accounts are sound after any number of commands.
LEMMA AccountsStaySound == AccountsAreSound
BY StoresAreSound, SoundIsKept, SoundOpens, SoundHolds, RunKeeps DEF AccountsAreSound

\* For any words that are handles, any keys the random source may draw and any
\* number of commands: whoever asks is the user the key was issued for, or the
\* one default user (key_authenticator.rs, default_user_resolver.rs).
THEOREM EveryoneIsWhoTheyAreAlways == Spec => []EveryoneIsWhoTheyAre
<1>1. OneDefaultUser => EveryoneIsWhoTheyAre
  BY AccountsStaySound DEF EveryoneIsWhoTheyAre, KeysOpenWhatTheyWereIssuedFor
<1> QED
  BY <1>1, OneDefaultUserAlways, PTL

-----------------------------------------------------------------------------
(* Types.                                                                  *)

\* What the other invariants leave open of the types.
BoundsAndDomains ==
  /\ clock \in 0..MaxTime /\ config \in Configurations
  /\ Issued \subseteq Keys /\ revoked \subseteq Issued
  /\ DOMAIN buckets \subseteq Callers /\ \A c \in DOMAIN buckets : buckets[c].parts \in 0..Full
  /\ DOMAIN cache \subseteq Keys

\* The gate fills no bucket beyond its burst.
LEMMA ArrivalsAreBounded ==
  ASSUME BoundsAndDomains, LimitInv, NEW r \in Requests, Arrive(r)
  PROVE  BoundsAndDomains'
<1>1. Table(buckets, clock) /\ clock \in Nat
  BY DEF LimitInv, LimitTypes
<1>2. PICK t \in Tokens : buckets' = buckets \/ buckets' = TryAcquire(buckets, t, clock).buckets
  BY DEF Arrive
<1>3. PICK level \in Nat : level = Level(buckets, t, clock) /\ level <= Full
  BY <1>1, LevelsAreBounded
<1>4. PICK full \in Nat, token1 \in Nat : full = Full /\ token1 = PerToken /\ token1 <= full
  BY FullHoldsAToken
<1>5. CASE buckets' = TryAcquire(buckets, t, clock).buckets
  <2>1. Level(buckets, t, clock) \in Nat
    BY <1>3
  <2>2. /\ t \in DOMAIN buckets'
        /\ buckets'[t] = [parts |-> IF Level(buckets, t, clock) >= PerToken
                                   THEN Level(buckets, t, clock) - PerToken
                                   ELSE Level(buckets, t, clock),
                         refreshed |-> clock]
        /\ \A d \in DOMAIN buckets' \ {t} : d \in DOMAIN buckets /\ buckets'[d] = buckets[d]
    BY <1>5, <2>1, AcquiringTakes
  <2>3. buckets'[t].parts = IF level >= token1 THEN level - token1 ELSE level
    BY <1>3, <1>4, <2>2
  <2>4. buckets'[t].parts \in 0..Full
    BY <1>3, <1>4, <2>3
  <2>5. DOMAIN buckets' \subseteq Callers
    BY <2>2 DEF BoundsAndDomains, Tokens
  <2>6. \A c \in DOMAIN buckets' : buckets'[c].parts \in 0..Full
    BY <2>2, <2>4 DEF BoundsAndDomains
  <2> QED BY <2>5, <2>6 DEF Arrive, config, database, BoundsAndDomains, Issued
<1>6. CASE buckets' = buckets
  BY <1>6 DEF Arrive, config, database, BoundsAndDomains, Issued
<1> QED BY <1>2, <1>5, <1>6

\* Only a key that was found is remembered.
LEMMA VerifiedAreKeys ==
  ASSUME BoundsAndDomains, AccessInv, NEW r \in Requests, Verify(r)
  PROVE  BoundsAndDomains'
<1>1. token[r].prefix \in Keys
  BY DEF Verify, AccessInv, FoundKeys, BoundsAndDomains
<1>2. Room \subseteq DOMAIN cache
  BY DEF Room
<1>3. DOMAIN cache' \subseteq DOMAIN cache \cup {token[r].prefix}
  BY <1>2 DEF Verify, With, Forgotten
<1> QED BY <1>1, <1>3 DEF Verify, config, database, BoundsAndDomains, Issued

LEMMA StepsKeepBounds ==
  ASSUME BoundsAndDomains, AccessInv, LimitInv, [Next]_vars PROVE BoundsAndDomains'
<1>1. CASE Tick
  <2>1. PICK n \in Nat : n = MaxTime
    BY AccessAssumption
  <2>2. clock' \in 0..MaxTime
    BY <1>1, <2>1 DEF Tick, BoundsAndDomains
  <2> QED BY <1>1, <2>2 DEF Tick, config, database, BoundsAndDomains, Issued
<1>2. ASSUME NEW r \in Requests, Arrive(r) \/ Verify(r) PROVE BoundsAndDomains'
  BY <1>2, ArrivalsAreBounded, VerifiedAreKeys
<1>3. ASSUME NEW r \in Requests,
             Find(r) \/ Check(r) \/ Judge(r) \/ FindDefault(r) \/ InsertDefault(r) \/ Reread(r)
      PROVE  BoundsAndDomains'
  <2>1. UNCHANGED <<clock, authMode, gated, scopes, revoked, buckets>> /\ DOMAIN cache' \subseteq DOMAIN cache
    BY <1>3 DEF Find, Check, Judge, FindDefault, InsertDefault, Reread, Forgotten, config, database
  <2> QED BY <2>1 DEF config, BoundsAndDomains, Issued
<1>4. ASSUME NEW k \in Keys, Issue(k) PROVE BoundsAndDomains'
  <2>1. DOMAIN scopes' = DOMAIN scopes \cup {k}
    BY <1>4 DEF Issue, With, Issued
  <2> QED BY <1>4, <2>1 DEF Issue, config, BoundsAndDomains, Issued
<1>5. ASSUME NEW k \in Keys, Revoke(k) PROVE BoundsAndDomains'
  BY <1>5 DEF Revoke, config, BoundsAndDomains, Issued
<1>6. CASE UNCHANGED vars
  BY <1>6 DEF vars, config, database, BoundsAndDomains, Issued
<1> QED BY <1>1, <1>2, <1>3, <1>4, <1>5, <1>6 DEF Next, Request

\* Whatever overlaps: buckets hold no more than a burst, and what is revoked,
\* cached or counted are keys that were issued and callers that came.
THEOREM TypeCorrect == Spec => []TypeOK
<1>1. Init => BoundsAndDomains
  <2> SUFFICES ASSUME Init PROVE BoundsAndDomains
    OBVIOUS
  <2>1. config \in Configurations
    <3>1. PICK c \in Configurations : authMode = c[1] /\ gated = c[2]
      BY DEF Init
    <3>2. c \in {"api_key", "none"} \X BOOLEAN
      BY AccessAssumption
    <3>3. c = <<c[1], c[2]>>
      BY <3>2
    <3> QED BY <3>1, <3>3 DEF config
  <2>2. clock \in 0..MaxTime
    BY AccessAssumption DEF Init
  <2>3. DOMAIN scopes = {} /\ DOMAIN buckets = {} /\ DOMAIN cache = {} /\ revoked = {}
    BY DEF Init
  <2> QED BY <2>1, <2>2, <2>3 DEF BoundsAndDomains, Issued
<1>2. BoundsAndDomains /\ AccessInv => TypeOK
  BY DEF BoundsAndDomains, AccessInv, Types, Stages, TypeOK, Full
<1>3. BoundsAndDomains /\ AccessInv /\ LimitInv /\ [Next]_vars => BoundsAndDomains'
  BY StepsKeepBounds
<1> QED
  BY <1>1, <1>2, <1>3, AccessInvInit, AccessInvNext, LimitAtFirst, LimitAtStep, PTL DEF Spec

=============================================================================
