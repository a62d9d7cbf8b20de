------------------------------- MODULE Access -------------------------------
(***************************************************************************)
(* A request on its way to a handler: the rate limiter's gate, outermost,  *)
(* and then its credentials (KeyAuthenticator with the cache of verified   *)
(* keys; DefaultUserResolver where authentication is off).  Beside them    *)
(* the command line issues keys and revokes them, in another process.     *)
(***************************************************************************)
EXTENDS RateLimiter, Sequences

CONSTANTS
  Keys,        \* prefixes of keys
  Scopes,      \* scopes a key may be issued with
  Requests,
  Configurations,  \* of the daemon: authentication, and whether a gate is built
  Watched,     \* one caller, whose history is kept
  Ttl,         \* ticks for which a verification is reused
  MaxEntries,  \* of the cache
  MaxTime      \* bound: ticks

\* A key as it is presented: the right secret, or another one of its form; or
\* no key at all.  A bucket is a credential's, or for Nobody the address's.
Nobody == [prefix |-> "nobody", right |-> FALSE]
Tokens == Callers
None == "none"
ASSUME AccessAssumption ==
  /\ None \notin Requests
  /\ Callers \subseteq [prefix : Keys, right : BOOLEAN] \cup {Nobody} /\ Watched \in Callers
  /\ Ttl \in Nat /\ MaxEntries \in Nat \ {0} /\ MaxTime \in Nat
  /\ Configurations \subseteq {"api_key", "none"} \X BOOLEAN
  /\ \A s \in Scopes : s \subseteq {"read", "write", "admin"} /\ s # {}

VARIABLES
  clock,
  authMode,    \* "api_key" or "none"
  gated,       \* [rate_limit].enabled
  \* the database
  scopes,      \* of the keys that were issued
  revoked,     \* those that were revoked
  default,     \* the user created where authentication is off, by its creator
  \* the daemon
  buckets,
  cache,       \* prefixes verified: whether with the right secret, and when
  \* requests
  stage, token, row, resolved,
  \* history
  late,        \* whether a request looked up its key when it was revoked already
  grants,      \* when the watched caller was let through
  due          \* when it was told to come back, or 0

config   == <<authMode, gated>>
database == <<scopes, revoked, default>>
request  == <<stage, token, row, resolved, late>>
vars     == <<clock, config, database, buckets, cache, request, grants, due>>

Issued == DOMAIN scopes

\* A connection sends its next request once the last one is answered.
Answered == {"idle", "limited", "unauthorized", "forbidden", "served"}

TypeOK ==
  /\ clock \in 0..MaxTime /\ config \in Configurations
  /\ Issued \subseteq Keys
  /\ revoked \subseteq Issued
  /\ default \in Requests \cup {None}
  /\ DOMAIN buckets \subseteq Callers
  /\ \A c \in DOMAIN buckets : buckets[c].parts \in 0..Burst * PerToken
  /\ DOMAIN cache \subseteq Keys
  /\ stage \in [Requests -> {"idle", "find", "check", "verify", "judge", "insert", "reread",
                             "limited", "unauthorized", "forbidden", "served"}]
  /\ token \in [Requests -> Tokens \cup {Nobody}]

Init ==
  /\ clock = 0
  /\ \E c \in Configurations : authMode = c[1] /\ gated = c[2]
  /\ scopes = <<>> /\ revoked = {} /\ default = None
  /\ buckets = <<>> /\ cache = <<>>
  /\ stage = [r \in Requests |-> "idle"]
  /\ token = [r \in Requests |-> Nobody]
  /\ row = [r \in Requests |-> None] /\ resolved = row
  /\ late = [r \in Requests |-> FALSE]
  /\ grants = <<>> /\ due = 0

To(r, s) == stage' = [stage EXCEPT ![r] = s]
With(f, x, value) == [y \in DOMAIN f \cup {x} |-> IF y = x THEN value ELSE f[y]]

Tick ==
  /\ clock < MaxTime
  /\ clock' = clock + 1
  /\ UNCHANGED <<config, database, buckets, cache, request, grants, due>>

-----------------------------------------------------------------------------
(* The command line.                                                       *)

\* ApiKeyIssuer, prefixes are unique.  Where authentication is off keys do not
\* matter, and are left out.
Issue(k) ==
  /\ authMode = "api_key" /\ k \notin Issued
  /\ \E s \in Scopes : scopes' = With(scopes, k, s)
  /\ UNCHANGED <<clock, config, revoked, default, buckets, cache, request,
                 grants, due>>

\* ApiKeyRevoker: again and again, it stays revoked as of the first time.
Revoke(k) ==
  /\ k \in Issued
  /\ revoked' = revoked \cup {k}
  /\ UNCHANGED <<clock, config, scopes, default, buckets, cache, request,
                 grants, due>>

-----------------------------------------------------------------------------
(* The gate.                                                               *)

\* rate_limit: no gate at all where it is not enabled.
Arrive(r) ==
  /\ stage[r] \in Answered
  /\ \E t \in Tokens :
       LET taken == TryAcquire(buckets, t, clock) IN
       /\ token' = [token EXCEPT ![r] = t]
       /\ row' = [row EXCEPT ![r] = None] /\ resolved' = [resolved EXCEPT ![r] = None]
       /\ late' = [late EXCEPT ![r] = FALSE]
       /\ To(r, IF gated => taken.allowed THEN "find" ELSE "limited")
       /\ buckets' = IF gated THEN taken.buckets ELSE buckets
       /\ IF gated /\ t = Watched
          THEN IF taken.allowed
               THEN grants' = Append(grants, clock) /\ due' = 0
               ELSE due' = clock + taken.retryAfter /\ UNCHANGED grants
          ELSE UNCHANGED <<grants, due>>
  /\ UNCHANGED <<clock, config, database, cache>>

-----------------------------------------------------------------------------
(* Authentication by key (KeyAuthenticator::execute).                      *)

\* Mutant of Find: a key that is cached is not read again.
FindUncached(r) ==
  LET k == token[r].prefix IN
  /\ authMode = "api_key" /\ stage[r] = "find"
  /\ IF token[r] # Nobody /\ k \in Issued
     THEN /\ To(r, "check")
          /\ row' = [row EXCEPT ![r] = IF k \in revoked \ DOMAIN cache
                                       THEN "revoked" ELSE "live"]
     ELSE To(r, "unauthorized") /\ UNCHANGED row
  /\ late' = [late EXCEPT ![r] = k \in revoked]
  /\ UNCHANGED <<clock, config, database, buckets, cache, token, resolved,
                 grants, due>>

\* bearer_token, ApiKeyToken::parse, find_by_prefix.
Find(r) ==
  LET k == token[r].prefix IN
  /\ authMode = "api_key" /\ stage[r] = "find"
  /\ IF token[r] # Nobody /\ k \in Issued
     THEN /\ To(r, "check")
          /\ row' = [row EXCEPT ![r] = IF k \in revoked THEN "revoked" ELSE "live"]
     ELSE To(r, "unauthorized") /\ UNCHANGED row
  /\ late' = [late EXCEPT ![r] = k \in revoked]
  /\ UNCHANGED <<clock, config, database, buckets, cache, token, resolved,
                 grants, due>>

\* Mutant of Verified: the prefix is enough.
VerifiedByPrefix(t) == t.prefix \in DOMAIN cache /\ clock - cache[t.prefix].at < Ttl

\* is_verified: this very secret, not longer ago than the time to live.
Verified(t) ==
  /\ t.prefix \in DOMAIN cache
  /\ clock - cache[t.prefix].at < Ttl
  /\ cache[t.prefix].right = t.right

Check(r) ==
  /\ stage[r] = "check"
  /\ To(r, IF Verified(token[r]) THEN "judge" ELSE "verify")
  /\ UNCHANGED <<clock, config, database, buckets, cache, token, row, resolved, late,
                 grants, due>>

\* remember: a full cache loses what is too old, or everything.
Room ==
  LET young == {k \in DOMAIN cache : clock - cache[k].at < Ttl}
  IN IF Cardinality(DOMAIN cache) < MaxEntries THEN DOMAIN cache
     ELSE IF Cardinality(young) < MaxEntries THEN young ELSE {}

Forgotten(k) == [p \in DOMAIN cache \ {k} |-> cache[p]]

\* argon2, which takes long: by the time it is done much may have happened.
Verify(r) ==
  LET t == token[r] IN
  /\ stage[r] = "verify"
  /\ IF t.right
     THEN /\ cache' = With([k \in Room |-> cache[k]], t.prefix, [right |-> TRUE, at |-> clock])
          /\ To(r, "judge")
     ELSE /\ cache' = IF row[r] = "revoked" THEN Forgotten(t.prefix) ELSE cache
          /\ To(r, "unauthorized")
  /\ UNCHANGED <<clock, config, database, buckets, token, row, resolved, late,
                 grants, due>>

\* The revocation and the scopes of the row that was read.
Judge(r) ==
  LET k == token[r].prefix IN
  /\ stage[r] = "judge"
  /\ IF row[r] = "revoked"
     THEN To(r, "unauthorized") /\ cache' = Forgotten(k)
     ELSE /\ \E needed \in {"read", "write"} :
               To(r, IF {"admin", needed} \cap scopes[k] # {} THEN "served" ELSE "forbidden")
          /\ UNCHANGED cache
  /\ UNCHANGED <<clock, config, database, buckets, token, row, resolved, late,
                 grants, due>>

-----------------------------------------------------------------------------
(* Authentication off (DefaultUserResolver::execute).                      *)

FindDefault(r) ==
  /\ authMode = None /\ stage[r] = "find"
  /\ IF default # None
     THEN To(r, "served") /\ resolved' = [resolved EXCEPT ![r] = default]
     ELSE To(r, "insert") /\ UNCHANGED resolved
  /\ UNCHANGED <<clock, config, database, buckets, cache, token, row, late,
                 grants, due>>

\* Mutant of InsertDefault: the loser goes on with the user it made.
InsertDefaultAnyway(r) ==
  /\ stage[r] = "insert"
  /\ default' = IF default = None THEN r ELSE default
  /\ resolved' = [resolved EXCEPT ![r] = r]
  /\ To(r, "served")
  /\ UNCHANGED <<clock, config, scopes, revoked, buckets, cache, token,
                 row, late, grants, due>>

\* The handle is unique: the loser of the race reads again.
InsertDefault(r) ==
  /\ stage[r] = "insert"
  /\ IF default = None
     THEN /\ default' = r
          /\ resolved' = [resolved EXCEPT ![r] = r]
          /\ To(r, "served")
     ELSE To(r, "reread") /\ UNCHANGED <<default, resolved>>
  /\ UNCHANGED <<clock, config, scopes, revoked, buckets, cache, token,
                 row, late, grants, due>>

Reread(r) ==
  /\ stage[r] = "reread" /\ default # None
  /\ resolved' = [resolved EXCEPT ![r] = default]
  /\ To(r, "served")
  /\ UNCHANGED <<clock, config, database, buckets, cache, token, row, late,
                 grants, due>>

-----------------------------------------------------------------------------
Request(r) ==
  \/ Arrive(r) \/ Find(r) \/ Check(r) \/ Verify(r) \/ Judge(r)
  \/ FindDefault(r) \/ InsertDefault(r) \/ Reread(r)

Next ==
  \/ Tick
  \/ \E r \in Requests : Request(r)
  \/ \E k \in Keys : Issue(k) \/ Revoke(k)

Spec == Init /\ [][Next]_vars

-----------------------------------------------------------------------------
(* Properties.                                                             *)

\* Only the secret of an issued key opens the service, whatever others
\* presented under its prefix before and the cache remembers
\* (verified_key_cache.rs, "this exact secret").
OnlyTheSecretOpens ==
  \A r \in Requests : authMode = "api_key" /\ stage[r] \in {"served", "forbidden"} =>
    token[r].right /\ token[r].prefix \in Issued

\* A request that looks up its key after the revocation is refused, though the
\* key was verified before and is in the cache, or enters it later
\* (verified_key_cache.rs, "revoking a key takes effect immediately, not after
\* a TTL").
RevocationIsImmediate ==
  \A r \in Requests :
    authMode = "api_key" /\ stage[r] \in {"served", "forbidden"} => ~late[r]

\* All requests without authentication act as one user, however many of them
\* found that it did not exist yet (DefaultUserResolver, "the loser of the
\* insert re-reads the winner's row").
OneDefaultUser ==
  authMode = None => \A r \in Requests : stage[r] = "served" => resolved[r] = default

\* In any stretch of time a caller is let through a burst and then one request
\* per interval, also when its bucket was swept, provided that an idle bucket
\* is full by then (rate_limit.rs:26).
RateIsKept ==
  Burst * PerToken <= IdleExpiry => \A i, j \in DOMAIN grants :
    i <= j => j - i + 1 <= Burst + (grants[j] - grants[i]) \div PerToken

\* A caller that comes back when it was told to is let in, whatever it tried in
\* between and whoever else was swept or came (rate_limit.rs, "one interval is
\* the honest answer").
WaitIsEnough ==
  due # 0 /\ clock >= due => TryAcquire(buckets, Watched, clock).allowed

\* The limit holds for whoever presses on, and lets in whoever waits as told.
LimitIsKept == RateIsKept /\ WaitIsEnough
=============================================================================
