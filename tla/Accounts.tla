------------------------------ MODULE Accounts ------------------------------
(***************************************************************************)
(* Users and their keys, as the command line keeps them in the database    *)
(* and requests read them: the spelling of handles, prefixes, scopes and   *)
(* keys, what is unique, and what a key opens.                             *)
(*                                                                         *)
(* What is typed is [word, how]: the word, and whether it is written       *)
(* plainly, in capitals or with blanks around it.  A store is [users,      *)
(* keys]: handles in order, a user's id its place; and rows of keys.       *)
(***************************************************************************)
EXTENDS Integers, FiniteSets, SequencesExt

CONSTANTS
  Handles,   \* words that are handles
  Drawn,     \* [prefix, secret]: what the random source may draw
  MaxCommands

NoPrefix == "none"

ASSUME AccountsAssumption ==
  /\ \A d \in Drawn : d = [prefix |-> d.prefix, secret |-> d.secret] /\ d.prefix # NoPrefix
  /\ MaxCommands \in Nat

Spellings == {"plain", "capitals", "blanks"}
Typed(words) == [word : words, how : Spellings]
AllScopes == {"read", "write", "admin"}

\* trim and to_ascii_lowercase, of handles, prefixes and names of scopes.
Spelled(typed) == typed.word

-----------------------------------------------------------------------------
(* Values.                                                                 *)

\* normalize_handle.
IsHandle(typed) == typed.word \in Handles

\* Scope::parse_list, of the parts between commas: none are left out that are
\* not blank, and what is none is refused.
ParseList(parts) ==
  LET named == {Spelled(p) : p \in Range(parts)} \ {""}
  IN IF named = {} \/ ~ named \subseteq AllScopes THEN {} ELSE named

\* Scope::join.
Join(held) == [i \in 1..Cardinality(held) |->
                 [word |-> SetToSeq(held)[i], how |-> "plain"]]

\* ApiKeyToken::render, and parse of what is presented: a scheme, as many
\* digits, in any case.
Rendered(drawn, how) == [scheme |-> "ra_live_", whole |-> TRUE, how |-> how,
                         prefix |-> drawn.prefix, secret |-> drawn.secret]
Malformed == [prefix |-> NoPrefix, secret |-> "none"]
Parsed(key) ==
  IF key.scheme = "ra_live_" /\ key.whole
  THEN [prefix |-> key.prefix, secret |-> key.secret] ELSE Malformed

\* Argon2ApiKeyHasher: the salt makes every hash another one.
Hash(secret, salt) == [of |-> secret, salt |-> salt]
Verifies(secret, hash) == hash.of = secret

-----------------------------------------------------------------------------
(* The store.                                                              *)

\* find_by_handle: the user's id, or 0.
FindByHandle(store, typed) ==
  LET ids == {u \in DOMAIN store.users : store.users[u] = Spelled(typed)}
  IN IF ids = {} THEN 0 ELSE CHOOSE u \in ids : TRUE

\* find_by_prefix, of a prefix that is unique: the row's place, or 0.
FindByPrefix(store, prefix) ==
  LET ks == {k \in DOMAIN store.keys : store.keys[k].prefix = prefix}
  IN IF ks = {} THEN 0 ELSE CHOOSE k \in ks : TRUE

\* UserCreator, User::create: the handle is unique, and the loser is told.
UserAdd(store, typed) ==
  IF ~ IsHandle(typed) \/ Spelled(typed) \in Range(store.users) THEN store
  ELSE [store EXCEPT !.users = Append(@, Spelled(typed))]

\* ApiKeyIssuer, ApiKey::issue: a name, a scope and a prefix nobody has.
KeyIssue(store, typed, name, parts, drawn) ==
  LET u == FindByHandle(store, typed)
      held == ParseList(parts)
  IN IF held = {} \/ u = 0 \/ name = "" \/ FindByPrefix(store, drawn.prefix) # 0 THEN store
     ELSE [store EXCEPT
             !.keys = Append(@, [owner |-> u, prefix |-> drawn.prefix, scopes |-> Join(held),
                                 hash |-> Hash(drawn.secret, Len(@)), revoked |-> FALSE]),
             !.shown = @ \cup {[key |-> drawn, owner |-> u, scopes |-> held]}]

\* ApiKeyRevoker.
KeyRevoke(store, typed) ==
  LET k == FindByPrefix(store, Spelled(typed))
  IN IF k = 0 THEN store ELSE [store EXCEPT !.keys[k].revoked = TRUE]

\* ApiKeyLister: the revoked ones, too.
KeyList(store, typed) ==
  LET u == FindByHandle(store, typed)
  IN {k \in DOMAIN store.keys : u # 0 /\ store.keys[k].owner = u}

\* run_user_command, run_key_command.
Run(store, command) ==
  CASE command.do = "add"    -> UserAdd(store, command.typed)
    [] command.do = "issue"  -> KeyIssue(store, command.typed, command.name, command.parts,
                                         command.drawn)
    [] command.do = "revoke" -> KeyRevoke(store, command.typed)

-----------------------------------------------------------------------------
(* UserContext: who a request, or a job, acts as.                          *)

Nowhere == [user |-> 0, key |-> 0, scopes |-> {}]

\* KeyAuthenticator, beside its cache; the row is rebuilt from its columns.
Opened(store, presented) ==
  LET key == Parsed(presented)
      k == FindByPrefix(store, key.prefix)
      found == store.keys[k]
  IN IF key = Malformed \/ k = 0 THEN Nowhere
     ELSE IF ~ Verifies(key.secret, found.hash) \/ found.revoked THEN Nowhere
     ELSE [user |-> found.owner, key |-> k, scopes |-> ParseList(found.scopes)]

\* UserContext::unauthenticated and background, the latter of a user who is
\* still there.
Background(store, u) ==
  IF u \in DOMAIN store.users THEN [user |-> u, key |-> 0, scopes |-> {"read", "write"}]
  ELSE Nowhere

\* UserContext::allows, the one place where authority is decided.
Allows(context, needed) == {needed, "admin"} \cap context.scopes # {}

-----------------------------------------------------------------------------
(* Stores that commands lead to.                                           *)

Empty == [users |-> <<>>, keys |-> <<>>, shown |-> {}]
Lists == {<<[word |-> "read", how |-> "plain"], [word |-> "read", how |-> "capitals"]>>,
          <<[word |-> "", how |-> "plain"], [word |-> "admin", how |-> "blanks"]>>,
          <<[word |-> "write", how |-> "plain"], [word |-> "root", how |-> "plain"]>>, <<>>}
Commands ==
  [do : {"add"}, typed : Typed(Handles \cup {"odd"})]
  \cup [do : {"issue"}, typed : Typed(Handles), name : {"", "laptop"}, parts : Lists, drawn : Drawn]
  \cup [do : {"revoke"}, typed : Typed({d.prefix : d \in Drawn})]

StoresAfter ==
  LET f[n \in 0..MaxCommands] ==
        IF n = 0 THEN {Empty}
        ELSE f[n - 1] \cup {Run(s, c) : s \in f[n - 1], c \in Commands}
  IN f[MaxCommands]

\* A user per handle; every key is its owner's, has a scope, and is found by
\* its prefix alone; and each of them is listed, for its owner only, however
\* the handle is spelled.
IsKept(store) ==
  /\ IsInjective(store.users) /\ Range(store.users) \subseteq Handles
  /\ \A k \in DOMAIN store.keys : FindByPrefix(store, store.keys[k].prefix) = k
  /\ \A typed \in Typed(Handles) : \A k \in DOMAIN store.keys :
       k \in KeyList(store, typed) <=> store.users[store.keys[k].owner] = typed.word

\* What is presented opens if it was shown and is not revoked, whatever the
\* case it is written in, and it opens as its owner, with its scopes.
OpensWhatWasShown(store) ==
  /\ \A shown \in store.shown, how \in Spellings :
       LET context == Opened(store, Rendered(shown.key, how)) IN
       IF store.keys[FindByPrefix(store, shown.key.prefix)].revoked THEN context = Nowhere
       ELSE context.user = shown.owner /\ context.scopes = shown.scopes
  /\ \A d \in Drawn : d \notin {s.key : s \in store.shown} =>
       Opened(store, Rendered(d, "plain")) = Nowhere

\* Nothing but admin allows everything, and no job is that.
AuthorityIsHeld(store) ==
  /\ \A shown \in store.shown, needed \in AllScopes :
       Allows(Opened(store, Rendered(shown.key, "plain")), needed) =>
         shown.scopes \cap {needed, "admin"} # {}
  /\ \A u \in 0..Len(store.users) : ~ Allows(Background(store, u), "admin")

\* A command changes no other user's keys, takes back no revocation.
StepIsKept(store, after) ==
  /\ IsPrefix(store.users, after.users) /\ Len(after.keys) >= Len(store.keys)
  /\ \A k \in DOMAIN store.keys :
       /\ [after.keys[k] EXCEPT !.revoked = FALSE] = [store.keys[k] EXCEPT !.revoked = FALSE]
       /\ store.keys[k].revoked => after.keys[k].revoked

AccountsAreSound ==
  \A s \in StoresAfter :
    /\ IsKept(s) /\ OpensWhatWasShown(s) /\ AuthorityIsHeld(s)
    /\ \A c \in Commands : StepIsKept(s, Run(s, c))
=============================================================================
