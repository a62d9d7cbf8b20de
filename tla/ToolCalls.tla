----------------------------- MODULE ToolCalls ------------------------------
(***************************************************************************)
(* What a client may conclude from what it is told: every tool, called     *)
(* with a key that was issued, whatever happens to its requests meanwhile. *)
(***************************************************************************)
EXTENDS Access, Surfaces, Accounts

Start(held, model, polls, troubles) ==
  [rows |-> Old, expiring |-> {Min(Old)}, held |-> held, model |-> model, polls |-> polls,
   job |-> Job("none", "none", <<>>), troubles |-> troubles,
   stored |-> {}, removed |-> {}, status |-> 200, code |-> Fine, body |-> <<>>]
TroubleSeqs == UNION {[1..n -> Troubles] : n \in 0..2}
Unchanged(call) == call.stored = {} /\ call.removed = {}

\* Of a save or a distillation: what is said to be saved is what it stored.
SaveIsTrue(done) ==
  LET said == done.told.said IN
  /\ said = "saved" => Range(done.told.shown) = done.call.stored
  /\ said \in {"nothing", "changed_without_storing"} => done.call.stored = {}
  /\ said \in {"already_known", "nothing_durable"} => Unchanged(done.call)

\* Of a batch: the items in their order, each with what came of it.  What was
\* stored and is not shown is of an item that is told to have failed.
BatchIsTrue(done, texts) ==
  LET torn == {i \in DOMAIN texts : done.call.model /\ texts[i] = "torn"} IN
  done.told.said # "error" =>
    /\ Range(done.told.shown) \subseteq done.call.stored
    /\ Cardinality(done.call.stored \ Range(done.told.shown)) = Cardinality(torn)
    /\ Len(done.told.items) = Len(texts)
    /\ \A i \in DOMAIN texts :
         LET item == done.told.items[i] IN
         IF done.call.model
         THEN /\ item = "failed" <=> texts[i] \in Failures
              /\ item = "stored" <=> texts[i] \in {"fact", "two"}
         ELSE item = "stored"

\* Of a search: only what is close enough, and less is close enough to delete.
FoundIsTrue(done, floor) == \A m \in Range(done.told.shown) : Measure[m] >= floor

\* Of a deletion: only what was named and confirmed; all of it is gone that is
\* said to be, and no more was deleted than is said, as many exactly if each
\* was named once and nobody else deleted one of them.
ForgetIsTrue(at, done, ids, confirm) ==
  /\ done.call.removed \subseteq IF confirm THEN Range(ids) ELSE {}
  /\ done.told.said = "deleted" =>
       /\ Range(ids) \subseteq Owned(done.call) \ done.call.rows
       /\ Cardinality(done.call.removed) <= done.told.count
       /\ IsInjective(ids) /\ "forgotten" \notin Range(at.troubles)
            => Cardinality(done.call.removed) = done.told.count

\* Of the client that waits for a job: it ended as is said, or has not ended.
WaitIsTrue(done, text) ==
  LET said == done.told.said IN
  /\ said = "saved" => Range(done.told.shown) = done.call.stored
  /\ done.told.error = "job_failed" =>
       text \in Failures /\ (text = "broken" => Unchanged(done.call))
  /\ done.told.error = "timeout" => done.call.job.status \in {"pending", "running"}

\* Of a single request: refused, it changed nothing, and only what it names
\* is changed otherwise.
AnswerIsTrue(call, asked, done) ==
  /\ done.status \in {0, 400, 401, 403, 404, 429} =>
       Unchanged(done) /\ done.expiring = call.expiring
  /\ done.removed \subseteq {asked.id}
  /\ done.status = 204 => asked.id \in Owned(done) \ done.rows
  /\ done.status = 201 => done.stored # {}
  /\ asked.extra = "absent" => done.expiring = call.expiring
RequestIsTrue(call, asked) == AnswerIsTrue(call, asked, Sent(call, asked))

Named == Old \cup {Missing, Foreign}
IdSeqs == UNION {[1..n -> Named] : n \in 0..2}
Batches == UNION {[1..n -> Texts] : n \in 0..MaxBatch + 1}

\* Everything a client may call with keys of each scope.
CallsAreTrue ==
  [s \in Scopes |-> \A t \in TroubleSeqs, model \in BOOLEAN :
     LET at == Start(s, model, 1, t) IN
     /\ \A text \in Texts : SaveIsTrue(MemorySave(at, text)) /\ SaveIsTrue(SessionDistill(at, text))
     /\ \A texts \in Batches : BatchIsTrue(MemorySaveBatch(at, texts), texts)
     /\ FoundIsTrue(MemoryRecall(at), ServerFloor)
     /\ FoundIsTrue(MemoryForget(at, <<>>, FALSE, TRUE), ForgetFloor)
     /\ \A ids \in IdSeqs, confirm, query \in BOOLEAN :
          ForgetIsTrue(at, MemoryForget(at, ids, confirm, query), ids, confirm)
     /\ \A text \in Texts, polls, patience \in 0..2 :
          WaitIsTrue(SaveAndWait(Start(s, model, polls, t), text, patience), text)
     /\ \A verb \in {"forget", "get"}, id \in Named :
          RequestIsTrue(at, Asking(verb, id))
     /\ \A id \in Named, expiry \in {"absent", "null", "given"} :
          RequestIsTrue(at, Ask("update", id, <<>>, expiry))
     /\ \A text \in Texts : RequestIsTrue(at, Ask("direct", Missing, <<text>>, "absent"))
     /\ ServeStdio(at, TRUE) => s \cap {"read", "admin"} # {}]

\* What a client is told of the store is so, with every key that was issued:
\* what is shown as saved is what was stored, but for what an item told to have
\* failed has stored before; nothing is deleted that was not named and
\* confirmed, and what is told to be deleted is gone, though others delete at
\* the same time, the key is revoked, or requests are refused, lost or late
\* (tool_text.rs, render_saved; memory_mcp_server.rs, memory_forget).
AnswersTellTheTruth == \A k \in Issued : CallsAreTrue[scopes[k]]

\* The errors a request may end with, at the stage it has reached.
ErrorsAt(s) == IF s = "served" THEN Errors \ {"unauthorized", "forbidden"} ELSE {s} \cap Errors
Plain(error) == IF error = "rerank_busy" THEN "internal" ELSE error
RefusalIsKept ==
  [error \in Errors |->
     /\ Reinflated(StatusOf(error)) = Plain(error)
     /\ SdkError(StatusOf(error), CodeOf(error)) = Plain(error)
     /\ SdkError(StatusOf(error), "unknown") = Plain(error)]
\* The key a tool passes on is the one the gate before it accepted.
KeyIsPassedOn ==
  \A h \in [scheme : {"Bearer", "bearer", NoScheme}, key : {"key"}] :
    BearerToken(h) # Unusable => StripBearer(h) = BearerToken(h)

\* An error means the same to the tools, which know only its status, to the
\* Python client and to the handler that raised it: a client told that a key
\* is wrong, a memory gone or an argument at fault can act on it
\* (http_memory_toolbox.rs, request; errors.py, from_response).
RefusalsKeepTheirMeaning ==
  \A r \in Requests :
    /\ \A error \in ErrorsAt(stage[r]) : RefusalIsKept[error]
    /\ stage[r] = "served" => KeyIsPassedOn

\* A key opens what it was issued for, and nothing once it is revoked, through
\* every sequence of commands, however handles, prefixes, scopes and the key
\* itself are spelled; the rows of users and keys stay unique, owned and listed
\* (api_key.rs, scope.rs, user.rs, sqlite_api_key_repository.rs).
KeysOpenWhatTheyWereIssuedFor == Issued # {} => AccountsAreSound

\* Tools and clients hear what happened, of a call that was carried out and of
\* one that was refused (http_memory_toolbox.rs, errors.py).
ClientsHearTheTruth == AnswersTellTheTruth /\ RefusalsKeepTheirMeaning

\* Whoever asks is the user that the key was issued for or, where no key is
\* asked for, the one default user (key_authenticator.rs,
\* default_user_resolver.rs).
EveryoneIsWhoTheyAre == OneDefaultUser /\ KeysOpenWhatTheyWereIssuedFor
=============================================================================
