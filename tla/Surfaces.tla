------------------------------ MODULE Surfaces ------------------------------
(***************************************************************************)
(* The surfaces of the daemon: REST, the MCP tools that forward to it (the *)
(* stdio shim and /mcp alike) and the Python client.                       *)
(*                                                                         *)
(* A client makes one request or several, and meanwhile things may happen. *)
(* A call keeps the caller's memories, those of them that expire, the      *)
(* scopes of its key, whether a model understands what is submitted, what  *)
(* is still to happen, the job it waits for, what it did to the store, and *)
(* the last answer.  A text is named for what the pipeline makes of it.    *)
(***************************************************************************)
EXTENDS Integers, FiniteSets, SequencesExt

CONSTANTS
  MaxBatch,    \* items of a batch
  Measure,     \* of each memory there was before, how relevant it is to the query
  ServerFloor  \* [retrieval].min_relevance

Old == DOMAIN Measure
Missing == 0   \* an id that is no id
Foreign == -2  \* an id of somebody else's memory
Unset == -1    \* a floor that is not given
Fine == "fine"

-----------------------------------------------------------------------------
(* Errors on the wire.                                                     *)

Errors == {"not_found", "validation", "unauthorized", "forbidden", "conflict",
           "rerank_busy", "internal"}

\* IntoResponse for RaError; what is inside an internal error stays inside.
StatusOf(error) ==
  CASE error = "validation" -> 400 [] error = "unauthorized" -> 401
    [] error = "forbidden" -> 403 [] error = "not_found" -> 404
    [] error = "conflict" -> 409 [] OTHER -> 500
CodeOf(error) == IF error \in {"rerank_busy", "internal"} THEN "internal"
                 ELSE IF error = "validation" THEN "validation_failed" ELSE error

\* HttpMemoryToolbox::request, of the status of the daemon's answer.
Reinflated(status) ==
  CASE status = 400 -> "validation" [] status = 401 -> "unauthorized"
    [] status = 403 -> "forbidden" [] status = 404 -> "not_found"
    [] status = 409 -> "conflict" [] OTHER -> "internal"

\* to_mcp_error.
McpError(error) ==
  CASE error \in {"validation", "not_found"} -> "invalid_params"
    [] error \in {"unauthorized", "forbidden", "conflict"} -> "invalid_request"
    [] OTHER -> "internal_error"

\* errors.py, from_response: the code, else the status.
ByCode == [validation_failed |-> "validation", unauthorized |-> "unauthorized",
           forbidden |-> "forbidden", not_found |-> "not_found",
           conflict |-> "conflict", internal |-> "internal"]
SdkError(status, code) ==
  IF code \in DOMAIN ByCode THEN ByCode[code]
  ELSE IF status \in {400, 401, 403, 404, 409} THEN Reinflated(status)
  ELSE IF status >= 500 THEN "internal" ELSE "base"

-----------------------------------------------------------------------------
(* The Authorization header, [scheme, key], or one without a scheme.       *)

NoScheme == "none"
Unusable == "unusable"

\* bearer_token, and bearer of the rate limiter: the scheme in any case.
BearerToken(header) ==
  IF header.scheme \in {"Bearer", "bearer", "BEARER"} THEN header.key ELSE Unusable

\* strip_bearer knows two spellings; what it does not know it leaves.
StripBearer(header) ==
  IF header.scheme \in {"Bearer", "bearer", NoScheme} THEN header.key ELSE Unusable

-----------------------------------------------------------------------------
(* The pipeline's part: what comes of a text.                              *)

\* Of a torn text one candidate is stored, and the next one fails.
Texts == {"blank", "fact", "two", "known", "chatter", "retraction", "broken", "torn"}
Failures == {"broken", "torn"}

\* The next id of the store, which never repeats one.
NextId(call) == 1 + Max(Old \cup call.stored \cup {Missing})

\* The pipeline: [call, ids, outcome], where a failure has no ids, whatever it
\* has stored before.  Without a model what was sent is stored.
Ids(model, text, id) ==
  CASE ~ model \/ text \in {"fact", "torn"} -> <<id>>
    [] text = "two" -> <<id, id + 1>> [] OTHER -> <<>>
Outcome(model, text, new) ==
  CASE model /\ text \in Failures -> "error" [] new # <<>> -> "stored"
    [] text = "known" -> "already_known" [] text = "chatter" -> "nothing_durable"
    [] OTHER -> "changed_without_storing"
Stored(call, text, new, gone) ==
  LET outcome == Outcome(call.model, text, new) IN
  [call |-> [call EXCEPT !.rows = (@ \ gone) \cup Range(new),
                         !.stored = @ \cup Range(new), !.removed = @ \cup gone],
   ids |-> IF outcome = "error" THEN <<>> ELSE new, outcome |-> outcome]
Ingested(call, text) ==
  Stored(call, text, Ids(call.model, text, NextId(call)),
         IF call.model /\ text = "retraction"
         THEN {m \in call.rows : \A n \in call.rows : m <= n} ELSE {})

-----------------------------------------------------------------------------
(* REST.  Every operator is a handler, given the call and its request.     *)

\* A request: what it asks for, of which memory, with which texts, and
\* what it says of a floor, or of an expiry.
Ask(verb, id, texts, extra) == [verb |-> verb, id |-> id, texts |-> texts, extra |-> extra]
Asking(verb, id) == Ask(verb, id, <<>>, "absent")

Answer(call, status, code, body) ==
  [call EXCEPT !.status = status, !.code = code, !.body = body]
Refused(call, error) == Answer(call, StatusOf(error), CodeOf(error), <<>>)
Results(done) == <<[ids |-> done.ids, outcome |-> done.outcome]>>

\* WriteAccess, ReadAccess.
Needs(verb) == IF verb \in {"get", "search", "profile", "job"} THEN "read" ELSE "write"

\* save_memory: as it is sent, whatever it says.
Created(done, model) ==
  Answer([done.call EXCEPT !.model = model], 201, Fine, Results(done))
SaveMemory(call, text) ==
  IF text = "blank" THEN Refused(call, "validation")
  ELSE Created(Ingested([call EXCEPT !.model = FALSE], text), call.model)

Job(text, status, ids) == [text |-> text, status |-> status, ids |-> ids]

\* ingest: a job to poll, or what came of it for a caller that waits.
Enqueue(call, text) ==
  IF text = "blank" THEN Refused(call, "validation")
  ELSE Answer([call EXCEPT !.job = Job(text, "pending", <<>>)],
              202, Fine, <<>>)
Finished(done, status) ==
  IF done.outcome = "error" THEN Refused(done.call, "internal")
  ELSE Answer(done.call, status, Fine, Results(done))
Ingest(call, text) ==
  IF text = "blank" THEN Refused(call, "validation") ELSE Finished(Ingested(call, text), 201)

\* ingest_batch: one after the other, each failure in its place.
IngestBatch(call, texts) ==
  IF texts = <<>> \/ Len(texts) > MaxBatch \/ "blank" \in Range(texts)
  THEN Refused(call, "validation")
  ELSE FoldLeft(LAMBDA c, text : LET done == Ingested(c, text) IN
                  Answer(done.call, 201, Fine, c.body \o Results(done)),
                [call EXCEPT !.body = <<>>], texts)

\* status_name.
OnTheWire(status) == IF status = "dead_letter" THEN "failed" ELSE status

\* get_job, after the workers got so far: a job runs for as many polls as the
\* call says; its attempts are one, the last.
Working(call) ==
  [call EXCEPT !.polls = @ - 1, !.job.status = IF @ = "pending" THEN "running" ELSE @]
Worked(ran) ==
  [ran.call EXCEPT !.job.ids = ran.ids, !.job.status =
     IF ran.outcome = "error" THEN "dead_letter" ELSE "succeeded"]
ShowJob(call) == Answer(call, 200, Fine, <<OnTheWire(call.job.status), call.job.ids>>)
GetJob(call) ==
  LET ends == call.job.status \in {"pending", "running"} /\ call.polls = 0
  IN IF call.job.text = "none" THEN Refused(call, "not_found")
     ELSE ShowJob(IF ends THEN Worked(Ingested(call, call.job.text)) ELSE Working(call))

\* SessionTranscript::new: too long is as bad as nothing at all.
Transcribed(text) == text # "blank"

\* SessionDistiller::execute: without a model nothing is left to distill with.
Distilled(call, text) ==
  IF ~ call.model THEN Refused(call, "validation") ELSE Finished(Ingested(call, text), 200)

\* distill_session.
DistillSession(call, text) ==
  IF Transcribed(text) THEN Distilled(call, text) ELSE Refused(call, "validation")

\* search_memories: an explicit floor is held, and without one a request that
\* names a slice of the store has none.
SearchFloor(given, filtered) ==
  LET floor == IF given # Unset THEN given ELSE IF filtered THEN 0 ELSE ServerFloor
  IN Min({100, Max({0, floor})})
SearchMemories(call, given, filtered) ==
  Answer(call, 200, Fine,
         SetToSeq({m \in call.rows \cap Old : Measure[m] >= SearchFloor(given, filtered)}))

\* parse_id comes first, then whether it is among those there are.
OfMemory(call, id, there, answer) ==
  IF id = Missing THEN Refused(call, "validation")
  ELSE IF id \notin there THEN Refused(call, "not_found") ELSE answer

GetMemory(call, id) == OfMemory(call, id, call.rows, Answer(call, 200, Fine, <<id>>))

\* serde_with_double_option: a field that is absent stays, and null clears it.
Patched(field, was) == IF field = "absent" THEN was ELSE field = "given"
UpdateMemory(call, id, expiry) ==
  LET expires == Patched(expiry, id \in call.expiring)
  IN OfMemory(call, id, call.rows,
              Answer([call EXCEPT !.expiring = IF expires THEN @ \cup {id} ELSE @ \ {id}],
                     200, Fine, <<id>>))

\* A memory of one's own may be deleted again, which deletes nothing.
Owned(call) == Old \cup call.stored
ForgetMemory(call, id) ==
  OfMemory(call, id, Owned(call),
           Answer([call EXCEPT !.rows = @ \ {id}, !.removed = @ \cup ({id} \cap call.rows)],
                  204, Fine, <<>>))

Handled(call, request) ==
  CASE request.verb = "direct"  -> SaveMemory(call, request.texts[1])
    [] request.verb = "enqueue" -> Enqueue(call, request.texts[1])
    [] request.verb = "ingest"  -> Ingest(call, request.texts[1])
    [] request.verb = "batch"   -> IngestBatch(call, request.texts)
    [] request.verb = "job"     -> GetJob(call)
    [] request.verb = "distill" -> DistillSession(call, request.texts[1])
    [] request.verb = "get"     -> GetMemory(call, request.id)
    [] request.verb = "update"  -> UpdateMemory(call, request.id, request.extra)
    [] request.verb = "forget"  -> ForgetMemory(call, request.id)
    [] request.verb = "search"  -> SearchMemories(call, request.extra, FALSE)
    [] request.verb = "profile" -> Answer(call, 200, Fine, <<>>)

\* A request on its way: another caller forgets what it is about, its key is
\* revoked, it comes too often, nobody is there, it takes too long.
Troubles == {"none", "forgotten", "revoked", "limited", "unreachable", "timeout"}

OnTime(trouble, answer) ==
  IF trouble = "timeout" THEN Answer(answer, 408, "none", <<>>) ELSE answer
Meeting(trouble, call, request) ==
  CASE trouble = "limited"     -> Answer(call, 429, "rate_limited", <<>>)
    [] trouble = "unreachable" -> Answer(call, 0, "none", <<>>)
    [] call.held = {}          -> Refused(call, "unauthorized")
    [] {Needs(request.verb), "admin"} \cap call.held = {} -> Refused(call, "forbidden")
    [] OTHER                   -> OnTime(trouble, Handled(call, request))
Sent(call, request) ==
  LET trouble == IF call.troubles = <<>> THEN "none" ELSE Head(call.troubles)
  IN Meeting(trouble,
             [call EXCEPT !.troubles = IF @ = <<>> THEN @ ELSE Tail(@),
                          !.rows = IF trouble = "forgotten" THEN @ \ {request.id} ELSE @,
                          !.held = IF trouble = "revoked" THEN {} ELSE @],
             request)

Succeeded(call) == call.status \in {200, 201, 202, 204}

-----------------------------------------------------------------------------
(* The toolbox, HttpMemoryToolbox: [call, ids, outcomes], where the last   *)
(* answer of the call tells whether it succeeded.                          *)

\* Each id's wording is fetched; the first failure ends it.
Fetch(call, ids) ==
  FoldLeft(LAMBDA c, id : IF Succeeded(c) THEN Sent(c, Asking("get", id)) ELSE c, call, ids)

\* SaveStatus::from_wire: what it does not know it does not guess.
FromWire(outcome) ==
  IF outcome \in {"stored", "nothing_durable", "already_known", "changed_without_storing"}
  THEN outcome ELSE "unknown"

\* What was posted, its results read and every memory of them fetched.
Fetched(posted) ==
  LET ids == FlattenSeq([i \in DOMAIN posted.body |-> posted.body[i].ids])
  IN IF ~ Succeeded(posted) THEN [call |-> posted, ids |-> <<>>, outcomes |-> <<>>]
     ELSE [call |-> Fetch(posted, ids), ids |-> ids,
           outcomes |-> [i \in DOMAIN posted.body |->
                           IF posted.body[i].outcome = "error" THEN "failed"
                           ELSE FromWire(posted.body[i].outcome)]]

Save(call, text)       == Fetched(Sent(call, Ask("ingest", Missing, <<text>>, "absent")))
SaveBatch(call, texts) == Fetched(Sent(call, Ask("batch", Missing, texts, "absent")))
Distill(call, text)    == Fetched(Sent(call, Ask("distill", Missing, <<text>>, "absent")))

\* recall, and find_candidates with a floor of its own.
RecallWith(call, floor) == Sent(call, Ask("search", Missing, <<>>, floor))
ForgetFloor == 30
FindCandidates(call) == RecallWith(call, ForgetFloor)

\* Mutant of Deleted: one that could not be deleted is passed over.
DeletedOnwards(call, ids) ==
  FoldLeft(LAMBDA c, id : [Sent(c, Asking("forget", id)) EXCEPT !.status = 204], call, ids)

\* forget: one after the other; the first failure ends it.
Deleted(call, ids) ==
  FoldLeft(LAMBDA c, id : IF Succeeded(c) THEN Sent(c, Asking("forget", id)) ELSE c, call, ids)

-----------------------------------------------------------------------------
(* The tools, MemoryMcpServer: [call, told], where the agent is told       *)
(* [said, shown, count, items, error].                                     *)

\* save_result, save_batch_result.
Told(call, said, shown, count, items) ==
  [call |-> call, told |-> [said |-> said, shown |-> shown, count |-> count,
                            items |-> items, error |-> Fine]]
Failing(call, error) ==
  [call |-> call, told |-> [said |-> "error", shown |-> <<>>, count |-> 0,
                            items |-> <<>>, error |-> error]]
Failed(call) == Failing(call, McpError(Reinflated(call.status)))

\* render_saved.
RenderSaved(ids, outcome, model) ==
  IF ids # <<>> THEN "saved"
  ELSE IF outcome \notin {"stored", "unknown"} THEN outcome
  ELSE IF model THEN "unknown" ELSE "nothing"

\* What came of what was posted, in those words.
Reported(done, said, items) ==
  IF ~ Succeeded(done.call) THEN Failed(done.call)
  ELSE Told(done.call, said, done.ids, Len(done.ids), items)

ReportSaved(done, model) ==
  Reported(done, RenderSaved(done.ids, done.outcomes[1], model), done.outcomes)
MemorySave(call, text) == ReportSaved(Save(call, text), call.model)

\* render_saved_batch; beside what is said the client reads each item's status.
RenderBatch(ids, outcomes) ==
  IF ids = <<>> /\ "failed" \notin Range(outcomes) THEN "nothing" ELSE "saved"

ReportBatch(done) == Reported(done, RenderBatch(done.ids, done.outcomes), done.outcomes)
MemorySaveBatch(call, texts) == ReportBatch(SaveBatch(call, texts))

\* render_distilled.
RenderDistilled(ids) == IF ids = <<>> THEN "nothing" ELSE "saved"

ReportDistilled(done) == Reported(done, RenderDistilled(done.ids), <<>>)
SessionDistill(call, text) == ReportDistilled(Distill(call, text))

\* render_recall, render_forget_candidates.
RenderFound(ids, nothing) == IF ids = <<>> THEN nothing ELSE "found"
Showing(found, nothing) ==
  IF ~ Succeeded(found) THEN Failed(found)
  ELSE Told(found, RenderFound(found.body, nothing), found.body, Len(found.body), <<>>)

\* memory_recall: the server's floor.
MemoryRecall(call) == Showing(RecallWith(call, Unset), "not_found")

\* memory_forget: ids are deleted if that is confirmed, and without ids what
\* matches the query is shown.
ReportDeleted(deleted, count) ==
  IF Succeeded(deleted) THEN Told(deleted, "deleted", <<>>, count, <<>>) ELSE Failed(deleted)
MemoryForget(call, ids, confirm, query) ==
  CASE ids # <<>> /\ ~ confirm -> Told(call, "unconfirmed", <<>>, 0, <<>>)
    [] ids # <<>> /\ confirm -> ReportDeleted(Deleted(call, ids), Len(ids))
    [] ids = <<>> /\ ~ query -> Failing(call, "invalid_params")
    [] OTHER -> Showing(FindCandidates(call), "not_close_enough")

\* read_resource: whatever refused the profile, it is an internal error.
ReportProfile(read) ==
  IF Succeeded(read) THEN Told(read, "found", <<>>, 0, <<>>) ELSE Failing(read, "internal_error")
ReadProfile(call) == ReportProfile(Sent(call, Asking("profile", Missing)))

\* serve_stdio: a shim that cannot read the profile does not start.
ServeStdio(call, hasKey) == hasKey /\ Succeeded(ReadProfile(call).call)

-----------------------------------------------------------------------------
(* The Python client.                                                      *)

Raised(call) == Failing(call, SdkError(call.status, call.code))

\* wait_for_job: poll until it has ended, or patience has.
WaitForJob(call, patience) ==
  FoldLeft(LAMBDA c, n : IF Succeeded(c) /\ c.body[1] \notin {"succeeded", "failed"}
                         THEN Sent(c, Asking("job", Missing)) ELSE c,
           Sent(call, Asking("job", Missing)), [n \in 1..patience |-> n])

\* save_and_wait.
Collected(fetched, ids) ==
  IF Succeeded(fetched) THEN Told(fetched, "saved", ids, Len(ids), <<>>) ELSE Raised(fetched)
Ended(ended) ==
  IF ~ Succeeded(ended) THEN Raised(ended)
  ELSE IF ended.body[1] = "failed" THEN Failing(ended, "job_failed")
  ELSE IF ended.body[1] # "succeeded" THEN Failing(ended, "timeout")
  ELSE Collected(Fetch(ended, ended.body[2]), ended.body[2])
Awaited(posted, patience) ==
  IF Succeeded(posted) THEN Ended(WaitForJob(posted, patience)) ELSE Raised(posted)
SaveAndWait(call, text, patience) ==
  Awaited(Sent(call, Ask("enqueue", Missing, <<text>>, "absent")), patience)
=============================================================================
