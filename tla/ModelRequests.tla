--------------------------- MODULE ModelRequests ----------------------------
(***************************************************************************)
(* What a language model is asked and how its provider's response is read: *)
(* the requests of extraction, reconciliation, merging and digesting, and  *)
(* the three chat clients.                                                 *)
(*                                                                         *)
(* A request is [system, user, fields, required, offered]: what the system *)
(* prompt holds, the lines of the user's turn, and the fields, required    *)
(* fields and categories of the schema.  A response is [status, json,      *)
(* error, text, stop]; status 0 never came, and text says why.             *)
(***************************************************************************)
EXTENDS Understanding

CONSTANTS
  ChatAttempts,     \* DEFAULT_MAX_ATTEMPTS
  InitialBackoff    \* DEFAULT_INITIAL_BACKOFF

ASSUME ChatAssumption == ChatAttempts \in Nat \ {0} /\ InitialBackoff \in Nat

Lenses == {"submission", "session"}
Apis == {"anthropic", "openai-compat", "ollama"}

-----------------------------------------------------------------------------
(* A structured call: parsed, repaired once (structured_from_text), and    *)
(* retried while it is the provider's fault (RetryingChatModel).  What the *)
(* provider does is a sequence of replies.                                 *)

\* "json" and "fenced" can be read: parse_json looks inside a fence or a
\* sentence; "prose" cannot.  The others come from the transport: classify_
\* transport, classify_status.
Readable  == {"json", "fenced"}
Transient == {"timeout", "unreachable", "server_error", "busy"}
Permanent == {"client_error", "broken"}

\* structured_from_text: the result, and how many replies it used.
Structured(replies) ==
  LET Read(reply) == IF reply \in Readable THEN "answer"
                     ELSE IF reply \in Transient THEN "transient"
                     ELSE IF reply \in Permanent THEN "permanent" ELSE "malformed"
  IN IF Head(replies) # "prose" THEN [result |-> Read(Head(replies)), used |-> 1]
     ELSE [result |-> Read(replies[2]), used |-> 2]

\* RetryingChatModel::complete_structured: what it has after each attempt, how
\* long it has waited and would wait next.  Only a transient failure is followed
\* by another attempt, after a wait that doubles.
Completed(replies) ==
  LET left(n) == SubSeq(replies, n + 1, Len(replies))
      after[k \in 0..ChatAttempts] ==
        IF k = 0 THEN [result |-> "transient", used |-> 0, waited |-> 0, backoff |-> InitialBackoff]
        ELSE IF after[k - 1].result # "transient" THEN after[k - 1]
        ELSE LET sofar == after[k - 1]
                 one   == Structured(left(sofar.used))
             IN [result |-> one.result, used |-> sofar.used + one.used,
                 waited  |-> IF k = 1 THEN 0 ELSE sofar.waited + sofar.backoff,
                 backoff |-> IF k = 1 THEN InitialBackoff ELSE 2 * sofar.backoff]
  IN after[ChatAttempts]

-----------------------------------------------------------------------------
(* Requests.                                                               *)

\* Taxonomy::new, names; describe: a line for each.
TaxonomyNames == Range(DefaultCategories) \cup Extras
Described == {<<"- ", c, IF c \in Extras THEN "of this deployment" ELSE "its guidance">> : c \in TaxonomyNames}

\* A hint that is blank is none.
Hinted(hints) ==
  (IF hints.client = "" THEN <<>> ELSE <<<<"client", hints.client>>>>)
  \o (IF hints.category = <<>> THEN <<>> ELSE <<<<"suggested", hints.category>>>>)
  \o (IF hints.tags = <<>> THEN <<>> ELSE <<<<"tags", hints.tags>>>>)

\* The material is between markers; a lens has its own prompt and sentence.
ExtractionMessage(lens, content, hints) ==
  Hinted(hints) \o <<<<"material", lens>>, <<"begin">>, <<"content", content>>, <<"end">>>>
ExtractionRequest(lens, content, hints, relations) ==
  [system |-> {<<"prompt", lens>>} \cup Described,
   user |-> ExtractionMessage(lens, content, hints),
   fields |-> {"content", "category", "subcategory", "tags", "entities", "confidence"}
                \cup (IF relations THEN {"relations"} ELSE {}),
   required |-> {"content", "category"}, offered |-> TaxonomyNames]

\* Each neighbour with its id, in full; none is said to be none.
ReconciliationRequest(candidate, neighbours) ==
  [system |-> {<<"prompt", "reconcile">>},
   user |-> <<<<"candidate", candidate>>>>
            \o (IF neighbours = <<>> THEN <<<<"none">>>>
                ELSE [i \in DOMAIN neighbours |-> <<"id", neighbours[i]>>]) \o <<<<"decide">>>>,
   fields |-> {"action", "memory_id", "reason"}, required |-> {"action", "reason"},
   offered |-> {"ADD", "UPDATE", "DELETE", "NOOP"}]

\* A block each, numbered, without its id, its lines joined.
MergeRequest(cluster) ==
  [system |-> {<<"prompt", "merge">>} \cup Described,
   user |-> <<<<"these", Len(cluster)>>>> \o [i \in DOMAIN cluster |-> <<"block", i>>] \o <<<<"decide">>>>,
   fields |-> {"merge", "content", "category", "tags", "reason"}, required |-> {"merge", "reason"},
   offered |-> TaxonomyNames]

\* A line each, its lines joined, between markers.
DigestRequest(domain, shownMemories) ==
  [system |-> {<<"prompt", "digest">>},
   user |-> <<<<"about", domain>>, <<"begin">>>>
            \o [i \in DOMAIN shownMemories |-> <<"line", i>>] \o <<<<"end">>>>,
   fields |-> {"digest"}, required |-> {"digest"}, offered |-> {}]

-----------------------------------------------------------------------------
(* Clients.                                                                *)

\* complete_text: the turns, and where the schema is; the failed reply goes
\* back as the assistant's turn it was.
Turn(role, says) == [role |-> role, says |-> says]
Repairing(hint) == IF hint = <<>> THEN <<>>
                   ELSE <<Turn("assistant", hint[1]), Turn("user", <<"repair">> \o hint)>>
AnthropicBody(request, hint, key) ==
  [turns |-> <<Turn("user", request.user)>> \o Repairing(hint),
   schemaIn |-> {"tool"}, headers |-> {<<"x-api-key", key>>, <<"anthropic-version", "2023-06-01">>}]
\* An empty key is none.
OpenAiBody(request, hint, key) ==
  [turns |-> <<Turn("system", request.system), Turn("user", request.user)>> \o Repairing(hint),
   schemaIn |-> {"system", "response_format"},
   headers |-> IF key = "" THEN {} ELSE {<<"authorization", key>>}]
OllamaBody(request, hint) ==
  [turns |-> <<Turn("system", request.system), Turn("user", request.user)>> \o Repairing(hint),
   schemaIn |-> {"system", "format"}, headers |-> {}]
Body(api, request, hint, key) ==
  CASE api = "anthropic" -> AnthropicBody(request, hint, key)
    [] api = "openai-compat" -> OpenAiBody(request, hint, key)
    [] api = "ollama" -> OllamaBody(request, hint)

\* classify_transport, classify_status.
Unsuccessful(response) ==
  IF response.status = 0 THEN response.text
  ELSE IF response.status >= 500 THEN "server_error"
  ELSE IF response.status \in {408, 409, 429} THEN "busy" ELSE "client_error"

\* extract_message_content of Ollama: an unknown model is an error of a 200.
OllamaContent(response) ==
  IF response.error THEN "client_error"
  ELSE IF response.text = "none" THEN "garbled" ELSE response.text

\* extract_tool_input: the input was parsed already, so it is JSON; a reply cut
\* off before the tool was called will be cut off again.
ToolInput(response) ==
  IF response.text # "none" THEN "json"
  ELSE IF response.stop = "length" THEN "client_error" ELSE "garbled"

\* Mutant of MessageContent: a reply that was cut off is parsed all the same.
MessageContentCutOff(response) ==
  IF response.text = "none" THEN "garbled" ELSE response.text

\* extract_message_content of the OpenAI-compatible client.
MessageContent(response) ==
  IF response.stop = "length" THEN "client_error"
  ELSE IF response.text = "none" THEN "garbled" ELSE response.text

ReplyOf(api, response) ==
  IF response.status # 200 THEN Unsuccessful(response)
  ELSE IF ~ response.json THEN "garbled"
  ELSE CASE api = "anthropic" -> ToolInput(response)
         [] api = "openai-compat" -> MessageContent(response)
         [] api = "ollama" -> OllamaContent(response)

-----------------------------------------------------------------------------
(* What is asked for is what is understood.                                *)

NoHints == [client |-> "", category |-> <<>>, tags |-> <<>>]
Hints == [client : {"", "cli"}, category : {<<>>, <<"decision", "">>}, tags : {<<>>, <<"ci">>}]

\* The material is there once, between the markers, and a hint before them;
\* relations are asked for only when the graph wants them.
MaterialIsFenced ==
  \A lens \in Lenses, hints \in Hints, relations \in BOOLEAN :
    LET request == ExtractionRequest(lens, 1, hints, relations)
        At(line) == {i \in DOMAIN request.user : request.user[i] = line}
    IN /\ Cardinality(At(<<"content", 1>>)) = 1
       /\ \A b \in At(<<"begin">>), c \in At(<<"content", 1>>), z \in At(<<"end">>) : b < c /\ c < z
       /\ hints = NoHints <=> Head(request.user) = <<"material", lens>>
       /\ ("relations" \in request.fields) = relations
       /\ request.offered = TaxonomyNames /\ \A c \in TaxonomyNames : \E line \in Described : line \in request.system /\ line[2] = c

\* A category that was offered is taken as it is; a decision of an offered
\* action on an id that was shown is used, and on one that was not, never.
OfferedIsUsed ==
  /\ \A c \in ExtractionRequest("submission", 1, NoHints, FALSE).offered \cup MergeRequest(<<1, 2>>).offered :
       Resolve(c) = [category |-> c, exact |-> TRUE]
  /\ \A n \in 0..2, target \in 1..3 :
       LET request == ReconciliationRequest("c", [i \in 1..n |-> i])
           ids == {i \in 1..3 : <<"id", i>> \in Range(request.user)}
       IN \A action \in request.offered :
            Usable([action |-> action, target |-> target], ids)
              <=> action \in {"ADD", "NOOP"} \/ target \in ids
  /\ \A n \in 2..3 : Cardinality({i \in 1..n : <<"block", i>> \in Range(MergeRequest([j \in 1..n |-> j]).user)}) = n

\* Turns alternate, the last is the user's, the schema is always sent, and a
\* repair shows what was wrong.
TurnsAlternate ==
  \A api \in Apis, hint \in {<<>>, <<"prose", "at line 1">>}, key \in {"", "secret"} :
    LET body == Body(api, DigestRequest("coding", <<1>>), hint, key)
        turns == body.turns
        first == IF turns[1].role = "system" THEN 2 ELSE 1
    IN /\ api = "openai-compat" => <<"authorization", "">> \notin body.headers
       /\ body.schemaIn # {} /\ Last(turns).role = "user"
       /\ \A i \in first..Len(turns) : turns[i].role = (IF (i - first) % 2 = 0 THEN "user" ELSE "assistant")
       /\ hint # <<>> => \E i \in first..Len(turns) : turns[i] = Turn("assistant", "prose")

Http(status, text, stop) ==
  [status |-> status, json |-> TRUE, error |-> FALSE, text |-> text, stop |-> stop]
Responses == {Http(200, "json", "end"), Http(200, "prose", "end"), Http(200, "none", "length"),
              Http(200, "prose", "length"), Http(429, "none", "end"), Http(401, "none", "end"),
              Http(503, "none", "end"), Http(0, "timeout", "end"),
              [Http(200, "none", "end") EXCEPT !.json = FALSE],
              [Http(200, "none", "end") EXCEPT !.error = TRUE]}

\* However a provider behaves, a call ends after a bounded number of requests;
\* one that cannot go better is not made again, one that may is; and an answer
\* is of the last response.  It waits once for each transient failure it tries
\* again after, twice as long each time: not before a repair, nor when it gives
\* up.  A reply that was cut off is no answer of one that says so.
CallsAreBounded ==
  \A api \in Apis, one, two, three \in Responses :
    LET fine == Http(200, "json", "end")
        replies == [i \in 1..2 * ChatAttempts |->
                      ReplyOf(api, CASE i = 1 -> one [] i = 2 -> two [] i = 3 -> three [] OTHER -> fine)]
        call == Completed(replies)
    IN /\ call.used \in 1..2 * ChatAttempts
       /\ \A i \in 1..call.used - 1 : replies[i] \in Transient \cup {"prose"}
       /\ replies[1] \in Transient /\ ChatAttempts > 1 => call.used > 1
       /\ (call.result = "answer") = (replies[call.used] \in Readable)
       /\ LET again == Cardinality({i \in 1..call.used - 1 : replies[i] \in Transient}) IN
            call.waited = InitialBackoff * (2^again - 1)
       /\ one.status = 200 /\ one.stop = "length" /\ api = "openai-compat" => call.used = 1 /\ call.result = "permanent"

RequestsAreSound == MaterialIsFenced /\ OfferedIsUsed /\ TurnsAlternate /\ CallsAreBounded
=============================================================================
