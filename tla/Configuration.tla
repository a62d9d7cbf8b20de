--------------------------- MODULE Configuration ---------------------------
(***************************************************************************)
(* AppConfig: built-in defaults, under a TOML file, under RECUERDOS_AI_*   *)
(* variables; the problems that refuse the result, and the settings of the *)
(* file that are ignored with a warning.                                   *)
(*                                                                         *)
(* A section is the tuple of names in its header, a configuration gives    *)
(* every section a record.  Fractions are in hundredths.  A file is        *)
(* [typed, sets]: whether every value has the type of its setting, and the *)
(* sections, known or not, with the keys it sets in them.                  *)
(***************************************************************************)
EXTENDS Integers, Sequences, FiniteSets, TLC

NoSetting == -7777   \* an optional setting that is not set
NaN == -1000         \* like a negative number, it is in no range

Server == <<"server">>              Mcp == <<"server", "mcp">>
RateLimit == <<"rate_limit">>       Storage == <<"storage">>
Embeddings == <<"embeddings">>      Understanding == <<"understanding">>
Taxonomy == <<"understanding", "taxonomy">>
Consolidation == <<"consolidation">>
Budget == <<"consolidation", "budget">>
Retrieval == <<"retrieval">>        Graph == <<"graph">>
Backfill == <<"graph", "backfill_budget">>
Rerank == <<"rerank">>              Auth == <<"auth">>

ServerDefaults ==
  (Server :> [host |-> "127.0.0.1", port |-> 7070, ingest_timeout_secs |-> 180])
  @@ (Mcp :> [stdio |-> TRUE, http |-> TRUE, allowed_hosts |-> {}])

RateLimitDefaults ==
  RateLimit :> [enabled |-> TRUE, requests_per_minute |-> 300, burst |-> 60,
                trust_proxy |-> FALSE]

StorageDefaults == Storage :> [backend |-> "embedded", path |-> "~/.recuerdos-ai/data"]

EmbeddingsDefaults ==
  Embeddings :> [provider |-> "local", model |-> "bge-small-en-v1.5",
                 cache_dir |-> "~/.recuerdos-ai/models", api_key_env |-> "",
                 base_url |-> "", max_batch_size |-> 0, document_text |-> "content",
                 query_instruction |-> ""]

UnderstandingDefaults ==
  (Understanding :> [provider |-> "none", model |-> "claude-haiku-4-5",
                     api_key_env |-> "ANTHROPIC_API_KEY", base_url |-> "",
                     reconcile |-> TRUE, workers |-> 2, max_attempts |-> 3])
  @@ (Taxonomy :> [extra_categories |-> {}])

NightlyBudget == [max_llm_calls |-> 100, max_duration_secs |-> 300, max_memories |-> 5000]

ConsolidationDefaults ==
  (Consolidation :> [enabled |-> TRUE, schedule |-> "daily", similarity_threshold |-> 92])
  @@ (Budget :> NightlyBudget)

RetrievalDefaults ==
  Retrieval :> [hybrid |-> TRUE, default_limit |-> 8, recency_half_life_days |-> 90,
                min_relevance |-> 25, relevance_weight |-> 50,
                similarity_baseline |-> NoSetting]

GraphDefaults ==
  (Graph :> [enabled |-> TRUE, extract_relations |-> TRUE, max_hops |-> 2,
             hop_limit |-> 50, rank_weight |-> 30, unanchored_floor |-> 3,
             expansion_slots |-> 1])
  @@ (Backfill :> NightlyBudget)

RerankDefaults ==
  Rerank :> [mode |-> "off", model |-> "bge-reranker-base", depth |-> 10,
             strategy |-> "rrf", weight |-> 100, timeout_ms |-> 250,
             max_concurrency |-> 1, batch_size |-> 16]

AuthDefaults == Auth :> [mode |-> "api-key"]

Defaults ==
  ServerDefaults @@ RateLimitDefaults @@ StorageDefaults @@ EmbeddingsDefaults
  @@ UnderstandingDefaults @@ ConsolidationDefaults @@ RetrievalDefaults
  @@ GraphDefaults @@ RerankDefaults @@ AuthDefaults

Settings == UNION {{<<s, k>> : k \in DOMAIN Defaults[s]} : s \in DOMAIN Defaults}

-----------------------------------------------------------------------------
(* validate: the settings it complains about.                              *)

IsBlank(text) == text \in {"", " "}

\* trim and to_ascii_lowercase, on the spellings a file may have.
Folded(text) ==
  LET Spellings == [Daily |-> "daily", Enriched |-> "enriched", On |-> "on",
                    None |-> "none"]
  IN IF text \in DOMAIN Spellings THEN Spellings[text] ELSE text

Backends == {"embedded", "postgres", "qdrant"}
EmbeddingsProviders == {"local", "gemini", "openai-compat", "ollama"}
UnderstandingProviders == {"anthropic", "openai-compat", "gemini", "ollama", "none"}
DocumentTexts == {"content", "enriched"}
Schedules == {"hourly", "daily", "weekly"}
AuthModes == {"api-key", "none"}
MaxGraphExpansionSlots == 3

\* resolve_model of the reranker: any path to a model file, or a model that is
\* built in, by its short name or by its repository; {} if it is neither.
BuiltInRerankers ==
  LET Names == [base |-> {"bge-reranker-base", "baai/bge-reranker-base"},
                m3 |-> {"bge-reranker-v2-m3", "rozgo/bge-reranker-v2-m3"},
                turbo |-> {"jina-reranker-v1-turbo-en", "jinaai/jina-reranker-v1-turbo-en"},
                multilingual |-> {"jina-reranker-v2-base-multilingual",
                                  "jinaai/jina-reranker-v2-base-multilingual"}]
  IN [n \in UNION {Names[m] : m \in DOMAIN Names} |-> CHOOSE m \in DOMAIN Names : n \in Names[m]]
ModelFiles == {"mine.onnx"}
ResolveModel(name) ==
  LET n == Folded(name)
  IN IF n \in ModelFiles THEN {[file |-> n]}
     ELSE IF n \in DOMAIN BuiltInRerankers THEN {[repo |-> BuiltInRerankers[n]]} ELSE {}

Zero(c, s, keys) == {<<s, k>> : k \in {j \in keys : c[s][j] = 0}}
Empty(c, s, keys) == {<<s, k>> : k \in {j \in keys : IsBlank(c[s][j])}}
Unless(holds, s, k) == IF holds THEN {} ELSE {<<s, k>>}

ServerIssues(c) ==
  Empty(c, Server, {"host"}) \cup Zero(c, Server, {"port", "ingest_timeout_secs"})
  \cup (IF c[RateLimit].enabled
        THEN Zero(c, RateLimit, {"requests_per_minute", "burst"}) ELSE {})
  \cup Unless(c[Storage].backend \in Backends, Storage, "backend")
  \cup Empty(c, Storage, {"path"})

ModelIssues(c) ==
  LET e == c[Embeddings]
      u == c[Understanding]
  IN Unless(e.provider \in EmbeddingsProviders, Embeddings, "provider")
     \cup Empty(c, Embeddings, {"model"})
     \cup (IF e.provider = "local" THEN Empty(c, Embeddings, {"cache_dir"}) ELSE {})
     \cup Unless(Folded(e.document_text) \in DocumentTexts, Embeddings, "document_text")
     \cup Unless(u.provider \in UnderstandingProviders, Understanding, "provider")
     \cup (IF u.provider # "none" THEN Empty(c, Understanding, {"model"}) ELSE {})
     \cup Zero(c, Understanding, {"workers", "max_attempts"})

RecallIssues(c) ==
  LET r == c[Retrieval]
      g == c[Graph]
  IN Unless(Folded(c[Consolidation].schedule) \in Schedules, Consolidation, "schedule")
     \cup Unless(c[Consolidation].similarity_threshold \in 0..100,
                 Consolidation, "similarity_threshold")
     \cup Zero(c, Retrieval, {"default_limit", "recency_half_life_days"})
     \cup Unless(r.min_relevance \in 0..100, Retrieval, "min_relevance")
     \cup Unless(r.relevance_weight \in 0..50, Retrieval, "relevance_weight")
     \cup Unless(r.similarity_baseline \in 0..99 \cup {NoSetting},
                 Retrieval, "similarity_baseline")
     \cup (IF g.enabled
           THEN Zero(c, Graph, {"max_hops", "hop_limit"})
                \cup Unless(g.expansion_slots <= MaxGraphExpansionSlots, Graph, "expansion_slots")
                \cup Unless(g.rank_weight >= 0, Graph, "rank_weight")
           ELSE {})

RerankIssues(c) ==
  LET r == c[Rerank] IN
  Unless(r.mode \in {"off", "shadow", "on"}, Rerank, "mode")
  \cup Unless(r.strategy \in {"rrf", "replace"}, Rerank, "strategy")
  \cup Zero(c, Rerank, {"depth", "timeout_ms", "max_concurrency", "batch_size"})
  \cup Unless(r.weight >= 0, Rerank, "weight")
  \cup Unless(r.mode = "off" \/ ResolveModel(r.model) # {}, Rerank, "model")
  \cup Unless(c[Auth].mode \in AuthModes, Auth, "mode")

Issues(c) == ServerIssues(c) \cup ModelIssues(c) \cup RecallIssues(c) \cup RerankIssues(c)

-----------------------------------------------------------------------------
(* What the file says that nothing reads.                                  *)

OptionalUnsetKeys == {<<Retrieval, "similarity_baseline">>}

\* The defaults as they are written out, where an option that is None does not
\* appear.
Written == Settings \ {<<Retrieval, "similarity_baseline">>}

Known == Written \cup OptionalUnsetKeys

IsKnown(s, k) == <<s, k>> \in Known

Headers(s) == {SubSeq(s, 1, n) : n \in 1..Len(s)}

\* The other sections that have the key, of those the outermost.
Homes(s, k) ==
  LET others == {sk[1] : sk \in {o \in Known : o[2] = k /\ o[1] # s}}
  IN {o \in others : \A p \in others : Len(o) <= Len(p)}

\* A section nobody knows is one message, whatever is in it.
ReportOf(s, keys) ==
  LET unknown == {p \in Headers(s) : p \notin DOMAIN Defaults}
  IN IF unknown # {}
     THEN {[section |-> CHOOSE p \in unknown : \A q \in unknown : Len(p) <= Len(q),
            key |-> "", homes |-> {}]}
     ELSE {[section |-> s, key |-> k, homes |-> IF s = <<>> THEN {} ELSE Homes(s, k)] :
           k \in {j \in keys : ~IsKnown(s, j)}}

UnrecognisedKeys(file) ==
  UNION {ReportOf(s, DOMAIN file.sets[s]) : s \in DOMAIN file.sets}

-----------------------------------------------------------------------------
(* load.                                                                   *)

NoFile == [typed |-> TRUE, sets |-> <<>>]

Over(c, sets) ==
  [s \in DOMAIN c |->
     [k \in DOMAIN c[s] |->
        IF s \in DOMAIN sets /\ k \in DOMAIN sets[s] THEN sets[s][k] ELSE c[s][k]]]

\* --config, or else RECUERDOS_AI_CONFIG; a file that is not there is no error.
FileOf(explicit, variable, files) ==
  LET path == IF explicit # "" THEN explicit ELSE variable
  IN IF ~IsBlank(path) /\ path \in DOMAIN files THEN files[path] ELSE NoFile

\* All issues at once; the warnings only once nothing is wrong.
Load(explicit, variable, files, sets) ==
  LET file == FileOf(explicit, variable, files)
      c == Over(Over(Defaults, file.sets), sets)
  IN IF ~file.typed THEN [config |-> Defaults, issues |-> {<<"parse">>}, warnings |-> {}]
     ELSE [config |-> c, issues |-> Issues(c),
           warnings |-> IF Issues(c) = {} THEN UnrecognisedKeys(file) ELSE {}]

\* external: recuerdos-ai.example.toml, the defaults and one option that has none.
ExampleConfig ==
  [typed |-> TRUE,
   sets |-> [Defaults EXCEPT ![Retrieval] = ("similarity_baseline" :> 50) @@ Defaults[Retrieval]]]

\* run_init: a file is written, and then loaded as any other; nothing that is
\* there is written over.
RunInit(path, files, sets) ==
  IF path \in DOMAIN files THEN [refused |-> {<<"exists">>}, files |-> files]
  ELSE LET written == (path :> ExampleConfig) @@ files
       IN [refused |-> Load(path, "", written, sets).issues, files |-> written]

=============================================================================
