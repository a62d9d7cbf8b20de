----------------------------- MODULE Deployment -----------------------------
(***************************************************************************)
(* From a configuration to a process: the wiring of the contexts, in the   *)
(* order the commands build them, and what each command leaves of the      *)
(* store when it is refused on the way.                                    *)
(*                                                                         *)
(* A host is [set, network, cached, beside, taken]: the environment        *)
(* variables that hold a value, whether remote providers and downloads     *)
(* answer, the models in the cache, the files beside a model of one's own, *)
(* and whether the port is in use.  A store is [database, pins, width]:    *)
(* whether the file is there, the pins of its collections, the width of    *)
(* the vector table (0 before it exists).  What a step refuses is named by *)
(* what the operator has to put right; {} is success.                      *)
(***************************************************************************)
EXTENDS Configuration

LocalModels == {"bge-small-en-v1.5", "all-minilm-l6-v2"}
LocalWidth == 384
RemoteWidth == 768    \* external: what the probe of a remote model counts

KeyFromEnv(variable, host) == IF variable \in host.set THEN {} ELSE {"key"}

OptionalKey(variable, host) == IF IsBlank(variable) THEN {} ELSE KeyFromEnv(variable, host)

LoadModel(name, host) ==
  IF name \in host.cached \/ host.network THEN {} ELSE {"network"}

LoadLocalEmbedder(name, host) ==
  IF Folded(name) \in LocalModels THEN LoadModel(Folded(name), host) ELSE {"embedding model"}

\* A remote embedder embeds one text before anything is opened.
ProbeRemote(host) == IF host.network THEN {} ELSE {"network"}

Either(first, second) == IF first # {} THEN first ELSE second

BuildProviderEmbedder(c, host) ==
  LET e == c[Embeddings] IN
  CASE e.provider = "local" -> LoadLocalEmbedder(e.model, host)
    [] e.provider = "gemini" ->
         Either(IF IsBlank(e.api_key_env) THEN {"key"} ELSE KeyFromEnv(e.api_key_env, host),
                ProbeRemote(host))
    [] e.provider = "openai-compat" ->
         Either(OptionalKey(e.api_key_env, host), ProbeRemote(host))
    [] e.provider = "ollama" -> ProbeRemote(host)
    [] OTHER -> {"implementation"}

\* DocumentText::pin over the name of the model as it is configured.
PinOf(c) == <<c[Embeddings].model, Folded(c[Embeddings].document_text)>>
WidthOf(c) == IF c[Embeddings].provider = "local" THEN LocalWidth ELSE RemoteWidth

SimilarityBaselines ==
  (<<"bge-small-en-v1.5", "content">> :> 50) @@ (<<"gemini-embedding-2", "content">> :> 46)
  @@ (<<"bge-small-en-v1.5", "enriched">> :> 53)

\* An explicit value, or that of the pin, of the model alone, of no model.
SimilarityBaseline(c) ==
  LET plain == <<c[Embeddings].model, "content">>
      asked == IF PinOf(c) \in DOMAIN SimilarityBaselines THEN PinOf(c) ELSE plain
  IN IF c[Retrieval].similarity_baseline # NoSetting THEN c[Retrieval].similarity_baseline
     ELSE IF asked \in DOMAIN SimilarityBaselines THEN SimilarityBaselines[asked]
     ELSE 50

\* calibrate: where the baseline in force is said to come from.
BaselineSource(c) ==
  CASE c[Retrieval].similarity_baseline # NoSetting -> "explicit"
    [] c[Retrieval].similarity_baseline = NoSetting /\ PinOf(c) \in DOMAIN SimilarityBaselines -> "model"
    [] OTHER -> "uncalibrated"

\* load_user_defined: what has to be beside a model file.
TokenizerFiles ==
  {"tokenizer.json", "config.json", "special_tokens_map.json", "tokenizer_config.json"}

\* load_instance, which goes for every session of the pool.
LoadReranker(name, host) ==
  LET resolved == ResolveModel(name)
  IN IF resolved = {} THEN {"rerank model"}
     ELSE IF resolved = {[file |-> Folded(name)]}
     THEN IF TokenizerFiles \subseteq host.beside THEN {} ELSE {"model files"}
     ELSE LoadModel(Folded(name), host)

\* FastembedReranker::load: never a pool of nothing, nor an empty run.
Pool(c, sessions) ==
  [model |-> ResolveModel(c[Rerank].model), sessions |-> IF sessions = 0 THEN 1 ELSE sessions,
   batch |-> IF c[Rerank].batch_size = 0 THEN 1 ELSE c[Rerank].batch_size]

\* Off loads nothing; the model comes from the cache of the embeddings.
BuildReranker(c, host) ==
  LET r == c[Rerank] IN
  CASE Folded(r.mode) = "off" -> {}
    [] Folded(r.mode) \in {"shadow", "on"} ->
         LoadReranker(r.model, host)
    [] OTHER -> {"implementation"}

BuildChatModel(c, host) ==
  LET u == c[Understanding] IN
  CASE u.provider \in {"none", "ollama"} -> {}
    [] u.provider \in {"anthropic", "gemini"} -> KeyFromEnv(u.api_key_env, host)
    [] u.provider = "openai-compat" -> OptionalKey(u.api_key_env, host)
    [] OTHER -> {"implementation"}

-----------------------------------------------------------------------------
(* What a process is made of.                                              *)

SomeIfNonzero(n) == IF n = 0 THEN {} ELSE {n}

Ranker(c) ==
  [half_life |-> c[Retrieval].recency_half_life_days,
   weight |-> c[Retrieval].relevance_weight, baseline |-> SimilarityBaseline(c)]

\* The entity graph is there if enabled, and with it the hop and its knobs.
GraphPart(c) ==
  IF c[Graph].enabled
  THEN {[hops |-> c[Graph].max_hops, limit |-> c[Graph].hop_limit,
         slots |-> c[Graph].expansion_slots, weight |-> c[Graph].rank_weight,
         floor |-> c[Graph].unanchored_floor]}
  ELSE {}

RerankPart(c) ==
  IF Folded(c[Rerank].mode) = "off" THEN {}
  ELSE {[mode |-> Folded(c[Rerank].mode), pool |-> Pool(c, c[Rerank].max_concurrency),
         depth |-> c[Rerank].depth, timeout |-> c[Rerank].timeout_ms,
         strategy |-> IF Folded(c[Rerank].strategy) = "replace" THEN <<"replace">>
                      ELSE <<"rrf", c[Rerank].weight>>]}

\* Extraction with reconciliation, or else verbatim storage; relations are
\* asked for if there is a graph to put them in.
UnderstandingPart(c) ==
  IF c[Understanding].provider = "none" THEN {}
  ELSE {[provider |-> c[Understanding].provider, model |-> c[Understanding].model,
         reconcile |-> c[Understanding].reconcile,
         relations |-> c[Graph].enabled /\ c[Graph].extract_relations]}

\* The runner is always there; merging needs a model, the timer the switch.
ConsolidationPart(c) ==
  [merges |-> c[Understanding].provider # "none",
   threshold |-> c[Consolidation].similarity_threshold,
   calls |-> SomeIfNonzero(c[Budget].max_llm_calls),
   seconds |-> SomeIfNonzero(c[Budget].max_duration_secs),
   memories |-> SomeIfNonzero(c[Budget].max_memories),
   timer |-> IF c[Consolidation].enabled THEN {Folded(c[Consolidation].schedule)} ELSE {}]

\* serve: what is mounted, and the layers around it.  The gate is outside all
\* of them, the caps are the router's own, and MCP's sessions have none.
Mounted(c) == {"probe", "version", "read", "write"} \cup (IF c[Mcp].http THEN {"mcp"} ELSE {})
Layers(c, route) ==
  [counted |-> c[RateLimit].enabled /\ route # "probe",
   keyed |-> route \notin {"probe", "version"},
   cap |-> CASE route = "write" -> {c[Server].ingest_timeout_secs}
             [] route = "mcp" -> {}
             [] OTHER -> {30}]

\* Gate::new and AuthMode::from_config: what is not "none" requires a key.
SurfacePart(c) ==
  [gate |-> IF c[RateLimit].enabled
            THEN {<<c[RateLimit].requests_per_minute, c[RateLimit].burst,
                    c[RateLimit].trust_proxy>>} ELSE {},
   open |-> c[Auth].mode = "none",
   routes |-> [r \in Mounted(c) |-> Layers(c, r)],
   mcp |-> IF c[Mcp].http THEN {c[Mcp].allowed_hosts} ELSE {},
   ingest |-> c[Server].ingest_timeout_secs]

Process(c) ==
  [ranker |-> Ranker(c), graph |-> GraphPart(c), rerank |-> RerankPart(c),
   understanding |-> UnderstandingPart(c), consolidation |-> ConsolidationPart(c),
   surface |-> SurfacePart(c), workers |-> c[Understanding].workers]

-----------------------------------------------------------------------------
(* The commands.  Each takes a configuration that loaded, a host and a     *)
(* store to what it is refused for and the store it leaves.                *)

Done(refused, store) == [refused |-> refused, store |-> store]

OpenDatabase(store) == [store EXCEPT !.database = TRUE]

\* RecallCore::open: the pins before the vector table.
OpenCore(c, store) ==
  IF store.pins \subseteq {PinOf(c)}
  THEN Done({}, [store EXCEPT !.width = IF store.width = 0 THEN WidthOf(c) ELSE store.width])
  ELSE Done({"pin"}, store)

BuildMemories(c, host, store) ==
  LET refused == Either(BuildProviderEmbedder(c, host), BuildReranker(c, host))
  IN IF refused # {} THEN Done(refused, store) ELSE OpenCore(c, store)

BuildAll(c, host, store) ==
  LET memories == BuildMemories(c, host, OpenDatabase(store))
  IN IF memories.refused # {} THEN memories
     ELSE Done(BuildChatModel(c, host), memories.store)

\* serve: host:port has to be an address, or it panics with everything built;
\* and the port has to be free.
Addresses == {"127.0.0.1", "0.0.0.0", "[::1]"}
Bound(c, host) ==
  IF c[Server].host \notin Addresses THEN {"host"} ELSE IF host.taken THEN {"port"} ELSE {}

RunServe(c, host, store) ==
  LET built == BuildAll(c, host, store)
      refused == IF Folded(c[Consolidation].schedule) \notin Schedules THEN {"implementation"}
                 ELSE Bound(c, host)
  IN IF built.refused # {} THEN built ELSE Done(refused, built.store)

RunConsolidate(c, host, store) == BuildAll(c, host, store)

RunGraphBackfill(c, host, store, passes) ==
  IF passes = {} THEN Done({"flags"}, store) ELSE BuildAll(c, host, store)

\* Mutant of RunReindex: the vectors are computed under the old pin.
RunReindexUnpinned(c, host, store, full, anew) ==
  LET refused == BuildProviderEmbedder(c, host)
      opened == OpenDatabase(store)
      rebuilt == IF anew \/ ~full THEN [opened EXCEPT !.width = WidthOf(c)] ELSE opened
  IN IF refused # {} THEN Done(refused, store)
     ELSE IF ~full THEN Done({}, rebuilt)
     ELSE IF BuildReranker(c, host) # {} THEN Done(BuildReranker(c, host), rebuilt)
     ELSE OpenCore(c, rebuilt)

\* --text (full) and --vectors (anew); neither means vectors.  The embedder
\* comes first: refused, nothing is touched.  The vectors come before the text,
\* which opens the store.
RunReindex(c, host, store, full, anew) ==
  LET refused == BuildProviderEmbedder(c, host)
      opened == OpenDatabase(store)
      rebuilt == IF anew \/ ~full
                 THEN [opened EXCEPT !.width = WidthOf(c),
                                     !.pins = {PinOf(c) : p \in store.pins}]
                 ELSE opened
  IN IF refused # {} THEN Done(refused, store)
     ELSE IF ~full THEN Done({}, rebuilt)
     ELSE IF BuildReranker(c, host) # {} THEN Done(BuildReranker(c, host), rebuilt)
     ELSE OpenCore(c, rebuilt)

\* The commands on users and keys need the database alone.
RunUserOrKey(store) == Done({}, OpenDatabase(store))

\* The local embedder, whatever the provider is, and the reranker unless off.
RunWarmModels(c, host) ==
  Either(LoadLocalEmbedder(c[Embeddings].model, host),
         IF c[Rerank].mode = "off" THEN {} ELSE BuildReranker(c, host))

-----------------------------------------------------------------------------
(* The commands that measure, over a store of their own or reading the one *)
(* that is there, and the command line.                                    *)

\* eval, and its grid over other models, with flags of its own.
RunEval(cmd, c, host) ==
  IF (cmd.json /\ ~cmd.grid) \/ (cmd.grid /\ cmd.baseline) THEN {"flags"}
  ELSE Either(Either(BuildProviderEmbedder(c, host), BuildReranker(c, host)),
              IF cmd.grid THEN LoadReranker(cmd.model, host) ELSE {})

RunCalibrate(c, host) == BuildProviderEmbedder(c, host)

\* Whatever the mode is: it is there to decide it.
RunDistribution(c, host) == LoadReranker(c[Rerank].model, host)

\* refuse_a_different_store.
ReadSameStore(c, d) ==
  /\ \A k \in {"model", "document_text", "query_instruction"} : c[Embeddings][k] = d[Embeddings][k]
  /\ c[Storage].path = d[Storage].path

\* The sides as configured, or the stage forced off and on, whatever the mode.
AuditSides(c, compared, host) ==
  IF compared = {} THEN LoadReranker(c[Rerank].model, host)
  ELSE IF ~(\A d \in compared : ReadSameStore(c, d)) THEN {"other store"}
  ELSE Either(BuildReranker(c, host), UNION {BuildReranker(d, host) : d \in compared})

\* Without a keyword index there would be nothing to fall back from.
AssembleRecallBase(c, store, keywords) ==
  LET core == OpenCore(c, store)
  IN IF core.refused = {} /\ ~keywords THEN Done({"keywords"}, core.store) ELSE core

\* One embedder for both sides, and the store opened for reading.
RunAudit(c, compared, host, store, keywords) ==
  LET opened == OpenDatabase(store)
      refused == Either(BuildProviderEmbedder(c, host), AuditSides(c, compared, host))
  IN IF refused # {} THEN Done(refused, opened) ELSE AssembleRecallBase(c, opened, keywords)

\* recall audit: without another configuration, this one on both sides.
RunRecall(cmd, c, d, host, store) ==
  RunAudit(c, IF cmd.compare THEN {d} ELSE {c}, host, store, cmd.keywords)

\* rerank audit and rerank distribution.
RunRerank(cmd, c, host, store) ==
  IF cmd.audit THEN RunAudit(c, {}, host, store, cmd.keywords)
  ELSE Done(RunDistribution(c, host), store)

\* main, after the configuration loaded; d is that of --compare-config.
Run(cmd, c, d, host, store) ==
  CASE cmd.name = "serve" -> RunServe(c, host, store)
    [] cmd.name = "consolidate" -> RunConsolidate(c, host, store)
    [] cmd.name = "graph backfill" -> RunGraphBackfill(c, host, store, cmd.passes)
    [] cmd.name = "reindex" -> RunReindex(c, host, store, cmd.text, cmd.vectors)
    [] cmd.name \in {"user", "key"} -> RunUserOrKey(store)
    [] cmd.name = "warm-models" -> Done(RunWarmModels(c, host), store)
    [] cmd.name = "eval" -> Done(RunEval(cmd, c, host), store)
    [] cmd.name = "calibrate" -> Done(RunCalibrate(c, host), store)
    [] cmd.name = "rerank" -> RunRerank(cmd, c, host, store)
    [] cmd.name = "recall" -> RunRecall(cmd, c, d, host, store)
    [] cmd.name \in {"config", "mcp"} -> Done({}, store)

-----------------------------------------------------------------------------
(* What `config` shows.                                                    *)

\* A key by the variable that holds it, without its value.
KeyStatus(variable, host) ==
  IF IsBlank(variable) THEN "none" ELSE IF variable \in host.set THEN "set" ELSE "not set"

ShownProvider(s, host) ==
  [base_url |-> IF IsBlank(s.base_url) THEN "(provider default)" ELSE s.base_url,
   api_key |-> <<IF IsBlank(s.api_key_env) THEN "" ELSE s.api_key_env,
                 KeyStatus(s.api_key_env, host)>>]

Picked(s, keys) == [k \in keys |-> s[k]]
When(holds, said) == IF holds THEN {said} ELSE {}

\* run_config: of a part that is off, that it is off and no more.
Shown(c, host) ==
  LET e == c[Embeddings]
      u == c[Understanding]
      r == c[Retrieval]
  IN [embeddings |->
        <<Picked(e, {"provider", "model", "document_text", "query_instruction"}),
          When(e.provider = "local", Picked(e, {"cache_dir"})),
          When(e.provider # "local", ShownProvider(e, host))>>,
      understanding |->
        <<u.provider, When(u.provider # "none", Picked(u, {"model", "reconcile"})),
          When(u.provider # "none", ShownProvider(u, host))>>,
      consolidation |-> When(c[Consolidation].enabled, c[Consolidation].schedule),
      retrieval |->
        <<Picked(r, {"hybrid", "default_limit", "recency_half_life_days", "min_relevance",
                     "relevance_weight"}),
          SimilarityBaseline(c), r.similarity_baseline # NoSetting>>,
      rerank |->
        <<c[Rerank].mode, When(c[Rerank].mode # "off",
            Picked(c[Rerank], {"model", "depth", "strategy", "weight", "timeout_ms",
                               "max_concurrency", "batch_size"}))>>,
      graph |->
        When(c[Graph].enabled, Picked(c[Graph], {"max_hops", "hop_limit", "rank_weight",
                                                 "unanchored_floor", "expansion_slots"})),
      server |-> <<Picked(c[Server], {"host", "port"}), Picked(c[Mcp], {"http", "stdio"})>>,
      storage |-> c[Storage], auth |-> c[Auth]]

=============================================================================
