-------------------------- MODULE MCDerivedIndexes --------------------------
(* Two memories of one user and one of another; two pins of different width: *)
(* the default model, and a remote one over enriched texts.                  *)
EXTENDS Operations

MCOwner == [m \in Memories |-> IF m = 3 THEN 2 ELSE 1]
MCDimensions == [m \in Models |-> IF m = 1 THEN LocalWidth ELSE RemoteWidth]
MCPinNamed == [m \in Models |-> IF m = 1 THEN <<"bge-small-en-v1.5", "content">>
                                ELSE <<"gemini-embedding-2", "enriched">>]

\* One setting at a time, each at values on both sides of its checks.
One(s, k, values) == {(s :> (k :> v)) : v \in values}

\* Settings that turn a part on or off, or choose how it is made.
Switches ==
  One(Embeddings, "provider", {"gemini", "openai-compat", "azure"})
  \cup One(Understanding, "provider", {"anthropic", "openai-compat", "ollama", "azure"})
  \cup One(Consolidation, "enabled", {FALSE}) \cup One(Graph, "enabled", {FALSE})
  \cup One(Rerank, "mode", {"shadow", "On"}) \cup One(RateLimit, "enabled", {FALSE})

Singles ==
  Switches
  \cup One(Server, "host", {"", "localhost"}) \cup One(Storage, "backend", {"postgres", "mysql"})
  \cup One(Embeddings, "model", {"gemini-embedding-2", ""})
  \cup One(Embeddings, "api_key_env", {"KEY"}) \cup One(Embeddings, "cache_dir", {""})
  \cup One(Embeddings, "document_text", {"Enriched", "summary"})
  \cup One(Understanding, "api_key_env", {"", "UNSET"}) \cup One(Understanding, "model", {""})
  \cup One(Understanding, "reconcile", {FALSE}) \cup One(Understanding, "workers", {0})
  \cup One(Consolidation, "schedule", {"Daily", "never"})
  \cup One(Retrieval, "relevance_weight", {NaN, 51})
  \cup One(Retrieval, "similarity_baseline", {0, 100})
  \cup One(Graph, "extract_relations", {FALSE}) \cup One(Graph, "max_hops", {0, 3})
  \cup One(Graph, "rank_weight", {NaN})
  \cup One(Rerank, "model", {"bge-reranker-v2-m3", "none-such", "mine.onnx"})
  \cup One(Rerank, "weight", {NaN, 200}) \cup One(Rerank, "depth", {0})
  \cup One(RateLimit, "burst", {0, 10}) \cup One(Auth, "mode", {"none", "open"})

Together(a, b) ==
  [s \in DOMAIN a \cup DOMAIN b |->
     IF s \notin DOMAIN a THEN b[s] ELSE IF s \notin DOMAIN b THEN a[s] ELSE b[s] @@ a[s]]

\* The second pin in full, and every switch with every setting.
RemoteSettings ==
  Embeddings :> [provider |-> "gemini", model |-> "gemini-embedding-2", api_key_env |-> "KEY",
                 document_text |-> "enriched"]
MCOverrides ==
  {<<>>, RemoteSettings} \cup {Together(RemoteSettings, a) : a \in Singles}
  \cup {Together(a, b) : a \in Switches, b \in Singles}

Misplaced ==
  One(Rerank, "min_relevance", {10}) \cup One(Rerank, "max_llm_calls", {1})
  \cup One(<<"typo">>, "port", {1}) \cup One(<<"typo", "mcp">>, "http", {TRUE})
  \cup One(<<>>, "port", {1}) \cup One(Server, "stdio", {TRUE})
MCFiles ==
  LET sets == Singles \cup Misplaced
  IN {[typed |-> TRUE, sets |-> Together(a, b)] : a \in Misplaced, b \in sets}
     \cup {[typed |-> typed, sets |-> a] : a \in sets, typed \in BOOLEAN}

Host(set, network) ==
  [set |-> set, network |-> network, cached |-> {"bge-small-en-v1.5"},
   beside |-> IF network THEN TokenizerFiles ELSE {"config.json"}, taken |-> FALSE]
MCHosts ==
  {Host(set, network) : set \in {{}, {"ANTHROPIC_API_KEY", "KEY"}}, network \in BOOLEAN}
  \cup {[Host({"KEY"}, TRUE) EXCEPT !.taken = TRUE]}

Command(name) ==
  [name |-> name, json |-> FALSE, grid |-> FALSE, baseline |-> FALSE, keywords |-> TRUE,
   model |-> "bge-reranker-base", passes |-> {"entities"}, text |-> FALSE, vectors |-> FALSE,
   audit |-> TRUE, compare |-> FALSE]
MCCommands ==
  {Command(name) : name \in {"serve", "consolidate", "graph backfill", "reindex", "user", "key",
                             "warm-models", "eval", "calibrate", "rerank", "recall", "config", "mcp"}}
  \cup {[Command("eval") EXCEPT !.grid = grid, !.json = TRUE] : grid \in BOOLEAN}
  \cup {[Command("rerank") EXCEPT !.audit = FALSE], [Command("recall") EXCEPT !.compare = TRUE],
         [Command("rerank") EXCEPT !.keywords = FALSE],
         [Command("graph backfill") EXCEPT !.passes = {}]}

=============================================================================
