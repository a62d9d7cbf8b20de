----------------------------- MODULE Operations -----------------------------
(***************************************************************************)
(* The store of DerivedIndexes under the commands of Deployment and the    *)
(* providers of Embedders: what an operator meets who starts the daemon    *)
(* over the store as any run of it was left.                               *)
(***************************************************************************)
EXTENDS DerivedIndexes, Deployment, Embedders

CONSTANTS
  PinNamed,   \* the pin each of Models stands for
  Overrides,  \* what operators set
  Edits,      \* and change afterwards
  Files,      \* what they write into a file
  Hosts,      \* the hosts they start it on
  Commands,   \* command lines
  Batch       \* BATCH of the reindexer

ASSUME OperationsAssumption ==
  /\ Batch \in Nat \ {0} /\ MaxBatch \in Nat \ {0}
  /\ PinNamed \in [Models -> {PinOf(Over(Defaults, sets)) : sets \in Overrides}]

Configurations == {Over(Defaults, sets) : sets \in Overrides}

Accepted == {c \in Configurations : Issues(c) = {}}

-----------------------------------------------------------------------------
(* Starting and repairing.                                                 *)

Stores ==
  {[database |-> TRUE, pins |-> pins, width |-> w] :
     pins \in SUBSET {PinNamed[m] : m \in Models},
     w \in {0} \cup {Dimensions[m] : m \in Models}}

StoreNow ==
  [database |-> TRUE, pins |-> {PinNamed[pinned[u]] : u \in {v \in Users : pinned[v] # None}},
   width |-> width]

\* A host with the network and every variable the configuration names.
Complete(c, host) ==
  /\ host.network /\ TokenizerFiles \subseteq host.beside
  /\ c[Embeddings].api_key_env \in host.set \cup {""}
  /\ c[Understanding].api_key_env \in host.set

\* What validation cannot know: keys, names of embedding models, the network,
\* that Gemini needs a key at all, what is beside a model file, that the host
\* is not an address, and the port.
Told == {"key", "embedding model", "network", "model files", "host", "port", "pin"}

\* The commands that only look.
Looking == {cmd \in Commands : cmd.name \notin {"reindex", "serve", "user", "key"}}

\* A model that nobody asks for is not validated, but audits do ask for it.
Unread(c) == IF Folded(c[Rerank].mode) = "off" THEN {"rerank model"} ELSE {}

StartsRight(c, host, store) ==
  LET start == RunServe(c, host, store)
      mend == RunReindex(c, host, store, FALSE, FALSE)
      again == RunServe(c, host, mend.store)
  IN /\ start.refused \subseteq Told
     /\ mend.refused # {} => mend.store = store
     /\ mend.refused = {} =>
          /\ "pin" \notin again.refused
          /\ again.store.width = WidthOf(c)
     /\ Complete(c, host) /\ start.refused = {"pin"} =>
          mend.refused = {} /\ again.refused \subseteq {"host", "port"}
     /\ \A cmd \in Looking :
          LET look == Run(cmd, c, Defaults, host, store)
          IN /\ look.refused \subseteq Told \cup {"flags", "other store", "keywords"} \cup Unread(c)
             /\ RunServe(c, host, look.store) = start

\* By store, as every start over one goes alike.
StartableStores ==
  {store \in Stores : \A c \in Accepted, host \in Hosts : StartsRight(c, host, store)}

\* In whatever state a run of the daemon, or of any command, left the store, a
\* configuration that validation accepts starts it, or is refused for what only
\* the host can tell; the arms of the wiring for values that validation refuses
\* are not reached (understanding_wiring.rs: "Unreachable via AppConfig::load").
\* A store built by other settings is refused with the advice to reindex, and
\* `reindex` then leads to a start with vectors of the configured width; or it
\* is refused before a single vector is touched.  Looking, measuring and
\* passes over what is stored change nothing for the next start (main.rs: an
\* audit "writes nothing", an eval never touches the configured store).
AcceptedConfigurationsServe == proc = "down" => StoreNow \in StartableStores

-----------------------------------------------------------------------------
(* Parts that are off.                                                     *)

\* The settings nobody reads, as long as their part is off.
Idle(c) ==
  (IF c[Graph].enabled THEN {} ELSE {<<Graph, k>> : k \in DOMAIN c[Graph] \ {"enabled"}})
  \cup (IF c[Rerank].mode # "off" THEN {} ELSE {<<Rerank, k>> : k \in DOMAIN c[Rerank] \ {"mode"}})
  \cup (IF c[RateLimit].enabled THEN {}
        ELSE {<<RateLimit, k>> : k \in DOMAIN c[RateLimit] \ {"enabled"}})
  \cup (IF c[Understanding].provider # "none" THEN {}
        ELSE {<<Understanding, k>> : k \in {"model", "api_key_env", "reconcile"}})
  \cup (IF c[Consolidation].enabled THEN {} ELSE {<<Consolidation, "schedule">>})

\* Accepted with any of the names in the list, shown, and read by nothing: the
\* store is the embedded one whatever it says.
Unheeded == {<<Storage, "backend">>}

DifferOnlyIn(c, d, sks) ==
  \A sk \in Settings \ sks : c[sk[1]][sk[2]] = d[sk[1]][sk[2]]

IdleIsInert ==
  \A c \in Accepted, sets \in Edits :
    LET d == Over(c, sets) IN
    d # c /\ Issues(d) = {} /\ DifferOnlyIn(c, d, Idle(c) \cup Unheeded) =>
      /\ Process(d) = Process(c)
      /\ \A host \in Hosts, store \in Stores : RunServe(d, host, store) = RunServe(c, host, store)

\* What `config` leaves out though a process depends on it.
Unshown ==
  {<<Graph, "extract_relations">>, <<Consolidation, "similarity_threshold">>,
   <<Mcp, "allowed_hosts">>, <<Server, "ingest_timeout_secs">>, <<Understanding, "workers">>}
  \cup {sk \in Settings : sk[1] \in {RateLimit, Budget}}

\* Of two configurations that differ in what decides the process, `config`
\* shows the difference, but for the settings above; and it shows none where
\* only parts that are off differ. A baseline that `calibrate` does not call
\* uncalibrated is the one that was set, or measured for this very pin.
ShownIsTrue ==
  \A c \in Accepted, sets \in Edits, host \in Hosts :
    LET d == Over(c, sets) IN
    d # c /\ Issues(d) = {} =>
      /\ BaselineSource(d) # "uncalibrated" =>
           \/ SimilarityBaseline(d) = d[Retrieval].similarity_baseline
           \/ SimilarityBaseline(d) = SimilarityBaselines[PinOf(d)]
      /\ DifferOnlyIn(c, d, Idle(c)) => Shown(c, host) = Shown(d, host)
      /\ Process(c) # Process(d) =>
           \/ Shown(c, host) # Shown(d, host)
           \/ \E sk \in Unshown : c[sk[1]][sk[2]] # d[sk[1]][sk[2]]

\* A part that is switched off is not there: whatever its other settings say,
\* the process is made of the same parts and starts, or is refused, alike
\* (memories_wiring.rs: an off deployment "never touches the network, loads a
\* model, or pays startup cost"; config.rs: relations are asked for only "if
\* there is a graph"), and `config` says that it is off and no more (main.rs:
\* the report answers "what is the daemon actually doing").
OffIsInert == proc = "down" => IdleIsInert /\ ShownIsTrue

-----------------------------------------------------------------------------
(* Settings of a file.                                                     *)

Warned(load, s, k) ==
  \E w \in load.warnings : IF w.key = "" THEN w.section \in Headers(s)
                           ELSE w.section = s /\ w.key = k

EachIsHeard(file) ==
  LET load == Load("file", "", "file" :> file, <<>>) IN
  load.issues = {} =>
    /\ \A s \in DOMAIN file.sets : \A k \in DOMAIN file.sets[s] :
         IF <<s, k>> \in Settings
         THEN load.config[s][k] = file.sets[s][k] /\ ~Warned(load, s, k)
         ELSE Warned(load, s, k)
    /\ \A w \in load.warnings : \A home \in w.homes : <<home, w.key>> \in Settings

AllAreHeard == \A file \in Files : EachIsHeard(file)

\* The file that init writes is heard in full and says what the defaults say,
\* and init does not write over it; if the environment makes it be refused, the
\* file is there all the same.
InitIsSafe ==
  \A sets \in Edits :
    LET first == RunInit("new", <<>>, sets)
        load == Load("new", "", first.files, sets)
    IN /\ RunInit("new", first.files, <<>>) = [refused |-> {<<"exists">>}, files |-> first.files]
       /\ first.refused = Issues(Over(Defaults, sets))
       /\ first.refused = {} =>
            /\ load.warnings = {}
            /\ \A sk \in Settings \ OptionalUnsetKeys :
                 load.config[sk[1]][sk[2]] = Over(Defaults, sets)[sk[1]][sk[2]]

\* Of a file that loads, every key either decides its setting, or is warned
\* about as ignored, and never both; and where a warning names another section,
\* the key works there (config.rs: through v0.4.0 everyone who copied the
\* example "tuned two knobs that did nothing and heard no complaint").
EverySettingIsHeard == proc = "down" => AllAreHeard /\ InitIsSafe

\* What validation accepts starts, or is refused for what only the host can tell;
\* a part that is off is not there; and every key of a file is read into its
\* setting or complained about (config.rs, memories_wiring.rs,
\* understanding_wiring.rs, main.rs).  Not all that is read is honoured, and the
\* exceptions are part of this: a storage backend other than the embedded one is
\* accepted and makes no difference (Unheeded; config.rs:137, 871), and a host
\* that is a name is accepted, and `serve` panics over it with everything built
\* ("host" in Told).
ConfigurationIsHonoured == AcceptedConfigurationsServe /\ OffIsInert /\ EverySettingIsHeard

-----------------------------------------------------------------------------
(* Vectors of texts.                                                       *)

Kinds == {"placed", "ordered", "short", "busy", "refused", "silent"}

\* How Ollama and Gemini may answer: their rows have no places.
Possible(api, kind) == kind = "placed" => api = "openai-compat"

Embed(api, kind, cap, texts, task) ==
  CASE api = "local" -> EmbedLocal(kind, texts)
    [] api = "gemini" -> EmbedGemini(kind, texts, task)
    [] OTHER -> EmbedRemote(api, kind, texts, cap)

\* SqliteReindexer: in batches, each checked to be as long as it should.
EmbedAll(api, kind, cap, texts) ==
  LET batches == Chunks(texts, Batch)
      checked(ts) == LET result == Embed(api, kind, cap, ts, "document")
                     IN IF result.error = "none" /\ Len(result.vectors) # Len(ts)
                        THEN Wrong("retry") ELSE result
  IN InTurn([i \in DOMAIN batches |-> checked(batches[i])])

Aligned(texts) ==
  \A api \in {"local", "gemini", "openai-compat", "ollama"} :
  \A kind \in {k \in Kinds : Possible(api, k)}, cap \in 0..2 :
    LET all == EmbedAll(api, kind, cap, texts)
    IN all.error = "none" =>
         /\ Len(all.vectors) = Len(texts)
         /\ \A i \in DOMAIN texts : all.vectors[i].of = texts[i]
         /\ api = "gemini" => \A i \in DOMAIN texts : all.vectors[i].task = "document"

\* A client that was loaded is one that answers, with a width.
LoadsAreProbed ==
  \A api \in {"gemini", "openai-compat", "ollama"}, key \in {"", "secret"} :
  \A kind \in {k \in Kinds : Possible(api, k)} :
    LET probe == Embed(api, kind, 0, <<"dimension probe">>, "document")
        client == Loaded(api, key, probe)
    IN client.error = "none" => Len(client.vectors) = 1 /\ (api = "gemini" => key # "")

AlignedLists == {texts \in {SetToSeq(of) : of \in SUBSET Memories} : Aligned(texts)}

\* When the memories that are there are embedded again, each gets the vector of
\* its own text, however the provider orders and the clients split and join
\* the requests; or the whole of it is an error.  No caller of a client waits
\* for ever, nor does its owner when it lets go of it.
EveryTextGetsItsVector ==
  proc = "down" =>
    /\ SetToSeq({m \in Memories : Live(m)}) \in AlignedLists
    /\ LoadsAreProbed /\ WorkersLetGo

=============================================================================
