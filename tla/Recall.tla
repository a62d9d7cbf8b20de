------------------------------- MODULE Recall -------------------------------
(***************************************************************************)
(* A recall from the query to the answer (MemoryRecaller::execute_with):   *)
(* three indexes are asked, the memories they name fetched, filtered and   *)
(* ranked, the best of them judged by a second stage, and the graph's      *)
(* places kept.  Beside it memories are superseded and forgotten: first    *)
(* the row, then the vector, then the keywords (MemoryForgetter).          *)
(*                                                                         *)
(* How the second stage ends is RerankStage's matter: here it may end in   *)
(* any way that module allows.                                             *)
(***************************************************************************)
EXTENDS Integers, Sequences, SequencesExt, Ranking

CONSTANTS
  Memories,    \* memory ids
  About,       \* what each is: created, expires (0 is never), decay, worth, category, ...
  Similarity, Weight,                        \* what two of the legs say of each
  Mentions, Edges, Keys, KeyOf, Predicates,  \* the entity graph
  Words,       \* the words of the query
  KeyOfRun,    \* the key that each run of them comes to
  Queries,     \* what else it may ask
  Rankers,     \* settings of the ranker (RecallRanker)
  MaxHops, HopLimit, SlotCounts,
  Depth, Chunk,  \* rerank.depth, rerank.batch_size
  Modes,
  Opinions,    \* what the model may think of each memory, in percent
  Changing,    \* memories that are superseded or forgotten meanwhile
  MaxFaults    \* bound: steps that fail

\* The user, and the time of the recall.
GraphOf == INSTANCE EntityGraph WITH
  Users <- {1}, Names <- DOMAIN KeyOf, mentions <- Mentions, edges <- Edges
Now == 100

ASSUME RecallAssumption ==
  /\ IsFiniteSet(Memories) /\ Memories \subseteq Nat \ {0} /\ IsFiniteSet(Edges)
  /\ \A e \in Edges : GraphOf!Ends(e) \subseteq Keys
  /\ \A m \in Memories :
       /\ About[m].id = m
       /\ {About[m].created, About[m].expires, About[m].decay, About[m].worth, Weight[m]}
            \subseteq Nat
       /\ Similarity[m] \in Int
  /\ Rankers \subseteq RankerType
  /\ {Depth, MaxHops, HopLimit, MaxFaults} \cup SlotCounts \subseteq Nat
  /\ Chunk \in Nat \ {0}
  /\ \A q \in Queries : q.limit \in 1..50 /\ q.floor \in 0..100 /\ q.since \in Nat
  /\ Modes \subseteq {"off", "shadow", "on"}
  /\ Opinions \subseteq [Memories -> 1..100]

VARIABLES
  row, invector, intext, forgetting, touched,    \* the store
  query, ranker, slots, mode, opinion,           \* what Init picks
  stage, vector, keyword, hop, ranked, judged, trace, results,  \* the recall
  faults,
  gone                                           \* history: gone when it began

store   == <<row, invector, intext, forgetting, touched>>
picked  == <<query, ranker, slots, mode, opinion>>
legs    == <<vector, keyword, hop>>
vars    == <<store, picked, stage, legs, ranked, judged, trace, results, faults, gone>>

None == "none"
NoTrace == [kind |-> None, candidates |-> 0, judged |-> 0, changed |-> FALSE]

TypeOK ==
  /\ row \in [Memories -> {"active", "superseded", "gone"}]
  /\ {invector, intext, touched, gone} \subseteq SUBSET Memories
  /\ forgetting \in [Memories -> {None, "vector", "text"}]
  /\ query \in Queries /\ ranker \in Rankers /\ slots \in SlotCounts
  /\ mode \in Modes /\ opinion \in Opinions
  /\ stage \in {"idle", "legs", "fetch", "judge", "touch", "done", "failed"}
  /\ {vector, keyword, hop} \subseteq Seq(Memories)
  /\ Len(results) <= query.limit
  /\ trace.kind \in {None, "not_needed", "deadline", "busy", "model", "shadow", "applied"}
  /\ faults \in 0..MaxFaults

Init ==
  /\ \E forgotten \in {{}, Memories} :
       /\ row = [m \in Memories |-> IF m \in forgotten THEN "gone" ELSE "active"]
       /\ invector = Memories \ forgotten /\ intext = {m \in invector : Weight[m] > 0}
  /\ forgetting = [m \in Memories |-> None] /\ touched = {}
  /\ query \in Queries /\ ranker \in Rankers /\ slots \in SlotCounts
  /\ mode \in Modes /\ opinion \in Opinions
  /\ stage = "idle"
  /\ vector = <<>> /\ keyword = <<>> /\ hop = <<>>
  /\ ranked = <<>> /\ judged = <<>> /\ results = <<>>
  /\ trace = NoTrace
  /\ faults = 0 /\ gone = {}

Fault == faults < MaxFaults /\ faults' = faults + 1

-----------------------------------------------------------------------------
(* The store.                                                              *)

Supersede(m) ==
  /\ row[m] = "active"
  /\ row' = [row EXCEPT ![m] = "superseded"]
  /\ UNCHANGED <<invector, intext, forgetting, touched, picked, stage, legs, ranked, judged,
                 trace, results, faults, gone>>

Forget(m) ==
  /\ row[m] # "gone"
  /\ row' = [row EXCEPT ![m] = "gone"]
  /\ forgetting' = [forgetting EXCEPT ![m] = "vector"]
  /\ UNCHANGED <<invector, intext, touched, picked, stage, legs, ranked, judged,
                 trace, results, faults, gone>>

\* Its index entries follow; a failure leaves them behind.
ForgetEntries(m) ==
  /\ \/ /\ forgetting[m] = "vector"
        /\ invector' = invector \ {m}
        /\ forgetting' = [forgetting EXCEPT ![m] = "text"]
        /\ UNCHANGED <<intext, faults>>
     \/ /\ forgetting[m] = "text"
        /\ intext' = intext \ {m}
        /\ forgetting' = [forgetting EXCEPT ![m] = None]
        /\ UNCHANGED <<invector, faults>>
     \/ /\ forgetting[m] # None
        /\ Fault
        /\ forgetting' = [forgetting EXCEPT ![m] = None]
        /\ UNCHANGED <<invector, intext>>
  /\ UNCHANGED <<row, touched, picked, stage, legs, ranked, judged, trace, results, gone>>

-----------------------------------------------------------------------------
(* The legs.                                                               *)

\* candidate_depth: how many a leg is asked for.
CandidateDepth == Least2(Most2(8 * query.limit, 40), 200)
Cut(list, n) == SubSeq(list, 1, Least2(n, Len(list)))

Nearest(S, by) ==
  Cut(Sorted(S, LAMBDA m, n : by[m] > by[n] \/ (by[m] = by[n] /\ m < n)), CandidateDepth)

\* is_active_at, at the time of the recall.
IsActive(m) == row[m] = "active" /\ ~ About[m].expires \in 1..Now

\* The query is embedded and the vectors searched: failing, they fail it.
VectorLeg ==
  /\ stage = "idle"
  /\ gone' = {m \in Memories : row[m] = "gone" \/ (~ query.superseded /\ ~ IsActive(m))}
  /\ \/ vector' = Nearest(invector, Similarity) /\ stage' = "legs" /\ UNCHANGED faults
     \/ Fault /\ stage' = "failed" /\ UNCHANGED vector
  /\ UNCHANGED <<store, picked, keyword, hop, ranked, judged, trace, results>>

\* hop: the neighbours of the entities that the query names.
Hop ==
  LET seeds == GraphOf!Seeds(1, SeedCandidates(Words, KeyOfRun, GraphOf!NoKey))
  IN IF seeds = {} THEN <<>> ELSE GraphOf!Neighbours(1, seeds, MaxHops, Now, HopLimit)

\* The keyword leg, and graph_leg, whose tables nothing here changes: the
\* recall goes on without either.
OtherLegs ==
  /\ stage = "legs"
  /\ \/ keyword' = Nearest(intext, Weight) /\ hop' = Hop /\ UNCHANGED faults
     \/ keyword' = Nearest(intext, Weight) /\ Fault /\ UNCHANGED hop
     \/ hop' = Hop /\ Fault /\ UNCHANGED keyword
  /\ stage' = "fetch"
  /\ UNCHANGED <<store, picked, vector, ranked, judged, trace, results, gone>>

\* Mutant of Matches: a superseded or expired memory matches, too.
MatchesAny(m) ==
  /\ query.categories = {} \/ About[m].category \in query.categories
  /\ query.subcategories = {} \/ About[m].subcategory \in query.subcategories
  /\ query.tags \subseteq About[m].tags
  /\ About[m].created >= query.since

\* matches: what the query filters by.
Matches(m) ==
  /\ query.superseded \/ IsActive(m)
  /\ query.categories = {} \/ About[m].category \in query.categories
  /\ query.subcategories = {} \/ About[m].subcategory \in query.subcategories
  /\ query.tags \subseteq About[m].tags
  /\ About[m].created >= query.since

-----------------------------------------------------------------------------
(* Ranking, the second stage, and the answer.                              *)

\* What the legs found, exists, matches and passes the floor, ranked.
Fused ==
  LET mentioned == Range(vector) \cup Range(keyword) \cup Range(hop)
      found == {About[m] : m \in {m \in Memories : m \in mentioned /\ row[m] # "gone" /\ Matches(m)}}
      list  == RankWithGraph(ranker, vector, keyword, hop, found)
      relevance(s) ==
        Relevance(ranker, IF s.matched.vector > 0 THEN Similarity[s.memory.id] ELSE -1,
                  IF s.matched.bm25 > 0 THEN Weight[s.memory.id] ELSE 0,
                  s.matched.graph > 0 /\ Unanchored(s.matched))
      weighed == ApplyRelevance(ranker,
                   [i \in DOMAIN list |-> [list[i] EXCEPT !.relevance = relevance(list[i])]])
  IN Kept(weighed, {i \in DOMAIN weighed : weighed[i].relevance >= query.floor})

\* apply_expansion and the truncation to the limit.
Served(list) == Cut(ApplyExpansion(list, hop, query.limit, slots), query.limit)

TopOf(list) == Cut(list, Least2(Depth, CandidateDepth))

\* stage_configured, and what is told when there is nothing for it to do.
NotNeeded(n) ==
  IF mode = "off" THEN NoTrace ELSE [NoTrace EXCEPT !.kind = "not_needed", !.candidates = n]

\* Fetch, rank, and see whether there is anything for a second stage to do.
Fetch ==
  /\ stage = "fetch" /\ vector \o keyword \o hop # <<>>
  /\ \/ /\ ranked' = Fused
        /\ IF mode # "off" /\ Len(TopOf(ranked')) >= 2
           THEN stage' = "judge" /\ UNCHANGED <<trace, results>>
           ELSE /\ stage' = "touch"
                /\ trace' = NotNeeded(Len(ranked'))
                /\ results' = Served(ranked')
        /\ UNCHANGED faults
     \/ Fault /\ stage' = "failed" /\ UNCHANGED <<ranked, trace, results>>
  /\ UNCHANGED <<store, picked, legs, judged, gone>>

\* No leg found anything: nothing is fetched.
NothingFound ==
  /\ stage = "fetch" /\ vector \o keyword \o hop = <<>>
  /\ stage' = "done" /\ trace' = NotNeeded(0)
  /\ UNCHANGED <<store, picked, legs, ranked, judged, results, faults, gone>>

\* order_best_first: ties keep the fused order.
BestFirst(pairs) == StableSort(pairs, LAMBDA a, b : a[2] > b[2])

\* log_shadow_comparison: whether the model would have put another one first.
ShadowChanged(leg) == leg[1][1] # ranked[1].memory.id

\* RerankTrace, with what RerankFailure keeps of a failure.
TraceOf(kind, leg) ==
  CASE kind = "shadow" ->
         [NoTrace EXCEPT !.kind = kind, !.judged = Len(leg), !.changed = ShadowChanged(leg)]
    [] kind = "applied" -> [NoTrace EXCEPT !.kind = kind, !.judged = Len(leg)]
    [] OTHER -> [NoTrace EXCEPT !.kind = kind, !.candidates = Len(TopOf(ranked))]

\* rerank_leg: the second stage judged the whole head, or whole batches of it
\* before it was interrupted.
Rerank ==
  /\ stage = "judge"
  /\ \E n \in 0..Len(TopOf(ranked)), why \in {None, "deadline", "busy", "model"} :
       /\ n = Len(TopOf(ranked)) \/ n % Chunk = 0
       /\ why = None <=> n = Len(TopOf(ranked))
       /\ LET pairs == [i \in 1..n |-> <<ranked[i].memory.id, opinion[ranked[i].memory.id]>>]
          IN /\ judged' = IF why = "model" THEN <<>> ELSE BestFirst(pairs)
             /\ trace' = TraceOf(Verdict(mode, n, why), judged')
             /\ results' = Served(IF trace'.kind = "applied" THEN ApplyRerank(ranker, ranked, judged')
                                  ELSE ranked)
  /\ stage' = "touch"
  /\ UNCHANGED <<store, picked, legs, ranked, faults, gone>>

\* touch_accessed, of the rows that are still there, unless the recall is
\* execute_untracked; it may fail without harm.
Touch ==
  /\ stage = "touch"
  /\ \/ /\ query.tracked
        /\ touched' = touched \cup {m \in Memories : row[m] # "gone"
                                 /\ \E i \in DOMAIN results : results[i].memory.id = m}
     \/ UNCHANGED touched
  /\ stage' = "done"
  /\ UNCHANGED <<row, invector, intext, forgetting, picked, legs, ranked, judged, trace,
                 results, faults, gone>>

-----------------------------------------------------------------------------
(* What the client is sent.                                                *)

SearchHit(s) ==
  [memory |-> s.memory, relevance |-> s.relevance, score |-> s.score,
   matched |-> [leg \in {l \in DOMAIN s.matched : s.matched[l] # 0} |-> s.matched[leg]],
   judged |-> {s.judged} \ {0}]

\* RerankResponse: that no session was free is told as the deadline.
RerankResponse ==
  CASE trace.kind = None -> {}
    [] trace.kind = "not_needed" -> {[state |-> "not_needed", candidates |-> trace.candidates]}
    [] trace.kind = "applied" -> {[state |-> "applied", judged |-> trace.judged]}
    [] trace.kind = "shadow" ->
         {[state |-> "shadow", judged |-> trace.judged, changed |-> trace.changed]}
    [] OTHER -> {[state |-> "skipped", candidates |-> trace.candidates,
                  reason |-> IF trace.kind = "model" THEN "model" ELSE "deadline"]}

SearchResponse == [results |-> [i \in DOMAIN results |-> SearchHit(results[i])],
                   rerank |-> RerankResponse]

-----------------------------------------------------------------------------
Next ==
  \/ VectorLeg \/ OtherLegs \/ Fetch \/ NothingFound \/ Rerank \/ Touch
  \/ \E m \in Changing : Supersede(m) \/ Forget(m) \/ ForgetEntries(m)

Spec == Init /\ [][Next]_vars

-----------------------------------------------------------------------------
(* Properties.                                                             *)

Answered == stage \in {"touch", "done"}

\* What was forgotten, superseded or expired when a recall began is not in its
\* answer, though its index entries may still be there and the graph still
\* name it, and neither is anything that one of the filters asked for keeps
\* out, whichever leg found it; nothing is there twice.
NothingGoneIsServed ==
  \A i \in DOMAIN results :
    LET m == results[i].memory
    IN /\ m.id \notin gone
       /\ query.categories # {} => m.category \in query.categories
       /\ query.subcategories # {} => m.subcategory \in query.subcategories
       /\ query.tags \subseteq m.tags /\ query.since <= m.created
       /\ \A j \in DOMAIN results : m = results[j].memory => i = j

\* A client that is told nothing of a second stage, or that it was not applied,
\* was served what it would have been without one, with no trace of a score
\* (rerank_leg, "down to the absent rerank_score fields"); one that is told of
\* it can count the scores it sees.  Shadow mode says "changed" if the model
\* likes one it judged better than the one served first.  And a recall that is
\* not tracked leaves the access counts alone.
TraceTellsTheTruth ==
  LET sent == SearchResponse
      scored == {i \in DOMAIN sent.results : sent.results[i].judged # {}}
      first == ranked[1].memory.id
      told(state) == \E t \in sent.rerank : t.state = state
  IN Answered =>
       /\ told("applied") => mode = "on"
       /\ ~ told("applied") =>
            /\ results = Served(ranked) /\ scored = {}
            /\ \A i \in DOMAIN sent.results : "rerank" \notin DOMAIN sent.results[i].matched
       /\ sent.rerank = {} <=> mode = "off"
       /\ \A t \in sent.rerank :
            /\ t.state = "applied" => Cardinality(scored) <= t.judged
            /\ t.state = "applied" /\ Len(ranked) <= query.limit => Cardinality(scored) = t.judged
            /\ t.state = "shadow" =>
                 (t.changed <=> \E i \in 1..t.judged : opinion[ranked[i].memory.id] > opinion[first])
            /\ t.state = "skipped" => t.candidates >= 2
            /\ t.state = "not_needed" => t.candidates < 2 \/ Depth < 2
       /\ ~ query.tracked => touched = {}

\* A memory that was ranked is missing from an answer only if the answer is
\* full: no later stage loses one, not a second stage that judged a part of the
\* list, nor a place reserved. What the legs did not name, because they looked
\* no further than the candidate depth or failed, was never ranked.
NothingIsWithheld ==
  Answered /\ Len(results) < query.limit => Range(IdsOf(ranked)) \subseteq Range(IdsOf(results))

\* Where the model's word replaces the ranking, no memory is served before one
\* that it judged better and that is worth as much, nor before a judged one
\* when it was not reached itself; those it did not reach keep their order.
JudgementDecides ==
  trace.kind = "applied" /\ ranker.strategy = "replace" /\ slots = 0 =>
    \A i, j \in DOMAIN results : i < j =>
      /\ results[i].judged = 0 => results[j].judged = 0
      /\ results[j].judged # 0 /\ Band(results[i].memory) = Band(results[j].memory)
         => results[i].judged >= results[j].judged
      /\ results[i].judged = 0 /\ results[j].judged = 0
         => \E k, l \in DOMAIN ranked : k < l /\ ranked[k] = results[i] /\ ranked[l] = results[j]

\* Places are reserved at the cost of the last that the client sees: whatever
\* the ranking, its best stays the best, all memories stay, none falls by more
\* places than are reserved, and those that the graph did not find keep their
\* order. Only what the graph found rises: with one place, from the last that
\* the client sees or from below, and from two higher with every further one.
\* And a client that asks for more than one sees something the graph found.
SlotsKeepTheBest ==
  Answered => LET list == IF trace.kind = "applied" THEN ApplyRerank(ranker, ranked, judged) ELSE ranked
                  wide == ApplyExpansion(list, hop, query.limit, slots)
                  plain(s) == s.memory.id \notin Range(hop)
              IN /\ list # <<>> => wide[1] = list[1]
                 /\ Len(wide) = Len(list) /\ Range(wide) = Range(list)
                 /\ \A i, j \in DOMAIN list : i < j /\ plain(list[i]) /\ plain(list[j])
                      => \E k, l \in DOMAIN wide : k < l /\ wide[k] = list[i] /\ wide[l] = list[j]
                 /\ \A i \in DOMAIN list, k \in DOMAIN wide : wide[k] = list[i] =>
                      /\ k <= i + slots
                      /\ k < i => ~ plain(list[i]) /\ i + 2 * slots >= query.limit + 2
                 /\ slots > 0 /\ query.limit > 1 /\ (\E i \in DOMAIN list : ~ plain(list[i]))
                    => \E i \in 1..Least2(query.limit, Len(wide)) : ~ plain(wide[i])

\* The model decides where it has judged and its word replaces the ranking,
\* and the places reserved for the graph cost no more than they may
\* (recall_ranker.rs, apply_rerank, apply_expansion).
OrderIsAsPromised == JudgementDecides /\ SlotsKeepTheBest

\* A walk of k edges from a seed, whichever way they point.
IsWalk(w, k, seeds) ==
  /\ GraphOf!Ends(w[1]) \cap seeds # {}
  /\ \A i \in 1..k - 1 : GraphOf!Ends(w[i]) \cap GraphOf!Ends(w[i + 1]) # {}

\* The memories at the end of a walk of at most n live edges.
Within(seeds, n) ==
  LET live == {e \in Edges : e.owner = 1 /\ GraphOf!LiveAt(e, Now)}
  IN {m \in Memories : \E k \in 1..n : \E w \in [1..k -> live] :
                         w[k].memory = m /\ IsWalk(w, k, seeds)}

\* The hop finds the memories of live edges by their distance from the named
\* entities, whichever way the edges point: the nearest first, each at the
\* length of its shortest path, and left out only where the limit cuts.
HopsAreShortestPaths ==
  LET seeds == GraphOf!Seeds(1, SeedCandidates(Words, KeyOfRun, GraphOf!NoKey))
  IN stage = "fetch" /\ hop # <<>> =>
       /\ Range(hop) \subseteq Within(seeds, MaxHops)
       /\ Range(hop) = Within(seeds, MaxHops) \/ Len(hop) = HopLimit
       /\ \A i \in DOMAIN hop, n \in 1..MaxHops :
            \/ hop[i] \in Within(seeds, n)
            \/ \A m \in Within(seeds, n) : \E j \in 1..i - 1 : hop[j] = m
=============================================================================
