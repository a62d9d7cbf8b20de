------------------------------ MODULE Ranking ------------------------------
(***************************************************************************)
(* How recall orders what it found (recall_ranker.rs): ranks of the legs   *)
(* fused into a score, the score weighted by relevance, the list reordered *)
(* by a second stage, and places reserved for what the graph found.        *)
(*                                                                         *)
(* Scores are integers: a reciprocal rank in units of 1/Unit, a weight or  *)
(* a relevance in percent; division rounds down, as the floats round.      *)
(***************************************************************************)
EXTENDS Integers, SequencesExt, Orders

Unit == 10000
RrfK == 60
MultiplierFloor == 80
BM25Saturation == 8
GraphHopRelevance == 35

Least2(a, b) == IF a <= b THEN a ELSE b
Most2(a, b) == IF a >= b THEN a ELSE b

\* A ranker's settings (RecallRanker); weights in percent.
RankerType == [graphWeight : Nat, unanchoredFloor : Nat, strategy : {"rrf", "replace"},
            weight : Nat, delta : 0..50, baseline : 0..99]

\* 1-based position of id in a leg; 0 when it is not there.
RankOf(leg, id) == SelectInSeq(leg, LAMBDA x : x = id)

ReciprocalRank(rank) == IF rank = 0 THEN 0 ELSE Unit \div (RrfK + rank)

\* floored: a percentage pressed into the band from MultiplierFloor to 100.
Floored(value) ==
  MultiplierFloor + ((100 - MultiplierFloor) * Least2(value, 100)) \div 100

\* recency_multiplier and quality.  A memory's decay is what the half-life
\* leaves of it, its worth confidence times importance, both in percent.
Band(memory) == Floored(memory.decay) * Floored(memory.worth)

\* Whether only the graph found it.
Unanchored(d) == d.vector = 0 /\ d.bm25 = 0

\* graph_relevance: the graph's weighted term, capped for what only it found.
GraphTerm(ranker, d) ==
  LET term == (ranker.graphWeight * ReciprocalRank(d.graph)) \div 100
  IN IF Unanchored(d) /\ ranker.unanchoredFloor > 0
     THEN Least2(term, ReciprocalRank(ranker.unanchoredFloor)) ELSE term

LegSum(ranker, d) ==
  ReciprocalRank(d.vector) + ReciprocalRank(d.bm25) + GraphTerm(ranker, d)

Score(ranker, memory, d) == (LegSum(ranker, d) * Band(memory)) \div 100

\* sort_ranked: score, then the newer, then the id.
Ahead(a, b) ==
  \/ a.score > b.score
  \/ a.score = b.score /\ a.memory.created > b.memory.created
  \/ a.score = b.score /\ a.memory.created = b.memory.created /\ a.memory.id < b.memory.id

\* sort_ranked_with_relevance, whose second key is compared the other way
\* round: of two equal scores the smaller relevance comes first.
AheadWithRelevance(a, b) ==
  \/ a.score > b.score
  \/ a.score = b.score /\ a.relevance < b.relevance
  \/ a.score = b.score /\ a.relevance = b.relevance /\ Ahead(a, b)

Detail(vector, keyword, graph, id) ==
  [vector |-> RankOf(vector, id), bm25 |-> RankOf(keyword, id),
   graph |-> RankOf(graph, id), rerank |-> 0]

\* rank_with_graph: candidates no leg mentions are dropped.  rank is the same
\* without a graph.
RankWithGraph(ranker, vector, keyword, graph, candidates) ==
  LET scored(m) ==
        LET d == Detail(vector, keyword, graph, m.id)
        IN [memory |-> m, score |-> Score(ranker, m, d), relevance |-> 0, judged |-> 0, matched |-> d]
      mentioned == {m \in candidates : \E leg \in {vector, keyword, graph} : RankOf(leg, m.id) > 0}
  IN Sorted({scored(m) : m \in mentioned}, Ahead)

\* RelevanceCalibration::relevance: noisy-or of the cosine above the baseline
\* and the saturated keyword weight; a hop's flat credit where nothing else
\* says anything.  A leg that did not find the memory has similarity -1.
Relevance(ranker, similarity, bm25, graphOnly) ==
  LET keyword   == (100 * bm25) \div (bm25 + BM25Saturation)
      corrected == Most2(0, (100 * (similarity - ranker.baseline)) \div (100 - ranker.baseline))
      combined  == IF similarity < 0 THEN keyword
                   ELSE 100 - ((100 - corrected) * (100 - keyword)) \div 100
  IN IF combined > 0 THEN combined
     ELSE IF graphOnly THEN GraphHopRelevance ELSE 0

Affinity(ranker, relevance) == 100 - (ranker.delta * (100 - Least2(relevance, 100))) \div 100

\* apply_relevance: nothing at all at weight 0.
ApplyRelevance(ranker, ranked) ==
  IF ranker.delta = 0 THEN ranked
  ELSE StableSort([i \in DOMAIN ranked |->
                     [ranked[i] EXCEPT !.score = (@ * Affinity(ranker, ranked[i].relevance)) \div 100]],
                  AheadWithRelevance)

\* A leg of the second stage is a sequence of pairs of an id and a score.
JudgedAt(leg, id) == SelectInSeq(leg, LAMBDA pair : pair[1] = id)

\* apply_rerank, Rrf: one more term inside the band that the score has.
WithTerm(ranker, scored, leg) ==
  LET at   == JudgedAt(leg, scored.memory.id)
      base == LegSum(ranker, scored.matched)
      term == (ranker.weight * ReciprocalRank(at)) \div 100
  IN IF at = 0 THEN scored
     ELSE [scored EXCEPT !.matched.rerank = at, !.judged = leg[at][2],
                         !.score = IF base > 0 THEN ((base + term) * @) \div base ELSE @]

\* apply_rerank, Replace: the judged ones first, by what the model says inside
\* the band; the others follow in the order they have.
Replaced(ranked, leg) ==
  LET banded(scored) ==
        LET at == JudgedAt(leg, scored.memory.id)
        IN [scored EXCEPT !.matched.rerank = at, !.judged = leg[at][2],
                          !.score = (leg[at][2] * Band(scored.memory)) \div 100]
      reached == {i \in DOMAIN ranked : JudgedAt(leg, ranked[i].memory.id) > 0}
      head == Kept(ranked, reached)
      tail == Kept(ranked, DOMAIN ranked \ reached)
  IN StableSort([i \in DOMAIN head |-> banded(head[i])], LAMBDA a, b : a.score > b.score) \o tail

\* Mutant of ApplyRerank: the list that replaces it is the model's alone.
ApplyRerankOnly(ranker, ranked, leg) ==
  IF leg = <<>> THEN ranked
  ELSE IF ranker.strategy = "replace"
       THEN SelectSeq(Replaced(ranked, leg), LAMBDA s : s.matched.rerank > 0)
  ELSE StableSort([i \in DOMAIN ranked |-> WithTerm(ranker, ranked[i], leg)], Ahead)

ApplyRerank(ranker, ranked, leg) ==
  IF leg = <<>> THEN ranked
  ELSE IF ranker.strategy = "replace" THEN Replaced(ranked, leg)
  ELSE StableSort([i \in DOMAIN ranked |-> WithTerm(ranker, ranked[i], leg)], Ahead)

\* Mutant of Verdict: what shadow mode compares, it serves.
VerdictInShadow(mode, judged, interruption) ==
  IF interruption = "model" \/ (interruption # "none" /\ judged < 2) THEN interruption
  ELSE "applied"

\* How a second stage ends that was cut short or not: skipped for a reason,
\* compared or applied.  Two of the head are enough, unless the model failed.
Verdict(mode, judged, interruption) ==
  IF interruption = "model" \/ (interruption # "none" /\ judged < 2) THEN interruption
  ELSE IF mode = "shadow" THEN "shadow" ELSE "applied"

IdsOf(list) == [i \in DOMAIN list |-> list[i].memory.id]

\* Mutant of Promote: the edge is not kept off the first place.
PromoteAnywhere(ranked, graph, limit, slot) ==
  LET edge  == Most2(limit - slot, 0)
      at(g) == RankOf(IdsOf(ranked), graph[g])
      below == {g \in DOMAIN graph : at(g) >= slot /\ at(g) - 1 >= edge}
  IN IF below = {} THEN ranked ELSE Moved(ranked, at(Least(below)), slot)

\* One reserved slot of apply_expansion: the graph's best that stands at or
\* below the edge of what the client would see moves up into the slot, which
\* is never the first place.
Promote(ranked, graph, limit, slot) ==
  LET edge  == Most2(limit - slot, 1)
      at(g) == RankOf(IdsOf(ranked), graph[g])
      below == {g \in DOMAIN graph : at(g) - 1 > slot /\ at(g) - 1 >= edge}
  IN IF below = {} THEN ranked ELSE Moved(ranked, at(Least(below)), slot + 1)

ApplyExpansion(ranked, graph, limit, slots) ==
  LET after[slot \in 0..slots] ==
        IF slot = 0 THEN ranked ELSE Promote(after[slot - 1], graph, limit, slot)
  IN after[slots]

\* seed_candidates: the keys of every run of one to three words.
SeedCandidates(words, keyOfRun, noKey) ==
  {keyOfRun[SubSeq(words, run[1], run[2])] :
     run \in {r \in (DOMAIN words) \X (DOMAIN words) : r[1] <= r[2] /\ r[2] < r[1] + 3}} \ {noKey}
=============================================================================
