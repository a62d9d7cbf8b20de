----------------------------- MODULE Evaluation -----------------------------
(***************************************************************************)
(* The tools that measure recall: the eval and its gate, the audit of two  *)
(* orderings, the grid of rerank settings, calibration and the             *)
(* distribution of the reranker's scores.                                  *)
(*                                                                         *)
(* A memory is named by its content, an ordering is a sequence of those.   *)
(* An eval set is [memories, cases]: entries of                            *)
(* [content, words, entities, age] and of                                  *)
(* [kind, words, expect, empty, informational, cosine], the last how near   *)
(* the case is to each memory.  Scores are in percent.                      *)
(***************************************************************************)
EXTENDS Integers, Sequences, FiniteSets
LOCAL INSTANCE SequencesExt
LOCAL INSTANCE FiniteSetsExt

NoAge == -1           \* age_days not given
MaxAgeDays == 3650
Absent == 0           \* no rank, no expectation
NoMean == -1          \* nothing to take a mean of

CONSTANT HashedAge    \* hashed_age_days: contents to ages within a year

Mean(bits) == IF bits = <<>> THEN 0 ELSE FoldLeft(LAMBDA a, b : a + b, 0, bits) \div Len(bits)

\* percentile: by nearest rank.
Percentile(values, p) ==
  LET sorted == SortSeq(values, LAMBDA a, b : a < b)
      rank == (p * Len(values) + 99) \div 100
  IN IF values = <<>> THEN NoMean ELSE sorted[IF rank < 1 THEN 1 ELSE rank]

-----------------------------------------------------------------------------
(* An eval set: what validate refuses, and what seed stores.               *)

Contents(set) == {set.memories[i].content : i \in DOMAIN set.memories}
Entry(set, content) ==
  set.memories[CHOOSE i \in DOMAIN set.memories :
                 /\ set.memories[i].content = content
                 /\ \A j \in 1..i - 1 : set.memories[j].content # content]

SeededAge(memory) == IF memory.age = NoAge THEN HashedAge[memory.content] ELSE memory.age

DuplicateContent(set) ==
  \E i, j \in DOMAIN set.memories : i < j /\ set.memories[i].content = set.memories[j].content

\* superseded_current_fact, which gives up at an expectation that the corpus
\* does not have, whatever follows it.
SupersededFact(set, case) ==
  \E i \in DOMAIN case.expect :
    /\ \A j \in 1..i : case.expect[j] \in Contents(set)
    /\ LET wanted == Entry(set, case.expect[i])
       IN \E other \in Range(set.memories) :
            /\ other.content # wanted.content
            /\ SeededAge(other) < SeededAge(wanted)
            /\ other.entities \cap wanted.entities # {}

VocabularyShared(set, case) ==
  \E content \in Range(case.expect) \cap Contents(set) :
    Entry(set, content).words \cap case.words # {}

LoadSet(set) == set.cases # <<>>

Valid(set) ==
  /\ LoadSet(set)
  /\ \A case \in Range(set.cases) :
       /\ case.empty <=> case.expect = <<>>
       /\ case.kind = "current-fact" => ~SupersededFact(set, case)
       /\ case.kind = "vocab-gap" => ~VocabularyShared(set, case)
  /\ ~DuplicateContent(set)
  /\ \A memory \in Range(set.memories) : memory.age \in 0..MaxAgeDays \cup {NoAge}

\* seed: saved one by one with the clock at each one's age, and then the
\* clock back at the instant of the eval.
Seeded(set, now) ==
  [now |-> now,
   rows |-> {[content |-> memory.content, created |-> now - SeededAge(memory),
              entities |-> memory.entities] : memory \in Range(set.memories)}]

-----------------------------------------------------------------------------
(* The eval: score, summarise, compare.                                    *)

NothingReturnedPasses(returned) == returned = <<>>

ScoredNegative(case, returned) ==
  LET bit == IF NothingReturnedPasses(returned) THEN 100 ELSE 0
  IN [kind |-> case.kind, informational |-> case.informational, empty |-> TRUE,
      recall |-> bit, top |-> bit, complete |-> bit, reciprocal |-> 0]

ScoredCase(case, returned) ==
  LET wanted == Range(case.expect)
      missed == SelectSeq(case.expect, LAMBDA content : content \notin Range(returned))
      first  == SelectInSeq(returned, LAMBDA content : content \in wanted)
  IN IF case.empty THEN ScoredNegative(case, returned)
     ELSE [kind |-> case.kind, informational |-> case.informational, empty |-> FALSE,
           recall |-> (100 * (Len(case.expect) - Len(missed))) \div Len(case.expect),
           top |-> IF first = 1 THEN 100 ELSE 0,
           complete |-> IF missed = <<>> THEN 100 ELSE 0,
           reciprocal |-> IF first = 0 THEN 0 ELSE 100 \div first]

Gated(all) == SelectSeq(all, LAMBDA r : ~r.informational)

\* The cases the means of ranking are taken over.
Ranked(all) == SelectSeq(all, LAMBDA r : ~r.empty)

Column(all, field) == [i \in DOMAIN all |-> all[i][field]]

ByKind(all, field) ==
  [kind \in {r.kind : r \in Range(all)} |->
     Mean(Column(SelectSeq(all, LAMBDA r : r.kind = kind), field))]

Summary(all) ==
  LET scored == Ranked(all)
      negatives == SelectSeq(all, LAMBDA r : r.empty)
      mean(field) == Mean(Column(scored, field))
  IN [recall |-> mean("recall"), precision |-> mean("top"), mrr |-> mean("reciprocal"),
      complete |-> mean("complete"), cases |-> Len(all),
      recallByKind |-> ByKind(all, "recall"), precisionByKind |-> ByKind(all, "top"),
      completeByKind |-> ByKind(all, "complete"),
      abstention |-> Mean(Column(negatives, "recall"))]

\* run: what a baseline records and is compared with.
Report(cases, answers) ==
  Summary(Gated([i \in DOMAIN cases |-> ScoredCase(cases[i], answers[i])]))

\* A metric of 0 in the baseline was never recorded.
Regressed(before, after, drop) == before # 0 /\ before - after > drop

Fails(report, baseline, drop) ==
  \/ baseline.recall - report.recall > drop
  \/ \E metric \in {"precision", "mrr", "complete"} :
       Regressed(baseline[metric], report[metric], drop)

-----------------------------------------------------------------------------
(* The audit of two orderings of one recall.                               *)

\* outcome of a stage, and stage_name of one beside the one it is about.
Outcome(how) ==
  [contributed |-> how = "applied",
   reason |-> CASE how = "applied" -> "none"
                [] how \in {"busy", "deadline", "model"} -> how
                [] how = "not_needed" -> "not-needed"
                [] OTHER -> "not-applied"]

RankIn(list, content) == SelectInSeq(list, LAMBDA x : x = content)

\* mean_rank_displacement, as a total and how many it is of: what one list
\* leaves out is just past the end of the longer.
Displacement(before, after) ==
  LET outside == 1 + (IF Len(before) > Len(after) THEN Len(before) ELSE Len(after))
      rank(list, content) == IF RankIn(list, content) = 0 THEN outside ELSE RankIn(list, content)
      moved(content) == LET d == rank(before, content) - rank(after, content)
                        IN IF d < 0 THEN -d ELSE d
      all == Range(before) \cup Range(after)
  IN [total |-> MapThenSumSet(moved, all), counted |-> Cardinality(all)]

Lines(list, other) ==
  [i \in DOMAIN list |-> [rank |-> i, content |-> list[i], movedFrom |-> RankIn(other, list[i])]]

Top(list) == {list[i] : i \in {1} \cap DOMAIN list}

AuditPair(before, beforeHow, after, how, expect) ==
  [before |-> Lines(before, after), after |-> Lines(after, before),
   top1Changed |-> Top(before) # Top(after),
   contributed |-> Outcome(how).contributed, reason |-> Outcome(how).reason,
   beforeStage |-> {beforeHow} \ {"none"},
   expected |-> expect # Absent,
   expectedBefore |-> IF expect = Absent THEN Absent ELSE RankIn(before, expect),
   expectedAfter |-> IF expect = Absent THEN Absent ELSE RankIn(after, expect)]

\* summarise, where a mean over no expectation is none.
AuditSummary(rows) ==
  LET count(P(_)) == Len(SelectSeq(rows, P))
      judged == SelectSeq(rows, LAMBDA r : r.expected)
      mean(value(_)) == IF judged = <<>> THEN NoMean
                        ELSE Mean([i \in DOMAIN judged |-> value(judged[i])])
      credit(rank) == IF rank = Absent THEN 0 ELSE 100 \div rank
      first(rank) == IF rank = 1 THEN 100 ELSE 0
      present(rank) == IF rank = Absent THEN 0 ELSE 100
  IN [queries |-> Len(rows), top1Changed |-> count(LAMBDA r : r.top1Changed),
      contributed |-> count(LAMBDA r : r.contributed),
      skipped |-> [why \in {"deadline", "busy", "model", "not-needed"} |->
                     count(LAMBDA r : r.reason = why)],
      precision |-> <<mean(LAMBDA r : first(r.expectedBefore)),
                      mean(LAMBDA r : first(r.expectedAfter))>>,
      mrr |-> <<mean(LAMBDA r : credit(r.expectedBefore)),
                mean(LAMBDA r : credit(r.expectedAfter))>>,
      complete |-> <<mean(LAMBDA r : present(r.expectedBefore)),
                     mean(LAMBDA r : present(r.expectedAfter))>>]

-----------------------------------------------------------------------------
(* The grid, the calibration and the distribution.                         *)

GridIsValid(options) ==
  /\ \A list \in {"models", "strategies", "depths", "weights"} : options[list] # <<>>
  /\ Range(options.strategies) \subseteq {"rrf", "replace"}
  /\ \A depth \in Range(options.depths) : depth >= 2
  /\ \A weight \in Range(options.weights) : weight >= 0

\* GridOptions::cells: a weight is a matter of rrf alone.
Cells(options) ==
  FlattenSeq([i \in DOMAIN options.strategies |->
    FlattenSeq([j \in DOMAIN options.depths |->
      IF options.strategies[i] = "replace"
      THEN <<[strategy |-> "replace", weight |-> 0, depth |-> options.depths[j]]>>
      ELSE [k \in DOMAIN options.weights |->
              [strategy |-> "rrf", weight |-> options.weights[k], depth |-> options.depths[j]]]])])

\* run: the rows of a grid, of which the first runs no second stage.
GridRows(options) ==
  LET cells == Cells(options)
  IN <<[model |-> "off", strategy |-> "off", weight |-> 0, depth |-> 0]>> \o
     FlattenSeq([i \in DOMAIN options.models |->
       [j \in DOMAIN cells |->
          [model |-> options.models[i], strategy |-> cells[j].strategy,
           weight |-> cells[j].weight, depth |-> cells[j].depth]]])

\* print_cell: what a cell gains on the row that runs no second stage.
Deltas(cell, reference) ==
  [metric \in {"precision", "mrr"} |-> cell[metric] - reference[metric]]

\* calibrate: the best match of each query that expects nothing, the weakest
\* expectation of each of the others but for kinds the floor is not put to.
FloorExempt == {"relational", "category-filter", "tag-filter", "subcategory-filter"}

Calibratable(set) == set.memories # <<>> /\ set.cases # <<>>

NoiseCeiling(set) ==
  {Max({case.cosine[content] : content \in Contents(set)}) :
     case \in {c \in Range(set.cases) : c.empty}}

SignalFloor(set) ==
  {Min({case.cosine[content] : content \in Range(case.expect) \cap Contents(set)}) :
     case \in {c \in Range(set.cases) : ~c.empty /\ c.kind \notin FloorExempt
                                         /\ Range(c.expect) \cap Contents(set) # {}}}

\* The floor is compared with the corrected cosines.
InsideTheGap(set, corrected, floor) ==
  /\ \A noise \in NoiseCeiling(set) : corrected[noise] < floor
  /\ \A answer \in SignalFloor(set) : corrected[answer] > floor

\* measure: the reranker's score of every pair of a query and a memory, best
\* expectation against best noise.
Distribution(set, opinions) ==
  LET best(case, of) == Max({opinions[case][content] : content \in of})
      known(case) == Range(case.expect) \cap Contents(set)
      noise == SelectSeq(set.cases, LAMBDA c : c.empty)
      wanted == SelectSeq(set.cases, LAMBDA c : ~c.empty /\ known(c) # {})
      ceiling == Percentile([i \in DOMAIN noise |-> best(noise[i], Contents(set))], 100)
      scores == [i \in DOMAIN wanted |-> best(wanted[i], known(wanted[i]))]
      ranks == [i \in DOMAIN wanted |->
                  1 + Cardinality({content \in Contents(set) : opinions[wanted[i]][content] > scores[i]})]
  IN [scores |-> scores, ranks |-> ranks, ceiling |-> ceiling,
      rankOne |-> Len(SelectSeq(ranks, LAMBDA r : r = 1)),
      quartiles |-> [p \in {25, 50, 75, 100} |-> Percentile(scores, p)],
      atOrBelow |-> IF noise = <<>> THEN 0
                    ELSE Len(SelectSeq(scores, LAMBDA s : s <= ceiling)),
      separable |-> scores # <<>> /\ noise # <<>> /\ Min(Range(scores)) > ceiling]

-----------------------------------------------------------------------------
(* What is printed.                                                        *)

\* print_report: every case, those that gate nothing as well, with what it
\* missed and the numbers over all of them.
PrintReport(cases, answers) ==
  LET all == [i \in DOMAIN cases |-> ScoredCase(cases[i], answers[i])]
      negative == Len(all) - Len(Ranked(all))
      summary == Summary(all)
  IN [rows |-> [i \in DOMAIN cases |->
                  [starred |-> cases[i].informational, top |-> all[i].top,
                   missed |-> Range(cases[i].expect) \ Range(answers[i])]],
      summary |-> summary, scored |-> Len(Ranked(all)), negative |-> negative,
      abstention |-> IF negative > 0 THEN {summary.abstention} ELSE {},
      informational |-> Len(all) - Len(Gated(all))]

\* MeteredReranker: what may be recorded of a recall whose second stage ended
\* so, with so many of the head judged.  Without a deadline the head is one
\* call, which is recorded unless it failed, though its scores may not line up.
\* With one, every batch is: those that were judged, and of the others any that
\* the thread still had answered, too late or not lining up, or refused.
Samples(how, timed, head, chunk, judged) ==
  LET runs  == 1..((head + chunk - 1) \div chunk)
      size(run) == IF run * chunk <= head THEN chunk ELSE head - (run - 1) * chunk
      heard == {run \in runs : (run - 1) * chunk < judged}
      whole == <<[candidates |-> head, split |-> FALSE]>>
      calls(some) == LET order == SetToSortSeq(some, <)
                     IN [i \in DOMAIN order |-> [candidates |-> size(order[i]), split |-> TRUE]]
  IN CASE how \in {"none", "not_needed"} -> {<<>>}
       [] how = "model" /\ ~ timed -> {<<>>, whole}
       [] how \in {"applied", "shadow", "deadline", "busy"} /\ ~ timed ->
            {call \in {whole} : judged = head}
       [] OTHER -> {calls(some) : some \in {some \in SUBSET runs :
                      heard \subseteq some /\ (how = "busy" => some # heard)}}

\* The column of the report that clients are served from.
WhatClientsSee(mode) == IF mode = "on" THEN "after" ELSE "before"

\* print_ordering: only the second column says where its rows come from.
PrintOrdering(lines, reranked) ==
  [i \in DOMAIN lines |->
     [content |-> lines[i].content,
      from |-> IF reranked THEN {lines[i].movedFrom} \ {Absent, lines[i].rank} ELSE {}]]

\* Mutant of Warning: only failures are warned about.
WarningOfFailures(summary, staged) ==
  LET reasons == SelectSeq(<<"busy", "deadline", "model">>, LAMBDA why : summary.skipped[why] > 0)
  IN IF staged /\ reasons # <<>>
     THEN {[quiet |-> summary.queries - summary.contributed, reasons |-> reasons]} ELSE {}

\* What is said before any number if the stage did not contribute to them all.
Warning(summary, staged) ==
  IF staged /\ summary.contributed < summary.queries
  THEN {[quiet |-> summary.queries - summary.contributed,
         reasons |-> SelectSeq(<<"busy", "deadline", "model", "not-needed">>,
                               LAMBDA why : summary.skipped[why] > 0)]}
  ELSE {}

\* print_human, of an audit whose second side runs a stage or none.
PrintHuman(mode, staged, rows, calls) ==
  LET summary == AuditSummary(rows)
      split == SelectSeq(calls, LAMBDA call : call.split)
  IN [clients |-> WhatClientsSee(mode),
      orderings |-> [i \in DOMAIN rows |-> <<PrintOrdering(rows[i].before, FALSE),
                                             PrintOrdering(rows[i].after, TRUE)>>],
      flagged |-> SelectSeq([i \in DOMAIN rows |-> i], LAMBDA i : rows[i].top1Changed),
      warning |-> Warning(summary, staged),
      latency |-> IF calls = <<>> THEN {}
                  ELSE {Percentile([i \in DOMAIN calls |-> calls[i].candidates], p) : p \in {0, 100}},
      split |-> CASE split # <<>> -> "measured"
                  [] split = <<>> /\ calls # <<>> -> "no deadline"
                  [] OTHER -> "not called",
      expectations |-> IF summary.precision[1] = NoMean THEN {}
                       ELSE {<<summary.precision, summary.mrr, summary.complete>>}]

\* The verdict of a distribution, with how many scores speak against it.
PrintDistribution(spread) ==
  IF spread.separable THEN {} ELSE {spread.atOrBelow}
=============================================================================
