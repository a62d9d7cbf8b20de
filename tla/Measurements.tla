---------------------------- MODULE Measurements ----------------------------
(***************************************************************************)
(* What the evaluation tools say of the recalls that Recall makes: each    *)
(* case of an eval set is answered by the recall, once as it is ranked and *)
(* once as the second stage leaves it.                                     *)
(***************************************************************************)
EXTENDS Recall, Evaluation

CONSTANTS
  EvalSets,      \* sets of cases; a case also has its cosine with each memory
  GridOptions,   \* the grids that may be asked for
  Floors         \* candidates for min_relevance

\* The recall without a second stage, and with the stage as it is wired.
Before == IdsOf(Served(ranked))
After  == IdsOf(results)

\* The sides that an audit may hold it against: the stage forced off, or, of a
\* config to compare with, a stage that judged the same ranking by its model.
References ==
  {[list |-> Before, how |-> "none"]} \cup
    {[list |-> IdsOf(Served(ApplyRerank(ranker, ranked,
                 BestFirst([i \in DOMAIN TopOf(ranked) |->
                              <<ranked[i].memory.id, word[ranked[i].memory.id]>>])))),
      how |-> "applied"] : word \in Opinions}

Accepted == {set \in EvalSets : Valid(set)}

\* Every case of a set answered by one list.
Same(set, list) == [i \in DOMAIN set.cases |-> list]

ReportOf(set, list) == Report(set.cases, Same(set, list))

\* Once the answer is there, before its accesses are counted.
Measured == stage = "touch"

\* The report with nothing returned where `blind` says so.
ReportBut(set, list, blind(_)) ==
  Report(set.cases, [i \in DOMAIN set.cases |-> IF blind(set.cases[i]) THEN <<>> ELSE list])

Means(report) ==
  [metric \in {"recall", "precision", "mrr", "complete"} |-> report[metric]]

Opinion(case, content) == (opinion[content] * case.cosine[content]) \div 100

-----------------------------------------------------------------------------
(* Properties.                                                             *)

\* What the gate compares is the ranking of the gated cases and no more:
\* nothing that an informational case returns moves a number, nothing that a
\* case without an expectation returns moves a mean of ranking; a recall that
\* serves every case as well as the baseline did passes; and a fact that a
\* case calls current has nothing newer beside it once its set is stored.
ScoresMeasureRanking ==
  Measured => \A set \in Accepted :
    LET report == ReportOf(set, After)
    IN /\ report = ReportBut(set, After, LAMBDA c : c.informational)
       /\ Means(report) = Means(ReportBut(set, After, LAMBDA c : c.empty))
       /\ report.precision <= report.mrr /\ report.complete <= report.recall
       /\ (\A case \in Range(set.cases) :
             LET was == ScoredCase(case, Before)
                 is  == ScoredCase(case, After)
             IN \A metric \in {"recall", "top", "complete", "reciprocal"} : was[metric] <= is[metric])
          => ~ Fails(report, ReportOf(set, Before), 0)
       /\ \A case \in Range(set.cases), old, new \in Seeded(set, Now).rows :
            /\ case.kind = "current-fact" /\ Range(case.expect) \subseteq Contents(set)
            /\ old.content \in Range(case.expect) /\ old.entities \cap new.entities # {}
            => new.created <= old.created

\* What the eval prints can be held against the gate's numbers: they are the
\* same unless it says that some cases gate nothing, and every case that lost
\* something names what.
PrintedScoresAreTrue ==
  Measured => \A set \in Accepted :
    LET printed == PrintReport(set.cases, Same(set, After))
    IN /\ printed.informational = 0 => printed.summary = ReportOf(set, After)
       /\ printed.scored + printed.negative = Len(set.cases)
       /\ \A i \in DOMAIN set.cases : ~ set.cases[i].empty =>
            (printed.rows[i].missed = {} <=> ScoredCase(set.cases[i], After).recall = 100)
       /\ Before = After => \A metric \in {"precision", "mrr"} :
            Deltas(ReportOf(set, After), ReportOf(set, Before))[metric] = 0

\* An audit that prints no warning is of a stage that judged: the agreement it
\* shows is evidence (print_human, "the agreement above is not evidence"). Of
\* a stage in use the reasons add up to the queries it left alone; two columns
\* with the same memories and no "from" are the same; and no latency is missing of a
\* recall that was answered in time or refused, though a late answer counts as
\* well, and none is told of one that asked nothing or of more than the head.
PrintedAuditsAreTrue ==
  Measured => \A side \in References, expect \in Memories \cup {Absent}, timed \in BOOLEAN :
    \A calls \in Samples(trace.kind, timed, Len(TopOf(ranked)), Chunk, Len(judged)) :
    LET pair == AuditPair(side.list, side.how, After, trace.kind, expect)
        printed == PrintHuman(mode, mode # "off", <<pair>>, calls)
        summary == AuditSummary(<<pair>>)
        columns == printed.orderings[1]
    IN /\ printed.warning = {} /\ mode # "off" => trace.kind = "applied"
       /\ \A w \in printed.warning : mode = "on" =>
            w.quiet = MapThenSumSet(LAMBDA why : summary.skipped[why], Range(w.reasons))
       /\ /\ {columns[1][i].content : i \in DOMAIN columns[1]}
             = {columns[2][i].content : i \in DOMAIN columns[2]}
          /\ \A i \in DOMAIN columns[2] : columns[2][i].from = {}
          => printed.flagged = <<>> /\ side.list = After
       /\ trace.kind \in {"applied", "shadow", "busy"} => printed.latency # {}
       /\ trace.kind \in {None, "not_needed"} => printed.latency = {}
       /\ \A count \in printed.latency : count \in 1..Depth
       /\ printed.latency # {} => (timed <=> printed.split = "measured")
       /\ printed.clients = "before" /\ mode # "off" => results = Served(ranked)
       /\ printed.expectations = {} <=> expect = Absent

\* The audit's numbers tell the two orderings of a query apart: a displacement
\* of 0 is the same list, and every place that moved is told from both sides.
\* Of two sides that rank alike, a difference is that of a second stage which
\* one of the columns owns to, the audited one or the one it is held against;
\* a query that the audited one did not contribute to has a reason. No grid
\* measures a setting twice.
MeasuredDifferencesAreReal ==
  /\ Measured => \A side \in References, expect \in Memories \cup {Absent} :
       LET pair    == AuditPair(side.list, side.how, After, trace.kind, expect)
           moved   == Displacement(side.list, After)
           summary == AuditSummary(<<pair>>)
       IN /\ moved.total = 0 <=> side.list = After
          /\ moved = Displacement(After, side.list)
          /\ \A i \in DOMAIN pair.after : LET from == pair.after[i].movedFrom
               IN from # Absent => pair.before[from].movedFrom = i
          /\ moved.total # 0 => pair.contributed \/ pair.beforeStage = {"applied"}
          /\ pair.contributed \/ pair.reason # "none"
          /\ pair.contributed => mode = "on"
          /\ mode = "on" => summary.contributed + MapThenSumSet(LAMBDA w : summary.skipped[w], DOMAIN summary.skipped)
                            = summary.queries
          /\ ~ pair.top1Changed => summary.precision[1] = summary.precision[2]
  /\ \A options \in GridOptions : GridIsValid(options) =>
       LET rows == GridRows(options)
       IN \A i, j \in DOMAIN rows : rows[i] = rows[j] => i = j

\* The measures the floors are set by bound what those floors let through: a
\* floor inside the calibrated gap keeps out all that the vectors alone find
\* for a case that expects nothing and lets every expectation in; scores the
\* distribution calls separable leave some threshold that does as much.
FloorsSeparate ==
  Measured => \A set \in Accepted :
    LET corrected == [cosine \in 0..100 |-> Relevance(ranker, cosine, 0, FALSE)]
        spread == Distribution(set, [c \in Range(set.cases) |->
                                       [m \in Contents(set) |-> Opinion(c, m)]])
        wanted == {c \in Range(set.cases) : ~ c.empty /\ Range(c.expect) \cap Contents(set) # {}}
        best(c) == Max({Opinion(c, m) : m \in Range(c.expect) \cap Contents(set)})
    IN /\ \A floor \in Floors : Calibratable(set) /\ InsideTheGap(set, corrected, floor) =>
            \A case \in Range(set.cases), m \in Contents(set) :
              /\ case.empty => corrected[case.cosine[m]] < floor
              /\ m \in Range(case.expect) /\ case.kind \notin FloorExempt
                 => corrected[case.cosine[m]] >= floor
       /\ 0 \in PrintDistribution(spread) => wanted = {} \/ ~ \E c \in Range(set.cases) : c.empty
       /\ spread.separable =>
            /\ spread.atOrBelow = 0
            /\ \A c \in wanted, noise \in {c \in Range(set.cases) : c.empty}, m \in Contents(set) :
                 Opinion(noise, m) < best(c)
       /\ spread.rankOne = Len(SelectSeq(set.cases, LAMBDA c :
            c \in wanted /\ \A m \in Contents(set) : Opinion(c, m) <= best(c)))

\* What the evaluation tools report is so.
MeasurementsAreTrue ==
  /\ ScoresMeasureRanking /\ MeasuredDifferencesAreReal /\ FloorsSeparate
  /\ PrintedScoresAreTrue /\ PrintedAuditsAreTrue
=============================================================================
