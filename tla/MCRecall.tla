------------------------------ MODULE MCRecall ------------------------------
(* Values for checking Recall: three memories the legs disagree about, two   *)
(* of them at the end of a chain of relations, and one that has expired.    *)
EXTENDS Measurements

Told(id, decay, worth, category) ==
  [id |-> id, created |-> 2, expires |-> 0, decay |-> decay, worth |-> worth,
   category |-> category, subcategory |-> "ops", tags |-> {"dev"}]
MCAbout == <<Told(1, 100, 100, "fact"), [Told(2, 100, 100, "fact") EXCEPT !.tags = {}],
             [Told(3, 50, 100, "plan") EXCEPT !.subcategory = "none"],
             [Told(4, 100, 100, "fact") EXCEPT !.created = 1, !.expires = 50]>>
MCSimilarity == <<90, 80, 10, 70>>
MCWeight == <<8, 0, 4, 0>>
MCOpinions == {<<10, 20, 30, 10>>, <<20, 10, 20, 10>>}

Said(m, s, p, o) == [owner |-> 1, memory |-> m, subject |-> s, predicate |-> p, object |-> o,
                     from |-> 1, until |-> 0, by |-> 0]
MCMentions == {<<1, 1, 1>>, <<1, 3, 2>>}
MCEdges == {Said(1, 1, "on", 2), Said(3, 3, "in", 2), Said(2, 3, "in", 4),
            [Said(2, 1, "on", 4) EXCEPT !.until = 50]}
MCKeyOf == [service |-> 1, host |-> 2, town |-> 3, land |-> 4]
MCWords == <<"the", "service">>
MCKeyOfRun == [run \in UNION {[1..n -> {"the", "service"}] : n \in 1..3} |->
                 IF run = <<"service">> THEN 1 ELSE 0]

All == [limit |-> 2, floor |-> 0, superseded |-> FALSE, categories |-> {},
        subcategories |-> {}, tags |-> {}, since |-> 0, tracked |-> TRUE]
MCQueries == {All, [All EXCEPT !.limit = 1, !.floor = 40, !.tracked = FALSE],
              [All EXCEPT !.limit = 3, !.superseded = TRUE], [All EXCEPT !.categories = {"fact"}],
              [All EXCEPT !.superseded = TRUE, !.subcategories = {"ops"}, !.tags = {"dev"}, !.since = 2]}
Plain == [graphWeight |-> 100, unanchoredFloor |-> 0, strategy |-> "rrf",
          weight |-> 100, delta |-> 0, baseline |-> 0]
MCRankers == {Plain, [Plain EXCEPT !.strategy = "replace", !.unanchoredFloor = 10],
              [Plain EXCEPT !.delta = 50, !.baseline = 80]}

\* A case asks in some words, expects some memories, and is this near to each.
Asks(kind, words, expect, cosine) ==
  [kind |-> kind, words |-> words, expect |-> expect, empty |-> expect = <<>>,
   informational |-> FALSE, cosine |-> cosine]
Stored(content, words, entities, age) ==
  [content |-> content, words |-> words, entities |-> entities, age |-> age]
MCHashedAge == <<40, 50, 60>>
MCStoredAll == <<Stored(1, {"a"}, {1}, 5), Stored(2, {"b"}, {1}, NoAge), Stored(3, {"c"}, {2}, NoAge)>>
MCEvalSets ==
  {[memories |-> MCStoredAll, cases |-> cases] : cases \in {
     <<Asks("current-fact", {"a"}, <<1>>, <<80, 30, 20>>),
       Asks("negative", {"z"}, <<>>, <<20, 20, 40>>),
       [Asks("vocab-gap", {"z"}, <<3>>, <<20, 20, 60>>) EXCEPT !.informational = TRUE]>>,
     <<Asks("single-hop", {"b"}, <<2, 3>>, <<50, 70, 45>>),
       Asks("negative", {"z"}, <<>>, <<40, 20, 10>>)>>,
     <<Asks("current-fact", {"b"}, <<2>>, <<50, 70, 60>>)>>}}
MCGridOptions == {[models |-> <<"small", "large">>, strategies |-> <<"rrf", "replace">>,
                   depths |-> <<2, 10>>, weights |-> <<0, 100>>]}
=============================================================================
