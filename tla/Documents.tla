------------------------------ MODULE Documents ------------------------------
(***************************************************************************)
(* What a memory is found by: the text its vector is built from, the words *)
(* of its keyword document, the names of the entities and predicates it    *)
(* mentions; and the queries it is looked for with.                        *)
(*                                                                         *)
(* A written word is [word, how]: plainly, in capitals, or "marked", with  *)
(* punctuation that the query language would take for its own.             *)
(***************************************************************************)
EXTENDS Integers, Sequences, FiniteSets
LOCAL INSTANCE SequencesExt
LOCAL INSTANCE FiniteSetsExt

CONSTANTS
  Vocabulary,   \* words a memory or a query may hold
  StopWords,    \* those of stopwords.rs
  LongWords,    \* longer than the analyzer's 40 bytes
  MaxQueryLimit \* MAX_LIMIT, MAX_AUDIT_LIMIT: what a caller may ask for

Written(words) == [word : words, how : {"plain", "capitals", "marked"}]
Plain(w) == [word |-> w, how |-> "plain"]

-----------------------------------------------------------------------------
(* DocumentText and MemoryUpdater.  A document is [content, category, sub, *)
(* tags]; a category's name is [words, mark]: ids are dotted or dashed.    *)

Formats == {"content", "enriched"}

Describe(category) == IF category.words = <<>> THEN <<"memory">> ELSE category.words
Render(format, doc) ==
  IF format = "content" THEN <<doc.content>>
  ELSE LET labels == (IF doc.sub = "" THEN <<>> ELSE <<doc.sub>>) \o doc.tags
       IN <<Describe(doc.category), labels, doc.content>>
Pin(format, model) == IF format = "content" THEN <<model>> ELSE <<model, "+enriched-v1">>

\* UpdateMemoryRequest, Memory::edit: what is absent stays, null clears.
Given(field) == field # "absent"
Patched(doc, patch) ==
  [content  |-> IF Given(patch.content) THEN patch.content ELSE doc.content,
   category |-> doc.category,
   sub      |-> CASE patch.sub = "absent" -> doc.sub [] patch.sub = "null" -> "" [] OTHER -> patch.sub,
   tags     |-> IF Given(patch.tag) THEN <<patch.tag>> ELSE doc.tags]

\* Mutant of EmbeddedAgain: labels are no part of what was embedded.
EmbeddedAgainForContent(format, doc, patch) == Given(patch.content) /\ patch.content # doc.content

\* MemoryUpdater::execute: whether the edit needs another vector.
EmbeddedAgain(format, doc, patch) ==
  \/ Given(patch.content) /\ patch.content # doc.content
  \/ format = "enriched" /\ Render(format, doc) # Render(format, Patched(doc, patch))

\* text_analyzer, over the fields of reindex_document.
Analyzed(words) == Range(words) \ (StopWords \cup LongWords)
Indexed(doc) == Analyzed(<<doc.content>>) \cup Analyzed(doc.tags) \cup Analyzed(doc.category.words)

Edited(format, kept, patch) ==
  LET after == Patched(kept.doc, patch)
  IN [doc |-> after, terms |-> Indexed(after),
      vector |-> IF EmbeddedAgain(format, kept.doc, patch) THEN Render(format, after) ELSE kept.vector]

-----------------------------------------------------------------------------
(* TantivyTextIndex::search, SqliteVectorIndex::search.  An index is a     *)
(* sequence of [owner, terms, at]; a place in it is an id.                 *)

EscapeQuery(query) ==
  [i \in DOMAIN query |-> [query[i] EXCEPT !.how = IF @ = "marked" THEN "plain" ELSE @]]

Best(ids, Before(_, _), limit) ==
  LET ranked == SetToSortSeq(ids, LAMBDA x, y : Before(x, y) \/ (~ Before(y, x) /\ x < y))
  IN SubSeq(ranked, 1, Min({limit, Len(ranked)}))

\* Any of the words will do; more of them come first; what does not parse, as
\* what is marked, finds nothing.
KeywordSearch(index, u, query, limit) ==
  LET asked == EscapeQuery(query)
      terms == Analyzed([i \in DOMAIN asked |-> asked[i].word])
      Shared(i) == Cardinality(index[i].terms \cap terms)
  IN IF limit = 0 \/ \E i \in DOMAIN asked : asked[i].how = "marked" THEN <<>>
     ELSE Best({i \in DOMAIN index : index[i].owner = u /\ Shared(i) > 0},
               LAMBDA x, y : Shared(x) > Shared(y), limit)

\* similarity_from_l2, of a squared distance in hundredths; check_dimensions.
Similarity(squared) == Max({0, Min({100, 100 - squared \div 2})})
VectorSearch(index, u, asked, limit) ==
  IF Len(asked) # Len(index[1].at) THEN <<"refused">>
  ELSE LET Squared(i) == (index[i].at[1] - asked[1]) * (index[i].at[1] - asked[1])
           near == Best({i \in DOMAIN index : index[i].owner = u},
                        LAMBDA x, y : Squared(x) < Squared(y), limit)
       IN [j \in DOMAIN near |-> <<near[j], Similarity(Squared(near[j]))>>]

-----------------------------------------------------------------------------
(* RecallQuery, SaveMemoryRequest, the export and audit handlers.          *)

NewQuery(text, limit) ==
  IF text \in {"", "long"} \/ limit < 1 THEN [refused |-> TRUE]
  ELSE [text |-> text, limit |-> Min({limit, MaxQueryLimit}), tags |-> {}, subs |-> {}, floor |-> 0]

\* Filters are lower case, without the blank ones: all of the tags, any of
\* the sub-labels.  A floor is clamped into what relevance can be.
Lowered(tags) == {tags[i].word : i \in DOMAIN tags} \ {""}
WithTags(query, tags) == [query EXCEPT !.tags = Lowered(tags)]
WithMinRelevance(query, floor) == [query EXCEPT !.floor = Max({0, Min({100, floor})})]
Admits(query, doc) ==
  query.tags \subseteq Range(doc.tags) /\ (query.subs = {} \/ doc.sub \in query.subs)

AuditLimit(asked, default) == Max({1, Min({IF asked = -1 THEN default ELSE asked, MaxQueryLimit})})

-----------------------------------------------------------------------------
(* EntityKey and normalise_predicate, over a name's letters and marks.     *)

Letters == {"fly", "FLY", "s"}
Marks == {".", "'"}
Lower(name) == [i \in DOMAIN name |-> IF name[i] = "FLY" THEN "fly" ELSE name[i]]

\* Blanks at the ends and twice in a row go.
Collapsed(name) ==
  LET keep == {i \in DOMAIN name : name[i] # " " \/ (i > 1 /\ name[i - 1] # " ")}
      once == [j \in 1..Cardinality(keep) |-> name[SetToSortSeq(keep, <)[j]]]
  IN IF once # <<>> /\ Last(once) = " " THEN Front(once) ELSE once

\* canonicalize: one possessive, then the marks at the end.
Canonical(name) ==
  LET one == Collapsed(Lower(name))
      owned == IsSuffix(<<"'", "s">>, one)
      bare == IF owned THEN SubSeq(one, 1, Len(one) - 2) ELSE one
      ends == {i \in DOMAIN bare : bare[i] \notin Marks}
  IN IF ends = {} THEN <<>> ELSE SubSeq(bare, 1, Max(ends))

\* Everything else than letters is one underscore, and none at the ends.
NormalisePredicate(raw) ==
  LET low == Lower(raw)
      Letter(i) == low[i] \in Letters
      Joined(done, i) ==
        IF ~ Letter(i) THEN done
        ELSE IF done # <<>> /\ ~ Letter(i - 1) THEN done \o <<"_", low[i]>> ELSE Append(done, low[i])
  IN FoldLeft(Joined, <<>>, [i \in DOMAIN low |-> i])

-----------------------------------------------------------------------------
(* What is embedded, found and asked.                                      *)

Names == {[words |-> <<>>, mark |-> "."]}
           \cup {[words |-> <<w>>, mark |-> mark] : w \in Vocabulary \ {""}, mark \in {".", "-"}}
Docs == [content : Vocabulary, category : Names, sub : {"", "lab"}, tags : {<<>>, <<"ci">>, <<"web">>}]
Patches == [content : {"absent"} \cup Vocabulary, sub : {"absent", "null", "lab", "home"},
            tag : {"absent", "ci", "web"}]

\* Whatever is edited, the vector is of the text that is there, built in the
\* format its collection is pinned to, and only what is given is changed.
VectorsFollowTheText ==
  /\ Pin("content", "m") # Pin("enriched", "m")
  /\ \A format \in Formats, doc \in Docs, one \in Patches :
       LET first == [doc |-> doc, terms |-> Indexed(doc), vector |-> Render(format, doc)]
           after == Edited(format, first, one)
       IN /\ after.vector = Render(format, after.doc)
          /\ after.terms = Indexed(after.doc)
          /\ one.sub = "null" => after.doc.sub = ""
          /\ one.sub = "absent" => after.doc.sub = doc.sub

\* However a word is typed, and among whatever punctuation, those memories of
\* the caller that hold it are found, and nobody else's; a word of no meaning
\* finds nothing.
Indexes == {<<[owner |-> 1, terms |-> Indexed(d1), at |-> <<p>>],
              [owner |-> 2, terms |-> Indexed(d1), at |-> <<0>>],
              [owner |-> 1, terms |-> Indexed(d2), at |-> <<10>>]>> :
              d1, d2 \in {d \in Docs : d.sub = "" /\ d.category.mark = "."}, p \in {0, 4}}
FoundByItsWords ==
  \A index \in Indexes, u \in 1..2, w \in Vocabulary, how \in {"plain", "capitals", "marked"} :
    LET found == KeywordSearch(index, u, <<[word |-> w, how |-> how], Plain("ci")>>, 3)
        one == KeywordSearch(index, u, <<[word |-> w, how |-> how]>>, 3)
        own == {i \in DOMAIN index : index[i].owner = u}
    IN /\ Range(found) \subseteq own /\ Range(one) \subseteq Range(found)
       /\ Range(one) = IF w \in StopWords \cup LongWords THEN {}
                       ELSE {i \in own : w \in index[i].terms}

\* The nearest first, and none nearer left out.
NearestAreFound ==
  \A index \in Indexes, u \in 1..2, p \in {0, 3, 9}, limit \in 0..2 :
    LET found == VectorSearch(index, u, <<p>>, limit)
        Alike(i) == Similarity((index[i].at[1] - p) * (index[i].at[1] - p))
    IN /\ \A j \in DOMAIN found : index[found[j][1]].owner = u
       /\ \A j \in 1..Len(found) - 1 : found[j][2] >= found[j + 1][2]
       /\ \A i \in DOMAIN index : index[i].owner = u =>
            \/ \E j \in DOMAIN found : found[j][1] = i
            \/ Len(found) = limit /\ \A j \in DOMAIN found : found[j][2] >= Alike(i)
       /\ VectorSearch(index, u, <<p, p>>, limit) = <<"refused">>

\* A label matches however it was spelled when it was saved and when it is
\* asked for; what is asked for beyond a limit is the limit.
FiltersMeet ==
  /\ \A doc \in Docs, tags \in UNION {[1..n -> Written({"", "ci", "web"})] : n \in 0..2},
        limit \in -1..MaxQueryLimit + 1, floor \in {-1, 0, 35, 150} :
       LET query == WithMinRelevance(WithTags(NewQuery("ask", limit), tags), floor)
       IN IF limit < 1 THEN NewQuery("ask", limit) = [refused |-> TRUE]
          ELSE /\ query.limit \in 1..MaxQueryLimit /\ query.floor \in 0..100
               /\ Admits(query, doc) <=> \A i \in DOMAIN tags : tags[i].word \in Range(doc.tags) \cup {""}
  /\ \A asked \in -1..MaxQueryLimit + 1 : AuditLimit(asked, 1) \in 1..MaxQueryLimit

\* Spellings of one name have one key; a normal predicate stays as it is.
NamesMeet ==
  LET names == UNION {[1..n -> Letters \cup Marks \cup {" "}] : n \in 0..4}
      bases == {<<"fly">>, <<"fly", ".", "s">>, <<"fly", " ", "s">>}
  IN /\ \A base \in bases, before \in {<<>>, <<" ">>},
           after \in {<<>>, <<" ">>, <<".">>, <<"'", "s">>, <<"'">>, <<".", ".">>} :
          Canonical(before \o base \o after) = base
     /\ \A raw \in names : LET one == NormalisePredicate(raw)
                               letters == SelectSeq(Lower(raw), LAMBDA t : t \in Letters)
                           IN /\ SelectSeq(one, LAMBDA t : t # "_") = letters
                              /\ one # <<>> => "_" \notin {Head(one), Last(one)}

DocumentsAreFound == VectorsFollowTheText /\ FoundByItsWords /\ NearestAreFound /\ FiltersMeet /\ NamesMeet
=============================================================================
