--------------------------- MODULE Understanding ---------------------------
(***************************************************************************)
(* What becomes of a submission: which pipeline takes it, how the model's  *)
(* answers are read (extraction, taxonomy, relations, verdicts), and what  *)
(* the caller is told.  A category is <<family, kind>>, a text its length, *)
(* an entity or an endpoint its key ("" when nothing is left of it).       *)
(***************************************************************************)
EXTENDS Orders, SequencesExt

CONSTANTS
  DefaultCategories,  \* DEFAULT_CATEGORIES, a sequence
  Extras,             \* extra_categories
  MaxContent,         \* MAX_CONTENT_LEN
  MaxRelations        \* MAX_RELATIONS

ASSUME UnderstandingAssumption ==
  /\ MaxContent \in Nat /\ MaxRelations \in Nat \ {0}

FactProject == <<"fact", "project">>

Lesser(a, b) == IF a <= b THEN a ELSE b

-----------------------------------------------------------------------------
(* The taxonomy.                                                           *)

\* Category::parse_with_extras.
Exact(raw) == raw \in Range(DefaultCategories) \/ raw \in Extras

\* Taxonomy::resolve: itself, or the first of its family, or the fallback.
Resolve(raw) ==
  LET family == SelectSeq(DefaultCategories, LAMBDA c : c[1] = raw[1])
  IN [category |-> IF Exact(raw) THEN raw
                   ELSE IF family # <<>> THEN Head(family) ELSE FactProject,
      exact    |-> Exact(raw)]

\* IntentFirstIngestor: a caller that names a category wants its words kept.
Verbatim(payload) == payload.category # <<>>

\* VerbatimIngestor, infer_category: an unknown category is an error; without
\* one the phrases in the text decide.
VerbatimCategory(payload) ==
  IF payload.category # <<>> THEN payload.category
  ELSE IF "decision" \in payload.markers THEN <<"decision", "">>
  ELSE IF "preference" \in payload.markers THEN <<"preference", "coding">>
  ELSE FactProject

VerbatimFails(payload) == payload.category # <<>> /\ ~Exact(payload.category)

-----------------------------------------------------------------------------
(* Extraction (CandidateExtractor).                                        *)

\* normalise_relations: between two declared entities that differ, in order,
\* up to a limit.
NormaliseRelations(relations, entities) ==
  LET declared == Range(entities) \ {""}
      anchored == SelectSeq(relations, LAMBDA r :
        /\ {r.subject, r.object} \subseteq declared
        /\ r.predicate # "" /\ r.subject # r.object)
  IN SubSeq(anchored, 1, Lesser(Len(anchored), MaxRelations))

\* Each tag once, the caller's after the model's.
Tags(model, caller) ==
  FoldLeft(LAMBDA kept, tag : IF tag = "" \/ tag \in Range(kept) THEN kept
                              ELSE Append(kept, tag), <<>>, model \o caller)

\* RawCandidate::validate; confidences in tenths.
Rejected(raw) == raw.content = 0 \/ raw.content > MaxContent

Validated(raw, tags) ==
  [content    |-> raw.content,
   category   |-> Resolve(raw.category).category,
   tags       |-> Tags(raw.tags, tags),
   entities   |-> SelectSeq(raw.entities, LAMBDA name : name # ""),
   relations  |-> NormaliseRelations(raw.relations, raw.entities),
   confidence |-> Lesser(raw.confidence, 10)]

\* harvest: an answer without candidates is nothing to remember, and one that
\* cannot be used is dropped alone.
Harvest(answer, tags) ==
  IF answer.candidates = <<>> THEN <<>>
  ELSE LET raw    == answer.candidates
           usable == Kept(raw, {i \in DOMAIN raw : raw[i].readable /\ ~Rejected(raw[i])})
       IN [i \in DOMAIN usable |-> Validated(usable[i], tags)]

-----------------------------------------------------------------------------
(* Verdicts (parse_decision, MemoryReconciler::apply).                     *)

\* A known action, and one that has a target only on a memory it was shown.
Usable(decision, shown) ==
  \/ decision.action \in {"ADD", "NOOP"}
  \/ decision.action \in {"UPDATE", "DELETE"} /\ decision.target \in shown

\* What a verdict does: retractions first; the candidate is stored once at
\* most; only a stored one replaces.
Applied(decisions, shown) ==
  LET usable == {decisions[i] : i \in {j \in DOMAIN decisions : Usable(decisions[j], shown)}}
      stores == \E d \in usable : d.action \in {"ADD", "UPDATE"}
  IN [stores     |-> stores,
      deleted    |-> {d.target : d \in {x \in usable : x.action = "DELETE"}},
      superseded |-> {d.target : d \in {x \in usable : x.action = "UPDATE"}}]

-----------------------------------------------------------------------------
(* What the caller is told (IngestOutcome).                                *)

Status(candidates, stored, changed) ==
  IF candidates = 0 THEN "nothing_durable"
  ELSE IF stored > 0 THEN "stored"
  ELSE IF changed > 0 THEN "changed_without_storing" ELSE "already_known"
=============================================================================
