-------------------------- MODULE MCConsolidation --------------------------
(* Instances of Consolidation for the model checker.                       *)
EXTENDS PassRules, TLC

\* Sound for the safety run: no definition names a topic or a label.
DataSymmetry == Permutations(Topics) \cup Permutations(Labels)

MCKnownCategories == <<<<"preference", "coding">>, <<"decision", "">>, <<"fact", "project">>>>
MCVectors == {<<1, 0>>, <<9, 4>>, <<4, 4>>, <<>>}
=============================================================================
