------------------------------ MODULE MCAccess ------------------------------
(* Values for checking Access: one key a user reads with, and one more.      *)
EXTENDS ToolCalls, TLC
MCCallers == {[prefix |-> "k1", right |-> TRUE], [prefix |-> "k1", right |-> FALSE],
              [prefix |-> "k2", right |-> TRUE]}
MCScopes == {{"read"}, {"write"}, {"admin"}}
MCWatched == [prefix |-> "k1", right |-> TRUE]
MCConfigurations == {<<"api_key", FALSE>>, <<"none", TRUE>>}
MCMeasure == <<50, 20>>
MCDrawn == {[prefix |-> "p1", secret |-> "s1"], [prefix |-> "p1", secret |-> "s2"],
            [prefix |-> "p2", secret |-> "s1"]}
RequestSymmetry == Permutations(Requests)
=============================================================================
