----------------------------- MODULE MCProfile -----------------------------
(* Values for checking Profile.                                            *)
EXTENDS Profile
MCDefaultCategories == <<<<"preference", "coding">>, <<"preference", "personal">>,
  <<"decision", "">>, <<"fact", "project">>, <<"fact", "person">>, <<"experience", "">>,
  <<"skill", "">>, <<"reference", "">>>>
MCCategoryOrder == <<<<"preference", "coding">>, <<"preference", "personal">>,
  <<"decision", "">>, <<"fact", "project">>, <<"fact", "person">>, <<"skill", "">>,
  <<"experience", "">>, <<"reference", "">>>>
MCExtras == {<<"recipe", "">>}
MCSaved == {<<"fact", "project">>, <<"fact", "person">>}
MCPayloads == {[category |-> <<>>, markers |-> {}],
               [category |-> <<"recipe", "">>, markers |-> {}],
               [category |-> <<"recipes", "">>, markers |-> {}]}

\* A candidate named in the family of preferences, whose relations are partly
\* anchored; one that is too long; one that cannot be read.
Candidate(content, category, confidence, readable) ==
  [content |-> content, category |-> category, tags |-> <<"a", "", "a">>,
   entities |-> <<"db", "host", "">>, confidence |-> confidence, readable |-> readable,
   relations |-> <<[subject |-> "db", predicate |-> "runs_on", object |-> "host"],
                   [subject |-> "db", predicate |-> "", object |-> "host"],
                   [subject |-> "db", predicate |-> "knows", object |-> "nobody"]>>]
MCAnswers == {[candidates |-> <<>>],
  [candidates |-> <<Candidate(9, <<"fact", "project">>, 8, TRUE), Candidate(1, <<"decision", "">>, 8, FALSE),
                    Candidate(1, <<"preference", "tooling">>, 11, TRUE)>>]}
MCVerdicts == {<<[action |-> "UPDATE", target |-> 1]>>, <<[action |-> "DELETE", target |-> 1]>>,
               <<[action |-> "NOOP", target |-> 0]>>}
MCReplies == {<<"prose", "fenced">>, <<"timeout", "busy", "json">>,
              <<"busy", "prose", "server_error", "unreachable">>, <<"prose", "prose">>, <<"client_error">>}
=============================================================================
