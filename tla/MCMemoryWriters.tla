-------------------------- MODULE MCMemoryWriters --------------------------
(* Small instances of MemoryWriters, with the rows it writes and the         *)
(* documents these are found by.  The writers come from the configurations,  *)
(* as model values; a kind of writer a question is not about has none.       *)
(* Every run ends when the bounds are reached, which is why deadlock is not  *)
(* checked.                                                                  *)
EXTENDS MemoryWriters, StoredRows, Documents

\* Whatever is done to one user's rows leaves the other's alone, is entered
\* once in the trail of the one who did it, takes nothing back of how often a
\* memory was recalled, and can be exported whole; what is made of a request
\* is within the limits (SqliteMemoryRepository, Memory, MemoryExporter).
RowsKeepWhatIsTheirs == Live # {} => RowsAreSound

\* However it was edited, typed or spelled, a memory's vector is of its text,
\* its words find it, and its names and labels meet those it is asked for by
\* (DocumentText, MemoryUpdater, TantivyTextIndex, RecallQuery, EntityKey).
WhatIsStoredIsFound == Live # {} => DocumentsAreFound
=============================================================================
