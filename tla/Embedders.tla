----------------------------- MODULE Embedders ------------------------------
(***************************************************************************)
(* The embedding providers as their callers see them: a list of texts in,  *)
(* a vector for each of them out, or an error.                             *)
(*                                                                         *)
(* A text is a value, and its vector is [of, task]: the text it was        *)
(* computed from and what for.  A remote provider answers one request with *)
(* [status, rows]: rows of [index, vector], of a list with or without      *)
(* places, in an order of its own.  A result is [error, vectors].          *)
(***************************************************************************)
EXTENDS Integers, Sequences, FiniteSets, SequencesExt

CONSTANT MaxBatch   \* the most requests one call of Gemini takes (MAX_BATCH)

Unplaced == -1

Fine(list) == [error |-> "none", vectors |-> list]
Wrong(error) == [error |-> error, vectors |-> <<>>]

\* Slices of a list, as slice::chunks cuts them.
Chunks(texts, size) ==
  [i \in 1..((Len(texts) + size - 1) \div size) |->
     SubSeq(texts, (i - 1) * size + 1, IF i * size < Len(texts) THEN i * size ELSE Len(texts))]

\* The results of one request after another; the first error ends it.
InTurn(results) ==
  LET failed == {i \in DOMAIN results : results[i].error # "none"}
  IN IF failed # {} THEN Wrong(results[CHOOSE i \in failed : \A j \in failed : i <= j].error)
     ELSE Fine(FlattenSeq([i \in DOMAIN results |-> results[i].vectors]))

Reversed(rows) == [i \in DOMAIN rows |-> rows[Len(rows) + 1 - i]]

\* external: a provider of some kind answers with places in any order, without
\* places in the order it was asked, one row short, or not at all; its vectors
\* are for what it was told.
Answer(kind, told, texts) ==
  LET rows(placed) ==
        [i \in DOMAIN texts |-> [index |-> IF placed THEN i - 1 ELSE Unplaced,
                                 vector |-> [of |-> texts[i], task |-> told]]]
  IN CASE kind = "placed" -> [status |-> 200, rows |-> Reversed(rows(TRUE))]
       [] kind = "ordered" -> [status |-> 200, rows |-> rows(FALSE)]
       [] kind = "short" -> [status |-> 200, rows |-> Tail(rows(TRUE))]
       [] kind = "busy" -> [status |-> 429, rows |-> <<>>]
       [] kind = "refused" -> [status |-> 401, rows |-> <<>>]
       [] kind = "silent" -> [status |-> 0, rows |-> <<>>]

\* external: the model that runs here loses a text only if it is "short".
RunOf(kind, texts) ==
  LET all == [i \in DOMAIN texts |-> [of |-> texts[i], task |-> "any"]]
  IN IF kind = "short" THEN Tail(all) ELSE all

\* A provider that is busy is worth a retry, a refusal is not.
MapStatus(status) == IF status = 429 \/ status >= 500 THEN "retry" ELSE "permanent"

Place(rows, i) == IF rows[i].index = Unplaced THEN i - 1 ELSE rows[i].index

\* Mutant of ParseOpenai: the rows as they came.
ParseOpenaiUnsorted(rows) == [i \in DOMAIN rows |-> rows[i].vector]

\* Sorted by index, and stably: a row without one counts by its position.
ParseOpenai(rows) ==
  LET before(j, i) == \/ Place(rows, j) < Place(rows, i)
                      \/ Place(rows, j) = Place(rows, i) /\ j < i
      at(n) == CHOOSE i \in DOMAIN rows : Cardinality({j \in DOMAIN rows : before(j, i)}) = n - 1
  IN [n \in DOMAIN rows |-> rows[at(n)].vector]

ParseInOrder(rows) == [i \in DOMAIN rows |-> rows[i].vector]

Parsed(api, rows) == IF api = "openai-compat" THEN ParseOpenai(rows) ELSE ParseInOrder(rows)

\* embed_chunk of the remote embedders: one round trip.
EmbedChunk(api, texts, answer) ==
  IF answer.status = 0 THEN Wrong("retry")
  ELSE IF answer.status # 200 THEN Wrong(MapStatus(answer.status))
  ELSE IF Len(answer.rows) # Len(texts) THEN Wrong("retry")
  ELSE Fine(Parsed(api, answer.rows))

\* 0 means no cap; the remote providers embed a query like a document.
EmbedRemote(api, kind, texts, cap) ==
  LET chunk(ts) == EmbedChunk(api, ts, Answer(kind, "any", ts))
      chunks == Chunks(texts, cap)
  IN IF texts = <<>> THEN Fine(<<>>)
     ELSE IF cap = 0 \/ cap >= Len(texts) THEN chunk(texts)
     ELSE InTurn([i \in DOMAIN chunks |-> chunk(chunks[i])])

\* Gemini is told the task.
EmbedGemini(kind, texts, task) ==
  LET chunks == Chunks(texts, MaxBatch)
  IN InTurn([i \in DOMAIN chunks |->
       EmbedChunk("gemini", chunks[i], Answer(kind, task, chunks[i]))])

EmbedLocal(kind, texts) ==
  IF texts = <<>> THEN Fine(<<>>)
  ELSE IF Len(RunOf(kind, texts)) # Len(texts) THEN Wrong("retry")
  ELSE Fine(RunOf(kind, texts))

\* RemoteEmbedder::load, GeminiEmbedder::load: the first call tells the width,
\* and that the provider is there; Gemini has no keyless one.
Loaded(api, key, probe) ==
  IF api = "gemini" /\ key = "" THEN Wrong("permanent")
  ELSE IF probe.error # "none" THEN probe
  ELSE IF probe.vectors = <<>> THEN Wrong("permanent") ELSE probe

-----------------------------------------------------------------------------
(* BlockingHttpWorker: a thread that keeps the HTTP client and is handed    *)
(* jobs.  A caller is idle, waiting, or told an answer or an error.         *)

NewWorker == [thread |-> "building", owner |-> "spawning", open |-> TRUE, queue |-> <<>>,
              callers |-> [c \in 1..2 |-> "idle"]]

\* spawn: the owner waits until the client is built, or could not be.
Spawned(w) ==
  IF w.thread # "building" THEN {}
  ELSE {[w EXCEPT !.thread = "serving", !.owner = "using"], [w EXCEPT !.thread = "gone", !.owner = "refused"]}

\* run: without a thread the job cannot be sent.
Called(w) ==
  {IF w.thread = "gone" THEN [w EXCEPT !.callers[c] = "error"]
   ELSE [w EXCEPT !.callers[c] = "waiting", !.queue = Append(@, c)] :
     c \in {d \in 1..2 : w.owner = "using" /\ w.callers[d] = "idle"}}

\* The loop of the thread: a job is done, or panics and takes the thread and
\* what was waiting with it; it ends when nobody can send any more.
Served(w) ==
  IF w.thread # "serving" THEN {}
  ELSE IF w.queue # <<>>
  THEN {[w EXCEPT !.queue = Tail(@), !.callers[Head(w.queue)] = "answer"],
        [w EXCEPT !.thread = "gone", !.queue = <<>>,
                  !.callers = [c \in 1..2 |-> IF w.callers[c] = "waiting" THEN "error" ELSE w.callers[c]]]}
  ELSE IF w.open THEN {} ELSE {[w EXCEPT !.thread = "gone"]}

\* drop: nobody is calling any more; the channel is closed, and only then is
\* the thread waited for.
Closed(w) ==
  IF w.owner # "using" \/ \E c \in 1..2 : w.callers[c] = "waiting" THEN {}
  ELSE {[w EXCEPT !.open = FALSE, !.owner = "closing"]}
Joined(w) ==
  IF w.owner = "closing" /\ w.thread = "gone" THEN {[w EXCEPT !.owner = "joined"]} ELSE {}

AfterOneStep(w) == Spawned(w) \cup Called(w) \cup Served(w) \cup Closed(w) \cup Joined(w)
Workers ==
  LET f[n \in 0..9] == IF n = 0 THEN {NewWorker}
                       ELSE LET before == f[n - 1] IN before \cup UNION {AfterOneStep(w) : w \in before}
  IN f[9]

\* Wherever nothing goes on, the thread has ended, its owner has let it go, and
\* nobody waits for an answer; a client that cannot be built leaves no thread.
WorkersLetGo ==
  \A w \in Workers :
    /\ w.owner = "refused" => w.thread = "gone"
    /\ AfterOneStep(w) = {} =>
         /\ w.thread = "gone" /\ w.owner \in {"joined", "refused"}
         /\ \A c \in 1..2 : w.callers[c] # "waiting"
=============================================================================
