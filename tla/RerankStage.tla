---------------------------- MODULE RerankStage ----------------------------
(***************************************************************************)
(* The second stage of recalls at work: a recall with a deadline judges on *)
(* a thread of its own, batch by batch, and listens to it over a channel   *)
(* (MemoryRecaller::rerank_scores); one without judges where it runs.  All *)
(* draw sessions of the model from one pool (InstancePool).                *)
(*                                                                         *)
(* The head of a recall is 1..Depth, and the score that the model gives    *)
(* to an item of recall r is <<r, item>>, whatever its value.              *)
(***************************************************************************)
EXTENDS Naturals, Sequences, FiniteSets, Ranking

CONSTANTS
  Requests,    \* recalls that have something to judge
  Sessions,    \* rerank.max_concurrency
  Depth,       \* of the head
  Chunk,       \* rerank.batch_size
  Modes,       \* subset of {"on", "shadow"}
  Timeouts,    \* whether there is a deadline
  MaxFaults    \* bound: passes that fail or panic

None == "none"

ASSUME StageAssumption ==
  /\ Depth \in Nat /\ Depth >= 2 /\ Chunk \in Nat \ {0}
  /\ IsFiniteSet(Sessions) /\ Sessions # {} /\ None \notin Sessions
  /\ Timeouts \subseteq BOOLEAN /\ MaxFaults \in Nat

VARIABLES
  mode, timed,  \* the configuration
  stage,        \* of a recall
  judged,       \* the pairs of an item and a score that it has
  verdict,      \* what the trace says
  late,         \* whether its deadline is over
  stop,         \* what it tells its thread
  channel,      \* answers it has not received
  scorer,       \* its thread, or itself when there is no deadline
  batch,        \* the batch that is at
  held,         \* and the session it holds
  free,         \* sessions nobody holds, first come first
  poisoned,     \* sessions on which a pass panicked
  faults

config == <<mode, timed>>
recall == <<stage, judged, verdict, stop>>
thread == <<scorer, batch, held>>
pool   == <<free, poisoned>>
vars   == <<config, recall, late, channel, thread, pool, faults>>

Batches == (Depth + Chunk - 1) \div Chunk
BatchOf(n) == (n - 1) * Chunk + 1 .. Least2(n * Chunk, Depth)
Nothing == [kind |-> None, scores |-> <<>>]

TypeOK ==
  /\ mode \in Modes /\ timed \in Timeouts
  /\ stage \in [Requests -> {"idle", "judge", "done", "failed"}]
  /\ judged \in [Requests -> Seq((1..Depth) \X (Requests \X (1..Depth)))]
  /\ verdict \in [Requests -> {None, "deadline", "busy", "model", "shadow", "applied"}]
  /\ \A r \in Requests : Len(channel[r]) <= batch[r]
  /\ scorer \in [Requests -> {None, "between", "waiting", "judging", "ended"}]
  /\ batch \in [Requests -> 0..Batches]
  /\ held \in [Requests -> Sessions \cup {None}]
  /\ {stop, late} \subseteq [Requests -> BOOLEAN]
  /\ free \in Seq(Sessions) /\ poisoned \subseteq Sessions
  /\ faults \in 0..MaxFaults

Init ==
  /\ mode \in Modes /\ timed \in Timeouts
  /\ stage = [r \in Requests |-> "idle"]
  /\ judged = [r \in Requests |-> <<>>] /\ channel = judged
  /\ verdict = [r \in Requests |-> None]
  /\ scorer = verdict /\ held = verdict
  /\ batch = [r \in Requests |-> 0]
  /\ stop = [r \in Requests |-> FALSE] /\ late = stop
  /\ free = SetToSeq(Sessions) /\ poisoned = {}
  /\ faults = 0

Fault == faults < MaxFaults /\ faults' = faults + 1
Put(f, r, value) == [f EXCEPT ![r] = value]

-----------------------------------------------------------------------------
(* The recall.                                                             *)

Begin(r) ==
  /\ stage[r] = "idle"
  /\ stage' = Put(stage, r, "judge")
  /\ scorer' = Put(scorer, r, IF timed THEN "between" ELSE "waiting")
  /\ UNCHANGED <<config, judged, verdict, stop, late, channel, batch, held, pool, faults>>

\* What it has is judged, whole or in part; its thread may stop.
Conclude(r, pairs, interruption) ==
  /\ judged' = Put(judged, r, pairs)
  /\ verdict' = Put(verdict, r, Verdict(mode, Len(pairs), interruption))
  /\ stop' = Put(stop, r, TRUE)
  /\ stage' = Put(stage, r, "done")

TimePasses(r) ==
  /\ timed /\ stage[r] = "judge" /\ ~ late[r]
  /\ late' = Put(late, r, TRUE)
  /\ UNCHANGED <<config, recall, channel, thread, pool, faults>>

\* align_positions: the nth answer is the nth batch's.
Pairs(n, scores) == [i \in DOMAIN scores |-> <<(n - 1) * Chunk + i, scores[i]>>]

\* An answer that is in the channel is received, late or not.
Receive(r) ==
  LET answer == channel[r][1]
      run    == Len(judged[r]) \div Chunk + 1
      pairs  == judged[r] \o Pairs(run, answer.scores)
  IN
  /\ timed /\ stage[r] = "judge" /\ channel[r] # <<>>
  /\ channel' = Put(channel, r, Tail(channel[r]))
  /\ IF answer.kind # None THEN Conclude(r, judged[r], answer.kind)
     ELSE IF run = Batches THEN Conclude(r, pairs, None)
     ELSE judged' = Put(judged, r, pairs) /\ UNCHANGED <<stage, verdict, stop>>
  /\ UNCHANGED <<config, late, thread, pool, faults>>

\* Mutant of NoAnswer: it waits for the thread.
NoAnswerButDeath(r) ==
  /\ timed /\ stage[r] = "judge" /\ channel[r] = <<>>
  /\ scorer[r] = "ended" /\ Conclude(r, judged[r], "model")
  /\ UNCHANGED <<config, late, channel, thread, pool, faults>>

\* Nothing is in the channel: the thread is dead, or the time is up.
NoAnswer(r) ==
  /\ timed /\ stage[r] = "judge" /\ channel[r] = <<>>
  /\ \/ scorer[r] = "ended" /\ Conclude(r, judged[r], "model")
     \/ scorer[r] # "ended" /\ late[r] /\ Conclude(r, judged[r], "deadline")
  /\ UNCHANGED <<config, late, channel, thread, pool, faults>>

-----------------------------------------------------------------------------
(* The thread, and the pool.                                               *)

\* Before each batch: the recall is over, nothing is left, or the next one.
NextRun(r) ==
  /\ scorer[r] = "between"
  /\ IF stop[r] \/ batch[r] = Batches
     THEN scorer' = Put(scorer, r, "ended") /\ UNCHANGED batch
     ELSE scorer' = Put(scorer, r, "waiting") /\ batch' = Put(batch, r, batch[r] + 1)
  /\ UNCHANGED <<config, recall, late, channel, held, pool, faults>>

\* acquire_until, acquire_blocking: the first that is free, late or not.
Acquire(r) ==
  /\ scorer[r] = "waiting" /\ free # <<>>
  /\ held' = Put(held, r, free[1])
  /\ free' = Tail(free)
  /\ scorer' = Put(scorer, r, "judging")
  /\ UNCHANGED <<config, recall, late, channel, batch, poisoned, faults>>

\* The recall listens, or has gone and the thread ends.
Send(r, answer) ==
  IF stage[r] = "judge"
  THEN /\ channel' = Put(channel, r, Append(channel[r], answer))
       /\ scorer' = Put(scorer, r, "between")
  ELSE scorer' = Put(scorer, r, "ended") /\ UNCHANGED channel

\* No session freed in time.
Busy(r) ==
  /\ timed /\ scorer[r] = "waiting" /\ late[r] /\ free = <<>>
  /\ Send(r, [Nothing EXCEPT !.kind = "busy"])
  /\ UNCHANGED <<config, recall, late, batch, held, pool, faults>>

\* Session::drop: the session goes back, whatever happened on it.
GiveBack(r) ==
  /\ free' = Append(free, held[r])
  /\ held' = Put(held, r, None)

\* A pass ends, with an error if the session is poisoned or the model fails.
Passes(r) == held[r] \notin poisoned /\ UNCHANGED faults
Fails(r)  == (held[r] \in poisoned /\ UNCHANGED faults) \/ Fault

\* external: what the model answers is in the order of its liking, each score
\* with the place of its document.  An answer may also be one short, or have a
\* place that was not asked about.
InSomeOrder(r, items) ==
  {[i \in DOMAIN order |-> [index |-> order[i] - Min(items), score |-> <<r, order[i]>>]] :
     order \in SetToSeqs(items)}
Malformed(answers) ==
  {Tail(answer) : answer \in answers}
  \cup {[answer EXCEPT ![1].index = Len(answer)] : answer \in answers}

\* Mutant of Align: the answer is taken to be in the order of the question.
AlignInOrder(answer, n) ==
  IF Len(answer) # n \/ (\E i \in DOMAIN answer : answer[i].index >= n)
  THEN [Nothing EXCEPT !.kind = "model"]
  ELSE [Nothing EXCEPT !.scores = [place \in 1..n |-> answer[place].score]]

\* align_scores: the last that names a place fills it.
Align(answer, n) ==
  IF Len(answer) # n \/ (\E i \in DOMAIN answer : answer[i].index >= n)
  THEN [Nothing EXCEPT !.kind = "model"]
  ELSE [Nothing EXCEPT !.scores = [place \in 1..n |->
          LET named == {i \in DOMAIN answer : answer[i].index = place - 1}
          IN IF named = {} THEN None ELSE answer[Max(named)].score]]

\* A pass over some items: what score and score_before make of it.
Judged(r, items) ==
  {Align(answer, Cardinality(items)) : answer \in InSomeOrder(r, items)}
Misjudged(r, items) ==
  {[Nothing EXCEPT !.kind = "model"]}
  \cup {Align(answer, Cardinality(items)) : answer \in Malformed(InSomeOrder(r, items))}

Judge(r) ==
  /\ timed /\ scorer[r] = "judging"
  /\ \/ Passes(r) /\ \E answer \in Judged(r, BatchOf(batch[r])) : Send(r, answer)
     \/ Fails(r) /\ \E answer \in Misjudged(r, BatchOf(batch[r])) : Send(r, answer)
  /\ GiveBack(r)
  /\ UNCHANGED <<config, recall, late, batch, poisoned>>

\* The whole head at once.
JudgeInline(r) ==
  /\ ~ timed /\ scorer[r] = "judging"
  /\ \/ Passes(r) /\ \E answer \in Judged(r, 1..Depth) :
                       Conclude(r, Pairs(1, answer.scores), None)
     \/ Fails(r) /\ \E answer \in Misjudged(r, 1..Depth) : Conclude(r, <<>>, answer.kind)
  /\ GiveBack(r)
  /\ scorer' = Put(scorer, r, "ended")
  /\ UNCHANGED <<config, late, channel, batch, poisoned>>

\* Mutant of Panic: the session dies with the thread.
PanicKeeps(r) ==
  /\ scorer[r] = "judging" /\ Fault
  /\ poisoned' = poisoned \cup {held[r]}
  /\ held' = Put(held, r, None)
  /\ scorer' = Put(scorer, r, "ended")
  /\ stage' = IF timed THEN stage ELSE Put(stage, r, "failed")
  /\ UNCHANGED <<config, judged, verdict, stop, late, channel, batch, free>>

\* A pass panics: its thread ends, or its recall; the session goes back with
\* its mutex poisoned.
Panic(r) ==
  /\ scorer[r] = "judging" /\ Fault
  /\ poisoned' = poisoned \cup {held[r]}
  /\ GiveBack(r)
  /\ scorer' = Put(scorer, r, "ended")
  /\ stage' = IF timed THEN stage ELSE Put(stage, r, "failed")
  /\ UNCHANGED <<config, judged, verdict, stop, late, channel, batch>>

-----------------------------------------------------------------------------
Listening(r) == Begin(r) \/ Receive(r) \/ NoAnswer(r)
Scoring(r) == NextRun(r) \/ Acquire(r) \/ Busy(r)

Next ==
  \E r \in Requests : \/ Listening(r) \/ Scoring(r) \/ TimePasses(r)
                      \/ Judge(r) \/ JudgeInline(r) \/ Panic(r)

\* Threads run and time passes; but a pass that a recall with a deadline
\* waits for need not ever return.
Fairness ==
  \A r \in Requests : /\ WF_vars(Listening(r)) /\ WF_vars(Scoring(r))
                      /\ WF_vars(TimePasses(r)) /\ WF_vars(JudgeInline(r))

Spec == Init /\ [][Next]_vars /\ Fairness

-----------------------------------------------------------------------------
(* Properties.                                                             *)

\* Whatever batch it travelled in, a score is filed under the very memory it
\* was given to, in the order of the head, and none is judged twice
\* (align_positions, "a score belongs to a (query, candidate) pair and not to
\* the batch it happened to travel in").
ScoresAreTheirOwn ==
  \A r \in Requests : \A i \in DOMAIN judged[r] : judged[r][i] = <<i, <<r, i>>>>

\* Every session is in the pool once or held by one recall, whatever errors,
\* deadlines and panics there were (InstancePool, "the pool cannot drain to
\* zero and stop serving").
SessionsAreConserved ==
  /\ \A i, j \in DOMAIN free : free[i] = free[j] => i = j
  /\ \A r, q \in Requests : held[r] # None /\ held[r] = held[q] => r = q
  /\ {held[r] : r \in Requests} \ {None} = Sessions \ Range(free)

\* Every recall answers.  One with a deadline does so though the model never
\* returns; one without needs the model to, and an earlier panic does not
\* keep it waiting.
RecallsAnswer ==
  \A r \in Requests : (stage[r] = "judge") ~> (stage[r] \in {"done", "failed"})
=============================================================================
