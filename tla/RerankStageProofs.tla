------------------------- MODULE RerankStageProofs -------------------------
(***************************************************************************)
(* Proofs about RerankStage: what becomes of the pool's sessions, and      *)
(* which memory a score is filed under, for any number of recalls and      *)
(* sessions, any depth and any size of batch.                              *)
(***************************************************************************)
EXTENDS RerankStage, FiniteSetTheorems, SequenceTheorems, TLAPS

-----------------------------------------------------------------------------
(* The pool: the invariant.                                                *)

PoolTypes ==
  /\ stage \in [Requests -> {"idle", "judge", "done", "failed"}]
  /\ scorer \in [Requests -> {None, "between", "waiting", "judging", "ended"}]
  /\ held \in [Requests -> Sessions \cup {None}]
  /\ free \in Seq(Sessions)

\* A session is held during a pass and at no other time, and there is no pass
\* before a recall begins.
HeldWhileJudging ==
  \A r \in Requests :
    /\ held[r] # None <=> scorer[r] = "judging"
    /\ stage[r] = "idle" => scorer[r] = None

PoolInv == PoolTypes /\ HeldWhileJudging /\ SessionsAreConserved

\* Sessions leave the pool at its front, and come back at its end.
LEMMA FrontLeaves ==
  ASSUME NEW S, NEW s \in Seq(S), s # <<>>,
         \A i, j \in DOMAIN s : s[i] = s[j] => i = j
  PROVE  /\ s[1] \in Range(s) /\ s[1] \in S
         /\ Tail(s) \in Seq(S)
         /\ \A i, j \in DOMAIN Tail(s) : Tail(s)[i] = Tail(s)[j] => i = j
         /\ Range(Tail(s)) = Range(s) \ {s[1]}
<1>1. PICK n \in Nat : n = Len(s) /\ n # 0 /\ DOMAIN s = 1..n /\ \A i \in 1..n : s[i] \in S
  BY EmptySeq, LenProperties, ElementOfSeq
<1>2. /\ Tail(s) \in Seq(S) /\ Len(Tail(s)) = n - 1 /\ DOMAIN Tail(s) = 1..(n - 1)
      /\ \A i \in 1..(n - 1) : Tail(s)[i] = s[i + 1]
  BY <1>1, HeadTailProperties, LenProperties
<1>3. 1 \in 1..n /\ \A i \in 1..(n - 1) : i + 1 \in 1..n
  BY <1>1
<1>4. ASSUME NEW i \in 1..(n - 1), NEW j \in 1..(n - 1), Tail(s)[i] = Tail(s)[j] PROVE i = j
  <2>1. i + 1 = j + 1
    BY <1>1, <1>2, <1>3, <1>4
  <2> QED BY <2>1
<1>5. ASSUME NEW x PROVE x \in Range(Tail(s)) <=> x \in Range(s) \ {s[1]}
  <2>1. ASSUME NEW i \in 1..(n - 1), x = Tail(s)[i] PROVE x \in Range(s) \ {s[1]}
    <3>1. x = s[i + 1] /\ i + 1 \in 1..n /\ i + 1 # 1
      BY <1>2, <1>3, <2>1
    <3> QED BY <1>1, <1>3, <3>1 DEF Range
  <2>2. ASSUME NEW i \in 1..n, x = s[i], x # s[1] PROVE x \in Range(Tail(s))
    <3>1. i - 1 \in 1..(n - 1) /\ (i - 1) + 1 = i
      BY <1>1, <2>2
    <3>2. x = Tail(s)[i - 1]
      BY <1>2, <2>2, <3>1
    <3> QED BY <1>2, <3>1, <3>2 DEF Range
  <2> QED BY <1>1, <1>2, <2>1, <2>2 DEF Range
<1> QED BY <1>1, <1>2, <1>3, <1>4, <1>5 DEF Range

LEMMA EndComes ==
  ASSUME NEW S, NEW s \in Seq(S), NEW x \in S, x \notin Range(s),
         \A i, j \in DOMAIN s : s[i] = s[j] => i = j
  PROVE  /\ Append(s, x) \in Seq(S)
         /\ \A i, j \in DOMAIN Append(s, x) : Append(s, x)[i] = Append(s, x)[j] => i = j
         /\ Range(Append(s, x)) = Range(s) \cup {x}
<1>1. PICK n \in Nat : n = Len(s) /\ DOMAIN s = 1..n
  BY LenProperties
<1>2. PICK t : t = Append(s, x)
  OBVIOUS
<1>3. /\ t \in Seq(S) /\ DOMAIN t = 1..(n + 1)
      /\ (\A i \in 1..n : t[i] = s[i]) /\ t[n + 1] = x
  BY <1>1, <1>2, AppendProperties, LenProperties
<1>4. \A i \in 1..(n + 1) : i \in 1..n \/ i = n + 1
  BY <1>1
<1>5. \A i \in 1..n : s[i] # x
  BY <1>1 DEF Range
<1>6. 1..n \subseteq 1..(n + 1) /\ n + 1 \in 1..(n + 1)
  BY <1>1
<1>7. \A i, j \in 1..(n + 1) : t[i] = t[j] => i = j
  BY <1>1, <1>3, <1>4, <1>5
<1>8. Range(t) = Range(s) \cup {x}
  BY <1>1, <1>3, <1>4, <1>6 DEF Range
<1> QED BY <1>2, <1>3, <1>7, <1>8

-----------------------------------------------------------------------------
(* The steps on the pool.                                                  *)

\* A step that leaves the pool alone, of a thread that is in no pass.
LEMMA PoolStays ==
  ASSUME PoolInv, UNCHANGED <<free, held>>, PoolTypes', HeldWhileJudging'
  PROVE  PoolInv'
  BY DEF PoolInv, SessionsAreConserved

LEMMA AcquiringConserves ==
  ASSUME PoolInv, NEW r \in Requests, Acquire(r)
  PROVE  PoolInv'
<1>1. PICK x : x = free[1]
  OBVIOUS
<1>2. /\ scorer[r] = "waiting" /\ held' = [held EXCEPT ![r] = x] /\ free' = Tail(free)
      /\ scorer' = [scorer EXCEPT ![r] = "judging"] /\ stage' = stage /\ free # <<>>
  BY <1>1 DEF Acquire, recall, Put
<1>3. /\ x \in Range(free) /\ x \in Sessions /\ free' \in Seq(Sessions)
      /\ \A i, j \in DOMAIN free' : free'[i] = free'[j] => i = j
      /\ Range(free') = Range(free) \ {x}
  BY <1>1, <1>2, FrontLeaves DEF PoolInv, PoolTypes, SessionsAreConserved
<1>4. held[r] = None /\ x # None /\ held'[r] = x /\ \A q \in Requests : q # r => held'[q] = held[q]
  BY <1>2, <1>3, StageAssumption DEF PoolInv, PoolTypes, HeldWhileJudging
<1>5. \A q \in Requests : held[q] # x
  BY <1>3, <1>4 DEF PoolInv, SessionsAreConserved
<1>6. PoolTypes' /\ HeldWhileJudging'
  BY <1>2, <1>3, <1>4 DEF PoolInv, PoolTypes, HeldWhileJudging, None
<1>7. \A p, q \in Requests : held'[p] # None /\ held'[p] = held'[q] => p = q
  BY <1>4, <1>5 DEF PoolInv, SessionsAreConserved
<1>8. {held'[q] : q \in Requests} \ {None} = ({held[q] : q \in Requests} \ {None}) \cup {x}
  BY <1>4
<1>9. {held'[q] : q \in Requests} \ {None} = Sessions \ Range(free')
  BY <1>3, <1>8 DEF PoolInv, SessionsAreConserved
<1> QED BY <1>3, <1>6, <1>7, <1>9 DEF PoolInv, SessionsAreConserved

\* A pass ends, well or badly: with it the session goes back.
LEMMA GivingBackConserves ==
  ASSUME PoolInv, NEW r \in Requests, scorer[r] = "judging", GiveBack(r),
         stage' \in [Requests -> {"idle", "judge", "done", "failed"}],
         \A q \in Requests : stage'[q] = "idle" => stage[q] = "idle",
         \E next \in {"between", "ended"} : scorer' = [scorer EXCEPT ![r] = next]
  PROVE  PoolInv'
<1>1. PICK x : x = held[r]
  OBVIOUS
<1>2. x # None /\ x \in Sessions /\ held' = [held EXCEPT ![r] = None] /\ free' = Append(free, x)
  BY <1>1 DEF GiveBack, PoolInv, PoolTypes, HeldWhileJudging, Put
<1>3. x \notin Range(free)
  BY <1>1, <1>2 DEF PoolInv, SessionsAreConserved
<1>4. /\ free' \in Seq(Sessions)
      /\ \A i, j \in DOMAIN free' : free'[i] = free'[j] => i = j
      /\ Range(free') = Range(free) \cup {x}
  BY <1>2, <1>3, EndComes DEF PoolInv, PoolTypes, SessionsAreConserved
<1>5. held'[r] = None /\ \A q \in Requests : q # r => held'[q] = held[q] /\ held[q] # x
  BY <1>1, <1>2 DEF PoolInv, PoolTypes, SessionsAreConserved
<1>6. PoolTypes'
  BY <1>2, <1>4 DEF PoolInv, PoolTypes
<1>7. HeldWhileJudging'
  <2>1. PICK next \in {"between", "ended"} : scorer' = [scorer EXCEPT ![r] = next]
    OBVIOUS
  <2>2. scorer'[r] = next /\ stage[r] # "idle" /\ \A q \in Requests : q # r => scorer'[q] = scorer[q]
    BY <2>1 DEF PoolInv, PoolTypes, HeldWhileJudging, None
  <2> QED BY <1>5, <2>2 DEF PoolInv, HeldWhileJudging
<1>8. \A p, q \in Requests : held'[p] # None /\ held'[p] = held'[q] => p = q
  BY <1>5 DEF PoolInv, SessionsAreConserved
<1>9. {held'[q] : q \in Requests} \ {None} = ({held[q] : q \in Requests} \ {None}) \ {x}
  BY <1>1, <1>5
<1>10. {held'[q] : q \in Requests} \ {None} = Sessions \ Range(free')
  BY <1>4, <1>9 DEF PoolInv, SessionsAreConserved
<1> QED BY <1>4, <1>6, <1>7, <1>8, <1>10 DEF PoolInv, SessionsAreConserved

LEMMA StepsConserve == PoolInv /\ [Next]_vars => PoolInv'
<1> SUFFICES ASSUME PoolInv, [Next]_vars PROVE PoolInv'
  OBVIOUS
<1> USE DEF recall, thread, pool, Put
<1>1. CASE UNCHANGED vars
  <2>1. PoolTypes' /\ HeldWhileJudging' /\ UNCHANGED <<free, held>>
    BY <1>1 DEF vars, PoolInv, PoolTypes, HeldWhileJudging
  <2> QED BY <2>1, PoolStays
<1>2. ASSUME NEW r \in Requests,
             Listening(r) \/ NextRun(r) \/ Busy(r) \/ TimePasses(r)
      PROVE  PoolInv'
  <2>1. UNCHANGED <<free, held>>
    BY <1>2 DEF Listening, Begin, Receive, NoAnswer, NextRun, Busy, TimePasses
  <2>2. PoolTypes'
    BY <1>2 DEF Listening, Begin, Receive, NoAnswer, NextRun, Busy, TimePasses, Conclude, Send,
       PoolInv, PoolTypes
  <2>3. HeldWhileJudging'
    BY <1>2 DEF Listening, Begin, Receive, NoAnswer, NextRun, Busy, TimePasses, Conclude, Send,
       PoolInv, PoolTypes, HeldWhileJudging, None
  <2> QED BY <2>1, <2>2, <2>3, PoolStays
<1>3. ASSUME NEW r \in Requests, Judge(r) \/ JudgeInline(r) \/ Panic(r) PROVE PoolInv'
  <2>1. scorer[r] = "judging" /\ GiveBack(r)
    BY <1>3 DEF Judge, JudgeInline, Panic
  <2>2. \E next \in {"between", "ended"} : scorer' = [scorer EXCEPT ![r] = next]
    BY <1>3 DEF Judge, JudgeInline, Panic, Send
  <2>3. /\ stage' \in [Requests -> {"idle", "judge", "done", "failed"}]
        /\ \A q \in Requests : stage'[q] = "idle" => stage[q] = "idle"
    BY <1>3 DEF Judge, JudgeInline, Panic, Conclude, PoolInv, PoolTypes
  <2> QED BY <2>1, <2>2, <2>3, GivingBackConserves
<1>4. ASSUME NEW r \in Requests, Acquire(r) PROVE PoolInv'
  BY <1>4, AcquiringConserves
<1> QED BY <1>1, <1>2, <1>3, <1>4 DEF Next, Scoring

LEMMA EverySessionOnce ==
  /\ SetToSeq(Sessions) \in Seq(Sessions)
  /\ \A i, j \in DOMAIN SetToSeq(Sessions) : SetToSeq(Sessions)[i] = SetToSeq(Sessions)[j] => i = j
  /\ Range(SetToSeq(Sessions)) = Sessions
<1>1. PICK n \in Nat : n = Cardinality(Sessions) /\ ExistsBijection(1..n, Sessions)
  BY StageAssumption, FS_CardinalityType
<1>2. PICK f : f = SetToSeq(Sessions)
  OBVIOUS
<1>3. \E g \in [1..n -> Sessions] : IsInjective(g)
  BY <1>1 DEF ExistsBijection, Bijection, Injection
<1>4. f \in [1..n -> Sessions] /\ IsInjective(f)
  BY <1>1, <1>2, <1>3 DEF SetToSeq
<1>5. f \in Injection(1..n, Sessions)
  BY <1>4 DEF Injection
<1>6. IsFiniteSet(1..n) /\ Cardinality(1..n) = n
  BY <1>1, FS_Interval
<1>7. f \in Surjection(1..n, Sessions)
  BY <1>1, <1>5, <1>6, FS_Injection, StageAssumption
<1>8. Range(f) = Sessions
  BY <1>4, <1>7 DEF Range, Surjection
<1>9. f \in Seq(Sessions)
  BY <1>1, <1>4, SeqDef
<1> QED BY <1>2, <1>4, <1>8, <1>9 DEF IsInjective

LEMMA PoolAtFirst == Init => PoolInv
<1> SUFFICES ASSUME Init PROVE PoolInv
  OBVIOUS
<1>1. free = SetToSeq(Sessions) /\ \A r \in Requests : held[r] = None
  BY DEF Init
<1>2. HeldWhileJudging
  BY DEF Init, HeldWhileJudging, None
<1>3. PoolTypes
  BY <1>1, EverySessionOnce DEF Init, PoolTypes, None
<1> QED BY <1>2, <1>3, <1>1, EverySessionOnce DEF PoolInv, SessionsAreConserved

\* For any number of recalls and of sessions, whatever answers, errors, panics
\* and deadlines there are and in whatever order: no session is lost, and none
\* is held by two recalls (instance_pool.rs, Session::drop).
THEOREM SessionsAreConservedAlways == Spec => []SessionsAreConserved
<1>1. PoolInv => SessionsAreConserved
  BY DEF PoolInv
<1> QED
  BY <1>1, PoolAtFirst, StepsConserve, PTL DEF Spec

-----------------------------------------------------------------------------
(* Answers: what align_scores makes of them.                               *)

\* The scores the model gives to n items of r that follow the first a.
Liked(r, a, n) == [place \in 1..n |-> <<r, a + place>>]

LEMMA LengthOfFunction ==
  ASSUME NEW n \in Nat, NEW S, NEW f \in [1..n -> S]
  PROVE  f \in Seq(S) /\ Len(f) = n /\ DOMAIN f = 1..n
<1>1. f \in Seq(S)
  BY SeqDef
<1>2. 1..Len(f) = 1..n /\ Len(f) \in Nat
  BY <1>1, LenProperties
<1> QED BY <1>1, <1>2

LEMMA IntervalsAreCounted ==
  ASSUME NEW a \in Nat, NEW n \in Nat \ {0}
  PROVE  Cardinality(a + 1 .. a + n) = n /\ Min(a + 1 .. a + n) = a + 1
<1>1. a + 1 \in a + 1 .. a + n /\ \A y \in a + 1 .. a + n : a + 1 <= y
  OBVIOUS
<1>2. \A x \in a + 1 .. a + n : (\A y \in a + 1 .. a + n : x <= y) => x = a + 1
  BY <1>1
<1>3. Min(a + 1 .. a + n) = a + 1
  BY <1>1, <1>2 DEF Min
<1> QED BY <1>3, FS_Interval

\* An answer names each of n items that follow the first a once, in the order.
Names(answer, r, a, n, order) ==
  /\ order \in [1..n -> a + 1 .. a + n]
  /\ \A i, j \in 1..n : order[i] = order[j] => i = j
  /\ \A x \in a + 1 .. a + n : \E i \in 1..n : order[i] = x
  /\ answer = [i \in 1..n |-> [index |-> order[i] - (a + 1), score |-> <<r, order[i]>>]]

LEMMA AnswersNameAll ==
  ASSUME NEW r, NEW a \in Nat, NEW n \in Nat \ {0}, NEW items, items = a + 1 .. a + n,
         NEW answer \in InSomeOrder(r, items)
  PROVE  \E order : Names(answer, r, a, n, order)
<1>2. Cardinality(items) = n /\ Min(items) = a + 1
  BY IntervalsAreCounted
<1>3. PICK order \in SetToSeqs(items) :
        answer = [i \in DOMAIN order |-> [index |-> order[i] - Min(items), score |-> <<r, order[i]>>]]
  BY DEF InSomeOrder
<1>4. order \in [1..n -> items] /\ \A i, j \in 1..n : i # j => order[i] # order[j]
  BY <1>2, <1>3 DEF SetToSeqs
<1>5. DOMAIN order = 1..n
  BY <1>4
<1>6. answer = [i \in 1..n |-> [index |-> order[i] - (a + 1), score |-> <<r, order[i]>>]]
  BY <1>2, <1>3, <1>5
<1>7. order \in Injection(1..n, items)
  BY <1>4 DEF Injection, IsInjective
<1>8. IsFiniteSet(items) /\ Cardinality(1..n) = n
  BY FS_Interval
<1>9. order \in Surjection(1..n, items)
  BY <1>2, <1>7, <1>8, FS_Injection
<1>10. \A x \in items : \E i \in 1..n : order[i] = x
  BY <1>9 DEF Surjection
<1>11. Names(answer, r, a, n, order)
  BY <1>4, <1>6, <1>10 DEF Names
<1> QED BY <1>11

Answers(r) == [index : Int, score : {r} \X Nat]

LEMMA AnswersAreLong ==
  ASSUME NEW r, NEW a \in Nat, NEW n \in Nat \ {0}, NEW answer, NEW order,
         Names(answer, r, a, n, order)
  PROVE  answer \in Seq(Answers(r)) /\ Len(answer) = n /\ DOMAIN answer = 1..n
<1>1. ASSUME NEW i \in 1..n
      PROVE  [index |-> order[i] - (a + 1), score |-> <<r, order[i]>>] \in Answers(r)
  <2>1. order[i] \in a + 1 .. a + n
    BY DEF Names
  <2>2. order[i] \in Nat /\ order[i] - (a + 1) \in Int
    BY <2>1
  <2> QED BY <2>2 DEF Answers
<1>2. answer \in [1..n -> Answers(r)]
  BY <1>1 DEF Names
<1> QED BY <1>2, LengthOfFunction

\* Put back in the order they were asked in, the scores are each item's own.
LEMMA AlignedAnswers ==
  ASSUME NEW r, NEW a \in Nat, NEW n \in Nat \ {0}, NEW answer, NEW order,
         Names(answer, r, a, n, order)
  PROVE  Align(answer, n) = [kind |-> None, scores |-> Liked(r, a, n)]
<1>2. Len(answer) = n /\ DOMAIN answer = 1..n
  BY AnswersAreLong
<1>3. \A i \in 1..n : answer[i].index = order[i] - (a + 1) /\ answer[i].score = <<r, order[i]>>
                      /\ order[i] \in a + 1 .. a + n
  BY DEF Names
<1>4. ~ \E i \in DOMAIN answer : answer[i].index >= n
  BY <1>2, <1>3
<1>5. ASSUME NEW place \in 1..n
      PROVE  LET named == {i \in DOMAIN answer : answer[i].index = place - 1}
             IN (IF named = {} THEN None ELSE answer[Max(named)].score) = <<r, a + place>>
  <2>1. a + place \in a + 1 .. a + n
    OBVIOUS
  <2>2. PICK i \in 1..n : order[i] = a + place
    BY <2>1 DEF Names
  <2>3. ASSUME NEW j \in 1..n PROVE answer[j].index = place - 1 <=> j = i
    <3>1. order[j] = order[i] => j = i
      BY <2>2, <2>3 DEF Names
    <3>2. answer[j].index = order[j] - (a + 1) /\ order[j] \in Int
      BY <1>3, <2>3
    <3> QED BY <2>2, <3>1, <3>2
  <2>4. {j \in DOMAIN answer : answer[j].index = place - 1} = {i}
    BY <1>2, <2>3
  <2>5. Max({i}) = i
    BY DEF Max
  <2> QED BY <1>3, <2>2, <2>4, <2>5
<1> QED BY <1>2, <1>4, <1>5 DEF Align, Nothing, Liked

\* One that is short, or names what was not asked about, is an error.
LEMMA MisalignedAnswers ==
  ASSUME NEW r, NEW a \in Nat, NEW n \in Nat \ {0},
         NEW items, items = a + 1 .. a + n, NEW answer \in Misjudged(r, items)
  PROVE  answer = [kind |-> "model", scores |-> <<>>]
<1>1. items = a + 1 .. a + n
  OBVIOUS
<1>2. Cardinality(items) = n
  BY <1>1, IntervalsAreCounted
<1>3. CASE answer = [Nothing EXCEPT !.kind = "model"]
  BY <1>3 DEF Nothing
<1>4. ASSUME NEW whole \in InSomeOrder(r, items), answer = Align(Tail(whole), n)
      PROVE  answer = [kind |-> "model", scores |-> <<>>]
  <2>1. whole \in Seq(Answers(r)) /\ Len(whole) = n
    BY <1>1, <1>4, AnswersNameAll, AnswersAreLong
  <2>2. whole # <<>>
    BY <2>1, EmptySeq
  <2>3. Len(Tail(whole)) = n - 1
    BY <2>1, <2>2, HeadTailProperties
  <2> QED BY <1>4, <2>3 DEF Align, Nothing
<1>5. ASSUME NEW whole \in InSomeOrder(r, items),
             answer = Align([whole EXCEPT ![1].index = Len(whole)], n)
      PROVE  answer = [kind |-> "model", scores |-> <<>>]
  <2>1. whole \in Seq(Answers(r)) /\ Len(whole) = n /\ DOMAIN whole = 1..n
    BY <1>1, <1>5, AnswersNameAll, AnswersAreLong
  <2>2. whole[1] \in Answers(r) /\ 1 \in 1..n
    BY <2>1, ElementOfSeq
  <2>3. PICK first : first = [whole[1] EXCEPT !.index = n]
    OBVIOUS
  <2>4. first.index = n
    BY <2>2, <2>3 DEF Answers
  <2>5. [whole EXCEPT ![1].index = Len(whole)] = [whole EXCEPT ![1] = first]
    BY <2>1, <2>3
  <2>6. PICK bad : bad = [whole EXCEPT ![1] = first]
    OBVIOUS
  <2>7. bad[1].index >= n /\ 1 \in DOMAIN bad
    BY <2>1, <2>2, <2>4, <2>6
  <2> QED BY <1>5, <2>5, <2>6, <2>7 DEF Align, Nothing
<1>6. \/ answer = [Nothing EXCEPT !.kind = "model"]
      \/ \E whole \in InSomeOrder(r, items) :
           \/ answer = Align(Tail(whole), n)
           \/ answer = Align([whole EXCEPT ![1].index = Len(whole)], n)
  BY <1>1, <1>2 DEF Misjudged, Malformed
<1> QED BY <1>3, <1>4, <1>5, <1>6

-----------------------------------------------------------------------------
(* Batches.                                                                *)

\* Where a batch starts, and how many are in it.
SizeOf(n) == Least2(n * Chunk, Depth) - (n - 1) * Chunk

LEMMA BatchesCoverTheHead ==
  /\ Batches \in Nat \ {0}
  /\ \A k \in Nat : k < Batches => k * Chunk \in Nat /\ k * Chunk < Depth
<1>1. PICK c \in Nat \ {0} : c = Chunk
  BY StageAssumption
<1>2. PICK d \in Nat : d = Depth + Chunk - 1 /\ d >= c
  BY <1>1, StageAssumption
<1>3. PICK q \in Nat : q = d \div c /\ c * q <= d
  BY <1>1, <1>2, SMT
<1>4. q # 0
  BY <1>1, <1>2, <1>3, SMT
<1>5. ASSUME NEW k \in Nat, k < q PROVE k * c \in Nat /\ k * c < Depth
  <2>1. (k + 1) * c <= c * q
    BY <1>1, <1>3, <1>5, SMT
  <2>2. (k + 1) * c = k * c + c
    BY <1>1, <1>5, SMT
  <2> QED BY <1>1, <1>2, <1>3, <2>1, <2>2, StageAssumption
<1> QED BY <1>1, <1>2, <1>3, <1>4, <1>5 DEF Batches

LEMMA BatchIsAnInterval ==
  ASSUME NEW k \in Nat, k < Batches
  PROVE  /\ SizeOf(k + 1) \in Nat \ {0}
         /\ BatchOf(k + 1) = k * Chunk + 1 .. k * Chunk + SizeOf(k + 1)
         /\ k + 1 < Batches => SizeOf(k + 1) = Chunk
         /\ k * Chunk + SizeOf(k + 1) <= Depth
         /\ (k * Chunk) \div Chunk = k
         /\ (k + 1) * Chunk = k * Chunk + Chunk
<1>1. PICK c \in Nat \ {0} : c = Chunk
  BY StageAssumption
<1>2. PICK x \in Nat : x = k * c /\ x < Depth
  BY <1>1, BatchesCoverTheHead
<1>3. (k + 1) * c = x + c /\ k + 1 - 1 = k
  BY <1>1, <1>2, SMT
<1>4. (k * c) \div c = k
  <2>1. PICK q \in Int : q = (k * c) \div c
    BY <1>1, SMT
  <2>2. c * q <= k * c /\ k * c < c * q + c
    BY <1>1, <2>1, SMTT(20)
  <2>3. PICK e \in Int : e = k - q
    BY <2>1
  <2>4. k = q + e
    BY <2>3, <2>1
  <2>5. k * c = c * q + c * e
    BY <1>1, <2>1, <2>4, SMT
  <2>6. PICK p \in Int : p = c * e
    BY <1>1, SMT
  <2>7. p >= 0 /\ p < c
    BY <1>1, <2>1, <2>2, <2>5, <2>6, SMT
  <2>8. ~ e >= 1
    BY <1>1, <2>6, <2>7, SMT
  <2>9. ~ e <= -1
    <3>1. SUFFICES ASSUME e <= -1 PROVE FALSE
      OBVIOUS
    <3>2. PICK f \in Nat : e = -1 - f
      BY <3>1
    <3>3. PICK m \in Int : m = c * f
      BY <1>1, <3>2, SMT
    <3>4. m >= 0
      BY <1>1, <3>2, <3>3, SMT
    <3>5. p + c + m = 0
      BY <1>1, <2>6, <3>2, <3>3, SMT
    <3> QED BY <1>1, <2>7, <3>4, <3>5
  <2>10. q = k
    BY <2>1, <2>3, <2>4, <2>8, <2>9
  <2> QED BY <2>1, <2>10, Zenon
<1>5. ASSUME k + 1 < Batches PROVE x + c < Depth
  <2>1. PICK m \in Nat : m = k + 1
    OBVIOUS
  <2>2. m * Chunk < Depth
    BY <1>5, <2>1, BatchesCoverTheHead
  <2> QED BY <1>1, <1>3, <2>1, <2>2
<1>6. SizeOf(k + 1) = Least2(x + c, Depth) - x /\ BatchOf(k + 1) = x + 1 .. Least2(x + c, Depth)
  BY <1>1, <1>2, <1>3 DEF SizeOf, BatchOf
<1> QED BY <1>1, <1>2, <1>3, <1>4, <1>5, <1>6, StageAssumption DEF Least2

\* The pairs of the first l items.
Ranked(r, l) == [i \in 1..l |-> <<i, <<r, i>>>>]

\* What may be answered about the nth batch: an error, or each item's own.
Sound(r, n) ==
  {[kind |-> "busy", scores |-> <<>>], [kind |-> "model", scores |-> <<>>],
   [kind |-> None, scores |-> Liked(r, (n - 1) * Chunk, SizeOf(n))]}

LEMMA EmptyRanked == ASSUME NEW r PROVE Ranked(r, 0) = <<>>
<1>1. Ranked(r, 0) \in [1..0 -> {0}]
  BY DEF Ranked
<1>2. Ranked(r, 0) \in Seq({0}) /\ Len(Ranked(r, 0)) = 0
  BY <1>1, LengthOfFunction
<1> QED BY <1>2, EmptySeq

LEMMA RankedIsLong ==
  ASSUME NEW r, NEW l \in Nat
  PROVE  /\ Ranked(r, l) \in Seq(Nat \X ({r} \X Nat)) /\ Len(Ranked(r, l)) = l
         /\ DOMAIN Ranked(r, l) = 1..l
<1>1. Ranked(r, l) \in [1..l -> Nat \X ({r} \X Nat)]
  BY DEF Ranked
<1> QED BY <1>1, LengthOfFunction

\* The pairs of a batch follow those of the batches before it.
LEMMA BatchesFollow ==
  ASSUME NEW r, NEW a \in Nat, NEW n \in Nat,
         NEW m \in Nat, (m - 1) * Chunk = a
  PROVE  Ranked(r, a) \o Pairs(m, Liked(r, a, n)) = Ranked(r, a + n)
<1>1. PICK p : p = Pairs(m, Liked(r, a, n))
  OBVIOUS
<1>2. p = [i \in 1..n |-> <<a + i, <<r, a + i>>>>]
  BY <1>1 DEF Pairs, Liked
<1> DEFINE S == Nat \X ({r} \X Nat)
<1>3. p \in [1..n -> S]
  BY <1>2
<1> HIDE DEF S
<1>4. p \in Seq(S) /\ Len(p) = n
  BY <1>3, LengthOfFunction
<1>5. PICK f : f = Ranked(r, a)
  OBVIOUS
<1>6. f \in Seq(S) /\ Len(f) = a /\ \A i \in 1..a : f[i] = <<i, <<r, i>>>>
  BY <1>5, RankedIsLong DEF Ranked, S
<1>7. PICK c : c = f \o p
  OBVIOUS
<1>8. /\ c \in Seq(S) /\ Len(c) = a + n
      /\ \A i \in 1..(a + n) : c[i] = IF i <= a THEN f[i] ELSE p[i - a]
  <2>1. /\ f \o p \in Seq(S) /\ Len(f \o p) = Len(f) + Len(p)
        /\ \A i \in 1 .. Len(f) + Len(p) :
             (f \o p)[i] = IF i <= Len(f) THEN f[i] ELSE p[i - Len(f)]
    BY <1>4, <1>6, ConcatProperties, Zenon
  <2> QED BY <1>4, <1>6, <1>7, <2>1, Zenon
<1>9. PICK w : w = Ranked(r, a + n)
  OBVIOUS
<1>10. w \in Seq(S) /\ Len(w) = a + n /\ \A i \in 1..(a + n) : w[i] = <<i, <<r, i>>>>
  BY <1>9, RankedIsLong DEF Ranked, S
<1>11. ASSUME NEW i \in 1..(a + n) PROVE c[i] = w[i]
  <2>1. CASE i <= a
    <3>1. c[i] = f[i] /\ i \in 1..a
      BY <1>8, <2>1
    <3> QED BY <1>6, <1>10, <3>1
  <2>2. CASE i > a
    <3>1. c[i] = p[i - a]
      BY <1>8, <2>2
    <3>2. PICK j \in 1..n : j = i - a /\ a + j = i
      BY <2>2
    <3>3. p[j] = <<i, <<r, i>>>>
      BY <1>2, <3>2
    <3> QED BY <1>10, <3>1, <3>2, <3>3
  <2> QED BY <2>1, <2>2
<1>12. c = w
  BY <1>8, <1>10, <1>11, SeqEqual
<1> QED BY <1>1, <1>5, <1>7, <1>9, <1>12

LEMMA JudgedIsSound ==
  ASSUME NEW r, NEW k \in Nat, k < Batches,
         NEW answer \in Judged(r, BatchOf(k + 1)) \cup Misjudged(r, BatchOf(k + 1))
  PROVE  answer \in Sound(r, k + 1)
<1>1. PICK a \in Nat : a = k * Chunk
  BY BatchesCoverTheHead
<1>2. PICK n \in Nat \ {0} : n = SizeOf(k + 1)
  BY BatchIsAnInterval
<1>3. PICK items : items = BatchOf(k + 1)
  OBVIOUS
<1>4. items = a + 1 .. a + n /\ Cardinality(items) = n
  BY <1>1, <1>2, <1>3, BatchIsAnInterval, IntervalsAreCounted
<1>5. (k + 1) - 1 = k
  OBVIOUS
<1>6. CASE answer \in Misjudged(r, items)
  BY <1>4, <1>6, MisalignedAnswers DEF Sound
<1>7. CASE answer \in Judged(r, items)
  <2>1. PICK whole \in InSomeOrder(r, items) : answer = Align(whole, n)
    BY <1>4, <1>7 DEF Judged
  <2>2. PICK order : Names(whole, r, a, n, order)
    BY <1>4, <2>1, AnswersNameAll
  <2>3. answer = [kind |-> None, scores |-> Liked(r, a, n)]
    BY <2>1, <2>2, AlignedAnswers
  <2> QED BY <1>1, <1>2, <1>5, <2>3 DEF Sound
<1> QED BY <1>3, <1>6, <1>7

-----------------------------------------------------------------------------
(* The scores: the invariant.                                              *)

\* After k batches: what is in the channel is about the batches that follow,
\* and the thread is at the one that follows those.
Underway(r, k) ==
  /\ k \in Nat /\ k < Batches /\ judged[r] = Ranked(r, k * Chunk)
  /\ channel[r] \in Seq(UNION {Sound(r, n) : n \in Nat})
  /\ k + Len(channel[r]) <= Batches
  /\ \A j \in 1..Len(channel[r]) : channel[r][j] \in Sound(r, k + j)
  /\ scorer[r] \in {"waiting", "judging"} =>
       batch[r] = k + Len(channel[r]) + 1 /\ batch[r] <= Batches
  /\ scorer[r] = "between" => batch[r] = k + Len(channel[r])

OwnScores(r) ==
  /\ \E l \in Nat : judged[r] = Ranked(r, l)
  /\ stage[r] = "idle" => judged[r] = <<>> /\ channel[r] = <<>> /\ batch[r] = 0
  /\ timed /\ stage[r] = "judge" => \E k : Underway(r, k)

ScoreTypes ==
  /\ judged = [r \in Requests |-> judged[r]]
  /\ channel = [r \in Requests |-> channel[r]]
  /\ batch \in [Requests -> Nat]
  /\ timed \in BOOLEAN

ScoreInv == PoolInv /\ ScoreTypes /\ \A r \in Requests : OwnScores(r)

\* A step of one recall leaves those of the others alone.
Others(r) ==
  \A q \in Requests \ {r} :
    UNCHANGED <<judged[q], stage[q], channel[q], scorer[q], batch[q]>>

LEMMA OthersKeepScores ==
  ASSUME ScoreInv, NEW r \in Requests, Others(r), timed' = timed, NEW q \in Requests, q # r
  PROVE  OwnScores(q)'
<1>1. OwnScores(q) /\ UNCHANGED <<judged[q], stage[q], channel[q], scorer[q], batch[q]>>
  BY DEF ScoreInv, Others
<1>2. \A k : Underway(q, k) => Underway(q, k)'
  BY <1>1 DEF Underway
<1> QED BY <1>1, <1>2 DEF OwnScores

\* What becomes of a recall whose time is over, or whose batches are.
LEMMA ConcludedScores ==
  ASSUME NEW r \in Requests, ScoreInv, NEW l \in Nat, NEW interruption,
         Conclude(r, Ranked(r, l), interruption)
  PROVE  OwnScores(r)' /\ judged' = [q \in Requests |-> judged'[q]]
BY DEF Conclude, Put, ScoreInv, ScoreTypes, PoolInv, PoolTypes, OwnScores

LEMMA ReceivingKeepsScores ==
  ASSUME ScoreInv, NEW r \in Requests, Receive(r)
  PROVE  OwnScores(r)'
<1>1. PICK k : Underway(r, k)
  BY DEF Receive, ScoreInv, OwnScores
<1>2. PICK seq : seq = channel[r]
  OBVIOUS
<1>3. PICK first : first = seq[1]
  OBVIOUS
<1>4. PICK len \in Nat : len = Len(seq) /\ len # 0
  BY <1>1, <1>2, EmptySeq, LenProperties DEF Receive, Underway
<1>5. first \in Sound(r, k + 1) /\ k \in Nat /\ k < Batches
  BY <1>1, <1>2, <1>3, <1>4 DEF Underway
<1>6. PICK l \in Nat : l = k * Chunk /\ judged[r] = Ranked(r, l) /\ Len(judged[r]) = l
  BY <1>1, <1>5, BatchesCoverTheHead, RankedIsLong DEF Underway
<1>7. Len(judged[r]) \div Chunk + 1 = k + 1
  BY <1>5, <1>6, BatchIsAnInterval
<1>8. CASE first.kind # None
  <2>1. Conclude(r, Ranked(r, l), first.kind)
    BY <1>2, <1>3, <1>6, <1>8 DEF Receive
  <2> QED BY <2>1, ConcludedScores
<1>9. CASE first.kind = None
  <2>1. PICK n \in Nat : n = SizeOf(k + 1)
    BY <1>5, BatchIsAnInterval
  <2>2. first.scores = Liked(r, l, n)
    <3>1. k + 1 - 1 = k
      BY <1>5
    <3> QED BY <1>5, <1>6, <1>9, <2>1, <3>1 DEF Sound, None
  <2>3. judged[r] \o Pairs(k + 1, first.scores) = Ranked(r, l + n)
    <3>1. PICK m \in Nat : m = k + 1 /\ m - 1 = k
      BY <1>5
    <3>2. (m - 1) * Chunk = l
      BY <1>6, <3>1
    <3>3. Ranked(r, l) \o Pairs(m, Liked(r, l, n)) = Ranked(r, l + n)
      BY <3>2, BatchesFollow, Zenon
    <3> QED BY <1>6, <2>2, <3>1, <3>3
  <2>4. CASE k + 1 = Batches
    <3>1. Conclude(r, Ranked(r, l + n), None)
      BY <1>2, <1>3, <1>7, <1>9, <2>3, <2>4 DEF Receive
    <3> QED BY <2>1, <3>1, ConcludedScores
  <2>5. CASE k + 1 # Batches
    <3>1. /\ judged' = [judged EXCEPT ![r] = Ranked(r, l + n)]
          /\ channel' = [channel EXCEPT ![r] = Tail(seq)]
          /\ UNCHANGED <<stage, scorer, batch, timed>>
      BY <1>2, <1>3, <1>7, <1>9, <2>3, <2>5 DEF Receive, Put, thread, config
    <3>2. judged'[r] = Ranked(r, l + n) /\ channel'[r] = Tail(seq)
      BY <3>1 DEF ScoreInv, ScoreTypes
    <3>3. k + 1 \in Nat /\ k + 1 < Batches /\ l + n = (k + 1) * Chunk
      BY <1>5, <1>6, <2>1, <2>5, BatchIsAnInterval, BatchesCoverTheHead
    <3>4. /\ Tail(seq) \in Seq(UNION {Sound(r, m) : m \in Nat}) /\ Len(Tail(seq)) = len - 1
          /\ \A j \in 1..(len - 1) : Tail(seq)[j] = seq[j + 1]
      BY <1>1, <1>2, <1>4, EmptySeq, HeadTailProperties DEF Underway
    <3>5. ASSUME NEW j \in 1..(len - 1) PROVE Tail(seq)[j] \in Sound(r, k + 1 + j)
      <4>1. j + 1 \in 1..len /\ k + (j + 1) = k + 1 + j
        BY <1>4, <1>5
      <4>2. seq[j + 1] \in Sound(r, k + (j + 1))
        BY <1>1, <1>2, <1>4, <4>1 DEF Underway
      <4> QED BY <3>4, <4>1, <4>2
    <3>6. Underway(r, k + 1)'
      <4>1. /\ scorer[r] \in {"waiting", "judging"} => batch[r] = k + len + 1 /\ batch[r] <= Batches
            /\ scorer[r] = "between" => batch[r] = k + len
            /\ k + len <= Batches
        BY <1>1, <1>2, <1>4 DEF Underway
      <4>2. (k + 1) + (len - 1) = k + len
        BY <1>4, <1>5
      <4>3. scorer'[r] = scorer[r] /\ batch'[r] = batch[r] /\ Len(channel'[r]) = len - 1
        BY <3>1, <3>2, <3>4
      <4>4. judged'[r] = Ranked(r, (k + 1) * Chunk)
        BY <3>2, <3>3
      <4> QED BY <3>2, <3>3, <3>4, <3>5, <4>1, <4>2, <4>3, <4>4 DEF Underway
    <3>7. l + n \in Nat /\ stage[r] # "idle"
      BY <2>1 DEF Receive
    <3> QED BY <3>1, <3>2, <3>6, <3>7 DEF OwnScores
  <2> QED BY <2>4, <2>5
<1> QED BY <1>8, <1>9

\* The thread sends an answer about the batch it is at.
LEMMA SendingKeepsScores ==
  ASSUME ScoreInv, NEW r \in Requests, NEW answer, timed, Send(r, answer),
         scorer[r] \in {"waiting", "judging"}, UNCHANGED <<judged, stage, batch, timed>>,
         \A k \in Nat : k < Batches /\ batch[r] = k + 1 => answer \in Sound(r, k + 1)
  PROVE  OwnScores(r)'
<1>1. stage[r] # "idle" /\ OwnScores(r)
  BY DEF ScoreInv, PoolInv, HeldWhileJudging, None
<1>2. CASE stage[r] # "judge"
  BY <1>1, <1>2 DEF OwnScores
<1>3. CASE stage[r] = "judge"
  <2>1. PICK k : Underway(r, k)
    BY <1>1, <1>3 DEF OwnScores
  <2>2. PICK seq : seq = channel[r]
    OBVIOUS
  <2>3. PICK len \in Nat : len = Len(seq)
    BY <2>1, <2>2, LenProperties DEF Underway
  <2>4. k \in Nat /\ batch[r] = k + len + 1 /\ k + len < Batches /\ Batches \in Nat
    BY <2>1, <2>2, <2>3, BatchesCoverTheHead DEF Underway
  <2>5. PICK m \in Nat : m = k + len /\ m < Batches /\ batch[r] = m + 1
    BY <2>3, <2>4
  <2>6. answer \in Sound(r, m + 1)
    BY <2>5
  <2>7. channel'[r] = Append(seq, answer) /\ scorer'[r] = "between"
    BY <1>3, <2>2 DEF Send, Put, ScoreInv, ScoreTypes, PoolInv, PoolTypes
  <2> DEFINE S == UNION {Sound(r, n) : n \in Nat}
  <2>8. seq \in Seq(S) /\ answer \in S
    <3>1. m + 1 \in Nat
      OBVIOUS
    <3> QED BY <2>1, <2>2, <2>6, <3>1 DEF Underway
  <2> HIDE DEF S
  <2>9. PICK app : app = Append(seq, answer)
    OBVIOUS
  <2>10. /\ app \in Seq(S) /\ Len(app) = len + 1 /\ app[len + 1] = answer
         /\ \A j \in 1..len : app[j] = seq[j]
    BY <2>3, <2>8, <2>9, AppendProperties
  <2>11. ASSUME NEW j \in 1..(len + 1) PROVE app[j] \in Sound(r, k + j)
    <3>1. CASE j \in 1..len
      BY <2>1, <2>2, <2>3, <2>10, <3>1 DEF Underway
    <3>2. CASE j = len + 1
      <4>1. k + j = m + 1
        BY <2>3, <2>4, <2>5, <3>2
      <4> QED BY <2>6, <2>10, <3>2, <4>1
    <3> QED BY <2>3, <3>1, <3>2
  <2>12. Underway(r, k)'
    <3>1. channel'[r] = app /\ Len(channel'[r]) = len + 1
      BY <2>7, <2>9, <2>10
    <3>2. k + (len + 1) <= Batches /\ batch'[r] = k + (len + 1)
      BY <2>3, <2>4
    <3>3. k \in Nat /\ k < Batches /\ judged'[r] = Ranked(r, k * Chunk)
      BY <2>1 DEF Underway
    <3> QED BY <2>7, <2>10, <2>11, <3>1, <3>2, <3>3 DEF Underway, S
  <2> QED BY <1>1, <1>3, <2>12 DEF OwnScores
<1> QED BY <1>2, <1>3

LEMMA JudgingKeepsScores ==
  ASSUME ScoreInv, NEW r \in Requests, Judge(r) \/ Busy(r)
  PROVE  OwnScores(r)'
<1>1. PICK answer :
        /\ Send(r, answer)
        /\ answer \in Judged(r, BatchOf(batch[r])) \cup Misjudged(r, BatchOf(batch[r]))
           \/ answer = [kind |-> "busy", scores |-> <<>>]
  BY DEF Judge, Busy, Nothing
<1>2. \A k \in Nat : k < Batches /\ batch[r] = k + 1 => answer \in Sound(r, k + 1)
  <2>1. CASE answer = [kind |-> "busy", scores |-> <<>>]
    BY <2>1 DEF Sound
  <2>2. CASE answer \in Judged(r, BatchOf(batch[r])) \cup Misjudged(r, BatchOf(batch[r]))
    BY <2>2, JudgedIsSound
  <2> QED BY <1>1, <2>1, <2>2
<1>3. timed /\ scorer[r] \in {"waiting", "judging"} /\ UNCHANGED <<judged, stage, batch, timed>>
  BY DEF Judge, Busy, recall, config
<1> QED BY <1>1, <1>2, <1>3, SendingKeepsScores

\* Without a deadline, the head is one batch.
LEMMA JudgingInlineKeepsScores ==
  ASSUME ScoreInv, NEW r \in Requests, JudgeInline(r)
  PROVE  OwnScores(r)'
<1>1. CASE \E answer \in Misjudged(r, 1..Depth) : Conclude(r, <<>>, answer.kind)
  BY <1>1, EmptyRanked, ConcludedScores
<1>2. CASE \E answer \in Judged(r, 1..Depth) : Conclude(r, Pairs(1, answer.scores), None)
  <2>1. PICK items : items = 1..Depth
    OBVIOUS
  <2>2. PICK answer \in Judged(r, items) : Conclude(r, Pairs(1, answer.scores), None)
    BY <1>2, <2>1
  <2>3. PICK d \in Nat \ {0} : d = Depth
    BY StageAssumption
  <2>4. items = 0 + 1 .. 0 + d /\ Cardinality(items) = d
    BY <2>1, <2>3, FS_Interval
  <2>5. PICK whole \in InSomeOrder(r, items) : answer = Align(whole, d)
    BY <2>2, <2>4 DEF Judged
  <2>6. PICK order : Names(whole, r, 0, d, order)
    BY <2>4, <2>5, AnswersNameAll
  <2>7. answer = [kind |-> None, scores |-> Liked(r, 0, d)]
    BY <2>5, <2>6, AlignedAnswers
  <2>10. Pairs(1, Liked(r, 0, d)) = Ranked(r, d)
    <3>1. Pairs(1, Liked(r, 0, d)) = [i \in 1..d |-> <<i, <<r, i>>>>]
      BY StageAssumption DEF Pairs, Liked
    <3> QED BY <3>1 DEF Ranked
  <2>11. Conclude(r, Ranked(r, d), None)
    BY <2>2, <2>7, <2>10
  <2> QED BY <2>11, ConcludedScores
<1> QED BY <1>1, <1>2 DEF JudgeInline

\* The other steps: a recall begins, ends unanswered or has its time pass; its
\* thread moves on, draws a session or panics.
LEMMA OtherStepsKeepScores ==
  ASSUME ScoreInv, NEW r \in Requests,
         \/ Begin(r) \/ NoAnswer(r) \/ NextRun(r) \/ Acquire(r) \/ TimePasses(r) \/ Panic(r)
  PROVE  OwnScores(r)'
<1> USE DEF recall, thread, config, Put
<1>1. CASE Begin(r)
  <2>1. judged'[r] = <<>> /\ channel'[r] = <<>> /\ batch'[r] = 0 /\ stage'[r] = "judge"
    BY <1>1 DEF Begin, ScoreInv, PoolInv, PoolTypes, OwnScores
  <2>2. Ranked(r, 0) = <<>> /\ 0 * Chunk = 0 /\ 0 < Batches /\ Batches \in Nat
    BY EmptyRanked, BatchesCoverTheHead, StageAssumption
  <2>3. timed => scorer'[r] = "between"
    BY <1>1 DEF Begin, ScoreInv, PoolInv, PoolTypes
  <2>4. <<>> \in Seq(UNION {Sound(r, n) : n \in Nat}) /\ Len(<<>>) = 0
    BY EmptySeq
  <2>5. timed => Underway(r, 0)'
    BY <2>1, <2>2, <2>3, <2>4 DEF Underway
  <2>6. timed' = timed
    BY <1>1 DEF Begin
  <2> QED BY <2>1, <2>2, <2>5, <2>6 DEF OwnScores
<1>2. CASE NoAnswer(r)
  <2>1. PICK l \in Nat : judged[r] = Ranked(r, l)
    BY DEF ScoreInv, OwnScores
  <2>2. \E interruption : Conclude(r, Ranked(r, l), interruption)
    BY <1>2, <2>1 DEF NoAnswer
  <2> QED BY <2>2, ConcludedScores
<1>3. ASSUME UNCHANGED <<judged, stage, channel, timed>>,
             \A k : Underway(r, k) => Underway(r, k)',
             stage'[r] = "idle" => batch'[r] = batch[r]
      PROVE  OwnScores(r)'
  BY <1>3 DEF ScoreInv, OwnScores
<1>4. CASE NextRun(r)
  <2>1. ASSUME NEW k, Underway(r, k) PROVE Underway(r, k)'
    <3>1. PICK len \in Nat : len = Len(channel[r])
      BY <2>1, LenProperties DEF Underway
    <3>2. batch[r] = k + len /\ k \in Nat /\ k + len <= Batches /\ Batches \in Nat
      BY <1>4, <2>1, <3>1, BatchesCoverTheHead DEF NextRun, Underway
    <3>3. UNCHANGED <<judged, channel>>
      BY <1>4 DEF NextRun
    <3>4. \/ scorer'[r] = "ended"
          \/ scorer'[r] = "waiting" /\ batch'[r] = k + len + 1 /\ k + len # Batches
      BY <1>4, <3>2 DEF NextRun, ScoreInv, ScoreTypes, PoolInv, PoolTypes
    <3>5. judged'[r] = judged[r] /\ channel'[r] = channel[r]
      BY <3>3
    <3>6. CASE scorer'[r] = "ended"
      BY <2>1, <3>5, <3>6 DEF Underway
    <3>7. CASE scorer'[r] = "waiting" /\ batch'[r] = k + len + 1 /\ k + len # Batches
      <4>1. batch'[r] = k + Len(channel'[r]) + 1 /\ batch'[r] <= Batches
        BY <3>1, <3>2, <3>5, <3>7
      <4> QED BY <2>1, <3>5, <3>7, <4>1 DEF Underway
    <3> QED BY <3>4, <3>6, <3>7
  <2>2. stage[r] # "idle" /\ UNCHANGED <<judged, stage, channel, timed>>
    BY <1>4 DEF NextRun, ScoreInv, PoolInv, HeldWhileJudging, None
  <2> QED BY <1>3, <2>1, <2>2
<1>5. CASE Acquire(r)
  <2>1. UNCHANGED <<judged, stage, channel, batch, timed>> /\ scorer[r] = "waiting"
    BY <1>5 DEF Acquire
  <2>2. scorer'[r] = "judging"
    BY <1>5 DEF Acquire, ScoreInv, PoolInv, PoolTypes
  <2> QED BY <1>3, <2>1, <2>2 DEF Underway
<1>6. CASE TimePasses(r)
  <2>1. UNCHANGED <<judged, stage, channel, batch, scorer, timed>>
    BY <1>6 DEF TimePasses
  <2> QED BY <1>3, <2>1 DEF Underway
<1>7. CASE Panic(r)
  <2>1. UNCHANGED <<judged, channel, batch, timed>> /\ scorer'[r] = "ended"
    BY <1>7 DEF Panic, ScoreInv, PoolInv, PoolTypes
  <2>2. stage'[r] = stage[r] \/ stage'[r] = "failed"
    BY <1>7 DEF Panic, ScoreInv, PoolInv, PoolTypes
  <2>3. \A k : Underway(r, k) => Underway(r, k)'
    BY <2>1 DEF Underway
  <2> QED BY <2>1, <2>2, <2>3 DEF ScoreInv, OwnScores
<1> QED BY <1>1, <1>2, <1>4, <1>5, <1>6, <1>7

LEMMA StepsKeepScores == ScoreInv /\ [Next]_vars => ScoreInv'
<1> SUFFICES ASSUME ScoreInv, [Next]_vars PROVE ScoreInv'
  OBVIOUS
<1>1. PoolInv'
  BY StepsConserve DEF ScoreInv
<1>2. CASE UNCHANGED vars
  <2>1. UNCHANGED <<judged, stage, channel, scorer, batch, timed>>
    BY <1>2 DEF vars, config, recall, thread
  <2>2. ASSUME NEW q \in Requests PROVE OwnScores(q)'
    <3>1. OwnScores(q) /\ \A k : Underway(q, k) => Underway(q, k)'
      BY <2>1 DEF ScoreInv, Underway
    <3> QED BY <2>1, <3>1 DEF OwnScores
  <2> QED BY <1>1, <2>1, <2>2 DEF ScoreInv, ScoreTypes
<1>3. CASE Next
  <2>1. PICK r \in Requests : \/ Listening(r) \/ Scoring(r) \/ TimePasses(r)
                              \/ Judge(r) \/ JudgeInline(r) \/ Panic(r)
    BY <1>3 DEF Next
  <2>2. OwnScores(r)'
    BY <2>1, ReceivingKeepsScores, JudgingKeepsScores, JudgingInlineKeepsScores,
       OtherStepsKeepScores DEF Listening, Scoring
  <2>3. timed' = timed
    BY <2>1 DEF Listening, Scoring, Begin, Receive, NoAnswer, NextRun, Acquire, Busy,
       TimePasses, Judge, JudgeInline, Panic, config
  <2>4. Others(r)
    <3> USE DEF Conclude, Put, recall, thread, Others, ScoreInv, ScoreTypes, PoolInv, PoolTypes
    <3>1. CASE Listening(r) \/ TimePasses(r)
      BY <3>1 DEF Listening, Begin, Receive, NoAnswer, TimePasses
    <3>2. CASE Scoring(r)
      BY <3>2 DEF Scoring, NextRun, Acquire, Busy, Send
    <3>3. CASE Judge(r) \/ JudgeInline(r) \/ Panic(r)
      BY <3>3 DEF Judge, JudgeInline, Panic, Send
    <3> QED BY <2>1, <3>1, <3>2, <3>3
  <2>5. ScoreTypes'
    BY <2>1, <2>3 DEF Listening, Scoring, Begin, Receive, NoAnswer, NextRun, Acquire, Busy, Send,
       TimePasses, Judge, JudgeInline, Panic, Conclude, Put, recall, thread, ScoreInv, ScoreTypes
  <2> QED BY <1>1, <2>2, <2>3, <2>4, <2>5, OthersKeepScores DEF ScoreInv
<1> QED BY <1>2, <1>3

LEMMA ScoresAtFirst == Init => ScoreInv
<1> SUFFICES ASSUME Init PROVE ScoreInv
  OBVIOUS
<1>1. /\ ScoreTypes
      /\ \A r \in Requests : stage[r] = "idle" /\ judged[r] = <<>> /\ channel[r] = <<>> /\ batch[r] = 0
  BY StageAssumption DEF Init, ScoreTypes
<1>2. \A r \in Requests : judged[r] = Ranked(r, 0)
  BY <1>1, EmptyRanked
<1> QED BY <1>1, <1>2, PoolAtFirst DEF ScoreInv, OwnScores

\* For any number of recalls, any depth of the head and any size of batch, and
\* whatever order the model answers in: a recall that ends, in time or not, has
\* a score of its own for each memory of a first part of the head, and for
\* nothing else (memory_recaller.rs, align_positions and align_scores).
THEOREM ScoresAreTheirOwnAlways == Spec => []ScoresAreTheirOwn
<1>1. ScoreInv => ScoresAreTheirOwn
  <2> SUFFICES ASSUME ScoreInv, NEW r \in Requests, NEW i \in DOMAIN judged[r]
               PROVE  judged[r][i] = <<i, <<r, i>>>>
    BY DEF ScoresAreTheirOwn
  <2>1. PICK l \in Nat : judged[r] = Ranked(r, l)
    BY DEF ScoreInv, OwnScores
  <2> QED BY <2>1 DEF Ranked
<1> QED
  BY <1>1, ScoresAtFirst, StepsKeepScores, PTL DEF Spec

-----------------------------------------------------------------------------
(* Types.                                                                   *)

\* What the invariants of the pool and of the scores leave open of the types.
OtherTypes ==
  /\ mode \in Modes /\ timed \in Timeouts
  /\ verdict \in [Requests -> {None, "deadline", "busy", "model", "shadow", "applied"}]
  /\ stop \in [Requests -> BOOLEAN] /\ late \in [Requests -> BOOLEAN]
  /\ poisoned \subseteq Sessions /\ faults \in 0..MaxFaults

\* What recall r has and what is on its way to it, in numbers.
Counts(r) ==
  /\ Len(judged[r]) <= Depth
  /\ batch[r] \in 0..Batches
  /\ Len(channel[r]) \in Nat /\ Len(channel[r]) <= batch[r]

TypeInv == ScoreInv /\ OtherTypes /\ \A r \in Requests : Counts(r)

\* Faults stay within their bound.
LEMMA FaultsAreCounted ==
  ASSUME OtherTypes, Fault \/ UNCHANGED faults
  PROVE  faults' \in 0..MaxFaults
<1>1. PICK n \in Nat : n = MaxFaults
  BY StageAssumption
<1> QED BY <1>1 DEF OtherTypes, Fault

\* A recall that ends says why.
LEMMA VerdictsAreKnown ==
  ASSUME OtherTypes, NEW r, NEW pairs, NEW interruption \in {None, "deadline", "busy", "model"},
         Conclude(r, pairs, interruption)
  PROVE  /\ verdict' \in [Requests -> {None, "deadline", "busy", "model", "shadow", "applied"}]
         /\ stop' \in [Requests -> BOOLEAN]
<1>1. Verdict(mode, Len(pairs), interruption) \in {"deadline", "busy", "model", "shadow", "applied"}
  BY DEF Verdict, None
<1> QED BY <1>1 DEF OtherTypes, Conclude, Put

\* The first answer on its way is an error or the scores of the next batch.
LEMMA ReceivedIsSound ==
  ASSUME ScoreInv, NEW r \in Requests, Receive(r)
  PROVE  \E k \in Nat : /\ Underway(r, k) /\ channel[r][1] \in Sound(r, k + 1)
                        /\ Len(channel[r]) \in Nat \ {0}
                        /\ Len(Tail(channel[r])) = Len(channel[r]) - 1
<1>1. PICK k : Underway(r, k)
  BY DEF Receive, ScoreInv, OwnScores
<1>2. /\ k \in Nat /\ channel[r] \in Seq(UNION {Sound(r, n) : n \in Nat}) /\ channel[r] # <<>>
      /\ \A j \in 1..Len(channel[r]) : channel[r][j] \in Sound(r, k + j)
  BY <1>1 DEF Underway, Receive
<1>3. Len(channel[r]) \in Nat \ {0} /\ Len(Tail(channel[r])) = Len(channel[r]) - 1
  BY <1>2, EmptySeq, LenProperties, HeadTailProperties
<1>4. channel[r][1] \in Sound(r, k + 1)
  BY <1>2, <1>3
<1> QED BY <1>1, <1>2, <1>3, <1>4

\* What it makes of the answer is of no more than the head.
LEMMA ReceivingKeepsCounts ==
  ASSUME TypeInv, NEW r \in Requests, Receive(r)
  PROVE  Counts(r)' /\ OtherTypes'
<1>1. PICK k \in Nat : /\ Underway(r, k) /\ channel[r][1] \in Sound(r, k + 1)
                       /\ Len(channel[r]) \in Nat \ {0}
                       /\ Len(Tail(channel[r])) = Len(channel[r]) - 1
  BY ReceivedIsSound DEF TypeInv
<1>2. PICK first : first = channel[r][1]
  OBVIOUS
<1>3. k < Batches /\ judged[r] = Ranked(r, k * Chunk)
  BY <1>1 DEF Underway
<1>4. PICK l \in Nat : l = k * Chunk /\ Len(judged[r]) = l /\ l < Depth
  BY <1>3, BatchesCoverTheHead, RankedIsLong
<1>5. Len(judged[r]) \div Chunk + 1 = k + 1
  BY <1>3, <1>4, BatchIsAnInterval
<1>6. /\ channel' = [channel EXCEPT ![r] = Tail(channel[r])]
      /\ UNCHANGED <<mode, timed, late, batch, poisoned, faults>>
      /\ \/ first.kind # None /\ Conclude(r, judged[r], first.kind)
         \/ /\ first.kind = None
            /\ \/ Conclude(r, judged[r] \o Pairs(k + 1, first.scores), None)
               \/ /\ judged' = Put(judged, r, judged[r] \o Pairs(k + 1, first.scores))
                  /\ UNCHANGED <<stage, verdict, stop>>
  BY <1>2, <1>5 DEF Receive, Put, config, thread, pool
<1>7. first.kind \in {None, "busy", "model"}
  BY <1>1, <1>2 DEF Sound
<1>8. /\ verdict' \in [Requests -> {None, "deadline", "busy", "model", "shadow", "applied"}]
      /\ stop' \in [Requests -> BOOLEAN]
  <2>1. OtherTypes
    BY DEF TypeInv
  <2>2. CASE \E pairs : Conclude(r, pairs, first.kind) \/ Conclude(r, pairs, None)
    BY <1>7, <2>1, <2>2, VerdictsAreKnown
  <2>3. CASE UNCHANGED <<verdict, stop>>
    BY <2>1, <2>3 DEF OtherTypes
  <2> QED BY <1>6, <2>2, <2>3
<1>9. OtherTypes'
  BY <1>6, <1>8 DEF TypeInv, OtherTypes
<1>10. /\ channel'[r] = Tail(channel[r]) /\ batch'[r] = batch[r]
       /\ judged'[r] = judged[r] \/ (first.kind = None /\ judged'[r] = judged[r] \o Pairs(k + 1, first.scores))
  BY <1>6 DEF Conclude, Put, TypeInv, ScoreInv, ScoreTypes
<1>11. Len(judged'[r]) <= Depth
  <2>1. CASE judged'[r] = judged[r]
    BY <1>4, <2>1, StageAssumption
  <2>2. CASE first.kind = None /\ judged'[r] = judged[r] \o Pairs(k + 1, first.scores)
    <3>1. PICK n \in Nat : n = SizeOf(k + 1) /\ l + n <= Depth
      BY <1>3, <1>4, BatchIsAnInterval
    <3>2. first.scores = Liked(r, l, n)
      <4>1. (k + 1) - 1 = k
        OBVIOUS
      <4> QED BY <1>1, <1>2, <1>4, <2>2, <3>1, <4>1 DEF Sound, None
    <3>3. PICK m \in Nat : m = k + 1 /\ m - 1 = k
      OBVIOUS
    <3>4. (m - 1) * Chunk = l
      BY <1>4, <3>3
    <3>5. Ranked(r, l) \o Pairs(m, Liked(r, l, n)) = Ranked(r, l + n)
      BY <3>4, BatchesFollow, Zenon
    <3>6. judged'[r] = Ranked(r, l + n)
      BY <1>3, <1>4, <2>2, <3>2, <3>3, <3>5
    <3>7. l + n \in Nat
      OBVIOUS
    <3> QED BY <3>1, <3>6, <3>7, RankedIsLong
  <2> QED BY <1>10, <2>1, <2>2
<1>12. /\ batch[r] \in 0..Batches /\ Len(channel[r]) <= batch[r] /\ Batches \in Nat
  BY BatchesCoverTheHead DEF TypeInv, Counts
<1>13. Counts(r)'
  <2>1. Len(channel'[r]) \in Nat /\ Len(channel'[r]) <= batch'[r]
    BY <1>1, <1>10, <1>12
  <2> QED BY <1>10, <1>11, <1>12, <2>1 DEF Counts
<1> QED BY <1>9, <1>13

\* The thread sends one answer to the batch it is at, which the channel has no
\* answer to yet.
LEMMA SendingKeepsCounts ==
  ASSUME TypeInv, NEW r \in Requests, NEW answer, timed, Send(r, answer),
         scorer[r] \in {"waiting", "judging"}, UNCHANGED <<judged, batch>>
  PROVE  Counts(r)'
<1>1. Counts(r) /\ judged'[r] = judged[r] /\ batch'[r] = batch[r]
  BY DEF TypeInv
<1>2. CASE stage[r] # "judge"
  BY <1>1, <1>2 DEF Send, Counts
<1>3. CASE stage[r] = "judge"
  <2>1. PICK k : Underway(r, k)
    BY <1>3 DEF TypeInv, ScoreInv, OwnScores
  <2>2. PICK len \in Nat : len = Len(channel[r])
    BY <1>1 DEF Counts
  <2>3. k \in Nat /\ batch[r] = k + len + 1
    BY <2>1, <2>2 DEF Underway
  <2>4. channel'[r] = Append(channel[r], answer)
    BY <1>3 DEF Send, Put, TypeInv, ScoreInv, ScoreTypes
  <2>5. Len(channel'[r]) = len + 1
    BY <2>2, <2>4
  <2> QED BY <1>1, <2>2, <2>3, <2>5 DEF Counts
<1> QED BY <1>2, <1>3

\* A recall ends with what it had, or without a deadline with the whole head.
LEMMA EndingKeepsCounts ==
  ASSUME TypeInv, NEW r \in Requests, NoAnswer(r) \/ JudgeInline(r)
  PROVE  Counts(r)' /\ OtherTypes'
<1>1. UNCHANGED <<mode, timed, late, channel, batch, poisoned>> /\ (Fault \/ UNCHANGED faults)
  BY DEF NoAnswer, JudgeInline, Passes, Fails, config, thread, pool
<1>2. \E l \in 0..Depth, interruption \in {None, "deadline", "busy", "model"} :
        Conclude(r, Ranked(r, l), interruption)
  <2>1. CASE NoAnswer(r)
    <3>1. PICK l \in Nat : judged[r] = Ranked(r, l)
      BY DEF TypeInv, ScoreInv, OwnScores
    <3>2. l \in 0..Depth
      <4>1. Len(judged[r]) = l
        BY <3>1, RankedIsLong
      <4>2. Len(judged[r]) <= Depth /\ Depth \in Nat
        BY StageAssumption DEF TypeInv, Counts
      <4> QED BY <4>1, <4>2
    <3> QED BY <2>1, <3>1, <3>2 DEF NoAnswer
  <2>2. CASE JudgeInline(r)
    <3>1. PICK items : items = 1..Depth
      OBVIOUS
    <3>2. PICK d \in Nat \ {0} : d = Depth
      BY StageAssumption
    <3>3. items = 0 + 1 .. 0 + d /\ Cardinality(items) = d
      BY <3>1, <3>2, FS_Interval
    <3>4. \/ \E answer \in Judged(r, items) : Conclude(r, Pairs(1, answer.scores), None)
          \/ \E answer \in Misjudged(r, items) : Conclude(r, <<>>, answer.kind)
      BY <2>2, <3>1 DEF JudgeInline
    <3>5. CASE \E answer \in Misjudged(r, items) : Conclude(r, <<>>, answer.kind)
      <4>1. PICK answer \in Misjudged(r, items) : Conclude(r, <<>>, answer.kind)
        BY <3>5
      <4>2. answer = [kind |-> "model", scores |-> <<>>]
        BY <3>3, MisalignedAnswers
      <4>3. Conclude(r, Ranked(r, 0), "model") /\ 0 \in 0..Depth
        BY <3>2, <4>1, <4>2, EmptyRanked
      <4> QED BY <4>3
    <3>6. CASE \E answer \in Judged(r, items) : Conclude(r, Pairs(1, answer.scores), None)
      <4>1. PICK answer \in Judged(r, items) : Conclude(r, Pairs(1, answer.scores), None)
        BY <3>6
      <4>2. PICK whole \in InSomeOrder(r, items) : answer = Align(whole, d)
        BY <3>3, <4>1 DEF Judged
      <4>3. PICK order : Names(whole, r, 0, d, order)
        BY <3>3, <4>2, AnswersNameAll
      <4>4. answer = [kind |-> None, scores |-> Liked(r, 0, d)]
        BY <4>2, <4>3, AlignedAnswers
      <4>5. Pairs(1, Liked(r, 0, d)) = [i \in 1..d |-> <<i, <<r, i>>>>]
        BY StageAssumption DEF Pairs, Liked
      <4>6. Pairs(1, answer.scores) = Ranked(r, d)
        BY <4>4, <4>5 DEF Ranked
      <4>7. d \in 0..Depth
        BY <3>2
      <4> QED BY <4>1, <4>6, <4>7
    <3> QED BY <3>4, <3>5, <3>6
  <2> QED BY <2>1, <2>2
<1>3. PICK l \in 0..Depth, interruption \in {None, "deadline", "busy", "model"} :
        Conclude(r, Ranked(r, l), interruption)
  BY <1>2
<1>4. judged'[r] = Ranked(r, l) /\ l \in Nat /\ l <= Depth
  BY <1>3, StageAssumption DEF Conclude, Put, TypeInv, ScoreInv, ScoreTypes
<1>5. Counts(r)'
  BY <1>1, <1>4, RankedIsLong DEF TypeInv, Counts
<1>6. faults' \in 0..MaxFaults
  BY <1>1, FaultsAreCounted DEF TypeInv
<1>7. OtherTypes'
  BY <1>1, <1>3, <1>6, VerdictsAreKnown DEF TypeInv, OtherTypes
<1> QED BY <1>5, <1>7

LEMMA StepsKeepTypes == TypeInv /\ [Next]_vars => TypeInv'
<1> SUFFICES ASSUME TypeInv, [Next]_vars PROVE TypeInv'
  OBVIOUS
<1>1. ScoreInv'
  BY StepsKeepScores DEF TypeInv
<1>2. CASE UNCHANGED vars
  BY <1>1, <1>2 DEF vars, config, recall, thread, pool, TypeInv, OtherTypes, Counts
<1>3. CASE Next
  <2>1. PICK r \in Requests : \/ Listening(r) \/ Scoring(r) \/ TimePasses(r)
                              \/ Judge(r) \/ JudgeInline(r) \/ Panic(r)
    BY <1>3 DEF Next
  <2>2. ASSUME NEW q \in Requests, q # r PROVE Counts(q)'
    <3> USE DEF Conclude, Put, recall, thread, TypeInv, ScoreInv, ScoreTypes
    <3>1. UNCHANGED <<judged[q], channel[q], batch[q]>>
      <4>1. CASE Listening(r) \/ TimePasses(r)
        BY <2>2, <4>1 DEF Listening, Begin, Receive, NoAnswer, TimePasses
      <4>2. CASE Scoring(r)
        BY <2>2, <4>2 DEF Scoring, NextRun, Acquire, Busy, Send
      <4>3. CASE Judge(r) \/ JudgeInline(r) \/ Panic(r)
        BY <2>2, <4>3 DEF Judge, JudgeInline, Panic, Send
      <4> QED BY <2>1, <4>1, <4>2, <4>3
    <3> QED BY <3>1 DEF Counts
  <2>3. Counts(r)' /\ OtherTypes'
    <3>1. CASE Receive(r)
      BY <3>1, ReceivingKeepsCounts
    <3>2. CASE NoAnswer(r) \/ JudgeInline(r)
      BY <3>2, EndingKeepsCounts
    <3>3. CASE Judge(r) \/ Busy(r)
      <4>1. \E answer : Send(r, answer)
        BY <3>3 DEF Judge, Busy
      <4>2. /\ timed /\ scorer[r] \in {"waiting", "judging"}
            /\ UNCHANGED <<mode, timed, judged, verdict, stop, late, batch, poisoned>>
            /\ Fault \/ UNCHANGED faults
        BY <3>3 DEF Judge, Busy, Passes, Fails, recall, config, pool
      <4>3. OtherTypes'
        <5>1. faults' \in 0..MaxFaults
          BY <4>2, FaultsAreCounted DEF TypeInv
        <5> QED BY <4>2, <5>1 DEF TypeInv, OtherTypes
      <4> QED BY <4>1, <4>2, <4>3, SendingKeepsCounts
    <3>4. CASE Begin(r) \/ Acquire(r) \/ TimePasses(r) \/ Panic(r)
      <4>1. UNCHANGED <<mode, timed, judged, channel, batch, verdict, stop>>
        BY <3>4 DEF Begin, Acquire, TimePasses, Panic, recall, config, thread
      <4>2. Counts(r)'
        BY <4>1 DEF TypeInv, Counts
      <4>3. late' \in [Requests -> BOOLEAN]
        BY <3>4 DEF Begin, Acquire, TimePasses, Panic, Put, TypeInv, OtherTypes
      <4>4. poisoned' \subseteq Sessions
        <5>1. scorer[r] = "judging" => held[r] \in Sessions
          BY DEF TypeInv, ScoreInv, PoolInv, PoolTypes, HeldWhileJudging
        <5>2. poisoned' = poisoned \/ (scorer[r] = "judging" /\ poisoned' = poisoned \cup {held[r]})
          BY <3>4 DEF Begin, Acquire, TimePasses, Panic, pool
        <5> QED BY <5>1, <5>2 DEF TypeInv, OtherTypes
      <4>5. faults' \in 0..MaxFaults
        <5>1. Fault \/ UNCHANGED faults
          BY <3>4 DEF Begin, Acquire, TimePasses, Panic
        <5> QED BY <5>1, FaultsAreCounted DEF TypeInv
      <4> QED BY <4>1, <4>2, <4>3, <4>4, <4>5 DEF TypeInv, OtherTypes
    <3>5. CASE NextRun(r)
      <4>1. /\ UNCHANGED <<mode, timed, judged, channel, verdict, stop, late, poisoned, faults>>
            /\ batch'[r] = batch[r] \/ (batch[r] # Batches /\ batch'[r] = batch[r] + 1)
        BY <3>5 DEF NextRun, Put, recall, config, pool, TypeInv, ScoreInv, ScoreTypes
      <4>2. Batches \in Nat /\ Counts(r)
        BY BatchesCoverTheHead DEF TypeInv
      <4>3. Counts(r)' /\ OtherTypes'
        BY <4>1, <4>2 DEF TypeInv, OtherTypes, Counts
      <4> QED BY <4>3
    <3> QED BY <2>1, <3>1, <3>2, <3>3, <3>4, <3>5 DEF Listening, Scoring
  <2> QED BY <1>1, <2>2, <2>3 DEF TypeInv
<1> QED BY <1>2, <1>3

LEMMA TypesAtFirst == Init => TypeInv
<1> SUFFICES ASSUME Init PROVE TypeInv
  OBVIOUS
<1>1. ScoreInv
  BY ScoresAtFirst
<1>2. OtherTypes
  BY StageAssumption DEF Init, OtherTypes
<1>3. Batches \in Nat /\ Depth \in Nat /\ Len(<<>>) = 0
  BY BatchesCoverTheHead, StageAssumption
<1>4. ASSUME NEW r \in Requests PROVE Counts(r)
  <2>1. judged[r] = <<>> /\ channel[r] = <<>> /\ batch[r] = 0
    BY DEF Init
  <2> QED BY <1>3, <2>1 DEF Counts
<1> QED BY <1>1, <1>2, <1>4 DEF TypeInv

\* Whatever overlaps: a recall judges no more than its head, its thread goes
\* through no more batches than there are, and what waits on the channel are
\* answers to batches the thread has been at (memory_recaller.rs).
THEOREM TypeCorrect == Spec => []TypeOK
<1>1. TypeInv => TypeOK
  <2> SUFFICES ASSUME TypeInv PROVE TypeOK
    OBVIOUS
  <2>1. ASSUME NEW r \in Requests PROVE judged[r] \in Seq((1..Depth) \X (Requests \X (1..Depth)))
    <3>1. PICK l \in Nat : judged[r] = Ranked(r, l)
      BY DEF TypeInv, ScoreInv, OwnScores
    <3>2. l <= Depth /\ Depth \in Nat
      BY <3>1, RankedIsLong, StageAssumption DEF TypeInv, Counts
    <3>3. Ranked(r, l) \in [1..l -> (1..Depth) \X (Requests \X (1..Depth))]
      BY <3>2 DEF Ranked
    <3> QED BY <3>1, <3>3, LengthOfFunction
  <2>2. judged \in [Requests -> Seq((1..Depth) \X (Requests \X (1..Depth)))]
    BY <2>1 DEF TypeInv, ScoreInv, ScoreTypes
  <2>3. batch \in [Requests -> 0..Batches]
    BY DEF TypeInv, Counts, ScoreInv, ScoreTypes
  <2> QED BY <2>2, <2>3 DEF TypeOK, TypeInv, OtherTypes, Counts, ScoreInv, PoolInv, PoolTypes
<1> QED
  BY <1>1, TypesAtFirst, StepsKeepTypes, PTL DEF Spec
=============================================================================
