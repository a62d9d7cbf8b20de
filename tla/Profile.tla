------------------------------ MODULE Profile ------------------------------
(***************************************************************************)
(* The profile of one user: a digest for each domain, written by a model   *)
(* in background tasks and by the nightly pass, each under the fingerprint *)
(* of the memories it was made of, and served as it is                     *)
(* (ProfileDigestWriter; ProfileAssembler where there is none).  Beside    *)
(* them memories are ingested, saved, edited and retired.                  *)
(***************************************************************************)
EXTENDS ModelRequests

CONSTANTS
  Refreshers,   \* background tasks that may run at once
  Night,        \* the nightly pass
  Payloads,     \* submissions, as IntentFirstIngestor sees them
  Answers,      \* what the model may extract from one
  Verdicts,     \* what it may decide about a candidate
  SavedCategories,  \* categories a client saves and edits with
  ModelReplies, \* what the provider may do during one call
  MaxStamps,    \* bound: versions of memories
  MaxPending,   \* bound: writes at once
  MaxFailures,  \* bound: failures
  CategoryOrder,   \* CATEGORY_ORDER
  MaxPerCategory,  \* MAX_PER_CATEGORY
  CharBudget,      \* the token budget, in characters
  MaxShown,        \* MAX_MEMORIES_SHOWN
  DigestSizes      \* what a section with a digest may take; 0: it says nothing

ASSUME AssemblyAssumption ==
  /\ MaxPerCategory \in Nat \ {0} /\ CharBudget \in Nat
  /\ MaxShown \in Nat \ {0} /\ DigestSizes \subseteq Nat
  /\ Len(CategoryOrder) \in Nat /\ DOMAIN CategoryOrder = 1..Len(CategoryOrder)
  /\ IsInjective(CategoryOrder)

ASSUME ProfileAssumption ==
  /\ {MaxStamps, MaxPending, MaxFailures} \subseteq Nat
  /\ \A answer \in Answers : /\ Len(answer.candidates) \in Nat
                            /\ DOMAIN answer.candidates = 1..Len(answer.candidates)

Domains == {"coding", "personal"}
Nothing == "nothing"

\* Domain::of.
DomainOf(category) ==
  IF category \in {<<"preference", "personal">>, <<"fact", "person">>}
  THEN "personal" ELSE "coding"

VARIABLES
  clock,
  active,     \* the active memories
  pending,    \* versions stamped and not written yet
  digest,     \* what is stored for each domain, or NoDigest
  stage, todo, snapshot, about,   \* of each refresh
  failures,
  late        \* history: versions written behind a newer one

tasks == <<stage, todo, snapshot, about>>
profile  == <<clock, active, pending, digest, tasks, failures, late>>

Tasks == Refreshers \cup {Night}
Theirs(M, d) == {m \in M : DomainOf(m.category) = d}

\* Fingerprint::of.
Fingerprint(M) ==
  [count |-> Cardinality(M),
   latest |-> IF M = {} THEN 0 ELSE (CHOOSE m \in M : \A n \in M : n.updated <= m.updated).updated]

\* No digest is stored: a stored one is of some memories.
NoDigest == [of |-> {}, shown |-> {}, fingerprint |-> Fingerprint({}), size |-> 0]

Covers(d, M) == digest[d] # NoDigest /\ digest[d].fingerprint = Fingerprint(M)

ProfileTypeOK ==
  /\ clock \in 0..MaxStamps
  /\ \A m \in active \cup pending : m.id \in 1..MaxStamps /\ m.updated \in m.id..MaxStamps
  /\ \A m, n \in active : m.id = n.id => m = n
  /\ stage \in [Tasks -> {"idle", "started", "next", "asking"}]
  /\ todo \in [Tasks -> SUBSET Domains]
  /\ failures \in 0..MaxFailures
  /\ \A d \in Domains : digest[d].of = {} => digest[d] = NoDigest

ProfileInit ==
  /\ clock = 0 /\ active = {} /\ pending = {}
  /\ digest = [d \in Domains |-> NoDigest]
  /\ stage = [t \in Tasks |-> "idle"]
  /\ todo = [t \in Tasks |-> {}]
  /\ snapshot = [t \in Tasks |-> {}]
  /\ about = [t \in Tasks |-> Nothing]
  /\ failures = 0 /\ late = {}

Fault == failures < MaxFailures /\ failures' = failures + 1
GoTo(t, s) == stage' = [stage EXCEPT ![t] = s]

\* Behind a newer version of its domain.
Behind(M, m) == \E n \in Theirs(M, DomainOf(m.category)) : n.updated > m.updated

-----------------------------------------------------------------------------
(* Memories.                                                               *)

Memory(id, category, confidence, updated) ==
  [id |-> id, category |-> category, confidence |-> confidence, updated |-> updated]

\* A save or an edit takes its time before it embeds and writes.
StartWrite ==
  /\ clock < MaxStamps /\ Cardinality(pending) < MaxPending
  /\ clock' = clock + 1
  /\ \E c \in SavedCategories :
       \E m \in {Memory(clock + 1, c, 10, clock + 1)}
                \cup {Memory(a.id, c, a.confidence, clock + 1) : a \in active} :
         pending' = pending \cup {m}
  /\ UNCHANGED <<active, digest, tasks, failures, late>>

\* An edit of a memory that is gone fails; nobody is told of either.
Write ==
  /\ \E m \in pending :
       /\ pending' = pending \ {m}
       /\ LET gone == m.id # m.updated /\ \A a \in active : a.id # m.id IN
          IF gone THEN UNCHANGED <<active, late>>
          ELSE /\ active' = {a \in active : a.id # m.id} \cup {m}
               /\ late' = IF Behind(active, m) THEN late \cup {m} ELSE late
  /\ UNCHANGED <<clock, digest, tasks, failures>>

\* Forgotten, expired, or retired by a merge.
Retire ==
  /\ \E m \in active : active' = active \ {m}
  /\ UNCHANGED <<clock, pending, digest, tasks, failures, late>>

\* Reconciling one candidate: with the memories of its category for neighbours;
\* without any it is stored.
Reconciled(done, candidate, verdict, compare) ==
  LET shown == IF compare THEN {m.id : m \in {a \in done.active : a.category = candidate.category}}
               ELSE {}
      does  == IF shown = {} THEN [stores |-> TRUE, deleted |-> {}, superseded |-> {}]
               ELSE Applied(verdict, shown)
      gone  == does.deleted \cup IF does.stores THEN does.superseded ELSE {}
      id    == done.clock + 1
  IN [active |-> {m \in done.active : m.id \notin gone} \cup
                 (IF does.stores THEN {Memory(id, candidate.category, candidate.confidence, id)}
                  ELSE {}),
      clock  |-> done.clock + IF does.stores THEN 1 ELSE 0,
      gone   |-> done.gone + Cardinality(gone)]

ReconciledAll(start, found, verdict, compare) ==
  LET sofar[i \in 0..Len(found)] ==
        IF i = 0 THEN start ELSE Reconciled(sofar[i - 1], found[i], verdict, compare)
  IN sofar[Len(found)]

\* What a pipeline makes of a submission.
Found(p, answer) ==
  IF ~Verbatim(p) THEN Harvest(answer, <<>>)
  ELSE IF VerbatimFails(p) THEN <<>>
  ELSE <<[category |-> VerbatimCategory(p), confidence |-> 10]>>

\* A job of the worker: one pipeline or the other.  Only a job that stored
\* something tells the observer, whose refresh runs on its own.
IngestJob ==
  /\ pending = {}
  /\ \E p \in Payloads, answer \in Answers, verdict \in Verdicts :
       LET found == Found(p, answer)
           done  == ReconciledAll([active |-> active, clock |-> clock, gone |-> 0], found,
                                  verdict, ~Verbatim(p))
       IN /\ done.active # active /\ done.clock <= MaxStamps
          /\ active' = done.active /\ clock' = done.clock
          /\ IF Status(Len(found), done.clock - clock, done.gone) = "stored"
             THEN \E r \in Refreshers : stage[r] = "idle" /\ GoTo(r, "started")
             ELSE UNCHANGED stage
  /\ UNCHANGED <<pending, digest, todo, snapshot, about, failures, late>>

-----------------------------------------------------------------------------
(* ProfileDigestWriter::refresh.                                           *)

\* The nightly pass comes to this user's digests: in a night in which the budget
\* lasted so far and consolidating their memories did not fail, so perhaps never.
Nightfall ==
  /\ stage[Night] = "idle"
  /\ GoTo(Night, "started")
  /\ UNCHANGED <<clock, active, pending, digest, todo, snapshot, about, failures, late>>

\* The memories are listed once for all the domains that have any.
List(t) ==
  /\ stage[t] = "started"
  /\ snapshot' = [snapshot EXCEPT ![t] = active]
  /\ todo' = [todo EXCEPT ![t] = {d \in Domains : Theirs(active, d) # {}}]
  /\ GoTo(t, "next")
  /\ UNCHANGED <<clock, active, pending, digest, about, failures, late>>

Finish(t) ==
  /\ stage[t] = "next" /\ todo[t] = {}
  /\ snapshot' = [snapshot EXCEPT ![t] = {}]
  /\ GoTo(t, "idle")
  /\ UNCHANGED <<clock, active, pending, digest, todo, about, failures, late>>

\* DOMAINS: coding comes first.
First(D) == IF "coding" \in D THEN "coding" ELSE "personal"

\* Mutant of Current: once there is a digest it is left alone.
CurrentOnceStored(t, d) == digest[d] # NoDigest

Current(t, d) == Covers(d, Theirs(snapshot[t], d))

\* digest_for: a digest that covers the snapshot is left alone.  One that
\* cannot be read is made again.
Look(t) ==
  /\ stage[t] = "next" /\ todo[t] # {}
  /\ LET d == First(todo[t]) IN
       /\ todo' = [todo EXCEPT ![t] = @ \ {d}]
       /\ \/ /\ Current(t, d)
             /\ UNCHANGED <<stage, about, failures>>
          \/ /\ \/ ~Current(t, d) /\ UNCHANGED failures
                \/ Fault
             /\ about' = [about EXCEPT ![t] = d]
             /\ GoTo(t, "asking")
  /\ UNCHANGED <<clock, active, pending, digest, snapshot, late>>

\* select: as many as the prompt holds, by an importance that is not modelled.
Selections(M) == kSubset(IF Cardinality(M) <= MaxShown THEN Cardinality(M) ELSE MaxShown, M)

\* Mutant of Stored: as of what there is by now.
StoredAsOfNow(t, d, size, shown) ==
  [of |-> Theirs(snapshot[t], d), shown |-> shown,
   fingerprint |-> Fingerprint(Theirs(active, d)), size |-> size]

\* The fingerprint is of all there were, shown to the model or not.
Stored(t, d, size, shown) ==
  [of |-> Theirs(snapshot[t], d), shown |-> shown,
   fingerprint |-> Fingerprint(Theirs(snapshot[t], d)), size |-> size]

\* The model answers, perhaps that there is nothing to say, which is stored as
\* well; or it fails, or storing does, and the last digest stays.
Asked(t) ==
  /\ stage[t] = "asking"
  /\ LET d == about[t] IN
       \/ /\ \E replies \in ModelReplies : Completed(replies).result = "answer"
          /\ \E size \in DigestSizes, shown \in Selections(Theirs(snapshot[t], d)) :
               digest' = [digest EXCEPT ![d] = Stored(t, d, size, shown)]
          /\ UNCHANGED failures
       \/ /\ \E replies \in ModelReplies : Completed(replies).result # "answer"
          /\ Fault
          /\ UNCHANGED digest
  /\ about' = [about EXCEPT ![t] = Nothing]
  /\ GoTo(t, "next")
  /\ UNCHANGED <<clock, active, pending, todo, snapshot, late>>

\* Shutdown lets go of a detached task; a restart has forgotten all of them.
Dropped(t) ==
  /\ stage[t] # "idle"
  /\ Fault
  /\ GoTo(t, "idle")
  /\ todo' = [todo EXCEPT ![t] = {}]
  /\ snapshot' = [snapshot EXCEPT ![t] = {}]
  /\ about' = [about EXCEPT ![t] = Nothing]
  /\ UNCHANGED <<clock, active, pending, digest, late>>

-----------------------------------------------------------------------------
(* The profile without a model (ProfileAssembler): the best memories of    *)
(* each category, section by section, while there is room; texts are their *)
(* lengths.                                                                *)

\* rank_for_profile: confidence, then the newer, then the id.
Before(a, b) ==
  \/ a.confidence > b.confidence
  \/ a.confidence = b.confidence /\ a.id > b.id

RankForProfile(M) == Sorted(M, Before)

\* A category of the deployment's own.
Custom(category) == \A i \in DOMAIN CategoryOrder : CategoryOrder[i] # category

\* Every category in its order, and last, together, those that are not in it.
Groups(M) ==
  Append([i \in DOMAIN CategoryOrder |-> {m \in M : m.category = CategoryOrder[i]}],
         {m \in M : Custom(m.category)})

Blank == [lines |-> <<>>, size |-> 1, included |-> 0, omitted |-> 0]

\* Mutant of WithSection: what a full profile has no room for is not counted.
WithSectionUncounted(page, M, custom) ==
  LET ranked == RankForProfile(M)
      lines  == SubSeq(ranked, 1, IF Len(ranked) <= MaxPerCategory THEN Len(ranked) ELSE MaxPerCategory)
      size   == 1 + Len(lines)
  IN IF M = {} THEN page
     ELSE IF page.size + size > CharBudget THEN page
     ELSE [page EXCEPT !.lines = @ \o lines, !.size = @ + size, !.included = @ + Len(lines),
                       !.omitted = @ + IF custom THEN 0 ELSE Len(ranked) - Len(lines)]

\* A heading and a line for each memory shown, or nothing at all; what a
\* category has beyond its share is counted as omitted, except of the customs.
WithSection(page, M, custom) ==
  LET ranked == RankForProfile(M)
      lines  == SubSeq(ranked, 1, IF Len(ranked) <= MaxPerCategory THEN Len(ranked) ELSE MaxPerCategory)
      size   == 1 + Len(lines)
      beyond == IF custom THEN 0 ELSE Len(ranked) - Len(lines)
  IN IF M = {} THEN page
     ELSE IF page.size + size > CharBudget
          THEN [page EXCEPT !.omitted = @ + beyond + Len(lines)]
     ELSE [page EXCEPT !.lines = @ \o lines, !.size = @ + size, !.included = @ + Len(lines),
                       !.omitted = @ + beyond]

\* render.
Assembled(M) ==
  LET groups == Groups(M)
      page[i \in 0..Len(groups)] ==
        IF i = 0 THEN Blank ELSE WithSection(page[i - 1], groups[i], i = Len(groups))
  IN page[Len(groups)]

-----------------------------------------------------------------------------
\* Coding comes first; a section there is no more room for is dropped, and
\* nobody is told.
Shown(sections) ==
  LET room   == CharBudget - Blank.size
      coding == {d \in sections \cap {"coding"} : digest[d].size <= room}
      left   == room - IF coding = {} THEN 0 ELSE digest["coding"].size
  IN coding \cup {d \in sections \ {"coding"} : digest[d].size <= left}

\* The read: what the digests of the domains that have memories say, current or
\* not, or else the assembly; one that cannot be read is done without.
ReadProfile(broken) ==
  LET sections == {d \in Domains \ broken : Theirs(active, d) # {} /\ digest[d].size > 0}
  IN [assembled |-> sections = {}, digests |-> Shown(sections),
      page |-> IF sections = {} THEN Assembled(active) ELSE Blank]

Refresh(t) == List(t) \/ Look(t) \/ Asked(t) \/ Finish(t)

ProfileNext ==
  \/ StartWrite \/ Write \/ Retire \/ IngestJob
  \/ Nightfall
  \/ \E t \in Tasks : Refresh(t) \/ Dropped(t)

ProfileSpec == ProfileInit /\ [][ProfileNext]_profile

\* Writes and refreshes that began go on; nobody has to save or ingest anything,
\* and no night has to come to this user.
FairProfileSpec ==
  /\ ProfileSpec
  /\ WF_profile(Write)
  /\ \A t \in Tasks : WF_profile(Refresh(t))

-----------------------------------------------------------------------------
(* Properties.                                                             *)

\* A digest whose fingerprint is that of the memories there are was made of
\* those memories, and was shown all of them that a prompt holds: it is not
\* served for ever as current when it is not.  What was written behind a newer
\* version is left out: the fingerprint cannot tell (profile_digest.rs, "they
\* move on every mutation that can change a profile").
CoversIsExact ==
  \A d \in Domains : LET now == Theirs(active, d) IN
    late = {} /\ now # {} /\ Covers(d, now) =>
      digest[d].of = now /\ digest[d].shown \in Selections(now)

\* Whatever a profile that is assembled leaves out it says so: what it shows and
\* what it says it omits are all the active memories, as long as no more of them
\* have custom categories than a section shows (profile_assembler.rs, render).
OmissionsAreTold ==
  Cardinality({m \in active : Custom(m.category)}) <= MaxPerCategory =>
  \A broken \in SUBSET Domains : LET read == ReadProfile(broken) IN
    read.assembled => read.page.included + read.page.omitted = Cardinality(active)

\* What a model is asked for is what its answer is read as, the material fenced
\* and every offered name taken as it is; and whatever a provider does, a call
\* ends, is repeated only where that may help, and answers with what came last
\* (extraction_prompt.rs, reconciliation.rs, the chat clients).
RequestsAreAnswered == (\E t \in Tasks : stage[t] = "asking") => RequestsAreSound

\* If nights keep coming to this user's digests, they become current once the
\* memories stay as they are, and remain so, though refreshes overlap and
\* overwrite each other, fail or are dropped (ingest_workers.rs, "idempotent and
\* self-healing").
DigestsCatchUp ==
  []<><<Nightfall>>_profile =>
    <>[](\A d \in Domains : Theirs(active, d) # {} => Covers(d, Theirs(active, d)))
=============================================================================
