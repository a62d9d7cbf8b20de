--------------------------- MODULE Consolidation ---------------------------
(***************************************************************************)
(* The nightly pass over every user's memories (ConsolidationRunner), what *)
(* it maintains (MemoryMaintainer), the watermarks by which it skips a     *)
(* group nothing has changed in (ConsolidationStateStore), and the budget  *)
(* that stops it; beside it, clients save, edit and delete memories.       *)
(*                                                                         *)
(* A memory is known by the stamp (created_at) it was created with, and a  *)
(* version of it by the stamp (updated_at) of its last write; the clock    *)
(* never gives a stamp twice.  What a memory says is its topic: memories   *)
(* of one group on one topic are the near-duplicates the embeddings link.  *)
(* Rows and indexes of a single memory are MemoryWriters' subject.         *)
(***************************************************************************)
EXTENDS Integers, FiniteSets

CONSTANTS
  Users,       \* 1..n, in the order the user table lists them
  Labels,      \* (category, subcategory) pairs
  Topics,      \* what memories say
  Runners,     \* the scheduler's passes; `consolidate --now` is another process
  MaxGroup,    \* MAX_MEMORIES_PER_CATEGORY
  MaxCalls,    \* budget: max_llm_calls, 0 when unlimited
  MaxRetired,  \* budget: max_memories, 0 when unlimited
  Timed,       \* whether max_duration_secs is set
  Expiries,    \* what clients save: {FALSE}, or BOOLEAN with expiring ones
  MaxStamps,   \* bound: stamps given
  MaxPending,  \* bound: writes under way at a time
  MaxFaults    \* bound: failures of the model, of a statement, of a process

ASSUME ConsolidationAssumption ==
  /\ Users \subseteq Nat \ {0}
  /\ Timed \in BOOLEAN /\ Expiries \subseteq BOOLEAN
  /\ MaxGroup \in Nat /\ MaxCalls \in Nat /\ MaxRetired \in Nat
  /\ MaxStamps \in Nat /\ MaxPending \in Nat /\ MaxFaults \in Nat

Stamps == 1..MaxStamps
Groups == Users \X Labels
Versions == [memory: Stamps, stamp: Stamps, group: Groups, topic: Topics,
             expires: BOOLEAN]
None == 0

VARIABLES
  clock,      \* stamps given so far
  rows,       \* the version each stored memory has in the table
  status,     \* "absent", "active", "superseded" or "deleted"
  expired,    \* memories whose expires_at has passed
  pending,    \* versions stamped, and not written yet
  watermark,  \* consolidation_state: the max_updated_at recorded for a group
  stage,      \* what each pass does next
  left,       \* users it has still to finish with; it is at the first
  ageing,     \* expired memories its maintenance has still to retire
  examined,   \* the groups it examines for this user, as they were planned
  todo,       \* clusters it has still to ask about
  asking,     \* the cluster it is at
  merged,     \* the version that is to replace it
  failed,     \* groups one of whose clusters failed
  calls,      \* model calls its budget was charged
  retired,    \* memories its budget was charged
  exhausted,  \* the budget is used up
  faults,     \* failures so far
  judged,     \* history: clusters the model decided to keep separate
  missed      \* history: versions written after a newer one of their group,
              \* or cut off a group larger than MaxGroup

table  == <<clock, rows, status, expired>>
budget == <<calls, retired, exhausted>>
plan   == <<left, ageing, examined, todo, asking, merged, failed>>
vars   == <<table, pending, watermark, stage, plan, budget, faults, judged, missed>>

Stages == {"idle", "visiting", "maintaining", "planning", "merging", "awaiting",
           "saving", "retiring", "recording"}

TypeOK ==
  /\ clock \in 0..MaxStamps
  /\ rows \subseteq Versions /\ \A v, w \in rows : v.memory = w.memory => v = w
  /\ status \in [Stamps -> {"absent", "active", "superseded", "deleted"}]
  /\ expired \subseteq Stamps
  /\ pending \subseteq Versions
  /\ watermark \in [Groups -> 0..MaxStamps]
  /\ stage \in [Runners -> Stages]
  /\ left \in [Runners -> SUBSET Users]
  /\ ageing \in [Runners -> SUBSET Stamps]
  /\ examined \in [Runners -> [Groups -> SUBSET Versions]]
  /\ todo \in [Runners -> SUBSET SUBSET Versions]
  /\ asking \in [Runners -> SUBSET Versions]
  /\ merged \in [Runners -> SUBSET Versions]
  /\ failed \in [Runners -> SUBSET Groups]
  /\ calls \in [Runners -> Nat] /\ retired \in [Runners -> Nat]
  /\ exhausted \in [Runners -> BOOLEAN]
  /\ faults \in 0..MaxFaults
  /\ judged \subseteq SUBSET Versions
  /\ missed \subseteq Versions

Nothing == [g \in Groups |-> {}]

Init ==
  /\ clock = 0
  /\ rows = {} /\ pending = {}
  /\ status = [m \in Stamps |-> "absent"]
  /\ expired = {}
  /\ watermark = [g \in Groups |-> None]
  /\ stage = [r \in Runners |-> "idle"]
  /\ left = [r \in Runners |-> {}]
  /\ ageing = [r \in Runners |-> {}]
  /\ examined = [r \in Runners |-> Nothing]
  /\ todo = [r \in Runners |-> {}]
  /\ asking = [r \in Runners |-> {}]
  /\ merged = [r \in Runners |-> {}]
  /\ failed = [r \in Runners |-> {}]
  /\ calls = [r \in Runners |-> 0] /\ retired = [r \in Runners |-> 0]
  /\ exhausted = [r \in Runners |-> FALSE]
  /\ faults = 0
  /\ judged = {} /\ missed = {}

Fault == faults < MaxFaults /\ faults' = faults + 1

GoTo(r, s) == stage' = [stage EXCEPT ![r] = s]

\* The active memories of a group: neither retired nor expired.
Group(g) == {v \in rows : /\ v.group = g
                          /\ status[v.memory] = "active"
                          /\ v.memory \notin expired}

Newest(V) == CHOOSE s \in Stamps : /\ \E v \in V : v.stamp = s
                                   /\ \A v \in V : v.stamp <= s

\* should_skip: nothing has changed since the group was last done.
Skipped(g) == Group(g) # {} /\ watermark[g] = Newest(Group(g))

-----------------------------------------------------------------------------
(* Clients.  A save or an edit stamps its version (Memory::create, edit),  *)
(* embeds it, and writes the row later.                                    *)

Stamp(v) ==
  /\ clock < MaxStamps
  /\ clock' = clock + 1
  /\ v.stamp = clock + 1
  /\ v.group \in Groups /\ v.topic \in Topics

\* A version is behind when its group has a newer one by the time it is written.
Behind(v) == \E w \in Group(v.group) : w.stamp > v.stamp

WriteRow(v) ==
  /\ rows' = {w \in rows : w.memory # v.memory} \cup {v}
  /\ status' = [status EXCEPT ![v.memory] = "active"]
  /\ missed' = IF Behind(v) THEN missed \cup {v} ELSE missed

StartSave ==
  /\ Cardinality(pending) < MaxPending
  /\ \E v \in Versions :
       /\ Stamp(v) /\ v.memory = v.stamp /\ v.expires \in Expiries
       /\ pending' = pending \cup {v}
  /\ UNCHANGED <<rows, status, expired, watermark, stage, plan, budget, faults,
                 judged, missed>>

\* An edit may change what a memory says, its group and its expiry.
StartEdit ==
  /\ Cardinality(pending) < MaxPending
  /\ \E v \in Versions :
       /\ status[v.memory] = "active"
       /\ Stamp(v) /\ v.expires \in Expiries
       /\ pending' = pending \cup {v}
  /\ UNCHANGED <<rows, status, expired, watermark, stage, plan, budget, faults,
                 judged, missed>>

\* An edit writes the row back as it read it, active, also over a memory that
\* was superseded since; one that was deleted is not found.
Write ==
  /\ \E v \in pending :
       /\ pending' = pending \ {v}
       /\ IF status[v.memory] = "deleted" THEN UNCHANGED <<rows, status, missed>>
          ELSE WriteRow(v)
       /\ expired' = expired \ {v.memory}
  /\ UNCHANGED <<clock, watermark, stage, plan, budget, faults, judged>>

\* The write fails, is rolled back, or dies with its process.
Abandon ==
  /\ \E v \in pending : pending' = pending \ {v}
  /\ UNCHANGED <<table, watermark, stage, plan, budget, faults, judged, missed>>

\* A user deletes a memory, or ingest replaces it.
Remove ==
  /\ \E m \in Stamps, s \in {"superseded", "deleted"} :
       status[m] = "active" /\ status' = [status EXCEPT ![m] = s]
  /\ UNCHANGED <<clock, rows, expired, pending, watermark, stage, plan, budget,
                 faults, judged, missed>>

\* The expires_at of a memory passes.
Expire ==
  /\ \E v \in rows : v.expires /\ expired' = expired \cup {v.memory}
  /\ UNCHANGED <<clock, rows, status, pending, watermark, stage, plan, budget,
                 faults, judged, missed>>

-----------------------------------------------------------------------------
(* ConsolidationRunner::execute.  A dry run writes nothing and asks        *)
(* nothing: no step here.                                                  *)

StartPass(r) ==
  /\ stage[r] = "idle"
  /\ GoTo(r, "visiting")
  /\ left' = [left EXCEPT ![r] = Users]
  /\ UNCHANGED <<table, pending, watermark, ageing, examined, todo, asking, merged,
                 failed, budget, faults, judged, missed>>

Here(r) == CHOOSE u \in left[r] : \A w \in left[r] : u <= w

\* Done with this user, with a report or an error: the next one.
NextUser(r) ==
  /\ GoTo(r, "visiting")
  /\ left' = [left EXCEPT ![r] = @ \ {Here(r)}]
  /\ examined' = [examined EXCEPT ![r] = Nothing]
  /\ todo' = [todo EXCEPT ![r] = {}]
  /\ asking' = [asking EXCEPT ![r] = {}]
  /\ merged' = [merged EXCEPT ![r] = {}]
  /\ failed' = [failed EXCEPT ![r] = {}]
  /\ ageing' = [ageing EXCEPT ![r] = {}]

\* The budget is the pass's own: the next one starts with another.
DropBudget(r) ==
  /\ calls' = [calls EXCEPT ![r] = 0]
  /\ retired' = [retired EXCEPT ![r] = 0]
  /\ exhausted' = [exhausted EXCEPT ![r] = FALSE]

EndPass(r) ==
  /\ stage[r] = "visiting"
  /\ left[r] = {} \/ exhausted[r]
  /\ GoTo(r, "idle")
  /\ left' = [left EXCEPT ![r] = {}]
  /\ DropBudget(r)
  /\ UNCHANGED <<table, pending, watermark, ageing, examined, todo, asking, merged,
                 failed, faults, judged, missed>>

\* Maintenance first: the memories that have expired, as they are listed.
Visit(r) ==
  /\ stage[r] = "visiting"
  /\ left[r] # {} /\ ~exhausted[r]
  /\ GoTo(r, "maintaining")
  /\ ageing' = [ageing EXCEPT ![r] =
       {v.memory : v \in {w \in rows : /\ w.group[1] = Here(r)
                                       /\ status[w.memory] = "active"
                                       /\ w.memory \in expired}}]
  /\ UNCHANGED <<table, pending, watermark, left, examined, todo, asking, merged,
                 failed, budget, faults, judged, missed>>

\* MemoryForgetter, one memory at a time; what cannot be retired is left.
RetireExpired(r) ==
  /\ stage[r] = "maintaining"
  /\ \E m \in ageing[r] :
       /\ ageing' = [ageing EXCEPT ![r] = @ \ {m}]
       /\ \/ status' = [status EXCEPT ![m] = "deleted"] /\ UNCHANGED faults
          \/ Fault /\ UNCHANGED status
  /\ UNCHANGED <<clock, rows, expired, pending, watermark, stage, left, examined,
                 todo, asking, merged, failed, budget, judged, missed>>

\* set_importance touches nothing the pass looks at.
Rescore(r) ==
  /\ stage[r] = "maintaining" /\ ageing[r] = {}
  /\ GoTo(r, "planning")
  /\ UNCHANGED <<table, pending, watermark, plan, budget, faults, judged, missed>>

-----------------------------------------------------------------------------
(* ConsolidationRunner::plan: the groups of this user that changed, the    *)
(* newest slice of each, and the clusters in it.                           *)

Slice(V) == {v \in V : Cardinality({w \in V : w.memory > v.memory}) < MaxGroup}

Clusters(V) ==
  {C \in {{v \in V : v.topic = t} : t \in Topics} : Cardinality(C) >= 2}

\* Mutant of Changed: every group is examined every night.
ChangedOrNot(u) == {g \in Groups : g[1] = u /\ Cardinality(Group(g)) >= 2}

Changed(u) == {g \in Groups : /\ g[1] = u
                              /\ Cardinality(Group(g)) >= 2
                              /\ ~Skipped(g)}

\* A model is configured; without one the pass ends for this user here.
PlanUser(r) ==
  /\ stage[r] = "planning"
  /\ LET G == Changed(Here(r)) IN
       /\ examined' = [examined EXCEPT ![r] =
            [g \in Groups |-> IF g \in G THEN Group(g) ELSE {}]]
       /\ todo' = [todo EXCEPT ![r] = UNION {Clusters(Slice(Group(g))) : g \in G}]
       /\ missed' = missed \cup UNION {Group(g) \ Slice(Group(g)) : g \in G}
  /\ GoTo(r, "merging")
  /\ UNCHANGED <<table, pending, watermark, left, ageing, asking, merged, failed,
                 budget, faults, judged>>

\* A statement of the maintenance or of the plan, or the embedder, failed: the
\* user is skipped.
UserFails(r) ==
  /\ stage[r] \in {"maintaining", "planning"}
  /\ Fault
  /\ NextUser(r)
  /\ UNCHANGED <<table, pending, watermark, budget, judged, missed>>

-----------------------------------------------------------------------------
(* The clusters, those of the largest groups first (MemoryMerger::execute  *)
(* for each), and the budget.                                              *)

GroupOf(C) == (CHOOSE v \in C : TRUE).group

Ask(r) ==
  /\ stage[r] = "merging"
  /\ \E C \in todo[r] :
       /\ \A D \in todo[r] :
            Cardinality(examined[r][GroupOf(D)]) <= Cardinality(examined[r][GroupOf(C)])
       /\ asking' = [asking EXCEPT ![r] = C]
       /\ todo' = [todo EXCEPT ![r] = @ \ {C}]
  /\ GoTo(r, "awaiting")
  /\ UNCHANGED <<table, pending, watermark, left, ageing, examined, merged, failed,
                 budget, faults, judged, missed>>

\* One call more, and n memories more, that the budget is charged: it is used
\* up at a limit, or when the pass has taken too long.
Charge(r, n) ==
  /\ calls' = [calls EXCEPT ![r] = @ + 1]
  /\ retired' = [retired EXCEPT ![r] = @ + n]
  /\ \E late \in IF Timed THEN BOOLEAN ELSE {FALSE} :
       exhausted' = [exhausted EXCEPT ![r] =
         \/ late
         \/ MaxCalls > 0 /\ calls[r] + 1 >= MaxCalls
         \/ MaxRetired > 0 /\ retired[r] + n >= MaxRetired]

\* A budget used up breaks the loop, and nothing is recorded for this user.
NextCluster(r) ==
  IF exhausted'[r] THEN NextUser(r)
  ELSE /\ GoTo(r, "merging")
       /\ asking' = [asking EXCEPT ![r] = {}]
       /\ merged' = [merged EXCEPT ![r] = {}]
       /\ UNCHANGED <<left, ageing, examined, todo, failed>>

\* KeptSeparate: declined, or an answer that cannot be used.
Decline(r) ==
  /\ stage[r] = "awaiting"
  /\ Charge(r, 0)
  /\ NextCluster(r)
  /\ judged' = judged \cup {asking[r]}
  /\ UNCHANGED <<table, pending, watermark, faults, missed>>

\* The model merges: the replacement never expires, and its category is the
\* one the model names.
Compose(r) ==
  /\ stage[r] = "awaiting"
  /\ \E v \in Versions :
       /\ Stamp(v) /\ v.memory = v.stamp /\ ~v.expires
       /\ v.group[1] = GroupOf(asking[r])[1]
       /\ v.topic = (CHOOSE w \in asking[r] : TRUE).topic
       /\ merged' = [merged EXCEPT ![r] = {v}]
  /\ GoTo(r, "saving")
  /\ UNCHANGED <<rows, status, expired, pending, watermark, left, ageing, examined,
                 todo, asking, failed, budget, faults, judged, missed>>

SaveMerged(r) ==
  /\ stage[r] = "saving"
  /\ \E v \in merged[r] : WriteRow(v)
  /\ GoTo(r, "retiring")
  /\ UNCHANGED <<clock, expired, pending, watermark, plan, budget, faults, judged>>

\* Members that are gone by now, or replaced by another, are skipped.
Retire(r) ==
  /\ stage[r] = "retiring"
  /\ LET members == {m \in Stamps : /\ \E v \in asking[r] : v.memory = m
                                    /\ status[m] = "active"} IN
       /\ status' = [m \in Stamps |-> IF m \in members THEN "superseded" ELSE status[m]]
       /\ Charge(r, Cardinality(members))
  /\ NextCluster(r)
  /\ UNCHANGED <<clock, rows, expired, pending, watermark, faults, judged, missed>>

\* The model or a statement failed.  The call is not charged, and the group is
\* not going to be recorded.
ClusterFails(r) ==
  /\ stage[r] \in {"awaiting", "saving", "retiring"}
  /\ Fault
  /\ failed' = [failed EXCEPT ![r] = @ \cup {GroupOf(asking[r])}]
  /\ GoTo(r, "merging")
  /\ asking' = [asking EXCEPT ![r] = {}]
  /\ merged' = [merged EXCEPT ![r] = {}]
  /\ UNCHANGED <<table, pending, watermark, left, ageing, examined, todo, budget,
                 judged, missed>>

-----------------------------------------------------------------------------
(* What was examined without an error is done.                             *)

\* Mutant of ToRecord: also the groups one of whose clusters failed.
ToRecordAll(r) == {g \in Groups : examined[r][g] # {}}

ToRecord(r) == {g \in Groups \ failed[r] : examined[r][g] # {}}

EndClusters(r) ==
  /\ stage[r] = "merging" /\ todo[r] = {}
  /\ GoTo(r, "recording")
  /\ UNCHANGED <<table, pending, watermark, plan, budget, faults, judged, missed>>

\* Mutant of Record: the maximum of the group as it is by now.
RecordCurrent(r) ==
  /\ stage[r] = "recording"
  /\ \E g \in ToRecord(r) :
       /\ watermark' = [watermark EXCEPT ![g] =
            IF Group(g) = {} THEN None ELSE Newest(Group(g))]
       /\ examined' = [examined EXCEPT ![r][g] = {}]
  /\ UNCHANGED <<table, pending, stage, left, ageing, todo, asking, merged, failed,
                 budget, faults, judged, missed>>

\* The maximum of the snapshot, not of what the group has become.
Record(r) ==
  /\ stage[r] = "recording"
  /\ \E g \in ToRecord(r) :
       /\ watermark' = [watermark EXCEPT ![g] = Newest(examined[r][g])]
       /\ examined' = [examined EXCEPT ![r][g] = {}]
  /\ UNCHANGED <<table, pending, stage, left, ageing, todo, asking, merged, failed,
                 budget, faults, judged, missed>>

EndRecording(r) ==
  /\ stage[r] = "recording"
  /\ \/ ToRecord(r) = {} /\ UNCHANGED faults
     \/ Fault
  /\ NextUser(r)
  /\ UNCHANGED <<table, pending, watermark, budget, judged, missed>>

\* The process of the pass dies.
Crash(r) ==
  /\ stage[r] # "idle"
  /\ Fault
  /\ GoTo(r, "idle")
  /\ left' = [left EXCEPT ![r] = {}]
  /\ ageing' = [ageing EXCEPT ![r] = {}]
  /\ examined' = [examined EXCEPT ![r] = Nothing]
  /\ todo' = [todo EXCEPT ![r] = {}]
  /\ asking' = [asking EXCEPT ![r] = {}]
  /\ merged' = [merged EXCEPT ![r] = {}]
  /\ failed' = [failed EXCEPT ![r] = {}]
  /\ DropBudget(r)
  /\ UNCHANGED <<table, pending, watermark, judged, missed>>

-----------------------------------------------------------------------------
Clients == StartSave \/ StartEdit \/ Write \/ Abandon \/ Remove \/ Expire

Run(r) ==
  \/ StartPass(r) \/ Visit(r) \/ EndPass(r)
  \/ RetireExpired(r) \/ Rescore(r) \/ PlanUser(r) \/ UserFails(r)
  \/ Ask(r) \/ Decline(r) \/ Compose(r) \/ SaveMerged(r) \/ Retire(r) \/ ClusterFails(r)
  \/ EndClusters(r) \/ Record(r) \/ EndRecording(r)

Next == Clients \/ \E r \in Runners : Run(r) \/ Crash(r)

Spec == Init /\ [][Next]_vars

\* The timer fires every interval, calls end (with an answer or an error), and
\* a pass goes on; clients owe nothing.
Fairness == \A r \in Runners : WF_vars(Run(r))

FairSpec == Spec /\ Fairness

-----------------------------------------------------------------------------
(* Properties.                                                             *)

\* Two near-duplicates the model was asked about, or one of them behind.
Decided(v, w) == (\E C \in judged : {v, w} \subseteq C) \/ {v, w} \cap missed # {}

Undecided(g) ==
  \E v, w \in Group(g) : v # w /\ v.topic = w.topic /\ ~Decided(v, w)

\* No group is skipped as unchanged while it holds two near-duplicates the
\* model was not asked about, whatever failed, ran out of budget, was merged,
\* edited or saved since (consolidation_state.rs: marking unmerged duplicates
\* as done would "skip them forever").  Versions behind are left out.
SkippedGroupsAreDone == \A g \in Groups : Skipped(g) => ~Undecided(g)

\* Over all users of one pass, no call is made once the calls that were
\* answered, the memories retired or the time taken have used up the budget.
NoCallBeyondBudget ==
  \A r \in Runners : stage[r] = "awaiting" =>
    /\ ~exhausted[r]
    /\ MaxCalls > 0 => calls[r] < MaxCalls
    /\ MaxRetired > 0 => retired[r] < MaxRetired

\* Near-duplicates are merged or decided in the end: a failure, a crash
\* or a half-done pass is made up for by a later one.
DuplicatesAreSettled == \A g \in Groups : []<>~Undecided(g)

\* An expired memory is retired in the end.
ExpiredAreRetired ==
  \A m \in Stamps : []<>~(m \in expired /\ status[m] = "active")

\* The passes catch up with the store, whatever failed in one of them.
PassesCatchUp == DuplicatesAreSettled /\ ExpiredAreRetired

\* Once nothing changes, no pass asks the model about anything.
CallsStop == \A r \in Runners : <>[](stage[r] # "awaiting")

=============================================================================
