---------------------------- MODULE IngestProofs ----------------------------
(***************************************************************************)
(* Theorems about what submissions go through and lead to: IngestQueue,    *)
(* for every number of workers, requests, jobs, attempts, crashes, failed  *)
(* database calls and dropped requests; and Profile, whose digests the     *)
(* jobs make stale, for every set of tasks, submissions, answers, verdicts *)
(* and failures, and every order, share and budget of the assembly.        *)
(***************************************************************************)
EXTENDS IngestQueue, Profile, FiniteSetTheorems, SequenceTheorems, WellFoundedInduction, TLAPS

-----------------------------------------------------------------------------
(* The queue.                                                              *)

USE QueueAssumption

\* The rows a worker may hold: claimed, with the attempts it was told.
HoldersKnowTheirRow ==
  \A w \in Workers : Holding(w) =>
    /\ wjob[w] \in Jobs
    /\ status[wjob[w]] \notin {"absent", "pending"}
    /\ wattempts[w] = attempts[wjob[w]]

RequestsHaveARow ==
  \A r \in Requests : rstage[r] # "idle" =>
    rjob[r] \in Jobs /\ status[rjob[r]] # "absent"

\* Shutdown empties the process in order: requests first, then workers.
DownMeansNobodyRuns ==
  /\ proc = "down" => \A w \in Workers : wstage[w] = "returned"
  /\ proc \in {"stopping", "down"} => \A r \in Requests : rstage[r] = "idle"

RowsAreNumbered == \A j \in Jobs : status[j] = "absent" <=> j > submitted

\* A row is pending only while it has an attempt left, one that max_attempts
\* grants or one that a reclaim added.
AttemptBudget ==
  \A j \in Jobs :
    /\ attempts[j] <= MaxAttempts + reclaims[j]
    /\ status[j] = "pending" => attempts[j] < MaxAttempts + reclaims[j]
    /\ status[j] = "absent" => attempts[j] = 0

QueueInv ==
  /\ TypeOK
  /\ HoldersKnowTheirRow
  /\ WorkersNeverShareAJob
  /\ RequestsHaveARow
  /\ DownMeansNobodyRuns
  /\ RowsAreNumbered
  /\ AttemptBudget

LEMMA BackoffType == ASSUME NEW n \in Nat PROVE Backoff(n) \in Nat
<1> DEFINE exponent == IF n <= 1 THEN 0
                       ELSE IF n - 1 < MaxExponent THEN n - 1 ELSE MaxExponent
<1>1. exponent \in 0..MaxExponent OBVIOUS
<1>2. 2^exponent \in Nat BY <1>1, PowersAreNatural
<1> HIDE DEF exponent
<1>3. BaseBackoff * 2^exponent \in Nat BY <1>2
<1> QED BY <1>3 DEF Backoff, exponent

LEMMA JobNumbers ==
  /\ Jobs \subseteq Nat \ {0}
  /\ \A n \in 0..MaxJobs : n < MaxJobs => n + 1 \in Jobs
BY DEF Jobs

USE DEF rows, pool, inline, process, bounds, history

LEMMA QueueInvInit == Init => QueueInv
BY JobNumbers DEF Init, QueueInv, TypeOK, HoldersKnowTheirRow,
   WorkersNeverShareAJob, RequestsHaveARow, DownMeansNobodyRuns,
   RowsAreNumbered, AttemptBudget, Holding, WorkerStages, RequestStages,
   Settled, NoJob

LEMMA QueueInvStep == QueueInv /\ [Next]_vars => QueueInv'
<1> SUFFICES ASSUME QueueInv, [Next]_vars PROVE QueueInv'
  OBVIOUS
<1> USE DEF QueueInv, TypeOK, HoldersKnowTheirRow, WorkersNeverShareAJob,
            RequestsHaveARow, DownMeansNobodyRuns, RowsAreNumbered,
            AttemptBudget, Holding, WorkerStages, RequestStages, Settled, NoJob
<1>1. ASSUME NEW w \in Workers, Poll(w) PROVE QueueInv'
  BY <1>1 DEF Poll
<1>2. ASSUME NEW w \in Workers, WorkerReturn(w) PROVE QueueInv'
  BY <1>2 DEF WorkerReturn
<1>3. ASSUME NEW w \in Workers, ClaimJob(w) PROVE QueueInv'
  BY <1>3 DEF ClaimJob, ClaimRow, IsOldestClaimable, Claimable
<1>4. ASSUME NEW w \in Workers, ClaimUnreadable(w) PROVE QueueInv'
  BY <1>4 DEF ClaimUnreadable, ClaimRow, IsOldestClaimable, Claimable
<1>5. ASSUME NEW w \in Workers, ClaimNothing(w) PROVE QueueInv'
  BY <1>5 DEF ClaimNothing, DatabaseFault
<1>6. ASSUME NEW w \in Workers, ExecuteOk(w) PROVE QueueInv'
  BY <1>6 DEF ExecuteOk
<1>7. ASSUME NEW w \in Workers, ExecuteErr(w) PROVE QueueInv'
  BY <1>7 DEF ExecuteErr
<1>8. ASSUME NEW w \in Workers, RecordSuccess(w) PROVE QueueInv'
  BY <1>8 DEF RecordSuccess, SucceedRow, DatabaseFault, Release
<1>9. ASSUME NEW w \in Workers, RetryFailure(w) PROVE QueueInv'
  BY BackoffType, <1>9 DEF RetryFailure, RetryRow, DatabaseFault, Release
<1>10. ASSUME NEW w \in Workers, DeadLetterFailure(w) PROVE QueueInv'
  BY <1>10 DEF DeadLetterFailure, DeadLetterRow, DatabaseFault, Release
<1>11. ASSUME NEW r \in Requests, SubmitWaiting(r) PROVE QueueInv'
  BY JobNumbers, <1>11 DEF SubmitWaiting, Enqueue
<1>12. ASSUME NEW r \in Requests, InlineClaim(r) PROVE QueueInv'
  BY <1>12 DEF InlineClaim, ClaimRow, IsOldestClaimable, Claimable
<1>13. ASSUME NEW r \in Requests, InlineClaimFails(r) PROVE QueueInv'
  <2> USE <1>13 DEF InlineClaimFails
  <2>1. CASE DatabaseFault
    BY <2>1 DEF DatabaseFault
  <2>2. ASSUME NEW j \in Unreadable, ClaimRow(j), UNCHANGED bounds PROVE QueueInv'
    BY <2>2 DEF ClaimRow, IsOldestClaimable, Claimable
  <2> QED BY <2>1, <2>2
<1>14. ASSUME NEW r \in Requests, InlineExecuteOk(r) PROVE QueueInv'
  BY <1>14 DEF InlineExecuteOk
<1>15. ASSUME NEW r \in Requests, InlineExecuteErr(r) PROVE QueueInv'
  BY <1>15 DEF InlineExecuteErr
<1>16. ASSUME NEW r \in Requests, InlineRecord(r) PROVE QueueInv'
  BY <1>16 DEF InlineRecord, SucceedRow, DeadLetterRow, DatabaseFault
<1>17. ASSUME NEW r \in Requests, Cancel(r) PROVE QueueInv'
  BY <1>17 DEF Cancel
<1>18. CASE SubmitAsync
  BY JobNumbers, <1>18 DEF SubmitAsync, Enqueue
<1>19. CASE Start
  BY <1>19 DEF Start, ReclaimStale, Stale
<1>20. CASE Signal
  BY <1>20 DEF Signal
<1>21. CASE StopWorkers
  BY <1>21 DEF StopWorkers
<1>22. CASE Exit
  BY <1>22 DEF Exit
<1>23. CASE Crash
  BY <1>23 DEF Crash
<1>24. CASE Tick
  BY <1>24 DEF Tick
<1>25. CASE UNCHANGED vars
  BY <1>25 DEF vars
<1> QED
  BY <1>1, <1>2, <1>3, <1>4, <1>5, <1>6, <1>7, <1>8, <1>9, <1>10, <1>11, <1>12, <1>13, <1>14, <1>15, <1>16, <1>17, <1>18, <1>19, <1>20, <1>21, <1>22, <1>23, <1>24, <1>25 DEF Next, WorkerStep, RequestStep, ProcessStep

\* The type invariant and the two invariants that hold beside inline
\* requests, as one inductive invariant.
THEOREM QueueInvariant == Spec => []QueueInv
BY QueueInvInit, QueueInvStep, PTL DEF Spec

-----------------------------------------------------------------------------
(* Without inline requests.                                                *)

\* A job can have been run to success at most once per life of its row, a
\* life ending with a reclaim; a pending row has not been in this life.
RunBudget ==
  \A j \in Jobs :
    /\ okRuns[j] <= 1 + reclaims[j]
    /\ status[j] \in {"absent", "pending"} => okRuns[j] <= reclaims[j]
    /\ status[j] = "succeeded" => okRuns[j] > 0

HoldersHaveBudget ==
  \A w \in Workers :
    /\ Holding(w) => status[wjob[w]] = "running"
    /\ wstage[w] \in {"executing", "retryable", "fatal"}
         => okRuns[wjob[w]] <= reclaims[wjob[w]]
    /\ wstage[w] = "succeeding" => okRuns[wjob[w]] > 0

WorkersOnlyInv == Requests = {} => RunBudget /\ HoldersHaveBudget

LEMMA WorkersOnlyInit == Init => WorkersOnlyInv
BY DEF Init, WorkersOnlyInv, RunBudget, HoldersHaveBudget, Holding

LEMMA WorkersOnlyStep ==
  QueueInv /\ WorkersOnlyInv /\ [Next]_vars => WorkersOnlyInv'
<1> SUFFICES ASSUME QueueInv, RunBudget, HoldersHaveBudget, Requests = {}, [Next]_vars
             PROVE  RunBudget' /\ HoldersHaveBudget'
  BY DEF WorkersOnlyInv
<1> USE DEF QueueInv, TypeOK, HoldersKnowTheirRow, WorkersNeverShareAJob,
            DownMeansNobodyRuns, RowsAreNumbered, Holding, RunBudget,
            HoldersHaveBudget, WorkerStages, Settled, NoJob
<1>1. ASSUME NEW w \in Workers, Poll(w) PROVE RunBudget' /\ HoldersHaveBudget'
  BY <1>1 DEF Poll
<1>2. ASSUME NEW w \in Workers, WorkerReturn(w) PROVE RunBudget' /\ HoldersHaveBudget'
  BY <1>2 DEF WorkerReturn
<1>3. ASSUME NEW w \in Workers, ClaimJob(w) PROVE RunBudget' /\ HoldersHaveBudget'
  BY <1>3 DEF ClaimJob, ClaimRow, IsOldestClaimable, Claimable
<1>4. ASSUME NEW w \in Workers, ClaimUnreadable(w) PROVE RunBudget' /\ HoldersHaveBudget'
  BY <1>4 DEF ClaimUnreadable, ClaimRow, IsOldestClaimable, Claimable
<1>5. ASSUME NEW w \in Workers, ClaimNothing(w) PROVE RunBudget' /\ HoldersHaveBudget'
  BY SMTT(20), <1>5 DEF ClaimNothing, DatabaseFault
<1>6. ASSUME NEW w \in Workers, ExecuteOk(w) PROVE RunBudget' /\ HoldersHaveBudget'
  BY SMTT(20), <1>6 DEF ExecuteOk
<1>7. ASSUME NEW w \in Workers, ExecuteErr(w) PROVE RunBudget' /\ HoldersHaveBudget'
  BY SMTT(20), <1>7 DEF ExecuteErr
<1>8. ASSUME NEW w \in Workers, RecordSuccess(w) PROVE RunBudget' /\ HoldersHaveBudget'
  BY SMTT(20), <1>8 DEF RecordSuccess, SucceedRow, DatabaseFault, Release
<1>9. ASSUME NEW w \in Workers, RetryFailure(w) PROVE RunBudget' /\ HoldersHaveBudget'
  BY SMTT(20), <1>9 DEF RetryFailure, RetryRow, DatabaseFault, Release
<1>10. ASSUME NEW w \in Workers, DeadLetterFailure(w) PROVE RunBudget' /\ HoldersHaveBudget'
  BY SMTT(20), <1>10 DEF DeadLetterFailure, DeadLetterRow, DatabaseFault, Release
<1>11. CASE SubmitAsync
  BY JobNumbers, <1>11 DEF SubmitAsync, Enqueue
<1>12. CASE Start
  BY <1>12 DEF Start, ReclaimStale, Stale
<1>13. CASE Signal
  BY <1>13 DEF Signal
<1>14. CASE StopWorkers
  BY <1>14 DEF StopWorkers
<1>15. CASE Exit
  BY <1>15 DEF Exit
<1>16. CASE Crash
  BY <1>16 DEF Crash
<1>17. CASE Tick
  BY <1>17 DEF Tick
<1>18. CASE UNCHANGED vars
  BY <1>18 DEF vars
<1> QED
  BY <1>1, <1>2, <1>3, <1>4, <1>5, <1>6, <1>7, <1>8, <1>9, <1>10, <1>11, <1>12, <1>13, <1>14, <1>15, <1>16, <1>17, <1>18 DEF Next, WorkerStep, RequestStep, ProcessStep

LEMMA WorkersOnlyInvariant == Spec => []WorkersOnlyInv
BY WorkersOnlyInit, WorkersOnlyStep, QueueInvariant, PTL DEF Spec

\* Memories are stored twice only after a reclaim, for any bounds.
THEOREM DuplicatesNeedAReclaim == Spec => []DuplicatesOnlyAfterReclaim
<1>1. WorkersOnlyInv => DuplicatesOnlyAfterReclaim
  BY DEF WorkersOnlyInv, RunBudget, DuplicatesOnlyAfterReclaim
<1> QED BY <1>1, WorkersOnlyInvariant, PTL

\* What a worker holds is running in the table.
THEOREM HoldersOwnTheirRow == Spec => []HeldJobsAreRunning
<1>1. WorkersOnlyInv => HeldJobsAreRunning
  BY DEF WorkersOnlyInv, HoldersHaveBudget, HeldJobsAreRunning
<1> QED BY <1>1, WorkersOnlyInvariant, PTL

LEMMA LedgerInit == Init => Ledger!Init
BY DEF Init, Ledger!Init, LedgerView

LEMMA LedgerStep ==
  ASSUME Requests = {}, QueueInv, WorkersOnlyInv, [Next]_vars
  PROVE  Ledger!Next \/ UNCHANGED <<LedgerView, okRuns>>
<1> DEFINE Step == Ledger!Next \/ UNCHANGED <<LedgerView, okRuns>>
<1> USE DEF QueueInv, TypeOK, HoldersKnowTheirRow, DownMeansNobodyRuns,
            RowsAreNumbered, Holding, WorkersOnlyInv, RunBudget,
            HoldersHaveBudget, WorkerStages, Settled, NoJob, LedgerView
<1>1. ASSUME NEW w \in Workers, Poll(w) PROVE Step
  BY <1>1 DEF Poll
<1>2. ASSUME NEW w \in Workers, WorkerReturn(w) PROVE Step
  BY <1>2 DEF WorkerReturn
<1>3. ASSUME NEW w \in Workers, ClaimJob(w) PROVE Step
  BY <1>3 DEF ClaimJob, ClaimRow, IsOldestClaimable, Claimable
<1>4. ASSUME NEW w \in Workers, ClaimUnreadable(w) PROVE Step
  BY <1>4 DEF ClaimUnreadable, ClaimRow, IsOldestClaimable, Claimable
<1>5. ASSUME NEW w \in Workers, ClaimNothing(w) PROVE Step
  BY <1>5 DEF ClaimNothing, DatabaseFault
<1>6. ASSUME NEW w \in Workers, ExecuteOk(w) PROVE Step
  <2> USE <1>6 DEF ExecuteOk
  <2>1. PICK j \in Jobs : j = wjob[w] OBVIOUS
  <2>2. Ledger!Run(j) BY <2>1 DEF Ledger!Run
  <2> QED BY <2>2 DEF Ledger!Next
<1>7. ASSUME NEW w \in Workers, ExecuteErr(w) PROVE Step
  BY <1>7 DEF ExecuteErr
<1>8. ASSUME NEW w \in Workers, RecordSuccess(w) PROVE Step
  <2> USE <1>8 DEF RecordSuccess, SucceedRow, DatabaseFault, Release
  <2>1. CASE DatabaseFault
    BY <2>1
  <2>2. CASE SucceedRow(wjob[w])
    <3>1. PICK j \in Jobs : j = wjob[w] OBVIOUS
    <3>2. Ledger!Report(j) BY <2>2, <3>1 DEF Ledger!Report
    <3> QED BY <3>2 DEF Ledger!Next
  <2> QED BY <2>1, <2>2
<1>9. ASSUME NEW w \in Workers, RetryFailure(w) PROVE Step
  BY <1>9 DEF RetryFailure, RetryRow, DatabaseFault, Release
<1>10. ASSUME NEW w \in Workers, DeadLetterFailure(w) PROVE Step
  <2> USE <1>10 DEF DeadLetterFailure, DeadLetterRow, DatabaseFault, Release
  <2>1. CASE DatabaseFault
    BY <2>1
  <2>2. CASE DeadLetterRow(wjob[w])
    <3>1. PICK j \in Jobs : j = wjob[w] OBVIOUS
    <3>2. Ledger!Report(j) BY <2>2, <3>1 DEF Ledger!Report
    <3> QED BY <3>2 DEF Ledger!Next
  <2> QED BY <2>1, <2>2
<1>11. CASE SubmitAsync
  <2> USE <1>11 DEF SubmitAsync, Enqueue
  <2>1. PICK j \in Jobs : Enqueue(j) OBVIOUS
  <2>2. /\ status \in [Jobs -> {"absent", "pending", "running"} \cup Settled]
        /\ status[j] = "absent" /\ status' = [status EXCEPT ![j] = "pending"]
        /\ okRuns' = okRuns
    BY <2>1, JobNumbers
  <2>3. Ledger!Accept(j)
    BY ONLY <2>2 DEF Ledger!Accept, LedgerView
  <2> QED BY <2>3 DEF Ledger!Next
<1>12. CASE Start
  BY <1>12 DEF Start, ReclaimStale, Stale
<1>13. CASE Signal
  BY <1>13 DEF Signal
<1>14. CASE StopWorkers
  BY <1>14 DEF StopWorkers
<1>15. CASE Exit
  BY <1>15 DEF Exit
<1>16. CASE Crash
  BY <1>16 DEF Crash
<1>17. CASE Tick
  BY <1>17 DEF Tick
<1>18. CASE UNCHANGED vars
  BY <1>18 DEF vars
<1> QED
  BY <1>1, <1>2, <1>3, <1>4, <1>5, <1>6, <1>7, <1>8, <1>9, <1>10, <1>11, <1>12, <1>13, <1>14, <1>15, <1>16, <1>17, <1>18 DEF Next, WorkerStep, ProcessStep

\* Without inline requests the queue implements JobLedger: every step is a
\* step of the ledger or leaves it as it is.
THEOREM LedgerRefinement == ASSUME Requests = {} PROVE Spec => ImplementsLedger
<1>1. QueueInv /\ WorkersOnlyInv /\ [Next]_vars
        => [Ledger!Next]_<<LedgerView, okRuns>>
  BY LedgerStep
<1> QED
  BY <1>1, LedgerInit, QueueInvariant, WorkersOnlyInvariant, PTL
  DEF Spec, ImplementsLedger, Ledger!Spec

\* A settled job is never touched again: read off the refinement, since no
\* step of the ledger leaves "succeeded" or "dead_letter".
THEOREM SettledStaysSettled == Spec => SettledIsFinal
<1>1. QueueInv /\ WorkersOnlyInv /\ [Next]_vars
        => [Requests = {} => \A j \in Jobs :
              status[j] \in Settled => status'[j] = status[j]]_vars
  <2> SUFFICES ASSUME QueueInv, WorkersOnlyInv, [Next]_vars, Requests = {},
                      NEW j \in Jobs, status[j] \in Settled
               PROVE  status'[j] = status[j]
    OBVIOUS
  <2>1. LedgerView[j] \in Settled /\ LedgerView[j] = status[j]
    BY DEF LedgerView, Settled
  <2>2. LedgerView'[j] = LedgerView[j]
    <3>1. CASE UNCHANGED <<LedgerView, okRuns>>
      BY <3>1
    <3>2. CASE Ledger!Next
      <4>1. PICK i \in Jobs : Ledger!Accept(i) \/ Ledger!Run(i) \/ Ledger!Report(i)
        BY <3>2 DEF Ledger!Next
      <4>2. i = j => LedgerView' = LedgerView
        BY <4>1, <2>1 DEF Ledger!Accept, Ledger!Run, Ledger!Report, Settled
      <4>3. i # j => LedgerView'[j] = LedgerView[j]
        BY <4>1 DEF Ledger!Accept, Ledger!Run, Ledger!Report, LedgerView
      <4> QED BY <4>2, <4>3
    <3> QED BY <3>1, <3>2, LedgerStep
  <2>3. LedgerView'[j] = status'[j] \/ LedgerView'[j] = "open"
    BY DEF LedgerView
  <2> QED BY <2>1, <2>2, <2>3 DEF Settled
<1> QED
  BY <1>1, QueueInvariant, WorkersOnlyInvariant, PTL DEF Spec, SettledIsFinal

-----------------------------------------------------------------------------
(* The order of first attempts, beside inline requests.                    *)

Fresh(j) == status[j] = "pending" /\ attempts[j] = 0

\* An older fresh job has been due for at least as long as a younger one.
OlderWaitLonger ==
  /\ \A j \in Jobs : Fresh(j) => lag[j] >= 0
  /\ \A i, j \in Jobs : i < j /\ Fresh(i) /\ Fresh(j) => lag[i] >= lag[j]
  /\ \A j \in Jobs : status[j] = "running" => attempts[j] > 0
  /\ \A w \in Workers : Holding(w) => attempts[wjob[w]] > 0

LEMMA OlderWaitLongerStep ==
  QueueInv /\ OlderWaitLonger /\ [Next]_vars => OlderWaitLonger'
<1> SUFFICES ASSUME QueueInv, OlderWaitLonger, [Next]_vars PROVE OlderWaitLonger'
  OBVIOUS
<1> USE JobNumbers DEF QueueInv, TypeOK, HoldersKnowTheirRow, DownMeansNobodyRuns,
            RowsAreNumbered, AttemptBudget, Holding, Fresh, OlderWaitLonger,
            WorkerStages, Settled, NoJob
<1>1. ASSUME NEW w \in Workers, Poll(w) PROVE OlderWaitLonger'
  BY <1>1 DEF Poll
<1>2. ASSUME NEW w \in Workers, WorkerReturn(w) PROVE OlderWaitLonger'
  BY <1>2 DEF WorkerReturn
<1>3. ASSUME NEW w \in Workers, ClaimJob(w) PROVE OlderWaitLonger'
  BY <1>3 DEF ClaimJob, ClaimRow, IsOldestClaimable, Claimable
<1>4. ASSUME NEW w \in Workers, ClaimUnreadable(w) PROVE OlderWaitLonger'
  BY <1>4 DEF ClaimUnreadable, ClaimRow, IsOldestClaimable, Claimable
<1>5. ASSUME NEW w \in Workers, ClaimNothing(w) PROVE OlderWaitLonger'
  BY <1>5 DEF ClaimNothing, DatabaseFault
<1>6. ASSUME NEW w \in Workers, ExecuteOk(w) PROVE OlderWaitLonger'
  BY <1>6 DEF ExecuteOk
<1>7. ASSUME NEW w \in Workers, ExecuteErr(w) PROVE OlderWaitLonger'
  BY <1>7 DEF ExecuteErr
<1>8. ASSUME NEW w \in Workers, RecordSuccess(w) PROVE OlderWaitLonger'
  BY <1>8 DEF RecordSuccess, SucceedRow, DatabaseFault, Release
<1>9. ASSUME NEW w \in Workers, RetryFailure(w) PROVE OlderWaitLonger'
  BY <1>9 DEF RetryFailure, RetryRow, DatabaseFault, Release
<1>10. ASSUME NEW w \in Workers, DeadLetterFailure(w) PROVE OlderWaitLonger'
  BY <1>10 DEF DeadLetterFailure, DeadLetterRow, DatabaseFault, Release
<1>11. ASSUME NEW r \in Requests, SubmitWaiting(r) PROVE OlderWaitLonger'
  BY <1>11 DEF SubmitWaiting, Enqueue
<1>12. ASSUME NEW r \in Requests, InlineClaim(r) PROVE OlderWaitLonger'
  <2>1. UNCHANGED <<wstage, wjob>>
    BY <1>12 DEF InlineClaim, pool
  <2>2. CASE UNCHANGED rows
    BY <2>1, <2>2 DEF rows
  <2>3. ASSUME NEW j \in Jobs, ClaimRow(j) PROVE OlderWaitLonger'
    BY <2>1, <2>3 DEF ClaimRow, IsOldestClaimable, Claimable
  <2> QED BY <1>12, <2>2, <2>3 DEF InlineClaim
<1>13. ASSUME NEW r \in Requests, InlineClaimFails(r) PROVE OlderWaitLonger'
  <2> USE <1>13 DEF InlineClaimFails
  <2>1. CASE DatabaseFault
    BY <2>1 DEF DatabaseFault
  <2>2. ASSUME NEW j \in Jobs, ClaimRow(j) PROVE OlderWaitLonger'
    BY <2>2 DEF ClaimRow, IsOldestClaimable, Claimable
  <2> QED BY <2>1, <2>2
<1>14. ASSUME NEW r \in Requests, InlineExecuteOk(r) PROVE OlderWaitLonger'
  BY <1>14 DEF InlineExecuteOk
<1>15. ASSUME NEW r \in Requests, InlineExecuteErr(r) PROVE OlderWaitLonger'
  BY <1>15 DEF InlineExecuteErr
<1>16. ASSUME NEW r \in Requests, InlineRecord(r) PROVE OlderWaitLonger'
  BY <1>16 DEF InlineRecord, SucceedRow, DeadLetterRow, DatabaseFault
<1>17. ASSUME NEW r \in Requests, Cancel(r) PROVE OlderWaitLonger'
  BY <1>17 DEF Cancel
<1>18. CASE SubmitAsync
  BY <1>18 DEF SubmitAsync, Enqueue
<1>19. CASE Start
  BY <1>19 DEF Start, ReclaimStale, Stale
<1>20. CASE Signal
  BY <1>20 DEF Signal
<1>21. CASE StopWorkers
  BY <1>21 DEF StopWorkers
<1>22. CASE Exit
  BY <1>22 DEF Exit
<1>23. CASE Crash
  BY <1>23 DEF Crash
<1>24. CASE Tick
  BY <1>24 DEF Tick
<1>25. CASE UNCHANGED vars
  BY <1>25 DEF vars
<1> QED
  BY <1>1, <1>2, <1>3, <1>4, <1>5, <1>6, <1>7, <1>8, <1>9, <1>10, <1>11, <1>12, <1>13, <1>14, <1>15, <1>16, <1>17, <1>18, <1>19, <1>20, <1>21, <1>22, <1>23, <1>24, <1>25 DEF Next, WorkerStep, RequestStep, ProcessStep

LEMMA OlderWaitLongerInvariant == Spec => []OlderWaitLonger
<1>1. Init => OlderWaitLonger
  BY DEF Init, OlderWaitLonger, Fresh, Holding
<1> QED BY <1>1, OlderWaitLongerStep, QueueInvariant, PTL DEF Spec

\* Submissions get their first attempt in the order they were accepted.
THEOREM FirstAttemptsAreOrdered == Spec => FirstAttemptsInOrder
<1>1. QueueInv /\ OlderWaitLonger /\ [Next]_vars
        => [\A i, j \in Jobs :
              /\ i < j
              /\ status[i] = "pending" /\ attempts[i] = 0
              /\ attempts[j] = 0
              => attempts'[j] = 0]_vars
  <2> SUFFICES ASSUME QueueInv, OlderWaitLonger, [Next]_vars,
                      NEW i \in Jobs, NEW j \in Jobs, i < j,
                      status[i] = "pending", attempts[i] = 0, attempts[j] = 0
               PROVE  attempts'[j] = 0
    OBVIOUS
  <2>1. UNCHANGED attempts \/ \E k \in Jobs : ClaimRow(k)
    BY DEF Next, vars, WorkerStep, RequestStep, ProcessStep, Poll, WorkerReturn,
       ClaimJob, ClaimUnreadable, ClaimNothing, DatabaseFault, ExecuteOk,
       ExecuteErr, RecordSuccess, SucceedRow, RetryFailure, RetryRow,
       DeadLetterFailure, DeadLetterRow, SubmitAsync, SubmitWaiting, Enqueue,
       InlineClaim, InlineClaimFails, InlineExecuteOk, InlineExecuteErr,
       InlineRecord, Cancel, Start, ReclaimStale, Signal, StopWorkers, Exit,
       Crash, Tick
  <2>2. ASSUME NEW k \in Jobs, ClaimRow(k) PROVE attempts'[j] = 0
    <3>1. k # j
      BY <2>2, JobNumbers
      DEF QueueInv, TypeOK, OlderWaitLonger, Fresh, ClaimRow, IsOldestClaimable, Claimable
    <3> QED BY <2>2, <3>1 DEF ClaimRow, QueueInv, TypeOK
  <2> QED BY <2>1, <2>2
<1> QED
  BY <1>1, QueueInvariant, OlderWaitLongerInvariant, PTL DEF Spec, FirstAttemptsInOrder

-----------------------------------------------------------------------------
(* What QueueInv says of the properties the runs check.                    *)

\* The type invariant, for every instance.
THEOREM TypeCorrect == Spec => []TypeOK
<1>1. QueueInv => TypeOK
  BY DEF QueueInv
<1> QED BY <1>1, QueueInvariant, PTL

\* claim_next is exclusive among workers, beside any number of inline requests.
THEOREM ClaimsAreExclusive == Spec => []WorkersNeverShareAJob
<1>1. QueueInv => WorkersNeverShareAJob
  BY DEF QueueInv
<1> QED BY <1>1, QueueInvariant, PTL

\* Every attempt beyond the budget was added by a reclaim.
THEOREM AttemptsAreAccounted == Spec => []AttemptsWithinReclaims
<1>1. QueueInv => AttemptsWithinReclaims
  BY DEF QueueInv, AttemptBudget, AttemptsWithinReclaims
<1> QED BY <1>1, QueueInvariant, PTL

-----------------------------------------------------------------------------
(* The digests of a user's memories, and the profile without them.         *)

HIDE QueueAssumption

\* A set of numbers with 0 and every member's successor has them all: the
\* induction of these proofs, from the well-foundedness of the numbers.
LEMMA CountingUp ==
  ASSUME NEW S, 0 \in S, \A n \in Nat : n \in S => n + 1 \in S
  PROVE  \A n \in Nat : n \in S
<1> DEFINE R == {ss \in Nat \X Nat : ss[1] < ss[2]}
<1>1. IsWellFoundedOn(R, Nat)
  BY NatLessThanWellFounded DEF OpToRel
<1> SUFFICES ASSUME \E n \in Nat : n \notin S PROVE FALSE
  OBVIOUS
<1> DEFINE T == Nat \ S
<1>2. T \subseteq Nat /\ T # {}
  OBVIOUS
<1>3. PICK x \in T : \A y \in T : ~(<<y, x>> \in R)
  <2> HIDE DEF R, T
  <2> QED BY <1>1, <1>2, WFMin
<1>4. x # 0 /\ x - 1 \in Nat
  BY <1>3
<1>5. x - 1 \in S => x \in S
  BY <1>4
<1>6. <<x - 1, x>> \in R
  BY <1>4
<1> QED BY <1>3, <1>4, <1>5, <1>6

\* What refreshes hold in hand and what digests were made of.
ReadOff == {snapshot[t] : t \in Tasks} \cup {digest[d].of : d \in Domains}

Known == active \cup pending \cup UNION ReadOff

VersionsDiffer(known) ==
  /\ \A m \in known : m.updated \in Nat /\ m.updated <= clock
  /\ \A m, n \in known : m.updated = n.updated => m = n

\* A version that was read and is still there has outlived nothing but what was
\* read with it; and one that is gone does not come back.
Outlived(S) ==
  \A v \in S :
    /\ v \notin pending
    /\ late = {} /\ v \in active =>
         \A m \in active : DomainOf(m.category) = DomainOf(v.category) =>
           m \in S \/ m.updated > v.updated

ReadIsOutlived == \A S \in ReadOff : IsFiniteSet(S) /\ Outlived(S)

DigestsAreOfTheirs ==
  \A d \in Domains : /\ digest[d].fingerprint = Fingerprint(digest[d].of)
                     /\ \A m \in digest[d].of : DomainOf(m.category) = d
                     /\ digest[d].of # {} => digest[d].shown \in Selections(digest[d].of)

DigestInv ==
  /\ clock \in Nat /\ DOMAIN snapshot = Tasks /\ DOMAIN digest = Domains
  /\ IsFiniteSet(active) /\ active \cap pending = {}
  /\ VersionsDiffer(Known) /\ ReadIsOutlived /\ DigestsAreOfTheirs

\* Every category is of one domain.
LEMMA DomainsAreTwo == \A m : DomainOf(m.category) \in Domains
BY DEF DomainOf, Domains

\* At first nothing is read and nothing is stored.
LEMMA DigestInvInit == ProfileInit => DigestInv
<1> SUFFICES ASSUME ProfileInit PROVE DigestInv
  OBVIOUS
<1>1. IsFiniteSet({})
  BY FS_EmptySet
<1>2. /\ \A d \in Domains : digest[d] = NoDigest
      /\ NoDigest.of = {} /\ NoDigest.fingerprint = Fingerprint({})
  BY DEF ProfileInit, NoDigest
<1>3. \A S \in ReadOff : S = {}
  BY <1>2 DEF ReadOff, ProfileInit
<1>4. Known = {}
  BY <1>3 DEF Known, ProfileInit
<1>5. VersionsDiffer(Known)
  BY <1>4 DEF VersionsDiffer
<1>6. ReadIsOutlived
  BY <1>1, <1>3 DEF ReadIsOutlived, Outlived
<1>7. DigestsAreOfTheirs
  BY <1>2 DEF DigestsAreOfTheirs
<1> QED BY <1>1, <1>5, <1>6, <1>7 DEF DigestInv, ProfileInit

\* Nothing is read: what there is changes, and some may be new.
LEMMA DigestInvMemories ==
  ASSUME DigestInv, UNCHANGED <<digest, snapshot>>,
         clock' \in Nat, clock' >= clock, IsFiniteSet(active'), active' \cap pending' = {},
         \A m \in active' \cup pending' : m \in active \cup pending \/ m.updated \in clock + 1..clock',
         \A m, n \in active' \cup pending' : m.updated > clock /\ m.updated = n.updated => m = n,
         \A m \in pending' : m \in pending \/ m.updated > clock,
         late' = {} => late = {},
         late' = {} => \A m \in active' \cap pending :
           ~ \E n \in active : DomainOf(n.category) = DomainOf(m.category) /\ n.updated > m.updated
  PROVE  DigestInv'
<1>1. ReadOff' = ReadOff
  BY DEF ReadOff
<1>2. \A m \in Known' : m \in Known \/ (m \in active' \cup pending' /\ m.updated \in clock + 1..clock')
  BY <1>1 DEF Known
<1>3. \A m \in Known : m.updated \in Nat /\ m.updated <= clock
  BY DEF DigestInv, VersionsDiffer
<1>4. VersionsDiffer(Known)'
  <2>1. \A m \in Known' : m.updated \in Nat /\ m.updated <= clock'
    BY <1>2, <1>3 DEF DigestInv
  <2>2. ASSUME NEW m \in Known', NEW n \in Known', m.updated = n.updated PROVE m = n
    <3>1. CASE m \in Known /\ n \in Known
      BY <2>2, <3>1 DEF DigestInv, VersionsDiffer
    <3>2. CASE m \notin Known \/ n \notin Known
      <4>1. m.updated > clock /\ n.updated > clock
        BY <1>2, <1>3, <2>2, <3>2 DEF DigestInv
      <4>2. m \notin Known /\ n \notin Known
        BY <1>3, <4>1 DEF DigestInv
      <4> QED BY <1>2, <2>2, <4>1, <4>2
    <3> QED BY <3>1, <3>2
  <2> QED BY <2>1, <2>2 DEF VersionsDiffer
<1>5. ASSUME NEW S \in ReadOff PROVE Outlived(S)'
  <2> SUFFICES ASSUME NEW v \in S
               PROVE  /\ v \notin pending'
                      /\ late' = {} /\ v \in active' =>
                           \A m \in active' : DomainOf(m.category) = DomainOf(v.category) =>
                             m \in S \/ m.updated > v.updated
    BY DEF Outlived
  <2>1. /\ v \in Known /\ v.updated \in Nat /\ v.updated <= clock /\ clock \in Nat
        /\ v \notin pending
        /\ late = {} /\ v \in active =>
             \A m \in active : DomainOf(m.category) = DomainOf(v.category) =>
               m \in S \/ m.updated > v.updated
    BY <1>3, <1>5 DEF Known, DigestInv, ReadIsOutlived, Outlived
  <2>2. v \notin pending'
    BY <2>1
  <2>3. ASSUME late' = {}, v \in active', NEW m \in active',
               DomainOf(m.category) = DomainOf(v.category), m \notin S
        PROVE  m.updated > v.updated
    <3>1. v \in active
      BY <2>1, <2>3
    <3>2. CASE m \in active
      BY <2>1, <2>3, <3>1, <3>2
    <3>3. CASE m \in pending
      <4>1. ~ v.updated > m.updated
        BY <2>3, <3>1, <3>3
      <4>2. m # v /\ m \in Known
        BY <2>1, <3>3 DEF Known
      <4>3. m.updated # v.updated /\ m.updated \in Nat
        BY <1>3, <2>1, <4>2 DEF DigestInv, VersionsDiffer
      <4> QED BY <2>1, <4>1, <4>3
    <3>4. CASE m.updated \in clock + 1..clock'
      BY <2>1, <3>4
    <3> QED BY <2>3, <3>2, <3>3, <3>4
  <2> QED BY <2>2, <2>3
<1>6. ReadIsOutlived' /\ DigestsAreOfTheirs'
  BY <1>1, <1>5 DEF DigestInv, ReadIsOutlived, DigestsAreOfTheirs
<1> QED BY <1>4, <1>6 DEF DigestInv

\* Nothing changes but what is read: it is of the memories there are, or of
\* some that were read.
LEMMA DigestInvRefreshes ==
  ASSUME DigestInv, UNCHANGED <<clock, active, pending, late>>,
         DOMAIN snapshot' = Tasks, DOMAIN digest' = Domains, DigestsAreOfTheirs',
         \A S \in ReadOff' : \/ S = {} \/ S = active
                             \/ \E R \in ReadOff : S = R \/ \E d \in Domains : S = Theirs(R, d)
  PROVE  DigestInv'
<1>1. \A S \in ReadOff' : S \subseteq active \/ \E R \in ReadOff : S \subseteq R
  BY DEF Theirs
<1>2. Known' \subseteq Known
  BY <1>1 DEF Known
<1>3. VersionsDiffer(Known)'
  BY <1>2 DEF DigestInv, VersionsDiffer
<1>4. ASSUME NEW S \in ReadOff' PROVE IsFiniteSet(S) /\ Outlived(S)'
  <2>1. CASE S = {}
    BY <2>1, FS_EmptySet DEF Outlived
  <2>2. CASE S = active
    BY <2>2 DEF DigestInv, Outlived
  <2>3. ASSUME NEW R \in ReadOff, S = R \/ \E d \in Domains : S = Theirs(R, d)
        PROVE  IsFiniteSet(S) /\ Outlived(S)'
    <3>1. IsFiniteSet(R) /\ Outlived(R)
      BY <2>3 DEF DigestInv, ReadIsOutlived
    <3>2. S \subseteq R /\ \A v \in S, m \in R : DomainOf(m.category) = DomainOf(v.category) => m \in S
      BY <2>3 DEF Theirs
    <3>3. IsFiniteSet(S)
      BY <3>1, <3>2, FS_Subset
    <3>4. Outlived(S)'
      BY <3>1, <3>2 DEF Outlived
    <3> QED BY <3>3, <3>4
  <2> QED BY <2>1, <2>2, <2>3
<1> QED BY <1>3, <1>4 DEF DigestInv, ReadIsOutlived

\* What reconciling leaves of some memories, and adds to them.
Grown(done, start) ==
  /\ done.clock \in Nat /\ done.clock >= start.clock /\ IsFiniteSet(done.active)
  /\ \A m \in done.active : m \in start.active \/ m.updated \in start.clock + 1..done.clock
  /\ \A m, n \in done.active : m.updated > start.clock /\ m.updated = n.updated => m = n
  /\ \A m \in done.active : m \in start.active \/ m.id = m.updated

\* Reconciling one candidate takes memories away, and adds one of a new version.
LEMMA ReconcilingAdds ==
  ASSUME NEW start, start.clock \in Nat, \A m \in start.active : m.updated \in Nat /\ m.updated <= start.clock,
         NEW done, Grown(done, start), NEW candidate, NEW verdict, NEW compare
  PROVE  Grown(Reconciled(done, candidate, verdict, compare), start)
<1> DEFINE shown == IF compare THEN {m.id : m \in {a \in done.active : a.category = candidate.category}}
                    ELSE {}
           does  == IF shown = {} THEN [stores |-> TRUE, deleted |-> {}, superseded |-> {}]
                    ELSE Applied(verdict, shown)
           gone  == does.deleted \cup IF does.stores THEN does.superseded ELSE {}
           id    == done.clock + 1
           new   == Memory(id, candidate.category, candidate.confidence, id)
           left  == {m \in done.active : m.id \notin gone}
           more  == Reconciled(done, candidate, verdict, compare)
<1>1. /\ more.active = left \cup (IF does.stores THEN {new} ELSE {})
      /\ more.clock = done.clock + IF does.stores THEN 1 ELSE 0
  BY DEF Reconciled
<1>2. new.updated = done.clock + 1 /\ new.id = new.updated
  BY DEF Memory
<1>3. left \subseteq done.active /\ IsFiniteSet(left) /\ IsFiniteSet(left \cup {new})
  BY FS_Subset, FS_AddElement DEF Grown
<1>4. \A m \in left : m.updated \in Nat /\ m.updated <= done.clock
  BY <1>3 DEF Grown
<1> HIDE DEF more, left, new, gone, does, shown
<1>5. CASE does.stores
  <2>1. more.active = left \cup {new} /\ more.clock = done.clock + 1
    BY <1>1, <1>5
  <2>2. \A m \in more.active : m \in left \/ m = new
    BY <2>1
  <2>3. PICK c \in Nat, k \in Nat : c = start.clock /\ k = done.clock /\ k >= c
    BY DEF Grown
  <2>a. /\ \A m \in done.active : m \in start.active \/ m.updated \in c + 1..k
        /\ \A m, n \in done.active : m.updated > c /\ m.updated = n.updated => m = n
        /\ \A m \in left : m.updated \in Nat /\ m.updated <= k
    BY <1>4, <2>3, Zenon DEF Grown
  <2>4. more.clock \in Nat /\ more.clock >= start.clock /\ IsFiniteSet(more.active)
    BY <1>3, <2>1, <2>3
  <2>b. new.updated = k + 1 /\ left \subseteq done.active
    BY <1>2, <1>3, <2>3
  <2>5. ASSUME NEW m \in more.active PROVE m \in start.active \/ m.updated \in c + 1..k + 1
    <3>1. CASE m \in left
      <4>1. m \in start.active \/ m.updated \in c + 1..k
        BY <2>a, <2>b, <3>1, Zenon
      <4> QED BY <4>1
    <3>2. CASE m = new
      BY <2>b, <2>3, <3>2
    <3> QED BY <2>2, <3>1, <3>2
  <2>6. ASSUME NEW m \in more.active, NEW n \in more.active, m.updated > c, m.updated = n.updated
        PROVE  m = n
    <3>1. CASE m \in left /\ n \in left
      BY <2>a, <2>b, <2>6, <3>1, Zenon
    <3>2. CASE m = new \/ n = new
      <4>1. m.updated = k + 1 /\ n.updated = k + 1
        BY <2>b, <2>6, <3>2
      <4>2. m \notin left /\ n \notin left
        BY <2>a, <4>1
      <4> QED BY <2>2, <4>2
    <3> QED BY <2>2, <3>1, <3>2
  <2>c. /\ more.clock = k + 1
        /\ \A m \in more.active : m \in start.active \/ m.updated \in start.clock + 1..more.clock
        /\ \A m, n \in more.active : m.updated > start.clock /\ m.updated = n.updated => m = n
    <3>1. more.clock = k + 1
      BY <2>1, <2>3
    <3>2. \A m \in more.active : m \in start.active \/ m.updated \in start.clock + 1..more.clock
      BY <2>3, <2>5, <3>1, Zenon
    <3>3. \A m, n \in more.active : m.updated > start.clock /\ m.updated = n.updated => m = n
      BY <2>3, <2>6, Zenon
    <3> QED BY <3>1, <3>2, <3>3
  <2>e. \A m \in more.active : m \in start.active \/ m.id = m.updated
    BY <1>2, <2>2, <2>b, Zenon DEF Grown
  <2>d. Grown(more, start)
    BY <2>4, <2>c, <2>e DEF Grown
  <2> QED BY <2>d DEF more
<1>6. CASE ~ does.stores
  <2>1. more.active = left /\ more.clock = done.clock
    BY <1>1, <1>6 DEF Grown
  <2>2. /\ done.clock \in Nat /\ done.clock >= start.clock
        /\ \A m \in left : m \in start.active \/ m.updated \in start.clock + 1..done.clock
        /\ \A m, n \in left : m.updated > start.clock /\ m.updated = n.updated => m = n
        /\ \A m \in left : m \in start.active \/ m.id = m.updated
    BY <1>3, Zenon DEF Grown
  <2>3. Grown(more, start)
    BY <1>3, <2>1, <2>2, Zenon DEF Grown
  <2> QED BY <2>3 DEF more
<1> QED BY <1>5, <1>6

\* So does reconciling one candidate after the other.
LEMMA ReconcilingAllAdds ==
  ASSUME NEW start, start.clock \in Nat, IsFiniteSet(start.active),
         \A m \in start.active : m.updated \in Nat /\ m.updated <= start.clock,
         NEW found, Len(found) \in Nat, NEW verdict, NEW compare
  PROVE  Grown(ReconciledAll(start, found, verdict, compare), start)
<1> DEFINE Next1(done, i) == Reconciled(done, found[i], verdict, compare)
           Is(f, m) == f = [i \in 0..m |-> IF i = 0 THEN start ELSE Next1(f[i - 1], i)]
           top == Len(found)
           sofar == CHOOSE f : Is(f, top)
           Possible == {n \in Nat : \E f : Is(f, n)}
<1> HIDE DEF Next1
<1>0. top \in Nat
  OBVIOUS
<1>1. 0 \in Possible
  <2> DEFINE f == [i \in 0..0 |-> start]
  <2>1. Is(f, 0)
    OBVIOUS
  <2> QED BY <2>1
<1>2. ASSUME NEW m \in Nat, m \in Possible PROVE m + 1 \in Possible
  <2>0. PICK f : Is(f, m)
    BY <1>2
  <2>1. \A i \in 0..m : f[i] = IF i = 0 THEN start ELSE Next1(f[i - 1], i)
    BY <2>0, Zenon
  <2> DEFINE g == [i \in 0..m + 1 |-> IF i <= m THEN f[i] ELSE Next1(f[m], m + 1)]
  <2>2. ASSUME NEW i \in 0..m + 1
        PROVE  g[i] = IF i = 0 THEN start ELSE Next1(g[i - 1], i)
    <3>1. CASE i = 0
      BY <2>1, <3>1
    <3>2. CASE i \in 1..m
      <4>1. f[i] = Next1(f[i - 1], i)
        <5>1. i \in 0..m /\ i # 0
          BY <3>2
        <5> QED BY <2>1, <5>1
      <4>2. g[i] = f[i] /\ g[i - 1] = f[i - 1]
        BY <3>2
      <4> HIDE DEF g
      <4> QED BY <3>2, <4>1, <4>2
    <3>3. CASE i = m + 1
      <4>1. g[i] = Next1(f[m], m + 1) /\ g[m] = f[m]
        BY <3>3
      <4> HIDE DEF g
      <4> QED BY <3>3, <4>1
    <3> QED BY <3>1, <3>2, <3>3
  <2>3. Is(g, m + 1)
    <3>1. g = [i \in 0..m + 1 |-> g[i]]
      OBVIOUS
    <3> HIDE DEF g
    <3>2. [i \in 0..m + 1 |-> g[i]]
            = [i \in 0..m + 1 |-> IF i = 0 THEN start ELSE Next1(g[i - 1], i)]
      BY <2>2
    <3> QED BY <3>1, <3>2
  <2> HIDE DEF Is, g
  <2> QED BY <2>3
<1>3. Is(sofar, top)
  <2>1. top \in Possible
    <3> HIDE DEF Possible, top
    <3> QED BY <1>0, <1>1, <1>2, CountingUp
  <2> HIDE DEF Is
  <2> QED BY <2>1
<1>4. ReconciledAll(start, found, verdict, compare) = sofar[top]
  BY DEF ReconciledAll, Next1
<1> HIDE DEF sofar
<1>5. \A i \in 0..top : sofar[i] = IF i = 0 THEN start ELSE Next1(sofar[i - 1], i)
  BY <1>3, Zenon
<1> HIDE DEF top
<1> DEFINE Fine == {n \in Nat : n <= top => Grown(sofar[n], start)}
<1>6. 0 \in Fine
  <2>1. sofar[0] = start
    BY <1>0, <1>5
  <2>2. Grown(start, start)
    BY DEF Grown
  <2> QED BY <2>1, <2>2
<1>7. ASSUME NEW n \in Nat, n \in Fine PROVE n + 1 \in Fine
  <2> SUFFICES ASSUME n + 1 <= top PROVE Grown(sofar[n + 1], start)
    OBVIOUS
  <2>1. n + 1 \in 0..top /\ n + 1 # 0 /\ (n + 1) - 1 = n /\ n <= top
    BY <1>0
  <2>2. sofar[n + 1] = Next1(sofar[n], n + 1)
    BY <1>5, <2>1
  <2>3. Grown(sofar[n], start)
    BY <1>7, <2>1
  <2> QED BY <2>2, <2>3, ReconcilingAdds DEF Next1
<1>8. top \in Fine
  <2> HIDE DEF Fine
  <2> QED BY <1>0, <1>6, <1>7, CountingUp
<1> QED BY <1>0, <1>4, <1>8

\* A pipeline finds a list of candidates.
LEMMA FoundIsFinite ==
  ASSUME NEW p, NEW answer \in Answers
  PROVE  Len(Found(p, answer)) \in Nat
<1> DEFINE raw == answer.candidates
           places == {i \in DOMAIN raw : raw[i].readable /\ ~Rejected(raw[i])}
           usable == Kept(raw, places)
<1>1. DOMAIN raw = 1..Len(raw) /\ Len(raw) \in Nat
  BY ProfileAssumption
<1>2. Cardinality(places) \in Nat
  <2>1. places \subseteq 1..Len(raw)
    BY <1>1
  <2>2. IsFiniteSet(1..Len(raw))
    BY <1>1, FS_Interval
  <2> HIDE DEF places
  <2> QED BY <2>1, <2>2, FS_Subset, FS_CardinalityType
<1> HIDE DEF places
<1>3. DOMAIN usable = 1..Cardinality(places)
  BY DEF Kept
<1>4. Harvest(answer, <<>>) = IF raw = <<>> THEN <<>> ELSE [i \in DOMAIN usable |-> Validated(usable[i], <<>>)]
  BY DEF Harvest, places
<1>5. Len([i \in DOMAIN usable |-> Validated(usable[i], <<>>)]) \in Nat
  BY <1>2, <1>3
<1>6. Len(Harvest(answer, <<>>)) \in Nat
  BY <1>4, <1>5
<1> QED BY <1>6 DEF Found

\* A job's new memories are of new versions.
LEMMA DigestInvJob == ASSUME DigestInv, IngestJob PROVE DigestInv'
<1>1. PICK p \in Payloads, answer \in Answers, verdict \in Verdicts :
        LET done == ReconciledAll([active |-> active, clock |-> clock, gone |-> 0], Found(p, answer),
                                  verdict, ~Verbatim(p))
        IN active' = done.active /\ clock' = done.clock
  BY DEF IngestJob
<1> DEFINE start == [active |-> active, clock |-> clock, gone |-> 0]
           found == Found(p, answer)
           done == ReconciledAll(start, found, verdict, ~Verbatim(p))
<1>2. start.active = active /\ start.clock = clock
  OBVIOUS
<1>3. \A m \in active : m.updated \in Nat /\ m.updated <= clock
  BY DEF DigestInv, VersionsDiffer, Known
<1>4. Len(found) \in Nat
  BY FoundIsFinite
<1>5. active' = done.active /\ clock' = done.clock
  BY <1>1
<1> HIDE DEF found, start
<1>6. Grown(done, start)
  BY <1>2, <1>3, <1>4, ReconcilingAllAdds DEF DigestInv
<1> HIDE DEF done
<1>7. pending = {} /\ UNCHANGED <<pending, digest, snapshot, late>>
  BY DEF IngestJob
<1> QED BY <1>2, <1>5, <1>6, <1>7, DigestInvMemories DEF Grown

\* A write that starts stamps a version of its own.
LEMMA DigestInvStart == ASSUME DigestInv, StartWrite PROVE DigestInv'
<1>1. PICK m : pending' = pending \cup {m} /\ m.updated = clock + 1
  BY DEF StartWrite, Memory
<1>2. clock' = clock + 1 /\ UNCHANGED <<active, digest, snapshot, late>> /\ clock \in Nat
  BY DEF StartWrite, tasks, DigestInv
<1>3. \A n \in active \cup pending : n.updated \in Nat /\ n.updated <= clock
  BY DEF DigestInv, VersionsDiffer, Known
<1>4. active \cap pending = {} /\ IsFiniteSet(active)
  BY DEF DigestInv
<1> QED BY <1>1, <1>2, <1>3, <1>4, DigestInvMemories

\* A write that ends behind a newer version is told of in late.
LEMMA DigestInvWrite == ASSUME DigestInv, Write PROVE DigestInv'
<1>1. PICK m \in pending :
        /\ pending' = pending \ {m}
        /\ \/ UNCHANGED <<active, late>>
           \/ /\ active' = {a \in active : a.id # m.id} \cup {m}
              /\ late' = IF Behind(active, m) THEN late \cup {m} ELSE late
  BY DEF Write
<1>2. UNCHANGED <<clock, digest, snapshot>> /\ clock \in Nat /\ active \cap pending = {} /\ IsFiniteSet(active)
  BY DEF Write, tasks, DigestInv
<1>3. \A n \in active \cup pending : n.updated \in Nat /\ n.updated <= clock
  BY DEF DigestInv, VersionsDiffer, Known
<1>4. active' \subseteq active \cup {m} /\ active' \cap pending' = {} /\ active' \cup pending' \subseteq active \cup pending
  BY <1>1, <1>2
<1>5. IsFiniteSet(active')
  BY <1>2, <1>4, FS_AddElement, FS_Subset
<1>6. late' = {} => late = {} /\ (m \in active' => ~ Behind(active, m))
  BY <1>1, <1>2
<1>7. ~ Behind(active, m) => ~ \E n \in active : DomainOf(n.category) = DomainOf(m.category) /\ n.updated > m.updated
  BY DEF Behind, Theirs
<1>8. \A n \in active' \cap pending : n = m
  BY <1>1, <1>2, <1>4
<1> QED BY <1>1, <1>2, <1>3, <1>4, <1>5, <1>6, <1>7, <1>8, DigestInvMemories

\* What is gone does not come back.
LEMMA DigestInvRetire == ASSUME DigestInv, Retire PROVE DigestInv'
<1>1. active' \subseteq active /\ UNCHANGED <<clock, pending, digest, snapshot, late>>
  BY DEF Retire, tasks
<1>2. IsFiniteSet(active')
  BY <1>1, FS_Subset DEF DigestInv
<1>3. \A n \in active \cup pending : n.updated \in Nat /\ n.updated <= clock
  BY DEF DigestInv, VersionsDiffer, Known
<1>4. active \cap pending = {} /\ clock \in Nat
  BY DEF DigestInv
<1> QED BY <1>1, <1>2, <1>3, <1>4, DigestInvMemories

\* The steps of a refresh only read, and store what was read.
LEMMA DigestInvTask ==
  ASSUME DigestInv, NEW t \in Tasks, Refresh(t) \/ Dropped(t) \/ Nightfall PROVE DigestInv'
<1>0. UNCHANGED <<clock, active, pending, late>> /\ DOMAIN snapshot = Tasks /\ DOMAIN digest = Domains
  BY DEF Refresh, List, Look, Asked, Finish, Dropped, Nightfall, DigestInv
<1>1. CASE UNCHANGED <<digest, snapshot>>
  <2>1. ReadOff' = ReadOff /\ DigestsAreOfTheirs'
    BY <1>1 DEF ReadOff, DigestsAreOfTheirs, DigestInv
  <2> QED BY <1>0, <1>1, <2>1, DigestInvRefreshes
<1>2. ASSUME UNCHANGED digest, NEW S, S = {} \/ S = active, snapshot' = [snapshot EXCEPT ![t] = S]
      PROVE  DigestInv'
  <2>1. DOMAIN snapshot' = Tasks /\ \A q \in Tasks : snapshot'[q] = snapshot[q] \/ snapshot'[q] = S
    BY <1>0, <1>2
  <2>2. \A R \in ReadOff' : R \in ReadOff \/ R = S
    BY <1>2, <2>1 DEF ReadOff
  <2>3. DigestsAreOfTheirs'
    BY <1>2 DEF DigestInv, DigestsAreOfTheirs
  <2> QED BY <1>0, <1>2, <2>1, <2>2, <2>3, DigestInvRefreshes
<1>3. ASSUME UNCHANGED snapshot, NEW d, NEW size, NEW shown \in Selections(Theirs(snapshot[t], d)),
             digest' = [digest EXCEPT ![d] = Stored(t, d, size, shown)]
      PROVE  DigestInv'
  <2> DEFINE M == Theirs(snapshot[t], d)
  <2>1. /\ Stored(t, d, size, shown).of = M /\ Stored(t, d, size, shown).fingerprint = Fingerprint(M)
        /\ Stored(t, d, size, shown).shown = shown
        /\ \A m \in M : DomainOf(m.category) = d
    BY DEF Stored, Theirs
  <2>2. DOMAIN digest' = Domains
    BY <1>0, <1>3
  <2>3. \A c \in Domains : digest'[c] = IF c = d THEN Stored(t, d, size, shown) ELSE digest[c]
    BY <1>0, <1>3
  <2>4. DigestsAreOfTheirs'
    BY <1>3, <2>1, <2>3 DEF DigestInv, DigestsAreOfTheirs, Selections
  <2>5. \A S \in ReadOff' : S \in ReadOff \/ (S = M /\ d \in Domains)
    BY <1>3, <2>1, <2>3 DEF ReadOff
  <2>6. snapshot[t] \in ReadOff
    BY DEF ReadOff
  <2> QED BY <1>0, <1>3, <2>2, <2>4, <2>5, <2>6, DigestInvRefreshes
<1>4. CASE List(t)
  BY <1>2, <1>4 DEF List
<1>5. CASE Finish(t) \/ Dropped(t)
  BY <1>2, <1>5 DEF Finish, Dropped
<1>6. CASE Asked(t)
  <2>1. \/ UNCHANGED <<digest, snapshot>>
        \/ \E d, size : \E shown \in Selections(Theirs(snapshot[t], d)) :
             UNCHANGED snapshot /\ digest' = [digest EXCEPT ![d] = Stored(t, d, size, shown)]
    BY <1>6 DEF Asked
  <2> QED BY <1>1, <1>3, <2>1
<1>7. CASE Look(t) \/ Nightfall
  BY <1>1, <1>7 DEF Look, Nightfall
<1> QED BY <1>4, <1>5, <1>6, <1>7 DEF Refresh

\* No step breaks what is known of versions and of what was read.
LEMMA DigestInvNext == DigestInv /\ [ProfileNext]_profile => DigestInv'
<1> SUFFICES ASSUME DigestInv, [ProfileNext]_profile PROVE DigestInv'
  OBVIOUS
<1>1. CASE StartWrite \/ Write \/ Retire \/ IngestJob
  BY <1>1, DigestInvStart, DigestInvWrite, DigestInvRetire, DigestInvJob
<1>2. CASE Nightfall
  <2>1. Night \in Tasks
    BY DEF Tasks
  <2> QED BY <1>2, <2>1, DigestInvTask
<1>3. CASE \E t \in Tasks : Refresh(t) \/ Dropped(t)
  BY <1>3, DigestInvTask
<1>4. CASE UNCHANGED profile
  <2>1. UNCHANGED <<clock, active, pending, digest, snapshot, late>>
    BY <1>4 DEF profile, tasks
  <2>2. ReadOff' = ReadOff /\ Known' = Known
    BY <2>1 DEF ReadOff, Known
  <2> QED BY <2>1, <2>2 DEF DigestInv, VersionsDiffer, ReadIsOutlived, Outlived, DigestsAreOfTheirs
<1> QED BY <1>1, <1>2, <1>3, <1>4 DEF ProfileNext

\* The latest version of some memories is one of theirs.
LEMMA LatestIsThere ==
  ASSUME NEW M, M # {}, NEW n \in Nat, \A m \in M : m.updated \in Nat /\ m.updated <= n
  PROVE  \E v \in M : Fingerprint(M).latest = v.updated /\ \A m \in M : m.updated <= v.updated
<1> DEFINE S == {n - m.updated : m \in M}
           R == {ss \in Nat \X Nat : ss[1] < ss[2]}
<1>1. S \subseteq Nat /\ S # {}
  OBVIOUS
<1>2. IsWellFoundedOn(R, Nat)
  BY NatLessThanWellFounded DEF OpToRel
<1>3. PICK x \in S : \A y \in S : ~ <<y, x>> \in R
  <2> HIDE DEF R, S
  <2> QED BY <1>1, <1>2, WFMin
<1>4. \A y \in S : x <= y
  <2> SUFFICES ASSUME NEW y \in S, ~ x <= y PROVE FALSE
    OBVIOUS
  <2>1. x \in Nat /\ y \in Nat
    <3> HIDE DEF S
    <3> QED BY <1>1, <1>3
  <2>2. <<y, x>> \in R
    BY <2>1
  <2> QED BY <1>3, <2>2
<1>5. PICK v \in M : x = n - v.updated
  BY <1>3
<1>6. \A m \in M : m.updated <= v.updated
  <2> SUFFICES ASSUME NEW m \in M PROVE m.updated <= v.updated
    OBVIOUS
  <2>1. n - m.updated \in S
    OBVIOUS
  <2>2. n - v.updated <= n - m.updated
    <3> HIDE DEF S
    <3> QED BY <1>4, <1>5, <2>1
  <2>3. m.updated \in Nat /\ v.updated \in Nat
    OBVIOUS
  <2> HIDE DEF S
  <2> QED BY <2>2, <2>3
<1>7. \E w \in M : \A m \in M : m.updated <= w.updated
  BY <1>6
<1>8. PICK w : w = CHOOSE u \in M : \A m \in M : m.updated <= u.updated
  OBVIOUS
<1>9. w \in M /\ \A m \in M : m.updated <= w.updated
  BY <1>7, <1>8
<1>10. Fingerprint(M).latest = w.updated
  BY <1>8 DEF Fingerprint
<1> QED BY <1>9, <1>10

\* As many, and none later: then they are the same memories.
LEMMA DigestInvCovers == DigestInv => CoversIsExact
<1> SUFFICES ASSUME DigestInv, NEW d \in Domains, late = {}, Theirs(active, d) # {},
                    Covers(d, Theirs(active, d))
             PROVE  digest[d].of = Theirs(active, d) /\ digest[d].shown \in Selections(Theirs(active, d))
  BY DEF CoversIsExact
<1> DEFINE T == Theirs(active, d)
           S == digest[d].of
<1>1. IsFiniteSet(T) /\ IsFiniteSet(S) /\ S \in ReadOff /\ Outlived(S) /\ T \subseteq active
  BY FS_Subset DEF DigestInv, ReadIsOutlived, ReadOff, Theirs
<1>2. Cardinality(S) = Cardinality(T) /\ Fingerprint(S).latest = Fingerprint(T).latest
  <2>1. Fingerprint(S) = Fingerprint(T)
    BY DEF Covers, DigestInv, DigestsAreOfTheirs
  <2>2. Fingerprint(S).count = Cardinality(S) /\ Fingerprint(T).count = Cardinality(T)
    BY DEF Fingerprint
  <2> HIDE DEF S, T
  <2> QED BY <2>1, <2>2
<1>3. S # {}
  <2>1. Cardinality(T) # 0
    BY <1>1, FS_EmptySet
  <2> HIDE DEF S
  <2> QED BY <1>2, <2>1, FS_EmptySet
<1>4. S \subseteq Known /\ T \subseteq Known
  BY <1>1 DEF Known
<1>5. clock \in Nat /\ \A m \in Known : m.updated \in Nat /\ m.updated <= clock
  BY DEF DigestInv, VersionsDiffer
<1>6. /\ \A m \in S : m.updated \in Nat /\ m.updated <= clock
      /\ \A m \in T : m.updated \in Nat /\ m.updated <= clock
  BY <1>4, <1>5
<1>7. PICK v \in S : Fingerprint(S).latest = v.updated /\ \A m \in S : m.updated <= v.updated
  <2> HIDE DEF S
  <2> QED BY <1>3, <1>5, <1>6, LatestIsThere
<1>8. PICK w \in T : Fingerprint(T).latest = w.updated /\ \A m \in T : m.updated <= w.updated
  <2>1. T # {}
    OBVIOUS
  <2> HIDE DEF T
  <2> QED BY <1>5, <1>6, <2>1, LatestIsThere
<1>9. w = v
  BY <1>2, <1>4, <1>7, <1>8 DEF DigestInv, VersionsDiffer
<1>10. \A m \in T : m \in S
  <2> SUFFICES ASSUME NEW m \in T, m \notin S PROVE FALSE
    OBVIOUS
  <2>1. v \in active /\ m \in active /\ DomainOf(m.category) = DomainOf(v.category)
    BY <1>1, <1>8, <1>9 DEF Theirs
  <2>2. m.updated > v.updated
    BY <1>1, <1>7, <2>1 DEF Outlived
  <2>3. m.updated <= v.updated /\ m.updated \in Nat /\ v.updated \in Nat
    BY <1>6, <1>7, <1>8, <1>9
  <2> QED BY <2>2, <2>3
<1> HIDE DEF S, T
<1>11. S = T
  BY <1>1, <1>2, <1>10, FS_Subset
<1>12. digest[d].shown \in Selections(S)
  BY <1>3 DEF DigestInv, DigestsAreOfTheirs, S
<1> QED BY <1>11, <1>12 DEF S, T

\* A digest that counts as current was made of the memories there are, and was
\* shown as many of them as a prompt holds (profile_digest.rs, covers), however
\* refreshes overlap with writes.
THEOREM CoversIsExactAlways == ProfileSpec => []CoversIsExact
<1> QED BY DigestInvInit, DigestInvNext, DigestInvCovers, PTL DEF ProfileSpec

\* Stamps are those of the clock, ids of memories those of their first stamp,
\* and what a refresh has yet to look at or asks about has memories.
StampsRun ==
  \A m \in active \cup pending : m.id \in 1..clock /\ m.updated \in m.id..clock

RefreshesHaveMemories ==
  \A t \in Tasks : /\ \A d \in todo[t] : Theirs(snapshot[t], d) # {}
                   /\ stage[t] = "asking" => about[t] \in Domains /\ Theirs(snapshot[t], about[t]) # {}

ProfileTypeInv ==
  /\ ProfileTypeOK /\ StampsRun /\ RefreshesHaveMemories
  /\ DOMAIN snapshot = Tasks /\ DOMAIN about = Tasks /\ DOMAIN digest = Domains

\* Failures stay within their bound.
LEMMA FailuresAreCounted ==
  ASSUME failures \in 0..MaxFailures, Fault \/ UNCHANGED failures
  PROVE  failures' \in 0..MaxFailures
<1>1. MaxFailures \in Nat
  BY ProfileAssumption
<1> QED BY <1>1 DEF Fault

\* Memories change, and a task may be started.
LEMMA TypeInvMemories ==
  ASSUME ProfileTypeInv, UNCHANGED <<digest, todo, snapshot, about, failures>>,
         clock' \in clock..MaxStamps,
         stage' = stage \/ \E t \in Tasks : stage' = [stage EXCEPT ![t] = "started"],
         \A m \in active' \cup pending' :
           m \in active \cup pending \/ (m.id \in 1..clock' /\ m.updated \in m.id..clock'),
         \A m, n \in active' : m.id = n.id => m = n
  PROVE  ProfileTypeInv'
<1>1. clock \in Nat /\ MaxStamps \in Nat /\ clock' \in 0..MaxStamps /\ clock' >= clock
  BY ProfileAssumption DEF ProfileTypeInv, ProfileTypeOK
<1>2. \A m \in active \cup pending : m.id \in 1..clock /\ m.updated \in m.id..clock
  BY DEF ProfileTypeInv, StampsRun
<1>3. \A m \in active' \cup pending' : m.id \in 1..clock' /\ m.updated \in m.id..clock'
  BY <1>1, <1>2
<1>4. \A m \in active' \cup pending' : m.id \in 1..MaxStamps /\ m.updated \in m.id..MaxStamps
  BY <1>1, <1>3
<1>5. /\ stage' \in [Tasks -> {"idle", "started", "next", "asking"}]
      /\ \A t \in Tasks : stage'[t] = "asking" => stage[t] = "asking"
  BY DEF ProfileTypeInv, ProfileTypeOK
<1>6. ProfileTypeOK'
  BY <1>1, <1>4, <1>5 DEF ProfileTypeInv, ProfileTypeOK
<1>7. RefreshesHaveMemories'
  BY <1>5 DEF ProfileTypeInv, RefreshesHaveMemories
<1> QED BY <1>3, <1>6, <1>7 DEF ProfileTypeInv, StampsRun

\* A write that starts has a stamp of its own, of a new memory or a known one.
LEMMA TypeInvStart == ASSUME ProfileTypeInv, StartWrite PROVE ProfileTypeInv'
<1>1. clock \in Nat /\ MaxStamps \in Nat /\ \A a \in active : a.id \in 1..clock
  BY ProfileAssumption DEF ProfileTypeInv, ProfileTypeOK, StampsRun
<1>2. PICK m : /\ pending' = pending \cup {m} /\ m.updated = clock + 1
               /\ m.id = clock + 1 \/ \E a \in active : m.id = a.id
  BY DEF StartWrite, Memory
<1>3. clock' = clock + 1 /\ clock < MaxStamps /\ UNCHANGED <<active, digest, todo, snapshot, about, failures, stage>>
  BY DEF StartWrite, tasks
<1>4. m.id \in 1..clock' /\ m.updated \in m.id..clock'
  BY <1>1, <1>2, <1>3
<1>5. \A a, n \in active' : a.id = n.id => a = n
  BY <1>3 DEF ProfileTypeInv, ProfileTypeOK
<1>6. clock' \in clock..MaxStamps
  BY <1>1, <1>3
<1>7. \A a \in active' \cup pending' : a \in active \cup pending \/ (a.id \in 1..clock' /\ a.updated \in a.id..clock')
  BY <1>2, <1>3, <1>4
<1> QED BY <1>3, <1>5, <1>6, <1>7, TypeInvMemories

\* A version that is written takes the place of its memory's last one; one that
\* is retired leaves none.
LEMMA TypeInvWrite == ASSUME ProfileTypeInv, Write \/ Retire PROVE ProfileTypeInv'
<1>1. UNCHANGED <<clock, digest, todo, snapshot, about, failures, stage>>
  BY DEF Write, Retire, tasks
<1>2. clock' \in clock..MaxStamps
  BY <1>1, ProfileAssumption DEF ProfileTypeInv, ProfileTypeOK
<1>3. \A a, n \in active : a.id = n.id => a = n
  BY DEF ProfileTypeInv, ProfileTypeOK
<1>4. active' \cup pending' \subseteq active \cup pending /\ \A a, n \in active' : a.id = n.id => a = n
  <2>1. CASE Write
    <3>1. PICK m \in pending : /\ pending' = pending \ {m}
                               /\ active' = active \/ active' = {a \in active : a.id # m.id} \cup {m}
      BY <2>1 DEF Write
    <3> QED BY <1>3, <3>1
  <2>2. CASE Retire
    BY <1>3, <2>2 DEF Retire
  <2> QED BY <2>1, <2>2
<1> QED BY <1>1, <1>2, <1>4, TypeInvMemories

\* A job's memories are new ones.
LEMMA TypeInvJob == ASSUME ProfileTypeInv, DigestInv, IngestJob PROVE ProfileTypeInv'
<1>1. PICK p \in Payloads, answer \in Answers, verdict \in Verdicts :
        LET done == ReconciledAll([active |-> active, clock |-> clock, gone |-> 0], Found(p, answer),
                                  verdict, ~Verbatim(p))
        IN active' = done.active /\ clock' = done.clock /\ done.clock <= MaxStamps
  BY DEF IngestJob
<1> DEFINE start == [active |-> active, clock |-> clock, gone |-> 0]
           found == Found(p, answer)
           done == ReconciledAll(start, found, verdict, ~Verbatim(p))
<1>2. start.active = active /\ start.clock = clock
  OBVIOUS
<1>3. \A m \in active : m.updated \in Nat /\ m.updated <= clock
  BY DEF DigestInv, VersionsDiffer, Known
<1>4. Len(found) \in Nat
  BY FoundIsFinite
<1>5. active' = done.active /\ clock' = done.clock /\ clock' <= MaxStamps
  BY <1>1
<1> HIDE DEF found, start
<1>6. Grown(done, start)
  BY <1>2, <1>3, <1>4, ReconcilingAllAdds DEF DigestInv
<1> HIDE DEF done
<1>7. /\ UNCHANGED <<pending, digest, todo, snapshot, about, failures>>
      /\ stage' = stage \/ \E t \in Tasks : stage' = [stage EXCEPT ![t] = "started"]
  BY DEF IngestJob, GoTo, Tasks
<1>8. /\ clock \in Nat /\ MaxStamps \in Nat
      /\ \A m \in active : m.id \in 1..clock
      /\ \A m, n \in active : m.id = n.id => m = n
  BY ProfileAssumption DEF ProfileTypeInv, ProfileTypeOK, StampsRun
<1>9. /\ clock' \in Nat /\ clock' >= clock
      /\ \A m \in active' : m \in active \/ (m.updated \in clock + 1..clock' /\ m.id = m.updated)
      /\ \A m, n \in active' : m.updated > clock /\ m.updated = n.updated => m = n
  BY <1>2, <1>5, <1>6 DEF Grown
<1>10. \A m \in active' : m \in active \/ (m.id \in 1..clock' /\ m.updated \in m.id..clock' /\ m.id > clock)
  BY <1>8, <1>9
<1>11. ASSUME NEW m \in active', NEW n \in active', m.id = n.id PROVE m = n
  <2>1. CASE m \in active /\ n \in active
    BY <1>8, <1>11, <2>1
  <2>2. CASE m \notin active \/ n \notin active
    <3>1. m.id > clock /\ n.id > clock
      BY <1>10, <1>11, <2>2
    <3>2. m \notin active /\ n \notin active
      BY <1>8, <3>1
    <3>3. m.updated = n.updated /\ m.updated > clock
      BY <1>8, <1>9, <1>11, <3>2
    <3> QED BY <1>9, <3>3
  <2> QED BY <2>1, <2>2
<1>12. \A m \in active' \cup pending' :
         m \in active \cup pending \/ (m.id \in 1..clock' /\ m.updated \in m.id..clock')
  BY <1>7, <1>10
<1>13. clock' \in clock..MaxStamps
  BY <1>5, <1>8, <1>9
<1> QED BY <1>7, <1>11, <1>12, <1>13, TypeInvMemories

\* A refresh looks at what has memories, and stores what it has asked about.
LEMMA TypeInvTask ==
  ASSUME ProfileTypeInv, NEW t \in Tasks, Refresh(t) \/ Dropped(t) \/ Nightfall
  PROVE  ProfileTypeInv'
<1>1. UNCHANGED <<clock, active, pending>>
  BY DEF Refresh, List, Look, Asked, Finish, Dropped, Nightfall
<1>2. failures' \in 0..MaxFailures
  <2>1. Fault \/ UNCHANGED failures
    BY DEF Refresh, List, Look, Asked, Finish, Dropped, Nightfall
  <2> QED BY <2>1, FailuresAreCounted DEF ProfileTypeInv, ProfileTypeOK
<1>3. StampsRun'
  BY <1>1 DEF ProfileTypeInv, StampsRun
<1>4. /\ stage \in [Tasks -> {"idle", "started", "next", "asking"}] /\ todo \in [Tasks -> SUBSET Domains]
      /\ DOMAIN snapshot = Tasks /\ DOMAIN about = Tasks /\ DOMAIN digest = Domains
      /\ \A d \in Domains : digest[d].of = {} => digest[d] = NoDigest
      /\ RefreshesHaveMemories
  BY DEF ProfileTypeInv, ProfileTypeOK
<1>5. ASSUME NEW s \in {"idle", "started", "next", "asking"}, NEW q \in Tasks,
             stage' = [stage EXCEPT ![q] = s] \/ stage' = stage
      PROVE  /\ stage' \in [Tasks -> {"idle", "started", "next", "asking"}]
             /\ \A k \in Tasks : k # q => stage'[k] = stage[k]
             /\ stage'[q] = s \/ stage'[q] = stage[q]
  BY <1>4, <1>5
<1>6. SUFFICES /\ stage' \in [Tasks -> {"idle", "started", "next", "asking"}]
               /\ todo' \in [Tasks -> SUBSET Domains]
               /\ DOMAIN snapshot' = Tasks /\ DOMAIN about' = Tasks /\ DOMAIN digest' = Domains
               /\ \A d \in Domains : digest'[d].of = {} => digest'[d] = NoDigest
               /\ RefreshesHaveMemories'
  BY <1>1, <1>2, <1>3 DEF ProfileTypeInv, ProfileTypeOK
<1>7. CASE List(t)
  <2>1. /\ snapshot' = [snapshot EXCEPT ![t] = active]
        /\ todo' = [todo EXCEPT ![t] = {d \in Domains : Theirs(active, d) # {}}]
        /\ stage' = [stage EXCEPT ![t] = "next"] /\ UNCHANGED <<digest, about>>
    BY <1>7 DEF List, GoTo
  <2>2. RefreshesHaveMemories'
    BY <1>4, <2>1 DEF RefreshesHaveMemories, Theirs
  <2> QED BY <1>4, <2>1, <2>2
<1>8. CASE Finish(t) \/ Dropped(t)
  <2>1. /\ snapshot' = [snapshot EXCEPT ![t] = {}] /\ stage' = [stage EXCEPT ![t] = "idle"]
        /\ todo' \in [Tasks -> SUBSET Domains] /\ todo'[t] = {}
        /\ \A k \in Tasks : k # t => todo'[k] = todo[k] /\ about'[k] = about[k]
        /\ DOMAIN about' = Tasks /\ UNCHANGED digest
    BY <1>4, <1>8 DEF Finish, Dropped, GoTo
  <2>2. RefreshesHaveMemories'
    BY <1>4, <2>1 DEF RefreshesHaveMemories
  <2> QED BY <1>4, <2>1, <2>2
<1>9. CASE Look(t)
  <2> DEFINE d == First(todo[t])
  <2>1. d \in todo[t] /\ d \in Domains
    BY <1>4, <1>9 DEF Look, First, Domains
  <2>2. /\ todo' = [todo EXCEPT ![t] = @ \ {d}] /\ UNCHANGED <<digest, snapshot>>
        /\ \/ UNCHANGED <<stage, about>> /\ stage[t] = "next"
           \/ about' = [about EXCEPT ![t] = d] /\ stage' = [stage EXCEPT ![t] = "asking"]
    BY <1>9 DEF Look, GoTo
  <2> HIDE DEF d
  <2>3. RefreshesHaveMemories'
    BY <1>4, <2>1, <2>2 DEF RefreshesHaveMemories
  <2> QED BY <1>4, <2>1, <2>2, <2>3
<1>10. CASE Asked(t)
  <2>1. /\ about' = [about EXCEPT ![t] = Nothing] /\ stage' = [stage EXCEPT ![t] = "next"]
        /\ UNCHANGED <<todo, snapshot>> /\ stage[t] = "asking"
        /\ digest' = digest \/ \E size, shown : digest' = [digest EXCEPT ![about[t]] = Stored(t, about[t], size, shown)]
    BY <1>10 DEF Asked, GoTo
  <2>2. RefreshesHaveMemories'
    BY <1>4, <2>1 DEF RefreshesHaveMemories
  <2>3. \A size, shown : Stored(t, about[t], size, shown).of # {}
    BY <1>4, <2>1 DEF Stored, RefreshesHaveMemories
  <2>4. DOMAIN digest' = Domains /\ \A d \in Domains : digest'[d].of = {} => digest'[d] = NoDigest
    BY <1>4, <2>1, <2>3
  <2> QED BY <1>4, <2>1, <2>2, <2>4
<1>11. CASE Nightfall
  <2>1. stage' = [stage EXCEPT ![Night] = "started"] /\ UNCHANGED <<todo, snapshot, about, digest>>
    BY <1>11 DEF Nightfall, GoTo
  <2>2. RefreshesHaveMemories'
    BY <1>4, <2>1 DEF RefreshesHaveMemories
  <2> QED BY <1>4, <2>1, <2>2
<1> QED BY <1>7, <1>8, <1>9, <1>10, <1>11 DEF Refresh

\* Stamps and ids are the clock's, one active version of a memory, and a stored
\* digest is of some memories, whatever overlaps (profile_digest_writer.rs).
THEOREM ProfileTypeCorrect == ProfileSpec => []ProfileTypeOK
<1>1. ProfileInit => ProfileTypeInv
  BY ProfileAssumption DEF ProfileInit, ProfileTypeInv, ProfileTypeOK, StampsRun, RefreshesHaveMemories, NoDigest
<1>2. ProfileTypeInv /\ DigestInv /\ [ProfileNext]_profile => ProfileTypeInv'
  <2> SUFFICES ASSUME ProfileTypeInv, DigestInv, [ProfileNext]_profile PROVE ProfileTypeInv'
    OBVIOUS
  <2>1. CASE StartWrite \/ Write \/ Retire \/ IngestJob
    BY <2>1, TypeInvStart, TypeInvWrite, TypeInvJob
  <2>2. CASE Nightfall
    <3>1. Night \in Tasks
      BY DEF Tasks
    <3> QED BY <2>2, <3>1, TypeInvTask
  <2>3. CASE \E t \in Tasks : Refresh(t) \/ Dropped(t)
    BY <2>3, TypeInvTask
  <2>4. CASE UNCHANGED profile
    BY <2>4 DEF profile, tasks, ProfileTypeInv, ProfileTypeOK, StampsRun, RefreshesHaveMemories
  <2> QED BY <2>1, <2>2, <2>3, <2>4 DEF ProfileNext
<1> QED BY <1>1, <1>2, DigestInvInit, DigestInvNext, PTL DEF ProfileSpec, ProfileTypeInv

\* A page that tells of so many memories, one way or the other.
TellsOf(page, number) ==
  /\ DOMAIN page = {"lines", "size", "included", "omitted"}
  /\ page.included \in Nat /\ page.omitted \in Nat
  /\ page.included + page.omitted = number

\* Ranking the memories of a category neither loses nor repeats any.
LEMMA RankedAreAll ==
  ASSUME NEW M, IsFiniteSet(M)
  PROVE  \E S : RankForProfile(M) \in Seq(S) /\ Len(RankForProfile(M)) = Cardinality(M)
<1> DEFINE list == RankForProfile(M)
           n == Cardinality(M)
           S == {list[i] : i \in 1..n}
<1>1. n \in Nat
  BY FS_CardinalityType
<1>2. DOMAIN list = 1..n /\ list = [i \in 1..n |-> list[i]]
  <2> DEFINE R == {p \in M \X M : Before(p[1], p[2])}
  <2>1. list = Listed(M, R)
    BY DEF RankForProfile, Sorted
  <2> DEFINE e(i) == CHOOSE x \in M : Cardinality({y \in M : <<y, x>> \in R}) = i - 1
  <2>2. list = [i \in 1..Cardinality(M) |-> e(i)]
    BY <2>1, Zenon DEF Listed
  <2> HIDE DEF R, list, e, n
  <2>3. list = [i \in 1..n |-> e(i)]
    BY <2>2, Zenon DEF n
  <2> QED BY <2>3
<1> HIDE DEF list, n
<1>3. list \in [1..n -> S]
  BY <1>2
<1>4. list \in Seq(S)
  BY <1>1, <1>3
<1>5. Len(list) = n
  BY <1>1, <1>2
<1> QED BY <1>4, <1>5 DEF list, n

\* A section tells of its memories; the last one only if it can show them all.
LEMMA SectionTells ==
  ASSUME NEW page, NEW number \in Nat, TellsOf(page, number), NEW M, IsFiniteSet(M), NEW custom,
         custom => Cardinality(M) <= MaxPerCategory
  PROVE  TellsOf(WithSection(page, M, custom), number + Cardinality(M))
<1> DEFINE ranked == RankForProfile(M)
           shown  == IF Len(ranked) <= MaxPerCategory THEN Len(ranked) ELSE MaxPerCategory
           lines  == SubSeq(ranked, 1, shown)
           size   == 1 + Len(lines)
           beyond == IF custom THEN 0 ELSE Len(ranked) - Len(lines)
           next   == WithSection(page, M, custom)
<1>1. PICK n \in Nat : n = Cardinality(M)
  BY FS_CardinalityType
<1>2. PICK S : ranked \in Seq(S) /\ Len(ranked) = n
  BY <1>1, RankedAreAll
<1>3. shown \in 0..n /\ (~custom \/ shown = n)
  BY <1>1, <1>2, AssemblyAssumption
<1>4. Len(lines) = shown
  <2>1. \A i \in 1..shown : ranked[i] \in S
    <3> HIDE DEF shown, ranked
    <3> QED BY <1>2, <1>3, LenProperties
  <2> HIDE DEF ranked, shown
  <2> QED BY <1>3, <2>1, SubSeqProperties
<1>5. /\ M = {} => next = page
      /\ M # {} /\ page.size + size > CharBudget
           => next = [page EXCEPT !.omitted = @ + beyond + Len(lines)]
      /\ M # {} /\ ~ page.size + size > CharBudget
           => next = [page EXCEPT !.lines = @ \o lines, !.size = @ + size,
                                  !.included = @ + Len(lines), !.omitted = @ + beyond]
  BY DEF WithSection
<1>6. beyond = n - shown
  BY <1>2, <1>3, <1>4
<1>7. M = {} => n = 0
  BY <1>1, FS_EmptySet
<1> HIDE DEF next, beyond, size, lines, shown, ranked
<1>8. PICK i \in Nat, o \in Nat : i = page.included /\ o = page.omitted /\ i + o = number
  BY DEF TellsOf
<1>9. TellsOf(next, number + n)
  <2>1. CASE M = {}
    <3>1. next = page /\ number + n = number
      BY <1>5, <1>7, <2>1
    <3> QED BY <3>1
  <2>2. CASE M # {} /\ page.size + size > CharBudget
    <3>1. next = [page EXCEPT !.omitted = @ + beyond + Len(lines)]
      BY <1>5, <2>2
    <3>2. /\ DOMAIN next = {"lines", "size", "included", "omitted"}
          /\ next.included = page.included /\ next.omitted = page.omitted + beyond + Len(lines)
      BY <3>1 DEF TellsOf
    <3>3. next.omitted = o + (n - shown) + shown
      BY <1>4, <1>6, <1>8, <3>2
    <3>4. PICK k \in 0..n : k = shown
      BY <1>3
    <3>5. o + (n - k) + k = o + n /\ i + (o + n) = number + n /\ o + n \in Nat
      BY <1>8
    <3>6. next.omitted = o + n /\ next.included = i
      BY <1>8, <3>2, <3>3, <3>4, <3>5, Zenon
    <3>7. next.included \in Nat /\ next.omitted \in Nat /\ next.included + next.omitted = number + n
      BY <3>5, <3>6
    <3> QED BY <3>2, <3>7 DEF TellsOf
  <2>3. CASE M # {} /\ ~ page.size + size > CharBudget
    <3>1. next = [page EXCEPT !.lines = @ \o lines, !.size = @ + size,
                              !.included = @ + Len(lines), !.omitted = @ + beyond]
      BY <1>5, <2>3
    <3>2. /\ DOMAIN next = {"lines", "size", "included", "omitted"}
          /\ next.included = page.included + Len(lines) /\ next.omitted = page.omitted + beyond
      BY <3>1 DEF TellsOf
    <3>3. next.included = i + shown /\ next.omitted = o + (n - shown)
      BY <1>4, <1>6, <1>8, <3>2
    <3>4. PICK k \in 0..n : k = shown
      BY <1>3
    <3>5. i + k \in Nat /\ o + (n - k) \in Nat /\ (i + k) + (o + (n - k)) = number + n
      BY <1>8
    <3>6. next.included \in Nat /\ next.omitted \in Nat /\ next.included + next.omitted = number + n
      BY <3>3, <3>4, <3>5
    <3> QED BY <3>2, <3>6 DEF TellsOf
  <2> QED BY <2>1, <2>2, <2>3
<1> QED BY <1>1, <1>9 DEF next

\* Every memory is in exactly one group.
LEMMA GroupsSplit ==
  ASSUME NEW M
  PROVE  LET groups == Groups(M) IN
         /\ Len(groups) = Len(CategoryOrder) + 1
         /\ \A i \in 1..Len(groups) : groups[i] \subseteq M
         /\ \A m \in M : \E i \in 1..Len(groups) : m \in groups[i]
         /\ \A i, j \in 1..Len(groups) : i # j => groups[i] \cap groups[j] = {}
         /\ groups[Len(groups)] = {m \in M : Custom(m.category)}
<1> DEFINE top == Len(CategoryOrder)
           firsts == [i \in DOMAIN CategoryOrder |-> {m \in M : m.category = CategoryOrder[i]}]
           last == {m \in M : Custom(m.category)}
           groups == Groups(M)
<1>1. top \in Nat /\ DOMAIN CategoryOrder = 1..top
  BY AssemblyAssumption
<1>2. firsts \in [1..top -> SUBSET M]
  BY <1>1
<1>3. firsts \in Seq(SUBSET M) /\ Len(firsts) = top
  <2> HIDE DEF firsts
  <2> QED BY <1>1, <1>2
<1>4. \A i \in 1..top : firsts[i] = {m \in M : m.category = CategoryOrder[i]}
  BY <1>1
<1>5. last \in SUBSET M
  OBVIOUS
<1>6. groups = Append(firsts, last)
  BY DEF Groups
<1> HIDE DEF groups, last, firsts, top
<1>7. Len(groups) = top + 1 /\ groups[top + 1] = last /\ \A i \in 1..top : groups[i] = firsts[i]
  BY <1>3, <1>5, <1>6, AppendProperties
<1>8. \A i \in 1..top + 1 : i \in 1..top \/ i = top + 1
  BY <1>1
<1>9. \A i \in 1..top + 1 : groups[i] \subseteq M
  BY <1>4, <1>5, <1>7, <1>8
<1>10. ASSUME NEW m \in M PROVE \E i \in 1..top + 1 : m \in groups[i]
  <2>1. CASE Custom(m.category)
    <3>1. m \in groups[top + 1] /\ top + 1 \in 1..top + 1
      BY <1>1, <1>7, <2>1 DEF last
    <3> QED BY <3>1
  <2>2. CASE ~ Custom(m.category)
    <3>1. PICK i \in 1..top : CategoryOrder[i] = m.category
      BY <1>1, <2>2 DEF Custom
    <3>2. m \in groups[i] /\ i \in 1..top + 1
      BY <1>1, <1>4, <1>7, <3>1
    <3> QED BY <3>2
  <2> QED BY <2>1, <2>2
<1>11. ASSUME NEW i \in 1..top, NEW j \in 1..top + 1, i # j PROVE groups[i] \cap groups[j] = {}
  <2>1. CASE j \in 1..top
    <3>1. CategoryOrder[i] # CategoryOrder[j]
      BY <1>1, <1>11, <2>1, AssemblyAssumption DEF IsInjective
    <3> QED BY <1>4, <1>7, <2>1, <3>1
  <2>2. CASE j = top + 1
    BY <1>1, <1>4, <1>7, <2>2 DEF last, Custom
  <2> QED BY <1>8, <2>1, <2>2
<1>12. \A i, j \in 1..top + 1 : i # j => groups[i] \cap groups[j] = {}
  <2> SUFFICES ASSUME NEW i \in 1..top + 1, NEW j \in 1..top + 1, i # j
               PROVE  groups[i] \cap groups[j] = {}
    OBVIOUS
  <2>1. i \in 1..top \/ j \in 1..top
    BY <1>8
  <2>2. groups[i] \cap groups[j] = groups[j] \cap groups[i]
    OBVIOUS
  <2> QED BY <1>11, <2>1, <2>2
<1> QED BY <1>7, <1>9, <1>10, <1>12 DEF groups, top, last

\* What the page tells of after some groups is what is in them.
LEMMA AssembledTellsAll ==
  ASSUME NEW M, IsFiniteSet(M), Cardinality({m \in M : Custom(m.category)}) <= MaxPerCategory
  PROVE  TellsOf(Assembled(M), Cardinality(M))
<1> DEFINE groups == Groups(M)
           top == Len(groups)
           Next1(page, i) == WithSection(page, groups[i], i = top)
           Is(f, m) == f = [i \in 0..m |-> IF i = 0 THEN Blank ELSE Next1(f[i - 1], i)]
           page == CHOOSE f : Is(f, top)
           Possible == {n \in Nat : \E f : Is(f, n)}
           Upto(i) == {m \in M : \E j \in 1..i : m \in groups[j]}
<1>0. top \in Nat /\ top # 0
  BY GroupsSplit, AssemblyAssumption
<1>a. /\ \A i \in 1..top : groups[i] \subseteq M
      /\ \A m \in M : \E i \in 1..top : m \in groups[i]
      /\ \A i, j \in 1..top : i # j => groups[i] \cap groups[j] = {}
      /\ groups[top] = {m \in M : Custom(m.category)}
  BY GroupsSplit
<1> HIDE DEF Next1
<1>1. 0 \in Possible
  <2> DEFINE f == [i \in 0..0 |-> Blank]
  <2>1. Is(f, 0)
    OBVIOUS
  <2> QED BY <2>1
<1>2. ASSUME NEW m \in Nat, m \in Possible PROVE m + 1 \in Possible
  <2>0. PICK f : Is(f, m)
    BY <1>2
  <2>1. \A i \in 0..m : f[i] = IF i = 0 THEN Blank ELSE Next1(f[i - 1], i)
    BY <2>0, Zenon
  <2> DEFINE g == [i \in 0..m + 1 |-> IF i <= m THEN f[i] ELSE Next1(f[m], m + 1)]
  <2>2. ASSUME NEW i \in 0..m + 1
        PROVE  g[i] = IF i = 0 THEN Blank ELSE Next1(g[i - 1], i)
    <3>1. CASE i = 0
      BY <2>1, <3>1
    <3>2. CASE i \in 1..m
      <4>1. f[i] = Next1(f[i - 1], i)
        <5>1. i \in 0..m /\ i # 0
          BY <3>2
        <5> QED BY <2>1, <5>1
      <4>2. g[i] = f[i] /\ g[i - 1] = f[i - 1]
        BY <3>2
      <4> HIDE DEF g
      <4> QED BY <3>2, <4>1, <4>2
    <3>3. CASE i = m + 1
      <4>1. g[i] = Next1(f[m], m + 1) /\ g[m] = f[m]
        BY <3>3
      <4> HIDE DEF g
      <4> QED BY <3>3, <4>1
    <3> QED BY <3>1, <3>2, <3>3
  <2>3. Is(g, m + 1)
    <3>1. g = [i \in 0..m + 1 |-> g[i]]
      OBVIOUS
    <3> HIDE DEF g
    <3>2. [i \in 0..m + 1 |-> g[i]]
            = [i \in 0..m + 1 |-> IF i = 0 THEN Blank ELSE Next1(g[i - 1], i)]
      BY <2>2
    <3> QED BY <3>1, <3>2
  <2> HIDE DEF Is, g
  <2> QED BY <2>3
<1>3. Is(page, top)
  <2>1. top \in Possible
    <3> HIDE DEF Possible, top
    <3> QED BY <1>0, <1>1, <1>2, CountingUp
  <2>2. \E f : Is(f, top)
    BY <2>1
  <2> HIDE DEF Is
  <2> QED BY <2>2
<1>4. Assembled(M) = page[top]
  BY DEF Assembled, Next1
<1> HIDE DEF page
<1>5. \A i \in 0..top : page[i] = IF i = 0 THEN Blank ELSE Next1(page[i - 1], i)
  BY <1>3, Zenon
<1> HIDE DEF top, groups
<1> DEFINE Fine == {n \in Nat : n <= top => TellsOf(page[n], Cardinality(Upto(n)))}
<1>6. 0 \in Fine
  <2>1. page[0] = Blank
    BY <1>0, <1>5
  <2>2. Upto(0) = {}
    OBVIOUS
  <2> HIDE DEF Upto
  <2>3. Cardinality(Upto(0)) = 0
    BY <2>2, FS_EmptySet
  <2>4. TellsOf(Blank, 0)
    BY DEF TellsOf, Blank
  <2> QED BY <2>1, <2>3, <2>4
<1>7. ASSUME NEW n \in Nat, n \in Fine PROVE n + 1 \in Fine
  <2> SUFFICES ASSUME n + 1 <= top PROVE TellsOf(page[n + 1], Cardinality(Upto(n + 1)))
    <3> HIDE DEF Upto
    <3> QED OBVIOUS
  <2>1. n + 1 \in 0..top /\ n + 1 # 0 /\ (n + 1) - 1 = n /\ n <= top /\ n + 1 \in 1..top
    BY <1>0
  <2>2. page[n + 1] = WithSection(page[n], groups[n + 1], n + 1 = top)
    BY <1>5, <2>1 DEF Next1
  <2>3. TellsOf(page[n], Cardinality(Upto(n)))
    BY <1>7, <2>1
  <2>4. \A j \in 1..n + 1 : j \in 1..n \/ j = n + 1
    OBVIOUS
  <2>5. \A j \in 1..n : j \in 1..top /\ j # n + 1 /\ j \in 1..n + 1
    BY <2>1, <1>0
  <2>6. Upto(n + 1) = Upto(n) \cup groups[n + 1]
    BY <1>a, <2>1, <2>4, <2>5
  <2>7. Upto(n) \cap groups[n + 1] = {}
    BY <1>a, <2>1, <2>5
  <2>8. Upto(n) \subseteq M /\ groups[n + 1] \subseteq M
    BY <1>a, <2>1
  <2> HIDE DEF Upto, Fine
  <2>9. IsFiniteSet(Upto(n)) /\ IsFiniteSet(groups[n + 1])
    BY <2>8, FS_Subset
  <2>10. /\ Cardinality(Upto(n)) \in Nat /\ Cardinality(groups[n + 1]) \in Nat
         /\ Cardinality(Upto(n + 1)) = Cardinality(Upto(n)) + Cardinality(groups[n + 1])
    <3>1. Cardinality(Upto(n)) \in Nat /\ Cardinality(groups[n + 1]) \in Nat
      BY <2>9, FS_CardinalityType
    <3>2. Cardinality(Upto(n) \cap groups[n + 1]) = 0
      <4>1. Cardinality({}) = 0
        BY FS_EmptySet
      <4> QED BY <2>7, <4>1, Zenon
    <3>3. Cardinality(Upto(n) \cup groups[n + 1])
            = Cardinality(Upto(n)) + Cardinality(groups[n + 1]) - Cardinality(Upto(n) \cap groups[n + 1])
      BY <2>9, FS_Union
    <3>4. PICK a \in Nat, b \in Nat : a = Cardinality(Upto(n)) /\ b = Cardinality(groups[n + 1])
      BY <3>1
    <3>5. Cardinality(Upto(n) \cup groups[n + 1]) = a + b - 0
      BY <3>2, <3>3, <3>4, Zenon
    <3>6. Cardinality(Upto(n) \cup groups[n + 1]) = a + b
      BY <3>5
    <3> QED BY <2>6, <3>1, <3>4, <3>6, Zenon
  <2>11. n + 1 = top => Cardinality(groups[n + 1]) <= MaxPerCategory
    BY <1>a
  <2>12. TellsOf(WithSection(page[n], groups[n + 1], n + 1 = top),
                 Cardinality(Upto(n)) + Cardinality(groups[n + 1]))
    BY <2>3, <2>9, <2>10, <2>11, SectionTells
  <2> QED BY <2>2, <2>10, <2>12, Zenon
<1>8. top \in Fine
  <2> HIDE DEF Fine
  <2> QED BY <1>0, <1>6, <1>7, CountingUp
<1>9. Upto(top) = M
  BY <1>a
<1> HIDE DEF Upto
<1> QED BY <1>0, <1>4, <1>8, <1>9

\* Whatever the profile leaves out it says so (profile_assembler.rs): each
\* memory is in one group, and each group is shown or counted, for any order of
\* the categories, any share and any budget.
THEOREM OmissionsAreToldAlways == ProfileSpec => []OmissionsAreTold
<1>1. ASSUME DigestInv PROVE OmissionsAreTold
  <2> SUFFICES ASSUME Cardinality({m \in active : Custom(m.category)}) <= MaxPerCategory,
                      NEW broken \in SUBSET Domains, ReadProfile(broken).assembled
               PROVE  ReadProfile(broken).page.included + ReadProfile(broken).page.omitted
                        = Cardinality(active)
    BY DEF OmissionsAreTold
  <2>1. ReadProfile(broken).page = Assembled(active)
    BY DEF ReadProfile
  <2>2. TellsOf(Assembled(active), Cardinality(active))
    BY <1>1, AssembledTellsAll DEF DigestInv
  <2> QED BY <2>1, <2>2 DEF TellsOf
<1> QED BY <1>1, DigestInvInit, DigestInvNext, PTL DEF ProfileSpec

-----------------------------------------------------------------------------
(* A structured call, over any replies (ModelRequests).                    *)

\* A call's state after some attempts, over any replies: what was used ended
\* in what is the result, and nothing before it could be used.
CallIsRight(call, replies, k) ==
  /\ call.used \in Nat /\ call.used <= 2 * k /\ (k > 0 => call.used > 0)
  /\ \A i \in 1..call.used - 1 : replies[i] \in Transient \cup {"prose"}
  /\ call.result = "transient" => call.used = 0 \/ replies[call.used] \in Transient
  /\ call.result = "answer" => call.used > 0 /\ replies[call.used] \in Readable
  /\ call.used > 0 /\ replies[call.used] \in Readable => call.result = "answer"

\* What it waited, and would wait next: wait[n] is the wait after n of them.
TriedAgain(call, replies) == {i \in 1..call.used - 1 : replies[i] \in Transient}

Doubling(wait) ==
  wait[0] = InitialBackoff /\ \A n \in Nat : wait[n] \in Nat /\ wait[n + 1] = 2 * wait[n]

WaitIsRight(call, replies, wait) ==
  LET again == Cardinality(TriedAgain(call, replies)) IN
  again \in Nat /\ call.backoff = wait[again] /\ call.waited = wait[again] - InitialBackoff

\* One request, and its repair where there is one.
LEMMA StructuredReads ==
  ASSUME NEW last \in Nat, NEW replies, Len(replies) = last, DOMAIN replies = 1..last,
         NEW n \in Nat, n + 2 <= last
  PROVE  LET one == Structured(SubSeq(replies, n + 1, Len(replies))) IN
         /\ \/ one.used = 1 /\ replies[n + 1] # "prose"
            \/ one.used = 2 /\ replies[n + 1] = "prose"
         /\ one.result = "transient" => replies[n + one.used] \in Transient
         /\ one.result = "answer" <=> replies[n + one.used] \in Readable
         /\ replies[n + 1] \in Transient => one.result = "transient"
         /\ replies[n + 1] \in Permanent => one.result = "permanent"
<1> DEFINE rest == SubSeq(replies, n + 1, Len(replies))
           one == Structured(rest)
           S == {replies[i] : i \in 1..last}
<1>1. \A i \in n + 1..last : replies[i] \in S
  OBVIOUS
<1>2. /\ Len(rest) = last - (n + 1) + 1
      /\ \A i \in 1..last - (n + 1) + 1 : rest[i] = replies[(n + 1) + i - 1]
  <2> HIDE DEF S
  <2> QED BY <1>1, SubSeqProperties
<1>3. rest[1] = replies[n + 1] /\ rest[2] = replies[n + 2]
  <2>1. 1 \in 1..last - (n + 1) + 1 /\ 2 \in 1..last - (n + 1) + 1
    OBVIOUS
  <2>2. rest[1] = replies[(n + 1) + 1 - 1] /\ rest[2] = replies[(n + 1) + 2 - 1]
    BY <1>2, <2>1
  <2>3. (n + 1) + 1 - 1 = n + 1 /\ (n + 1) + 2 - 1 = n + 2
    OBVIOUS
  <2> QED BY <2>2, <2>3, Zenon
<1>4. Head(rest) = rest[1]
  OBVIOUS
<1> DEFINE Read(reply) == IF reply \in Readable THEN "answer"
                          ELSE IF reply \in Transient THEN "transient"
                          ELSE IF reply \in Permanent THEN "permanent" ELSE "malformed"
<1>5. one = IF Head(rest) # "prose" THEN [result |-> Read(Head(rest)), used |-> 1]
            ELSE [result |-> Read(rest[2]), used |-> 2]
  BY DEF Structured
<1> HIDE DEF rest
<1>6. \A reply : /\ Read(reply) = "transient" => reply \in Transient
                 /\ Read(reply) = "answer" <=> reply \in Readable
                 /\ reply \in Transient => Read(reply) = "transient"
                 /\ reply \in Permanent => Read(reply) = "permanent"
                 /\ reply \in Transient \cup Permanent => reply # "prose"
  BY DEF Readable, Transient, Permanent
<1> HIDE DEF one, Read
<1>7. CASE replies[n + 1] # "prose"
  <2>1. one.result = Read(replies[n + 1]) /\ one.used = 1
    BY <1>3, <1>4, <1>5, <1>7
  <2> QED BY <1>6, <1>7, <2>1 DEF one, rest
<1>8. CASE replies[n + 1] = "prose"
  <2>1. one.result = Read(replies[n + 2]) /\ one.used = 2
    BY <1>3, <1>4, <1>5, <1>8
  <2> QED BY <1>6, <1>8, <2>1 DEF one, rest
<1> QED BY <1>7, <1>8

\* What a call comes to, whatever the provider does (retrying_chat_model.rs): two
\* requests for each attempt at most, the answer of the last one, and what
\* cannot go better is not asked for again.  It waits once for each transient
\* failure it tries again after: wait is the geometric series of those waits.
THEOREM CallsEnd ==
  ASSUME NEW replies, DOMAIN replies = 1..2 * ChatAttempts, Len(replies) = 2 * ChatAttempts,
         NEW wait, Doubling(wait)
  PROVE  LET call == Completed(replies) IN
         /\ CallIsRight(call, replies, ChatAttempts)
         /\ WaitIsRight(call, replies, wait)
         /\ replies[1] \in Permanent => call.used = 1 /\ call.result = "permanent"
         /\ replies[1] \in Transient /\ ChatAttempts > 1 => call.used > 1
<1> DEFINE top == ChatAttempts
           Next1(call, k) ==
             IF call.result # "transient" THEN call
             ELSE LET one == Structured(SubSeq(replies, call.used + 1, Len(replies))) IN
                  [result |-> one.result, used |-> call.used + one.used,
                   waited  |-> IF k = 1 THEN 0 ELSE call.waited + call.backoff,
                   backoff |-> IF k = 1 THEN InitialBackoff ELSE 2 * call.backoff]
           start == [result |-> "transient", used |-> 0, waited |-> 0, backoff |-> InitialBackoff]
           Is(f, m) == f = [k \in 0..m |-> IF k = 0 THEN start ELSE Next1(f[k - 1], k)]
           after == CHOOSE f : Is(f, top)
           Possible == {n \in Nat : \E f : Is(f, n)}
<1>0. top \in Nat /\ top > 0
  BY ChatAssumption
<1>a. start.result = "transient" /\ start.used = 0
  OBVIOUS
<1>b. Completed(replies) = after[top]
  BY DEF Completed
<1> HIDE DEF Next1, start
<1>1. 0 \in Possible
  <2> DEFINE f == [i \in 0..0 |-> start]
  <2>1. Is(f, 0)
    OBVIOUS
  <2> QED BY <2>1
<1>2. ASSUME NEW m \in Nat, m \in Possible PROVE m + 1 \in Possible
  <2>0. PICK f : Is(f, m)
    BY <1>2
  <2>1. \A i \in 0..m : f[i] = IF i = 0 THEN start ELSE Next1(f[i - 1], i)
    BY <2>0, Zenon
  <2> DEFINE g == [i \in 0..m + 1 |-> IF i <= m THEN f[i] ELSE Next1(f[m], m + 1)]
  <2>2. ASSUME NEW i \in 0..m + 1
        PROVE  g[i] = IF i = 0 THEN start ELSE Next1(g[i - 1], i)
    <3>1. CASE i = 0
      BY <2>1, <3>1
    <3>2. CASE i \in 1..m
      <4>1. f[i] = Next1(f[i - 1], i)
        <5>1. i \in 0..m /\ i # 0
          BY <3>2
        <5> QED BY <2>1, <5>1
      <4>2. g[i] = f[i] /\ g[i - 1] = f[i - 1]
        BY <3>2
      <4> HIDE DEF g
      <4> QED BY <3>2, <4>1, <4>2
    <3>3. CASE i = m + 1
      <4>1. g[i] = Next1(f[m], m + 1) /\ g[m] = f[m]
        BY <3>3
      <4> HIDE DEF g
      <4> QED BY <3>3, <4>1
    <3> QED BY <3>1, <3>2, <3>3
  <2>3. Is(g, m + 1)
    <3>1. g = [i \in 0..m + 1 |-> g[i]]
      OBVIOUS
    <3> HIDE DEF g
    <3>2. [i \in 0..m + 1 |-> g[i]]
            = [i \in 0..m + 1 |-> IF i = 0 THEN start ELSE Next1(g[i - 1], i)]
      BY <2>2
    <3> QED BY <3>1, <3>2
  <2> HIDE DEF Is, g
  <2> QED BY <2>3
<1>3. Is(after, top)
  <2>1. top \in Possible
    <3> HIDE DEF Possible, top
    <3> QED BY <1>0, <1>1, <1>2, CountingUp
  <2>2. \E f : Is(f, top)
    BY <2>1
  <2> HIDE DEF Is
  <2> QED BY <2>2
<1> HIDE DEF after
<1>4. \A k \in 0..top : after[k] = IF k = 0 THEN start ELSE Next1(after[k - 1], k)
  BY <1>3, Zenon
<1> DEFINE Right(k) == /\ CallIsRight(after[k], replies, k)
                       /\ k > 0 => WaitIsRight(after[k], replies, wait)
                       /\ k > 0 /\ replies[1] \in Permanent => after[k].used = 1 /\ after[k].result = "permanent"
                       /\ k = 1 /\ replies[1] \in Transient => after[k].result = "transient"
                       /\ k > 1 /\ replies[1] \in Transient => after[k].used > 1
           Fine == {k \in Nat : k <= top => Right(k)}
<1>5. 0 \in Fine
  <2>1. after[0].used = 0 /\ after[0].result = "transient"
    BY <1>0, <1>4, <1>a
  <2> QED BY <2>1 DEF CallIsRight
<1>6. ASSUME NEW k \in Nat, k \in Fine PROVE k + 1 \in Fine
  <2> SUFFICES ASSUME k + 1 <= top PROVE Right(k + 1)
    <3> HIDE DEF Right
    <3> QED OBVIOUS
  <2>1. k + 1 \in 0..top /\ k + 1 # 0 /\ (k + 1) - 1 = k /\ k <= top
    BY <1>0
  <2>2. after[k + 1] = Next1(after[k], k + 1)
    BY <1>4, <2>1
  <2>3. Right(k)
    BY <1>6, <2>1
  <2>4. PICK n \in Nat : n = after[k].used
    BY <2>3 DEF CallIsRight
  <2>5. n <= 2 * k /\ (k > 0 => n > 0)
    BY <2>3, <2>4 DEF CallIsRight
  <2>6. CASE after[k].result # "transient"
    <3>1. after[k + 1] = after[k]
      BY <2>2, <2>6 DEF Next1
    <3>2. k > 0
      BY <1>4, <1>a, <2>6, <1>0
    <3>3. CallIsRight(after[k + 1], replies, k + 1)
      BY <2>3, <2>4, <2>5, <3>1, <3>2 DEF CallIsRight
    <3>4. replies[1] \in Transient => k > 1
      BY <2>3, <2>6, <3>2
    <3>5. WaitIsRight(after[k + 1], replies, wait)
      BY <2>3, <3>1, <3>2
    <3> QED BY <2>3, <3>1, <3>2, <3>3, <3>4, <3>5
  <2>7. CASE after[k].result = "transient"
    <3> DEFINE one == Structured(SubSeq(replies, n + 1, Len(replies)))
               call == after[k + 1]
    <3>1. call.result = one.result /\ call.used = n + one.used
      BY <2>2, <2>4, <2>7 DEF Next1
    <3>1a. /\ call.waited = IF k + 1 = 1 THEN 0 ELSE after[k].waited + after[k].backoff
           /\ call.backoff = IF k + 1 = 1 THEN InitialBackoff ELSE 2 * after[k].backoff
      BY <2>2, <2>7 DEF Next1
    <3>2. n + 2 <= 2 * top /\ 2 * top \in Nat
      BY <1>0, <2>5
    <3>3. /\ \/ one.used = 1 /\ replies[n + 1] # "prose"
             \/ one.used = 2 /\ replies[n + 1] = "prose"
          /\ one.result = "transient" => replies[n + one.used] \in Transient
          /\ one.result = "answer" <=> replies[n + one.used] \in Readable
          /\ replies[n + 1] \in Transient => one.result = "transient"
          /\ replies[n + 1] \in Permanent => one.result = "permanent"
      BY <3>2, StructuredReads
    <3> HIDE DEF one, call
    <3>4. PICK u \in {1, 2} : u = one.used
      BY <3>3
    <3>5. call.used = n + u /\ n + u \in Nat /\ n + u > 0 /\ n + u <= 2 * (k + 1)
      BY <2>5, <3>1, <3>4
    <3>6. ASSUME NEW i \in 1..call.used - 1 PROVE replies[i] \in Transient \cup {"prose"}
      <4>1. \A j \in 1..n - 1 : replies[j] \in Transient \cup {"prose"}
        BY <2>3, <2>4 DEF CallIsRight
      <4>2. n = 0 \/ replies[n] \in Transient
        BY <2>3, <2>4, <2>7 DEF CallIsRight
      <4>3. i \in 1..n - 1 \/ (i = n /\ n # 0) \/ (i = n + 1 /\ u = 2)
        BY <3>4, <3>5
      <4>4. u = 2 => replies[n + 1] = "prose"
        BY <3>3, <3>4
      <4> QED BY <4>1, <4>2, <4>3, <4>4
    <3>7. CallIsRight(call, replies, k + 1)
      BY <3>1, <3>3, <3>4, <3>5, <3>6 DEF CallIsRight
    <3>7a. ASSUME k = 0 PROVE WaitIsRight(call, replies, wait)
      <4>1. n = 0
        BY <2>5, <3>7a
      <4>2. u = 2 => replies[1] \notin Transient
        BY <3>3, <3>4, <4>1 DEF Transient
      <4>3. TriedAgain(call, replies) = {}
        BY <3>4, <3>5, <4>1, <4>2 DEF TriedAgain
      <4>4. Cardinality(TriedAgain(call, replies)) = 0
        BY <4>3, FS_EmptySet
      <4>5. k + 1 = 1 /\ wait[0] = InitialBackoff /\ InitialBackoff \in Nat
        BY <3>7a, ChatAssumption DEF Doubling
      <4>6. call.waited = 0 /\ call.backoff = InitialBackoff
        BY <3>1a, <4>5
      <4>7. call.backoff = wait[0] /\ call.waited = wait[0] - InitialBackoff
        BY <4>5, <4>6
      <4> QED BY <4>4, <4>7 DEF WaitIsRight
    <3>7b. ASSUME k > 0 PROVE WaitIsRight(call, replies, wait)
      <4>1. PICK again \in Nat : again = Cardinality(TriedAgain(after[k], replies))
        BY <2>3, <3>7b DEF WaitIsRight
      <4>2. after[k].backoff = wait[again] /\ after[k].waited = wait[again] - InitialBackoff
        BY <2>3, <3>7b, <4>1 DEF WaitIsRight
      <4>3. n > 0 /\ replies[n] \in Transient
        BY <2>3, <2>4, <2>5, <2>7, <3>7b DEF CallIsRight
      <4>4. u = 2 => replies[n + 1] \notin Transient
        BY <3>3, <3>4 DEF Transient
      <4>5. TriedAgain(call, replies) = TriedAgain(after[k], replies) \cup {n}
        <5>1. TriedAgain(after[k], replies) = {i \in 1..n - 1 : replies[i] \in Transient}
          BY <2>4 DEF TriedAgain
        <5>2. TriedAgain(call, replies) = {i \in 1..n + u - 1 : replies[i] \in Transient}
          BY <3>5 DEF TriedAgain
        <5>3. CASE u = 1
          BY <4>3, <5>1, <5>2, <5>3
        <5>4. CASE u = 2
          BY <4>3, <4>4, <5>1, <5>2, <5>4
        <5> QED BY <3>4, <5>3, <5>4
      <4>6. IsFiniteSet(TriedAgain(after[k], replies)) /\ n \notin TriedAgain(after[k], replies)
        <5>1. TriedAgain(after[k], replies) \subseteq 1..n - 1 /\ n - 1 \in Int
          BY <2>4 DEF TriedAgain
        <5>2. IsFiniteSet(1..n - 1)
          BY <5>1, FS_Interval
        <5>3. n \notin 1..n - 1
          OBVIOUS
        <5> QED BY <5>1, <5>2, <5>3, FS_Subset
      <4>7. Cardinality(TriedAgain(call, replies)) = again + 1
        BY <4>1, <4>5, <4>6, FS_AddElement
      <4>8. wait[again] \in Nat /\ wait[again + 1] = 2 * wait[again] /\ InitialBackoff \in Nat
        BY ChatAssumption DEF Doubling
      <4>9. /\ call.waited = after[k].waited + after[k].backoff /\ call.backoff = 2 * after[k].backoff
        BY <3>1a, <3>7b
      <4>10. call.waited = wait[again + 1] - InitialBackoff /\ call.backoff = wait[again + 1]
        BY <4>2, <4>8, <4>9
      <4> QED BY <4>7, <4>10 DEF WaitIsRight
    <3>8. CASE k = 0
      <4>1. n = 0
        BY <2>5, <3>8
      <4>2. replies[1] \in Permanent \cup Transient => u = 1
        BY <3>3, <3>4, <4>1 DEF Permanent, Transient
      <4> QED BY <3>7a, <3>1, <3>3, <3>4, <3>5, <3>7, <3>8, <4>1, <4>2 DEF call
    <3>9. CASE k > 0
      <4>1. replies[1] \notin Permanent
        BY <2>3, <2>7, <3>9
      <4>2. call.used > 1
        BY <2>5, <3>4, <3>5, <3>9
      <4> QED BY <3>7, <3>7b, <3>9, <4>1, <4>2 DEF call
    <3> QED BY <3>8, <3>9
  <2> QED BY <2>6, <2>7
<1>7. top \in Fine
  <2> HIDE DEF Fine, top
  <2> QED BY <1>0, <1>5, <1>6, CountingUp
<1>8. Right(top)
  BY <1>0, <1>7
<1> QED BY <1>0, <1>8, <1>b
=============================================================================
