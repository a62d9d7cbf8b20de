---------------------------- MODULE IngestQueue ----------------------------
(***************************************************************************)
(* The durable ingest queue of the understanding context: the table        *)
(* ingest_jobs, the pool of workers that claims and runs its rows, the     *)
(* wait:true requests that run a submission inline beside the pool, and    *)
(* the process around them, which can be stopped, killed and started again *)
(* over the same table.                                                    *)
(*                                                                         *)
(* Timestamps are kept relative to the clock, so that the state space is   *)
(* finite: lag is now - run_after, age is now - claimed_at.  Jobs are      *)
(* numbered in the order of their created_at.                              *)
(***************************************************************************)
EXTENDS Integers, FiniteSets

CONSTANTS
  Workers,      \* the tasks of the pool, [understanding].workers of them
  Requests,     \* concurrent wait:true requests the listener may serve
  MaxJobs,      \* bound: submissions
  Unreadable,   \* jobs whose stored payload this build cannot decode
  MaxAttempts,  \* [understanding].max_attempts
  StaleAfter,   \* STALE_AFTER, in ticks
  BaseBackoff,  \* BASE_BACKOFF_SECONDS, in ticks
  MaxExponent,  \* cap of the backoff's exponent
  MinDowntime,  \* ticks the process stays down before it is started again
  MaxStops,     \* bound: shutdown signals and crashes
  MaxFaults,    \* bound: database calls that fail
  MaxCancels,   \* bound: wait:true requests dropped by a timeout or disconnect
  MaxLag        \* bound: how long an overdue job is told from a longer overdue one

Jobs == 1..MaxJobs

ASSUME QueueAssumption ==
  /\ MaxJobs \in Nat
  /\ Unreadable \subseteq Jobs
  /\ MaxAttempts \in Nat \ {0}
  /\ StaleAfter \in Nat
  /\ BaseBackoff \in Nat \ {0}
  /\ MaxExponent \in Nat
  /\ MinDowntime \in Nat
  /\ MaxStops \in Nat
  /\ MaxFaults \in Nat
  /\ MaxCancels \in Nat
  /\ MaxLag \in Nat

\* Arithmetic the provers do not have; TLC evaluates it on every run.
ASSUME PowersAreNatural == \A e \in 0..MaxExponent : 2^e \in Nat

NoJob == 0

VARIABLES
  submitted,  \* how many jobs have been enqueued: the rows are 1..submitted
  status,     \* the row's status, "absent" before the row exists
  attempts,   \* the row's attempts
  lag,        \* now - run_after of a pending row
  age,        \* now - claimed_at of a running row
  wstage,     \* what each worker is doing
  wjob,       \* the claimed job it holds
  wattempts,  \* ClaimedJob.attempts, read when the job was claimed
  rstage,     \* what each wait:true request is doing
  rjob,       \* the job row the request created
  proc,       \* the process: up, draining, stopping or down
  downFor,    \* ticks since the process went down
  stops,      \* shutdown signals and crashes so far
  faults,     \* failed database calls so far
  cancels,    \* dropped requests so far
  reclaims,   \* history: how often a restart reclaimed each job
  okRuns      \* history: pipeline executions of each job that returned Ok

rows    == <<submitted, status, attempts, lag, age>>
pool    == <<wstage, wjob, wattempts>>
inline  == <<rstage, rjob>>
process == <<proc, downFor, stops>>
bounds  == <<faults, cancels>>
history == <<reclaims, okRuns>>
vars    == <<rows, pool, inline, process, bounds, history>>

Settled == {"succeeded", "dead_letter"}

WorkerStages == {"returned", "idle", "claiming", "executing",
                 "succeeding", "retryable", "fatal"}
RequestStages == {"idle", "enqueued", "executing", "succeeding", "failing"}

\* A worker holds a job from the claim until it has tried to record the result.
Holding(w) == wstage[w] \in {"executing", "succeeding", "retryable", "fatal"}

TypeOK ==
  /\ submitted \in 0..MaxJobs
  /\ status \in [Jobs -> {"absent", "pending", "running"} \cup Settled]
  /\ attempts \in [Jobs -> Nat]
  /\ lag \in [Jobs -> Int]
  /\ age \in [Jobs -> Nat]
  /\ wstage \in [Workers -> WorkerStages]
  /\ wjob \in [Workers -> Jobs \cup {NoJob}]
  /\ wattempts \in [Workers -> Nat]
  /\ rstage \in [Requests -> RequestStages]
  /\ rjob \in [Requests -> Jobs \cup {NoJob}]
  /\ proc \in {"up", "draining", "stopping", "down"}
  /\ downFor \in Nat
  /\ stops \in 0..MaxStops
  /\ faults \in 0..MaxFaults
  /\ cancels \in 0..MaxCancels
  /\ reclaims \in [Jobs -> Nat]
  /\ okRuns \in [Jobs -> Nat]

-----------------------------------------------------------------------------
(* The statements of SqliteJobQueue.                                       *)

\* 5s, 10s, 20s ...: doubles per attempt, up to a cap.
Backoff(n) ==
  LET exponent == IF n <= 1 THEN 0
                  ELSE IF n - 1 < MaxExponent THEN n - 1 ELSE MaxExponent
  IN  BaseBackoff * 2^exponent

\* INSERT INTO ingest_jobs: the next row, pending and due at once.
Enqueue(j) ==
  /\ submitted < MaxJobs
  /\ j = submitted + 1
  /\ submitted' = j
  /\ status' = [status EXCEPT ![j] = "pending"]
  /\ lag' = [lag EXCEPT ![j] = 0]
  /\ UNCHANGED <<attempts, age>>

\* Mutant: the sub-select forgets status = 'pending'.
ClaimableEvenIfRunning ==
  {j \in Jobs : status[j] \in {"pending", "running"} /\ lag[j] >= 0}

Claimable == {j \in Jobs : status[j] = "pending" /\ lag[j] >= 0}

\* ORDER BY run_after, created_at LIMIT 1
IsOldestClaimable(j) ==
  /\ j \in Claimable
  /\ \A i \in Claimable : lag[i] < lag[j] \/ (lag[i] = lag[j] /\ j <= i)

\* The UPDATE ... RETURNING of claim_next, for the row its sub-select finds.
\* The row is updated before the payload is decoded.
ClaimRow(j) ==
  /\ IsOldestClaimable(j)
  /\ status' = [status EXCEPT ![j] = "running"]
  /\ attempts' = [attempts EXCEPT ![j] = @ + 1]
  /\ age' = [age EXCEPT ![j] = 0]
  /\ lag' = [lag EXCEPT ![j] = 0]
  /\ UNCHANGED submitted

\* succeed and fail address the row by its id alone.
SucceedRow(j) ==
  /\ status' = [status EXCEPT ![j] = "succeeded"]
  /\ UNCHANGED <<submitted, attempts, lag, age>>

RetryRow(j, wait) ==
  /\ status' = [status EXCEPT ![j] = "pending"]
  /\ lag' = [lag EXCEPT ![j] = -wait]
  /\ UNCHANGED <<submitted, attempts, age>>

\* Mutant: giving up is written down as success.
DeadLetterRowAsSucceeded(j) ==
  /\ status' = [status EXCEPT ![j] = "succeeded"]
  /\ UNCHANGED <<submitted, attempts, lag, age>>

DeadLetterRow(j) ==
  /\ status' = [status EXCEPT ![j] = "dead_letter"]
  /\ UNCHANGED <<submitted, attempts, lag, age>>

Stale == {j \in Jobs : status[j] = "running" /\ age[j] >= StaleAfter}

\* Mutant: the process starts without reclaiming anything.
ReclaimNothing ==
  UNCHANGED <<submitted, status, attempts, lag, age, reclaims>>

ReclaimStale ==
  /\ status' = [j \in Jobs |-> IF j \in Stale THEN "pending" ELSE status[j]]
  /\ lag' = [j \in Jobs |-> IF j \in Stale THEN 0 ELSE lag[j]]
  /\ reclaims' = [j \in Jobs |-> IF j \in Stale THEN reclaims[j] + 1 ELSE reclaims[j]]
  /\ UNCHANGED <<submitted, attempts, age>>

\* A database call fails and changes nothing.
DatabaseFault ==
  /\ faults < MaxFaults
  /\ faults' = faults + 1
  /\ UNCHANGED <<rows, cancels>>

-----------------------------------------------------------------------------
(* The pool of workers.                                                    *)

\* Mutant: the loop asks for work without looking at the stop flag.
PollWithoutLooking(w) ==
  /\ wstage[w] = "idle"
  /\ wstage' = [wstage EXCEPT ![w] = "claiming"]
  /\ UNCHANGED <<rows, wjob, wattempts, inline, process, bounds, history>>

\* Top of the loop: look at the stop flag before asking for work.
Poll(w) ==
  /\ wstage[w] = "idle"
  /\ proc # "stopping"
  /\ wstage' = [wstage EXCEPT ![w] = "claiming"]
  /\ UNCHANGED <<rows, wjob, wattempts, inline, process, bounds, history>>

WorkerReturn(w) ==
  /\ wstage[w] = "idle"
  /\ proc = "stopping"
  /\ wstage' = [wstage EXCEPT ![w] = "returned"]
  /\ UNCHANGED <<rows, wjob, wattempts, inline, process, bounds, history>>

\* A job was claimed and decoded.
ClaimJob(w) ==
  /\ wstage[w] = "claiming"
  /\ \E j \in Jobs \ Unreadable :
       /\ ClaimRow(j)
       /\ wstage' = [wstage EXCEPT ![w] = "executing"]
       /\ wjob' = [wjob EXCEPT ![w] = j]
       /\ wattempts' = [wattempts EXCEPT ![w] = attempts'[j]]
  /\ UNCHANGED <<inline, process, bounds, history>>

\* The row is marked running, then its payload does not decode: claim_next
\* returns an error and no worker knows which job it was.
ClaimUnreadable(w) ==
  /\ wstage[w] = "claiming"
  /\ \E j \in Unreadable : ClaimRow(j)
  /\ wstage' = [wstage EXCEPT ![w] = "idle"]
  /\ UNCHANGED <<wjob, wattempts, inline, process, bounds, history>>

\* Nothing is due, or the queue is unreachable: wait for the next poll.
ClaimNothing(w) ==
  /\ wstage[w] = "claiming"
  /\ \/ Claimable = {} /\ UNCHANGED <<rows, bounds>>
     \/ DatabaseFault
  /\ wstage' = [wstage EXCEPT ![w] = "idle"]
  /\ UNCHANGED <<wjob, wattempts, inline, process, history>>

\* Resolve the user and run the pipeline.  An unknown user and a rejected
\* payload are not worth retrying; an outage and a panicking resolver are.
ExecuteOk(w) ==
  /\ wstage[w] = "executing"
  /\ wstage' = [wstage EXCEPT ![w] = "succeeding"]
  /\ okRuns' = [okRuns EXCEPT ![wjob[w]] = @ + 1]
  /\ UNCHANGED <<rows, wjob, wattempts, inline, process, bounds, reclaims>>

ExecuteErr(w) ==
  /\ wstage[w] = "executing"
  /\ \E kind \in {"retryable", "fatal"} : wstage' = [wstage EXCEPT ![w] = kind]
  /\ UNCHANGED <<rows, wjob, wattempts, inline, process, bounds, history>>

Release(w) ==
  /\ wstage' = [wstage EXCEPT ![w] = "idle"]
  /\ wjob' = [wjob EXCEPT ![w] = NoJob]
  /\ wattempts' = [wattempts EXCEPT ![w] = 0]
  /\ UNCHANGED <<inline, process, history>>

RecordSuccess(w) ==
  /\ wstage[w] = "succeeding"
  /\ \/ SucceedRow(wjob[w]) /\ UNCHANGED bounds
     \/ DatabaseFault
  /\ Release(w)

\* Mutant: the budget check is off by one.
RetryFailureOnceMore(w) ==
  /\ wstage[w] = "retryable" /\ wattempts[w] <= MaxAttempts
  /\ \/ RetryRow(wjob[w], Backoff(wattempts[w])) /\ UNCHANGED bounds
     \/ DatabaseFault
  /\ Release(w)

RetryFailure(w) ==
  /\ wstage[w] = "retryable" /\ wattempts[w] < MaxAttempts
  /\ \/ RetryRow(wjob[w], Backoff(wattempts[w])) /\ UNCHANGED bounds
     \/ DatabaseFault
  /\ Release(w)

DeadLetterFailure(w) ==
  /\ \/ wstage[w] = "fatal"
     \/ wstage[w] = "retryable" /\ wattempts[w] >= MaxAttempts
  /\ \/ DeadLetterRow(wjob[w]) /\ UNCHANGED bounds
     \/ DatabaseFault
  /\ Release(w)

-----------------------------------------------------------------------------
(* Submissions.  A wait:false request only writes the row; a wait:true one *)
(* goes on to claim "a" job, to run its own content and to record the      *)
(* outcome on its own row.                                                 *)

SubmitAsync ==
  /\ proc = "up"
  /\ \E j \in Jobs : Enqueue(j)
  /\ UNCHANGED <<pool, inline, process, bounds, history>>

SubmitWaiting(r) ==
  /\ proc = "up"
  /\ rstage[r] = "idle"
  /\ \E j \in Jobs : Enqueue(j) /\ rjob' = [rjob EXCEPT ![r] = j]
  /\ rstage' = [rstage EXCEPT ![r] = "enqueued"]
  /\ UNCHANGED <<pool, process, bounds, history>>

\* claim_next hands out the oldest claimable row, whichever that is; the
\* request does not look at what it got.
InlineClaim(r) ==
  /\ rstage[r] = "enqueued"
  /\ \/ \E j \in Jobs \ Unreadable : ClaimRow(j)
     \/ Claimable = {} /\ UNCHANGED rows
  /\ rstage' = [rstage EXCEPT ![r] = "executing"]
  /\ UNCHANGED <<pool, rjob, process, bounds, history>>

\* The claim failed: the request returns the error and its row stays behind.
InlineClaimFails(r) ==
  /\ rstage[r] = "enqueued"
  /\ \/ (\E j \in Unreadable : ClaimRow(j)) /\ UNCHANGED bounds
     \/ DatabaseFault
  /\ rstage' = [rstage EXCEPT ![r] = "idle"]
  /\ rjob' = [rjob EXCEPT ![r] = NoJob]
  /\ UNCHANGED <<pool, process, history>>

InlineExecuteOk(r) ==
  /\ rstage[r] = "executing"
  /\ rstage' = [rstage EXCEPT ![r] = "succeeding"]
  /\ okRuns' = [okRuns EXCEPT ![rjob[r]] = @ + 1]
  /\ UNCHANGED <<rows, pool, rjob, process, bounds, reclaims>>

InlineExecuteErr(r) ==
  /\ rstage[r] = "executing"
  /\ rstage' = [rstage EXCEPT ![r] = "failing"]
  /\ UNCHANGED <<rows, pool, rjob, process, bounds, history>>

InlineRecord(r) ==
  /\ \/ rstage[r] = "succeeding" /\ SucceedRow(rjob[r]) /\ UNCHANGED bounds
     \/ rstage[r] = "failing" /\ DeadLetterRow(rjob[r]) /\ UNCHANGED bounds
     \/ rstage[r] \in {"succeeding", "failing"} /\ DatabaseFault
  /\ rstage' = [rstage EXCEPT ![r] = "idle"]
  /\ rjob' = [rjob EXCEPT ![r] = NoJob]
  /\ UNCHANGED <<pool, process, history>>

\* The listener's timeout layer, or a client that hangs up, drops the handler.
Cancel(r) ==
  /\ rstage[r] # "idle"
  /\ cancels < MaxCancels
  /\ cancels' = cancels + 1
  /\ rstage' = [rstage EXCEPT ![r] = "idle"]
  /\ rjob' = [rjob EXCEPT ![r] = NoJob]
  /\ UNCHANGED <<rows, pool, process, faults, history>>

-----------------------------------------------------------------------------
(* The process: start, graceful shutdown, crash; and the clock.            *)

\* Reclaim what the previous process was holding, then start the workers.
Start ==
  /\ proc = "down"
  /\ downFor >= MinDowntime
  /\ ReclaimStale
  /\ wstage' = [w \in Workers |-> "idle"]
  /\ proc' = "up"
  /\ downFor' = 0
  /\ UNCHANGED <<wjob, wattempts, inline, stops, bounds, okRuns>>

\* SIGTERM: the listener stops accepting and drains what is in flight ...
Signal ==
  /\ proc = "up"
  /\ stops < MaxStops
  /\ stops' = stops + 1
  /\ proc' = "draining"
  /\ UNCHANGED <<rows, pool, inline, downFor, bounds, history>>

\* ... then the workers are told to stop ...
StopWorkers ==
  /\ proc = "draining"
  /\ \A r \in Requests : rstage[r] = "idle"
  /\ proc' = "stopping"
  /\ UNCHANGED <<rows, pool, inline, downFor, stops, bounds, history>>

\* ... and the process ends once each has finished the job it holds.
Exit ==
  /\ proc = "stopping"
  /\ \A w \in Workers : wstage[w] = "returned"
  /\ proc' = "down"
  /\ downFor' = 0
  /\ UNCHANGED <<rows, pool, inline, stops, bounds, history>>

Crash ==
  /\ proc # "down"
  /\ stops < MaxStops
  /\ stops' = stops + 1
  /\ proc' = "down"
  /\ downFor' = 0
  /\ wstage' = [w \in Workers |-> "returned"]
  /\ wjob' = [w \in Workers |-> NoJob]
  /\ wattempts' = [w \in Workers |-> 0]
  /\ rstage' = [r \in Requests |-> "idle"]
  /\ rjob' = [r \in Requests |-> NoJob]
  /\ UNCHANGED <<rows, bounds, history>>

Tick ==
  /\ lag' = [j \in Jobs |-> IF status[j] = "pending" /\ lag[j] < MaxLag
                            THEN lag[j] + 1 ELSE lag[j]]
  /\ age' = [j \in Jobs |-> IF status[j] = "running" /\ age[j] < StaleAfter
                            THEN age[j] + 1 ELSE age[j]]
  /\ downFor' = IF proc = "down" /\ downFor < MinDowntime THEN downFor + 1 ELSE downFor
  /\ UNCHANGED <<submitted, status, attempts, pool, inline, proc, stops, bounds, history>>

-----------------------------------------------------------------------------
Init ==
  /\ submitted = 0
  /\ status = [j \in Jobs |-> "absent"]
  /\ attempts = [j \in Jobs |-> 0]
  /\ lag = [j \in Jobs |-> 0]
  /\ age = [j \in Jobs |-> 0]
  /\ wstage = [w \in Workers |-> "returned"]
  /\ wjob = [w \in Workers |-> NoJob]
  /\ wattempts = [w \in Workers |-> 0]
  /\ rstage = [r \in Requests |-> "idle"]
  /\ rjob = [r \in Requests |-> NoJob]
  /\ proc = "down"
  /\ downFor = MinDowntime
  /\ stops = 0
  /\ faults = 0
  /\ cancels = 0
  /\ reclaims = [j \in Jobs |-> 0]
  /\ okRuns = [j \in Jobs |-> 0]

WorkerStep(w) ==
  \/ Poll(w) \/ WorkerReturn(w)
  \/ ClaimJob(w) \/ ClaimUnreadable(w) \/ ClaimNothing(w)
  \/ ExecuteOk(w) \/ ExecuteErr(w)
  \/ RecordSuccess(w) \/ RetryFailure(w) \/ DeadLetterFailure(w)

RequestStep(r) ==
  \/ InlineClaim(r) \/ InlineClaimFails(r)
  \/ InlineExecuteOk(r) \/ InlineExecuteErr(r) \/ InlineRecord(r)

ProcessStep == Start \/ StopWorkers \/ Exit

Next ==
  \/ \E w \in Workers : WorkerStep(w)
  \/ \E r \in Requests : SubmitWaiting(r) \/ RequestStep(r) \/ Cancel(r)
  \/ SubmitAsync
  \/ ProcessStep \/ Signal \/ Crash
  \/ Tick

Spec == Init /\ [][Next]_vars

\* Tokio runs every ready task, every model call carries a timeout, time
\* passes, and the process is started again after it stopped.  Submissions,
\* signals, crashes and dropped requests need not happen.
Fairness ==
  /\ \A w \in Workers : WF_vars(WorkerStep(w))
  /\ \A r \in Requests : WF_vars(RequestStep(r))
  /\ WF_vars(ProcessStep)
  /\ WF_vars(Tick)

FairSpec == Spec /\ Fairness

-----------------------------------------------------------------------------
(* Properties.                                                             *)

\* claim_next is atomic against other workers: whatever inline requests,
\* failed writes, crashes and restarts do around them, two workers never hold
\* the same job (ingest_job.rs:108, "two workers claiming the same job would
\* extract the same content twice").
WorkersNeverShareAJob ==
  \A v, w \in Workers :
    Holding(v) /\ Holding(w) /\ wjob[v] = wjob[w] => v = w

\* An attempt beyond max_attempts has to be paid for by a restart that
\* reclaimed the job: retries alone never exceed the budget.
AttemptsWithinReclaims ==
  \A j \in Jobs : attempts[j] <= MaxAttempts + reclaims[j]

\* Without inline requests, the pipeline stores a job's memories a second
\* time only after a restart reclaimed the row (ingest_workers.rs:200-203:
\* a job that could not be marked done "will be reclaimed and re-run").
DuplicatesOnlyAfterReclaim ==
  Requests = {} => \A j \in Jobs : okRuns[j] <= 1 + reclaims[j]

\* Without inline requests, a job a worker holds is running in the table: no
\* late result, restart or other worker has moved it on underneath.
HeldJobsAreRunning ==
  Requests = {} => \A w \in Workers : Holding(w) => status[wjob[w]] = "running"

\* Without inline requests, succeeded and dead_letter are final.
SettledIsFinal ==
  [][Requests = {} =>
       \A j \in Jobs : status[j] \in Settled => status'[j] = status[j]]_vars

\* A burst is drained in the order it arrived: while a job waits for its
\* first attempt, no younger job gets one.
FirstAttemptsInOrder ==
  [][\A i, j \in Jobs :
       /\ i < j
       /\ status[i] = "pending" /\ attempts[i] = 0
       /\ attempts[j] = 0
       => attempts'[j] = 0]_vars

\* Claimed, and nobody is there to run it or to record what came of it: only a
\* start brings it back.
Stranded(j) ==
  /\ status[j] = "running"
  /\ \A w \in Workers : Holding(w) => wjob[w] # j

\* A claim is lost only with the process, with a write that failed, with a
\* payload that cannot be read or with a request that claimed it.
MayStrand(j) == stops > 0 \/ faults > 0 \/ j \in Unreadable \/ Requests # {}

\* Without one of those every accepted job ends as succeeded or dead-lettered;
\* with one it may be left stranded, and then the first start that comes
\* STALE_AFTER or more after the claim puts it back.  An earlier one does not,
\* and while the process stays up nothing does: less than "a crash costs one
\* retry rather than a permanently stuck row" (V3__jobs.sql:45-46) and "it will
\* be reclaimed and re-run" (ingest_workers.rs:200-203) say.
EveryJobSettles ==
  \A j \in Jobs :
    /\ (status[j] = "pending") ~> (status[j] \in Settled \/ (Stranded(j) /\ MayStrand(j)))
    /\ (Stranded(j) /\ proc = "down" /\ age[j] >= StaleAfter) ~> (status[j] = "pending")

\* A graceful shutdown terminates: no worker waits for ever.
ShutdownTerminates == (proc = "draining") ~> (proc = "down")

\* The queue as a ledger of accepted work: see JobLedger.
LedgerView ==
  [j \in Jobs |-> IF status[j] \in {"pending", "running"} THEN "open" ELSE status[j]]

Ledger == INSTANCE JobLedger WITH ledger <- LedgerView, runs <- okRuns

ImplementsLedger == Ledger!Spec

=============================================================================
