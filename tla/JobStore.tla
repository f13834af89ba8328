------------------------------ MODULE JobStore ------------------------------
(***************************************************************************)
(* The job and worker tables of the rffmpeg server (pkg/server/db) and     *)
(* every SQL statement or transaction that writes them.  SQLite serialises *)
(* writers (_txlock=immediate, db.go:40), so one statement, or one         *)
(* transaction, is one action.  Callers are unconstrained here: any worker *)
(* may report on any job at any moment, any sweep may act on any set of    *)
(* jobs it read earlier.  Cluster.tla adds the goroutines, handlers and    *)
(* worker processes that really issue the statements.                      *)
(*                                                                         *)
(* Timestamps are abstracted to what the code compares them with: a clock  *)
(* is "recent", or "expired" once it is older than the cutoff of the sweep *)
(* that reads it.                                                          *)
(***************************************************************************)
EXTENDS Integers, FiniteSets

CONSTANTS
    Jobs,              \* job ids
    Workers,           \* canonical worker ids (NormalizeWorkerID)
    NULL,              \* SQL NULL in a worker_id column
    Name,              \* Name[w]: the name worker id w registers under
    MaxConcurrent,     \* MaxConcurrent[w]: w's declared execution slots
    MaxRetryCount,     \* failover budget (workerhealth.Config.MaxRetryCount)
    MaxTimeoutRetries, \* timeout requeue budget (scheduler.Config)
    MaxProgress        \* bound: progress_percent takes values 0..MaxProgress

ASSUME SlotsAssumption == MaxConcurrent \in [Workers -> Nat]
ASSUME BudgetAssumption ==
    /\ MaxRetryCount \in Nat
    /\ MaxTimeoutRetries \in Nat
    /\ MaxProgress \in Nat

VARIABLES
    jobs,    \* the jobs table
    workers, \* the workers table
    events   \* migration_events, per job: how many of each reason, the last one

storeVars == <<jobs, workers, events>>

-----------------------------------------------------------------------------
(* Rows *)

ActiveStatus   == {"queued", "running"}
TerminalStatus == {"completed", "failed", "cancelled", "timeout"}
JobStatus      == {"none", "pending"} \cup ActiveStatus \cup TerminalStatus
FailureType    == {"none", "TIMEOUT", "WORKER_CRASH", "INFRA", "FFMPEG_ERROR",
                   "NO_WORKER_AVAILABLE", "ENCODER_UNAVAILABLE"}
                   \* "none" is the empty class; FFMPEG_ERROR stands for the other
                   \* classes only a worker reports (DISK_FULL, INPUT_UNREACHABLE...)
Clock          == {"recent", "expired"}

ASSUME NullAssumption == NULL \notin Workers \cup FailureType

JobRow == [status    : JobStatus,                \* "none": not inserted
           worker    : Workers \cup {NULL},      \* worker_id
           failure   : FailureType,
           retryable : BOOLEAN,
           progress  : 0..MaxProgress,
           created   : Clock,                    \* starvation anchor
           updated   : Clock,                    \* stuck-sweep anchor
           started   : Clock \cup {"null"},      \* timeout anchor
           finished  : BOOLEAN]                  \* finished_at IS NOT NULL

WorkerRow == [status  : {"absent", "idle", "busy", "offline"},
              evicted : BOOLEAN,
              hb      : {"fresh", "stale"}]      \* last_heartbeat

EventRow == [crash   : Nat,                      \* reason != job_timeout
             timeout : Nat,                      \* reason  = job_timeout
             last    : {"none", "heartbeat_timeout", "job_timeout"}]

NoJob     == [status |-> "none", worker |-> NULL, failure |-> "none",
              retryable |-> FALSE, progress |-> 0, created |-> "recent",
              updated |-> "recent", started |-> "null", finished |-> FALSE]
NoWorker  == [status |-> "absent", evicted |-> FALSE, hb |-> "stale"]
NoEvents  == [crash |-> 0, timeout |-> 0, last |-> "none"]

Retryable(f) == f \in {"TIMEOUT", "WORKER_CRASH"}

Pending(j)   == jobs[j].status = "pending" /\ jobs[j].worker = NULL
Active(j)    == jobs[j].status \in ActiveStatus
Owns(j, w)   == jobs[j].worker = w /\ Active(j)
Terminal(j)  == jobs[j].status \in TerminalStatus
Present(w)   == workers[w].status # "absent"

ActiveJobs(w)    == {j \in Jobs : Owns(j, w)}
CompletedJobs(w) == {j \in Jobs : jobs[j].worker = w /\ jobs[j].status = "completed"}

(* missingWorkerPredicate, offlineWorkerPredicate, liveWorkerPredicate *)
MissingWorker(j) == jobs[j].worker = NULL \/ ~Present(jobs[j].worker)
OfflineWorker(j) == jobs[j].worker # NULL /\ workers[jobs[j].worker].status = "offline"
LiveWorker(j)    == jobs[j].worker # NULL /\ workers[jobs[j].worker].status \in {"idle", "busy"}

-----------------------------------------------------------------------------
(* What each UPDATE does to one row *)

Inserted(r)   == [r EXCEPT !.status = "pending"]
Rejected(r)   == [r EXCEPT !.status = "failed", !.failure = "ENCODER_UNAVAILABLE",
                           !.retryable = Retryable("ENCODER_UNAVAILABLE"),
                           !.finished = TRUE]
Claimed(r, w) == [r EXCEPT !.status = "queued", !.worker = w, !.updated = "recent"]
Running(r)    == [r EXCEPT !.status = "running", !.updated = "recent",
                           !.retryable = Retryable(r.failure),
                           !.started = IF @ = "null" THEN "recent" ELSE @]
Progressed(r, p) == [r EXCEPT !.progress = p, !.updated = "recent"]
Attached(r)   == [r EXCEPT !.updated = "recent"]     \* and output_files, left out

(* f = NULL is a report without failure_type: COALESCE keeps the column *)
Reported(r, s, f) ==
    LET g == IF f = NULL THEN r.failure ELSE f
    IN  [r EXCEPT !.status = s, !.failure = g, !.retryable = Retryable(g),
                  !.updated = "recent", !.finished = TRUE]
Cancelled(r) == [r EXCEPT !.status = "cancelled", !.updated = "recent",
                          !.finished = TRUE]

(* mutant: the retryable column is not written with the class *)
FailedWithoutRetryable(r, f) ==
    [r EXCEPT !.status = "failed", !.worker = NULL, !.started = "null",
              !.failure = f, !.updated = "recent", !.finished = TRUE]

(* a server-side verdict: FailJob, both sweeps and the exhausted failover *)
Failed(r, f) == [r EXCEPT !.status = "failed", !.worker = NULL, !.started = "null",
                          !.failure = f, !.retryable = Retryable(f),
                          !.updated = "recent", !.finished = TRUE]

(* mutants: a requeue that leaves worker_id, or started_at, behind *)
RequeuedKeepsOwner(r) == [r EXCEPT !.status = "pending", !.started = "null",
                                   !.updated = "recent", !.created = "recent"]
RequeuedKeepsStart(r) == [r EXCEPT !.status = "pending", !.worker = NULL,
                                   !.updated = "recent", !.created = "recent"]

(* back to pending: created_at is refreshed, re-anchoring the starvation clock *)
Requeued(r) == [r EXCEPT !.status = "pending", !.worker = NULL, !.started = "null",
                         !.updated = "recent", !.created = "recent"]
Migrated(r) == [Requeued(r) EXCEPT !.failure = "none", !.retryable = FALSE]

-----------------------------------------------------------------------------
(* Job writers *)

Init ==
    /\ jobs = [j \in Jobs |-> NoJob]
    /\ workers = [w \in Workers |-> NoWorker]
    /\ events = [j \in Jobs |-> NoEvents]

CreateJobWithStreaming(j) ==
    /\ jobs[j].status = "none"
    /\ jobs' = [jobs EXCEPT ![j] = Inserted(@)]
    /\ UNCHANGED <<workers, events>>

CreateFailedJob(j) ==
    /\ jobs[j].status = "none"
    /\ jobs' = [jobs EXCEPT ![j] = Rejected(@)]
    /\ UNCHANGED <<workers, events>>

UpdateJobTerminalStatusWithOwner(j, w, s, f) ==
    /\ Owns(j, w)
    /\ jobs' = [jobs EXCEPT ![j] = Reported(@, s, f)]
    /\ UNCHANGED <<workers, events>>

UpdateJobRunningStatusWithOwner(j, w) ==
    /\ Owns(j, w)
    /\ jobs' = [jobs EXCEPT ![j] = Running(@)]
    /\ UNCHANGED <<workers, events>>

(* mutant: the monotonicity condition is dropped *)
UpdateAnyProgress(j, w, p) ==
    /\ Owns(j, w)
    /\ jobs' = [jobs EXCEPT ![j] = Progressed(@, p)]
    /\ UNCHANGED <<workers, events>>

UpdateJobProgressWithOwner(j, w, p) ==
    /\ Owns(j, w)
    /\ jobs[j].progress <= p
    /\ jobs' = [jobs EXCEPT ![j] = Progressed(@, p)]
    /\ UNCHANGED <<workers, events>>

UpdateJobOutputWithOwner(j, w) ==
    /\ Owns(j, w)
    /\ jobs' = [jobs EXCEPT ![j] = Attached(@)]
    /\ UNCHANGED <<workers, events>>

(* mutant: a queued job may be handed to another worker *)
ReassignQueuedJob(j, w) ==
    /\ jobs[j].status \in {"pending", "queued"}
    /\ jobs' = [jobs EXCEPT ![j] = Claimed(@, w)]
    /\ UNCHANGED <<workers, events>>

AssignJobToWorker(j, w) ==
    /\ Pending(j)
    /\ jobs' = [jobs EXCEPT ![j] = Claimed(@, w)]
    /\ UNCHANGED <<workers, events>>

(* mutant: the status condition is dropped *)
CancelAnyJob(j) ==
    /\ jobs[j].status # "none"
    /\ jobs' = [jobs EXCEPT ![j] = Cancelled(@)]
    /\ UNCHANGED <<workers, events>>

CancelJob(j) ==
    /\ jobs[j].status \in {"pending"} \cup ActiveStatus
    /\ jobs' = [jobs EXCEPT ![j] = Cancelled(@)]
    /\ UNCHANGED <<workers, events>>

(* the pending jobs a pull claims, oldest first, up to the free slots *)
Claimable(w) ==
    LET pend == {j \in Jobs : Pending(j)}
        room == IF MaxConcurrent[w] > Cardinality(ActiveJobs(w))
                THEN MaxConcurrent[w] - Cardinality(ActiveJobs(w)) ELSE 0
    IN  {S \in SUBSET pend :
           /\ Cardinality(S) = IF Cardinality(pend) < room THEN Cardinality(pend) ELSE room
           /\ \A a \in S, b \in pend \ S :
                jobs[b].created = "expired" => jobs[a].created = "expired"}

AssignPendingJobsToWorker(w, S) ==
    /\ S \in Claimable(w)
    /\ jobs' = [j \in Jobs |-> IF j \in S THEN Claimed(jobs[j], w) ELSE jobs[j]]
    /\ workers' = IF S # {} /\ workers[w].status = "idle"
                  THEN [workers EXCEPT ![w].status = "busy"] ELSE workers
    /\ UNCHANGED events

(* mutants: one retry too many; a requeue outside the audit transaction *)
OneRetryTooMany(j) ==
    /\ events[j].timeout <= MaxTimeoutRetries
    /\ jobs[j].status = "running"
    /\ jobs' = [jobs EXCEPT ![j] = Requeued(@)]
    /\ events' = [events EXCEPT ![j].timeout = @ + 1, ![j].last = "job_timeout"]
    /\ UNCHANGED workers
RequeueWithoutEvent(j) ==
    /\ events[j].timeout < MaxTimeoutRetries
    /\ jobs[j].status = "running"
    /\ jobs' = [jobs EXCEPT ![j] = Requeued(@)]
    /\ UNCHANGED <<workers, events>>

(* one iteration of checkTimeouts: the retry count is read and acted on by the
   scheduler goroutine alone, the only writer of job_timeout events *)
RecordJobTimeoutMigration(j) ==
    /\ events[j].timeout < MaxTimeoutRetries
    /\ jobs[j].status = "running"
    /\ jobs' = [jobs EXCEPT ![j] = Requeued(@)]
    /\ events' = [events EXCEPT ![j].timeout = @ + 1, ![j].last = "job_timeout"]
    /\ UNCHANGED workers

FailJob(j) ==
    /\ events[j].timeout >= MaxTimeoutRetries
    /\ jobs[j].status \in {"pending"} \cup ActiveStatus
    /\ jobs' = [jobs EXCEPT ![j] = Failed(@, "TIMEOUT")]
    /\ UNCHANGED <<workers, events>>

(* mutant: the verdict forgets the jobs queued for an offline worker *)
StillStuckIgnoringOffline(S, crashed) ==
    {j \in S : /\ Active(j) /\ jobs[j].updated = "expired"
               /\ IF crashed THEN MissingWorker(j)
                  ELSE jobs[j].status = "queued" /\ LiveWorker(j)}

(* the jobs the UPDATE ... RETURNING of each sweep still matches *)
StillStarved(S) == {j \in S : Pending(j) /\ jobs[j].created = "expired"}
StillStuck(S, crashed) ==
    {j \in S : /\ Active(j) /\ jobs[j].updated = "expired"
               /\ IF crashed
                  THEN MissingWorker(j) \/ (jobs[j].status = "queued" /\ OfflineWorker(j))
                  ELSE jobs[j].status = "queued" /\ LiveWorker(j)}

FailAll(S, f, T, g) ==
    jobs' = [j \in Jobs |-> IF j \in S THEN Failed(jobs[j], f)
                            ELSE IF j \in T THEN Failed(jobs[j], g) ELSE jobs[j]]

FailStarvedPendingJobs(crash, noWorker) ==
    /\ FailAll(StillStarved(crash), "WORKER_CRASH",
               StillStarved(noWorker), "NO_WORKER_AVAILABLE")
    /\ UNCHANGED <<workers, events>>

FailStuckActiveJobs(crash, infra) ==
    /\ FailAll(StillStuck(crash, TRUE), "WORKER_CRASH",
               StillStuck(infra, FALSE), "INFRA")
    /\ UNCHANGED <<workers, events>>

-----------------------------------------------------------------------------
(* Worker writers *)

(* A known id is refreshed in place, its eviction mark kept.  A new id first
   deletes the offline or stale rows registered under the same name. *)
CreateOrUpdateWorker(w) ==
    LET residue == {v \in Workers \ {w} :
                      /\ ~Present(w) /\ Name[v] = Name[w] /\ Present(v)
                      /\ workers[v].status = "offline" \/ workers[v].hb = "stale"}
    IN  /\ workers' = [v \in Workers |->
              IF v = w THEN [status |-> "idle", hb |-> "fresh",
                             evicted |-> workers[w].evicted]
              ELSE IF v \in residue THEN NoWorker ELSE workers[v]]
        /\ UNCHANGED <<jobs, events>>

UpdateWorkerHeartbeat(w) ==
    /\ workers[w].status \in {"idle", "busy"}
    /\ workers' = [workers EXCEPT ![w].hb = "fresh"]
    /\ UNCHANGED <<jobs, events>>

SetWorkerIdleIfNoActiveJobs(w) ==
    /\ workers[w].status = "busy"
    /\ ActiveJobs(w) = {}
    /\ workers' = [workers EXCEPT ![w].status = "idle", ![w].hb = "fresh"]
    /\ UNCHANGED <<jobs, events>>

StaleWorkers == {w \in Workers : workers[w].status \in {"idle", "busy"}
                                 /\ workers[w].hb = "stale"}

MarkOfflineWorkersWithMigration ==
    /\ StaleWorkers # {}
    /\ workers' = [w \in Workers |-> IF w \in StaleWorkers
                                     THEN [workers[w] EXCEPT !.status = "offline"]
                                     ELSE workers[w]]
    /\ UNCHANGED <<jobs, events>>

(* Jobs under budget go back to pending with one heartbeat_timeout event each,
   the others fail; nothing happens if the row is gone or no longer offline. *)
MigrateJobsFromWorker(w) ==
    LET mine == IF workers[w].status = "offline" THEN ActiveJobs(w) ELSE {}
        exhausted == {j \in mine : events[j].crash >= MaxRetryCount}
        moved == mine \ exhausted
    IN  /\ jobs' = [j \in Jobs |-> IF j \in moved THEN Migrated(jobs[j])
                                   ELSE IF j \in exhausted THEN Failed(jobs[j], "WORKER_CRASH")
                                   ELSE jobs[j]]
        /\ events' = [j \in Jobs |-> IF j \in moved
                        THEN [events[j] EXCEPT !.crash = @ + 1, !.last = "heartbeat_timeout"]
                        ELSE events[j]]
        /\ UNCHANGED workers

RestoreWorkerStatusAfterFailedMigration(w) ==
    /\ workers[w].status = "offline"
    /\ workers' = [workers EXCEPT ![w].status = IF ActiveJobs(w) # {} THEN "busy" ELSE "idle"]
    /\ UNCHANGED <<jobs, events>>

(* rows past the removal threshold are some of the stale ones *)
Removable(offlineOnly) ==
    {w \in Workers : /\ Present(w) /\ workers[w].hb = "stale" /\ ~workers[w].evicted
                     /\ offlineOnly => workers[w].status = "offline"}
Without(S) == [w \in Workers |-> IF w \in S THEN NoWorker ELSE workers[w]]

RemoveOfflineWorkers(S) ==
    /\ S # {} /\ S \subseteq Removable(TRUE)
    /\ workers' = Without(S)
    /\ UNCHANGED <<jobs, events>>

MarkWorkerEvicted(w) ==
    /\ Present(w)
    /\ workers' = [workers EXCEPT ![w].evicted = TRUE]
    /\ UNCHANGED <<jobs, events>>

ClearWorkerEviction(w) ==
    /\ Present(w) /\ workers[w].evicted
    /\ workers' = [workers EXCEPT ![w].evicted = FALSE]
    /\ UNCHANGED <<jobs, events>>

(* startup: RecoverState, then RemoveStaleWorkers of a set S of stale rows *)
RecoverState(S) ==
    /\ S \subseteq Removable(FALSE)
    /\ jobs' = [j \in Jobs |-> IF Active(j) THEN Requeued(jobs[j]) ELSE jobs[j]]
    /\ workers' = [w \in Workers |->
                     IF w \in S \/ ~Present(w) THEN NoWorker
                     ELSE [workers[w] EXCEPT !.status = "offline"]]
    /\ UNCHANGED events

-----------------------------------------------------------------------------
(* Time passes: a clock runs past the cutoff that is compared with it *)

CreatedExpires(j) == /\ Pending(j) /\ jobs[j].created = "recent"
                     /\ jobs' = [jobs EXCEPT ![j].created = "expired"]
                     /\ UNCHANGED <<workers, events>>
UpdatedExpires(j) == /\ Active(j) /\ jobs[j].updated = "recent"
                     /\ jobs' = [jobs EXCEPT ![j].updated = "expired"]
                     /\ UNCHANGED <<workers, events>>
StartedExpires(j) == /\ jobs[j].status = "running" /\ jobs[j].started = "recent"
                     /\ jobs' = [jobs EXCEPT ![j].started = "expired"]
                     /\ UNCHANGED <<workers, events>>
HeartbeatExpires(w) == /\ Present(w) /\ workers[w].hb = "fresh"
                       /\ workers' = [workers EXCEPT ![w].hb = "stale"]
                       /\ UNCHANGED <<jobs, events>>

-----------------------------------------------------------------------------
(* the failure classes a worker reports with each terminal status *)
ReportClass(s) == CASE s = "completed" -> {"none"}
                    [] s = "cancelled" -> {NULL}
                    [] s = "timeout"   -> {"TIMEOUT", "WORKER_CRASH"}
                    [] s = "failed"    -> {"FFMPEG_ERROR", "INFRA", "WORKER_CRASH"}

JobNext(j) ==
    \/ CreateJobWithStreaming(j) \/ CreateFailedJob(j) \/ CancelJob(j)
    \/ RecordJobTimeoutMigration(j) \/ FailJob(j)
    \/ CreatedExpires(j) \/ UpdatedExpires(j) \/ StartedExpires(j)
    \/ \E w \in Workers :
         \/ AssignJobToWorker(j, w) \/ UpdateJobRunningStatusWithOwner(j, w)
         \/ UpdateJobOutputWithOwner(j, w)
         \/ \E p \in 1..MaxProgress : UpdateJobProgressWithOwner(j, w, p)
         \/ \E s \in TerminalStatus : \E f \in ReportClass(s) :
              UpdateJobTerminalStatusWithOwner(j, w, s, f)

WorkerNext(w) ==
    \/ CreateOrUpdateWorker(w) \/ UpdateWorkerHeartbeat(w)
    \/ SetWorkerIdleIfNoActiveJobs(w) \/ MigrateJobsFromWorker(w)
    \/ RestoreWorkerStatusAfterFailedMigration(w)
    \/ MarkWorkerEvicted(w) \/ ClearWorkerEviction(w) \/ HeartbeatExpires(w)
    \/ \E S \in SUBSET Jobs : AssignPendingJobsToWorker(w, S)

SweepNext ==
    \/ \E A, B \in SUBSET Jobs : FailStarvedPendingJobs(A, B) \/ FailStuckActiveJobs(A, B)
    \/ MarkOfflineWorkersWithMigration
    \/ \E S \in SUBSET Workers : RemoveOfflineWorkers(S) \/ RecoverState(S)

Next == (\E j \in Jobs : JobNext(j)) \/ (\E w \in Workers : WorkerNext(w)) \/ SweepNext

Spec == Init /\ [][Next]_storeVars

-----------------------------------------------------------------------------
(* Each job's row read as the life JobLifecycle promises *)

LifeOf(r) ==
    [phase  |-> CASE r.status = "none" -> "new"
                  [] r.status = "pending" -> "waiting"
                  [] r.status \in ActiveStatus -> "held"
                  [] r.status \in TerminalStatus -> "settled",
     holder |-> IF r.status \in ActiveStatus THEN r.worker ELSE NULL,
     result |-> IF r.status \in TerminalStatus THEN r.status ELSE NULL]

Lifecycle == INSTANCE JobLifecycle WITH life <- [j \in Jobs |-> LifeOf(jobs[j])]

-----------------------------------------------------------------------------
(* Properties *)

(* Every row of the three tables holds values its columns may hold. *)
TypeOK ==
    /\ jobs \in [Jobs -> JobRow]
    /\ workers \in [Workers -> WorkerRow]
    /\ events \in [Jobs -> EventRow]

(* No orphan rows, whichever writers raced: a pending job has no worker (the
   pending+worker_id orphan AssignJobToWorker's comment describes is invisible
   to the scheduler and to the starvation sweep), and a queued or running job
   has one (the unowned running job of UpdateJobRunningStatusWithOwner's
   comment is invisible to migration). *)
OwnedIffActive ==
    \A j \in Jobs : /\ jobs[j].status = "pending" => jobs[j].worker = NULL
                    /\ Active(j) => jobs[j].worker # NULL

(* started_at belongs to the current attempt: set while the job runs, NULL
   while it waits or is only queued.  started_at is written with COALESCE, so a
   requeue that kept the old value would start the next attempt already timed
   out. *)
StartedIsThisAttempt ==
    \A j \in Jobs : /\ jobs[j].status = "running" => jobs[j].started # "null"
                    /\ jobs[j].status \in {"pending", "queued"} => jobs[j].started = "null"

(* The terminal columns agree with the status and with each other, although
   eight statements write them: finished_at is set exactly on terminal rows, a
   failed or timed-out row carries a class, a completed or live one none, and
   retryable is what FailureType.Retryable says of that class. *)
VerdictConsistent ==
    \A j \in Jobs : LET r == jobs[j] IN
        /\ r.finished <=> r.status \in TerminalStatus
        /\ (r.failure # "none") <=> r.status \in {"failed", "timeout"}
        /\ r.retryable = Retryable(r.failure)

(* The two requeue budgets are separate and never overdrawn: a job is requeued
   at most MaxTimeoutRetries times for timeouts and MaxRetryCount times for
   worker loss. *)
RequeueBudgets ==
    \A j \in Jobs : /\ events[j].timeout <= MaxTimeoutRetries
                    /\ events[j].crash <= MaxRetryCount

(* A terminal verdict is final: no late report, cancel, sweep, migration or
   restart changes the row of a finished job. *)
TerminalIsFinal ==
    [][\A j \in Jobs : Terminal(j) => jobs'[j] = jobs[j]]_storeVars

(* Published progress never goes back, not even when a job is redispatched and
   re-encoded from zero. *)
ProgressMonotonic ==
    [][\A j \in Jobs : jobs'[j].progress >= jobs[j].progress]_storeVars

(* A job leaves its worker for pending only with an audit row written in the
   same transaction (C-85); the restart recovery, which flips every worker
   offline, is the one exception. *)
RequeueIsAudited ==
    [][\A j \in Jobs :
         (Active(j) /\ jobs'[j].status = "pending") =>
            \/ events'[j].crash + events'[j].timeout = events[j].crash + events[j].timeout + 1
            \/ \A w \in Workers : workers'[w].status \in {"absent", "offline"}]_storeVars

(* The tables implement JobLifecycle: at most one worker holds a job, it
   changes hands only through pending, and it is settled once. *)
ImplementsLifecycle == Lifecycle!Spec
=============================================================================
