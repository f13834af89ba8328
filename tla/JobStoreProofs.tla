--------------------------- MODULE JobStoreProofs ---------------------------
(***************************************************************************)
(* Proofs about JobStore.  Every statement of the store rewrites whole     *)
(* rows, so the argument is made row by row: RowOK is what holds of each   *)
(* job row in every reachable state, GoodStep what one step may do to it.  *)
(* One lemma per row transform shows GoodStep; the invariance proof then   *)
(* only has to say which transform an action applies to which rows.        *)
(***************************************************************************)
EXTENDS JobStore, TLAPS

(* The row-wise inductive invariant.  Beyond the checked invariants it says that
   a row not inserted yet is blank, which CreateJobWithStreaming needs. *)
RowOK(r) ==
    /\ r \in JobRow
    /\ r.status = "none" => r = NoJob
    /\ r.status = "pending" => r.worker = NULL
    /\ r.status \in ActiveStatus => r.worker # NULL
    /\ r.status = "running" => r.started # "null"
    /\ r.status \in {"pending", "queued"} => r.started = "null"
    /\ r.finished <=> r.status \in TerminalStatus
    /\ (r.failure # "none") <=> r.status \in {"failed", "timeout"}
    /\ r.retryable = Retryable(r.failure)

EventOK(e) ==
    /\ e \in EventRow
    /\ e.timeout <= MaxTimeoutRetries
    /\ e.crash <= MaxRetryCount

StoreInv ==
    /\ jobs \in [Jobs -> JobRow] /\ \A j \in Jobs : RowOK(jobs[j])
    /\ workers \in [Workers -> WorkerRow]
    /\ events \in [Jobs -> EventRow] /\ \A j \in Jobs : EventOK(events[j])

(* What a step may do to one row *)
GoodStep(a, b) ==
    /\ RowOK(b)
    /\ a.status \in TerminalStatus => b = a
    /\ b.progress >= a.progress
    /\ Lifecycle!LegalStep(LifeOf(a), LifeOf(b))

-----------------------------------------------------------------------------
(* Row transforms *)

USE NullAssumption, BudgetAssumption

(* FailureType.Retryable is a truth value, whatever it is asked about. *)
LEMMA RetryableType == ASSUME NEW f PROVE Retryable(f) \in BOOLEAN
  BY DEF Retryable

(* Leaving a row alone is a good step. *)
LEMMA SameRow == ASSUME NEW r, RowOK(r) PROVE GoodStep(r, r)
  <1>1. r.progress >= r.progress
    BY DEF RowOK, JobRow
  <1>2. Lifecycle!LegalStep(LifeOf(r), LifeOf(r))
    BY DEF Lifecycle!LegalStep
  <1> QED
    BY <1>1, <1>2 DEF GoodStep

(* A row's life depends on its status and, while it is active, on its worker. *)
LEMMA LifeCases ==
    ASSUME NEW r, RowOK(r)
    PROVE  /\ r.status = "none" => LifeOf(r) = Lifecycle!New
           /\ r.status = "pending" => LifeOf(r) = Lifecycle!Waiting
           /\ r.status \in ActiveStatus => r.worker \in Workers /\ LifeOf(r) = Lifecycle!HeldBy(r.worker)
           /\ r.status \in TerminalStatus => LifeOf(r) = Lifecycle!SettledAs(r.status)
  BY DEF RowOK, JobRow, LifeOf, ActiveStatus, TerminalStatus, Lifecycle!New,
         Lifecycle!Waiting, Lifecycle!HeldBy, Lifecycle!SettledAs

(* CreateJobWithStreaming. *)
LEMMA InsertedRow ==
    ASSUME NEW r, RowOK(r), r.status = "none"
    PROVE  GoodStep(r, Inserted(r))
  <1>1. Inserted(r) \in JobRow
    BY RetryableType DEF RowOK, JobRow, NoJob, JobStatus, ActiveStatus, TerminalStatus, FailureType, Clock,
           Inserted
  <1>2. RowOK(Inserted(r))
    BY <1>1 DEF RowOK, JobRow, NoJob, Retryable, ActiveStatus, TerminalStatus, FailureType,
           Clock, Inserted
  <1>3. Inserted(r).progress >= r.progress
    BY DEF RowOK, JobRow, Inserted
  <1>4. Lifecycle!LegalStep(LifeOf(r), LifeOf(Inserted(r)))
    <2>1. Inserted(r).status = "pending"
      BY DEF RowOK, JobRow, Inserted
    <2>2. LifeOf(Inserted(r)) = Lifecycle!Waiting
      BY <1>2, <2>1, LifeCases DEF TerminalStatus
    <2>3. LifeOf(r) = Lifecycle!New
      BY LifeCases
    <2> QED
      BY <2>2, <2>3 DEF TerminalStatus, Lifecycle!LegalStep, Lifecycle!Results
  <1> QED
    BY <1>2, <1>3, <1>4 DEF GoodStep, ActiveStatus, TerminalStatus

(* CreateFailedJob. *)
LEMMA RejectedRow ==
    ASSUME NEW r, RowOK(r), r.status = "none"
    PROVE  GoodStep(r, Rejected(r))
  <1>1. Rejected(r) \in JobRow
    BY RetryableType DEF RowOK, JobRow, NoJob, JobStatus, ActiveStatus, TerminalStatus, FailureType, Clock,
           Rejected
  <1>2. RowOK(Rejected(r))
    BY <1>1 DEF RowOK, JobRow, NoJob, Retryable, ActiveStatus, TerminalStatus, FailureType,
           Clock, Rejected
  <1>3. Rejected(r).progress >= r.progress
    BY DEF RowOK, JobRow, Rejected
  <1>4. Lifecycle!LegalStep(LifeOf(r), LifeOf(Rejected(r)))
    <2>1. Rejected(r).status = "failed"
      BY DEF RowOK, JobRow, Rejected
    <2>2. LifeOf(Rejected(r)) = Lifecycle!SettledAs("failed")
      BY <1>2, <2>1, LifeCases DEF TerminalStatus
    <2>3. LifeOf(r) = Lifecycle!New
      BY LifeCases
    <2> QED
      BY <2>2, <2>3 DEF TerminalStatus, Lifecycle!LegalStep, Lifecycle!Results
  <1> QED
    BY <1>2, <1>3, <1>4 DEF GoodStep, ActiveStatus, TerminalStatus

(* A claim by the scheduler or by a pull. *)
LEMMA ClaimedRow ==
    ASSUME NEW r, RowOK(r), NEW w \in Workers, r.status = "pending"
    PROVE  GoodStep(r, Claimed(r, w))
  <1>1. Claimed(r, w) \in JobRow
    BY RetryableType DEF RowOK, JobRow, NoJob, JobStatus, ActiveStatus, TerminalStatus, FailureType, Clock,
           Claimed
  <1>2. RowOK(Claimed(r, w))
    BY <1>1 DEF RowOK, JobRow, NoJob, Retryable, ActiveStatus, TerminalStatus, FailureType,
           Clock, Claimed
  <1>3. Claimed(r, w).progress >= r.progress
    BY DEF RowOK, JobRow, Claimed
  <1>4. Lifecycle!LegalStep(LifeOf(r), LifeOf(Claimed(r, w)))
    BY <1>2, LifeCases DEF RowOK, JobRow, Claimed, ActiveStatus, TerminalStatus,
           Lifecycle!LegalStep, Lifecycle!Results
  <1> QED
    BY <1>2, <1>3, <1>4 DEF GoodStep, ActiveStatus, TerminalStatus

(* A running report. *)
LEMMA RunningRow ==
    ASSUME NEW r, RowOK(r), r.status \in ActiveStatus
    PROVE  GoodStep(r, Running(r))
  <1>1. Running(r) \in JobRow
    BY RetryableType DEF RowOK, JobRow, NoJob, JobStatus, ActiveStatus, TerminalStatus, FailureType, Clock,
           Running
  <1>2. RowOK(Running(r))
    BY <1>1 DEF RowOK, JobRow, NoJob, Retryable, ActiveStatus, TerminalStatus, FailureType,
           Clock, Running
  <1>3. Running(r).progress >= r.progress
    BY DEF RowOK, JobRow, Running
  <1>4. Running(r).status \in ActiveStatus /\ Running(r).worker = r.worker
    BY DEF RowOK, JobRow, Running, ActiveStatus
  <1>5. LifeOf(Running(r)) = LifeOf(r)
    BY <1>2, <1>4, LifeCases
  <1>6. Lifecycle!LegalStep(LifeOf(r), LifeOf(Running(r)))
    BY <1>5 DEF Lifecycle!LegalStep
  <1> QED
    BY <1>2, <1>3, <1>6 DEF GoodStep, ActiveStatus, TerminalStatus

(* A progress report that does not go back. *)
LEMMA ProgressedRow ==
    ASSUME NEW r, RowOK(r), NEW p \in 0..MaxProgress, r.status \in ActiveStatus, r.progress <= p
    PROVE  GoodStep(r, Progressed(r, p))
  <1>1. Progressed(r, p) \in JobRow
    BY RetryableType DEF RowOK, JobRow, NoJob, JobStatus, ActiveStatus, TerminalStatus, FailureType, Clock,
           Progressed
  <1>2. RowOK(Progressed(r, p))
    BY <1>1 DEF RowOK, JobRow, NoJob, Retryable, ActiveStatus, TerminalStatus, FailureType,
           Clock, Progressed
  <1>3. Progressed(r, p).progress >= r.progress
    BY DEF RowOK, JobRow, Progressed
  <1>4. Progressed(r, p).status \in ActiveStatus /\ Progressed(r, p).worker = r.worker
    BY DEF RowOK, JobRow, Progressed, ActiveStatus
  <1>5. LifeOf(Progressed(r, p)) = LifeOf(r)
    BY <1>2, <1>4, LifeCases
  <1>6. Lifecycle!LegalStep(LifeOf(r), LifeOf(Progressed(r, p)))
    BY <1>5 DEF Lifecycle!LegalStep
  <1> QED
    BY <1>2, <1>3, <1>6 DEF GoodStep, ActiveStatus, TerminalStatus

(* An output is attached: a progress report of the progress already there. *)
LEMMA AttachedRow ==
    ASSUME NEW r, RowOK(r), r.status \in ActiveStatus
    PROVE  GoodStep(r, Attached(r))
  <1>1. Attached(r) = Progressed(r, r.progress)
    BY DEF RowOK, JobRow, Attached, Progressed
  <1>2. r.progress \in 0..MaxProgress /\ r.progress <= r.progress
    BY DEF RowOK, JobRow
  <1> QED
    BY <1>1, <1>2, ProgressedRow

(* A client's cancel. *)
LEMMA CancelledRow ==
    ASSUME NEW r, RowOK(r), r.status \in {"pending"} \cup ActiveStatus
    PROVE  GoodStep(r, Cancelled(r))
  <1>1. Cancelled(r) \in JobRow
    BY RetryableType DEF RowOK, JobRow, NoJob, JobStatus, ActiveStatus, TerminalStatus, FailureType, Clock,
           Cancelled
  <1>2. RowOK(Cancelled(r))
    BY <1>1 DEF RowOK, JobRow, NoJob, Retryable, ActiveStatus, TerminalStatus, FailureType,
           Clock, Cancelled
  <1>3. Cancelled(r).progress >= r.progress
    BY DEF RowOK, JobRow, Cancelled
  <1>4. Lifecycle!LegalStep(LifeOf(r), LifeOf(Cancelled(r)))
    <2>0. Cancelled(r).status = "cancelled"
      BY DEF RowOK, JobRow, Cancelled
    <2>1. LifeOf(Cancelled(r)) = Lifecycle!SettledAs("cancelled")
      BY <1>2, <2>0, LifeCases DEF TerminalStatus
    <2>2. r.status \in ActiveStatus => \E v \in Workers : LifeOf(r) = Lifecycle!HeldBy(v)
      BY LifeCases
    <2>3. r.status = "pending" => LifeOf(r) = Lifecycle!Waiting
      BY LifeCases
    <2> QED
      BY <2>1, <2>2, <2>3 DEF TerminalStatus, Lifecycle!LegalStep, Lifecycle!Results
  <1> QED
    BY <1>2, <1>3, <1>4 DEF GoodStep, ActiveStatus, TerminalStatus

(* A server-side verdict. *)
LEMMA FailedRow ==
    ASSUME NEW r, RowOK(r), NEW f \in FailureType, f # "none",
           r.status \in {"pending"} \cup ActiveStatus
    PROVE  GoodStep(r, Failed(r, f))
  <1>1. Failed(r, f) \in JobRow
    BY RetryableType DEF RowOK, JobRow, NoJob, JobStatus, ActiveStatus, TerminalStatus, FailureType, Clock,
           Failed
  <1>2. RowOK(Failed(r, f))
    BY <1>1 DEF RowOK, JobRow, NoJob, Retryable, ActiveStatus, TerminalStatus, FailureType,
           Clock, Failed
  <1>3. Failed(r, f).progress >= r.progress
    BY DEF RowOK, JobRow, Failed
  <1>4. Lifecycle!LegalStep(LifeOf(r), LifeOf(Failed(r, f)))
    <2>0. Failed(r, f).status = "failed"
      BY DEF RowOK, JobRow, Failed
    <2>1. LifeOf(Failed(r, f)) = Lifecycle!SettledAs("failed")
      BY <1>2, <2>0, LifeCases DEF TerminalStatus
    <2>2. r.status \in ActiveStatus => \E v \in Workers : LifeOf(r) = Lifecycle!HeldBy(v)
      BY LifeCases
    <2>3. r.status = "pending" => LifeOf(r) = Lifecycle!Waiting
      BY LifeCases
    <2> QED
      BY <2>1, <2>2, <2>3 DEF TerminalStatus, Lifecycle!LegalStep, Lifecycle!Results
  <1> QED
    BY <1>2, <1>3, <1>4 DEF GoodStep, ActiveStatus, TerminalStatus

(* A requeue by the timeout sweep or by the restart. *)
LEMMA RequeuedRow ==
    ASSUME NEW r, RowOK(r), r.status \in ActiveStatus
    PROVE  GoodStep(r, Requeued(r))
  <1>1. Requeued(r) \in JobRow
    BY RetryableType DEF RowOK, JobRow, NoJob, JobStatus, ActiveStatus, TerminalStatus, FailureType, Clock,
           Requeued
  <1>2. RowOK(Requeued(r))
    BY <1>1 DEF RowOK, JobRow, NoJob, Retryable, ActiveStatus, TerminalStatus, FailureType,
           Clock, Requeued
  <1>3. Requeued(r).progress >= r.progress
    BY DEF RowOK, JobRow, Requeued
  <1>4. Lifecycle!LegalStep(LifeOf(r), LifeOf(Requeued(r)))
    <2>1. Requeued(r).status = "pending"
      BY DEF RowOK, JobRow, Requeued
    <2>2. LifeOf(Requeued(r)) = Lifecycle!Waiting
      BY <1>2, <2>1, LifeCases DEF TerminalStatus
    <2>3. \E v \in Workers : LifeOf(r) = Lifecycle!HeldBy(v)
      BY LifeCases
    <2> QED
      BY <2>2, <2>3 DEF TerminalStatus, Lifecycle!LegalStep, Lifecycle!Results
  <1> QED
    BY <1>2, <1>3, <1>4 DEF GoodStep, ActiveStatus, TerminalStatus

(* A requeue by the failover migration. *)
LEMMA MigratedRow ==
    ASSUME NEW r, RowOK(r), r.status \in ActiveStatus
    PROVE  GoodStep(r, Migrated(r))
  <1>1. Migrated(r) \in JobRow
    BY RetryableType DEF RowOK, JobRow, NoJob, JobStatus, ActiveStatus, TerminalStatus, FailureType, Clock,
           Migrated, Requeued
  <1>2. RowOK(Migrated(r))
    <2>1. /\ Migrated(r).status = "pending" /\ Migrated(r).worker = NULL
          /\ Migrated(r).started = "null" /\ Migrated(r).failure = "none"
          /\ Migrated(r).retryable = FALSE /\ Migrated(r).finished = r.finished
      BY DEF RowOK, JobRow, Migrated, Requeued
    <2>2. ~r.finished /\ Retryable("none") = FALSE
      BY DEF RowOK, JobRow, Retryable, ActiveStatus, TerminalStatus
    <2> QED
      BY <1>1, <2>1, <2>2 DEF RowOK, ActiveStatus, TerminalStatus
  <1>3. Migrated(r).progress >= r.progress
    BY DEF RowOK, JobRow, Migrated, Requeued
  <1>4. Lifecycle!LegalStep(LifeOf(r), LifeOf(Migrated(r)))
    <2>1. Migrated(r).status = "pending"
      BY DEF RowOK, JobRow, Migrated, Requeued
    <2>2. LifeOf(Migrated(r)) = Lifecycle!Waiting
      BY <1>2, <2>1, LifeCases DEF TerminalStatus
    <2>3. \E v \in Workers : LifeOf(r) = Lifecycle!HeldBy(v)
      BY LifeCases
    <2> QED
      BY <2>2, <2>3 DEF TerminalStatus, Lifecycle!LegalStep, Lifecycle!Results
  <1> QED
    BY <1>2, <1>3, <1>4 DEF GoodStep, ActiveStatus, TerminalStatus

(* A terminal report of the owner. *)
LEMMA ReportedRow ==
    ASSUME NEW r, RowOK(r), NEW s \in TerminalStatus, NEW f \in ReportClass(s),
           r.status \in ActiveStatus
    PROVE  GoodStep(r, Reported(r, s, f))
  <1>1. Reported(r, s, f) \in JobRow
    BY RetryableType DEF RowOK, JobRow, NoJob, JobStatus, ActiveStatus, TerminalStatus, FailureType, Clock,
           Reported, ReportClass
  <1>2. RowOK(Reported(r, s, f))
    BY <1>1 DEF RowOK, JobRow, NoJob, Retryable, ActiveStatus, TerminalStatus, FailureType,
           Clock, Reported, ReportClass
  <1>3. Reported(r, s, f).progress >= r.progress
    BY DEF RowOK, JobRow, Reported, ReportClass
  <1>4. Lifecycle!LegalStep(LifeOf(r), LifeOf(Reported(r, s, f)))
    <2>0. Reported(r, s, f).status = s
      BY DEF RowOK, JobRow, Reported
    <2>1. LifeOf(Reported(r, s, f)) = Lifecycle!SettledAs(s)
      BY <1>2, <2>0, LifeCases DEF TerminalStatus
    <2>2. r.status \in ActiveStatus => \E v \in Workers : LifeOf(r) = Lifecycle!HeldBy(v)
      BY LifeCases
    <2> QED
      BY <2>1, <2>2 DEF TerminalStatus, Lifecycle!LegalStep, Lifecycle!Results
  <1> QED
    BY <1>2, <1>3, <1>4 DEF GoodStep, ActiveStatus, TerminalStatus

(* One more timeout event of a job under its budget. *)
LEMMA TimeoutEvent ==
    ASSUME NEW e, EventOK(e), e.timeout < MaxTimeoutRetries
    PROVE  EventOK([e EXCEPT !.timeout = @ + 1, !.last = "job_timeout"])
  <1> DEFINE n == e.timeout + 1
             d == [e EXCEPT !.timeout = n, !.last = "job_timeout"]
  <1>1. e.timeout \in Nat
    BY DEF EventOK, EventRow
  <1>2. n \in Nat /\ n <= MaxTimeoutRetries
    BY <1>1
  <1> HIDE DEF n
  <1>3. d \in EventRow /\ d.timeout = n /\ d.crash = e.crash
    BY <1>2 DEF EventOK, EventRow
  <1>4. EventOK(d)
    BY <1>2, <1>3 DEF EventOK
  <1> QED
    BY <1>4 DEF n

(* One more failover event of a job under its budget. *)
LEMMA CrashEvent ==
    ASSUME NEW e, EventOK(e), ~(e.crash >= MaxRetryCount)
    PROVE  EventOK([e EXCEPT !.crash = @ + 1, !.last = "heartbeat_timeout"])
  <1> DEFINE n == e.crash + 1
             d == [e EXCEPT !.crash = n, !.last = "heartbeat_timeout"]
  <1>1. e.crash \in Nat
    BY DEF EventOK, EventRow
  <1>2. n \in Nat /\ n <= MaxRetryCount
    BY <1>1
  <1> HIDE DEF n
  <1>3. d \in EventRow /\ d.crash = n /\ d.timeout = e.timeout
    BY <1>2 DEF EventOK, EventRow
  <1>4. EventOK(d)
    BY <1>2, <1>3 DEF EventOK
  <1> QED
    BY <1>4 DEF n

-----------------------------------------------------------------------------
(* Actions *)

RowsGood == /\ jobs' \in [Jobs -> JobRow]
            /\ \A j \in Jobs : GoodStep(jobs[j], jobs'[j])

EventsGood == /\ events' \in [Jobs -> EventRow]
              /\ \A j \in Jobs : EventOK(events'[j])

WorkersGood == workers' \in [Workers -> WorkerRow]

(* A statement that leaves the table alone. *)
LEMMA SameRows == ASSUME StoreInv, UNCHANGED jobs PROVE RowsGood
  BY SameRow DEF StoreInv, RowsGood

(* A statement that rewrites one row. *)
LEMMA OneRow ==
    ASSUME StoreInv, NEW j \in Jobs, NEW r, GoodStep(jobs[j], r),
           jobs' = [jobs EXCEPT ![j] = r]
    PROVE  RowsGood
  <1>1. r \in JobRow
    BY DEF GoodStep, RowOK
  <1>2. ASSUME NEW k \in Jobs PROVE GoodStep(jobs[k], jobs'[k])
    BY SameRow DEF StoreInv
  <1> QED
    BY <1>1, <1>2 DEF StoreInv, RowsGood

(* A statement that rewrites many rows: it is enough to look at each. *)
LEMMA ManyRows ==
    ASSUME StoreInv, jobs' = [j \in Jobs |-> jobs'[j]],
           \A j \in Jobs : GoodStep(jobs[j], jobs'[j])
    PROVE  RowsGood
  BY DEF RowsGood, GoodStep, RowOK

(* A statement that writes no migration event keeps the events good. *)
LEMMA SameEvents == ASSUME StoreInv, UNCHANGED events PROVE EventsGood
  BY DEF StoreInv, EventsGood

(* A statement that writes no worker row keeps the rows good. *)
LEMMA SameWorkers == ASSUME StoreInv, UNCHANGED workers PROVE WorkersGood
  BY DEF StoreInv, WorkersGood

(* Every statement about one job keeps all three tables good. *)
LEMMA JobStep ==
    ASSUME StoreInv, NEW j \in Jobs, JobNext(j)
    PROVE  RowsGood /\ EventsGood /\ WorkersGood
  <1> USE DEF Pending, Owns, Active
  <1>0. RowOK(jobs[j]) /\ jobs[j] \in JobRow
    BY DEF StoreInv
  <1>1. CASE CreateJobWithStreaming(j)
    BY <1>0, <1>1, InsertedRow, OneRow, SameEvents, SameWorkers DEF CreateJobWithStreaming
  <1>2. CASE CreateFailedJob(j)
    BY <1>0, <1>2, RejectedRow, OneRow, SameEvents, SameWorkers DEF CreateFailedJob
  <1>3. CASE CancelJob(j)
    BY <1>0, <1>3, CancelledRow, OneRow, SameEvents, SameWorkers DEF CancelJob
  <1>4. CASE RecordJobTimeoutMigration(j)
    <2>1. RowsGood /\ WorkersGood
      BY <1>0, <1>4, RequeuedRow, OneRow, SameWorkers DEF RecordJobTimeoutMigration, ActiveStatus
    <2>2. EventsGood
      <3> DEFINE e == [events[j] EXCEPT !.timeout = @ + 1, !.last = "job_timeout"]
      <3>1. events' = [events EXCEPT ![j] = e]
        BY <1>4 DEF RecordJobTimeoutMigration, StoreInv, EventRow
      <3>2. events[j] \in EventRow /\ EventOK(events[j])
        BY DEF StoreInv
      <3>3. EventOK(e)
        BY <1>4, <3>2, TimeoutEvent DEF RecordJobTimeoutMigration
      <3> HIDE DEF e
      <3> QED
        BY <3>1, <3>3 DEF EventsGood, StoreInv, EventOK
    <2> QED
      BY <2>1, <2>2
  <1>5. CASE FailJob(j)
    BY <1>0, <1>5, FailedRow, OneRow, SameEvents, SameWorkers DEF FailJob, FailureType
  <1>6. CASE CreatedExpires(j) \/ UpdatedExpires(j) \/ StartedExpires(j)
    <2> DEFINE c == [jobs[j] EXCEPT !.created = "expired"]
               u == [jobs[j] EXCEPT !.updated = "expired"]
               s == [jobs[j] EXCEPT !.started = "expired"]
    <2>1. CreatedExpires(j) => GoodStep(jobs[j], c)
      <3>1. jobs[j].status = "pending" => RowOK(c)
        BY <1>0 DEF RowOK, JobRow, NoJob, Clock, ActiveStatus, TerminalStatus
      <3>2. c.progress >= jobs[j].progress
        BY <1>0 DEF JobRow
      <3>3. LifeOf(c) = LifeOf(jobs[j])
        BY <1>0 DEF JobRow, LifeOf
      <3> QED
        BY <3>1, <3>2, <3>3 DEF CreatedExpires, GoodStep, TerminalStatus, Lifecycle!LegalStep
    <2>2. UpdatedExpires(j) => GoodStep(jobs[j], u)
      <3>1. jobs[j].status \in ActiveStatus => RowOK(u)
        BY <1>0 DEF RowOK, JobRow, NoJob, Clock, ActiveStatus, TerminalStatus
      <3>2. u.progress >= jobs[j].progress
        BY <1>0 DEF JobRow
      <3>3. LifeOf(u) = LifeOf(jobs[j])
        BY <1>0 DEF JobRow, LifeOf
      <3> QED
        BY <3>1, <3>2, <3>3 DEF UpdatedExpires, GoodStep, ActiveStatus, TerminalStatus,
                                Lifecycle!LegalStep
    <2>3. StartedExpires(j) => GoodStep(jobs[j], s)
      <3>1. jobs[j].status = "running" => RowOK(s)
        BY <1>0 DEF RowOK, JobRow, NoJob, Clock, ActiveStatus, TerminalStatus
      <3>2. s.progress >= jobs[j].progress
        BY <1>0 DEF JobRow
      <3>3. LifeOf(s) = LifeOf(jobs[j])
        BY <1>0 DEF JobRow, LifeOf
      <3> QED
        BY <3>1, <3>2, <3>3 DEF StartedExpires, GoodStep, TerminalStatus, Lifecycle!LegalStep
    <2>4. \/ CreatedExpires(j) /\ jobs' = [jobs EXCEPT ![j] = c]
          \/ UpdatedExpires(j) /\ jobs' = [jobs EXCEPT ![j] = u]
          \/ StartedExpires(j) /\ jobs' = [jobs EXCEPT ![j] = s]
      BY <1>6 DEF CreatedExpires, UpdatedExpires, StartedExpires
    <2>5. UNCHANGED <<workers, events>>
      BY <1>6 DEF CreatedExpires, UpdatedExpires, StartedExpires
    <2> HIDE DEF c, u, s
    <2> QED
      BY <2>1, <2>2, <2>3, <2>4, <2>5, OneRow, SameEvents, SameWorkers
  <1>7. ASSUME NEW w \in Workers, AssignJobToWorker(j, w)
        PROVE  RowsGood /\ EventsGood /\ WorkersGood
    BY <1>0, <1>7, ClaimedRow, OneRow, SameEvents, SameWorkers DEF AssignJobToWorker
  <1>8. ASSUME NEW w \in Workers, UpdateJobRunningStatusWithOwner(j, w)
        PROVE  RowsGood /\ EventsGood /\ WorkersGood
    BY <1>0, <1>8, RunningRow, OneRow, SameEvents, SameWorkers
       DEF UpdateJobRunningStatusWithOwner
  <1>9. ASSUME NEW w \in Workers, NEW p \in 1..MaxProgress, UpdateJobProgressWithOwner(j, w, p)
        PROVE  RowsGood /\ EventsGood /\ WorkersGood
    <2>1. p \in 0..MaxProgress
      OBVIOUS
    <2> QED
      BY <1>0, <1>9, <2>1, ProgressedRow, OneRow, SameEvents, SameWorkers
         DEF UpdateJobProgressWithOwner
  <1>10. ASSUME NEW w \in Workers, NEW s \in TerminalStatus, NEW f \in ReportClass(s),
                UpdateJobTerminalStatusWithOwner(j, w, s, f)
         PROVE  RowsGood /\ EventsGood /\ WorkersGood
    BY <1>0, <1>10, ReportedRow, OneRow, SameEvents, SameWorkers
       DEF UpdateJobTerminalStatusWithOwner
  <1>11. ASSUME NEW w \in Workers, UpdateJobOutputWithOwner(j, w)
         PROVE  RowsGood /\ EventsGood /\ WorkersGood
    BY <1>0, <1>11, AttachedRow, OneRow, SameEvents, SameWorkers
       DEF UpdateJobOutputWithOwner
  <1> QED
    BY <1>1, <1>2, <1>3, <1>4, <1>5, <1>6, <1>7, <1>8, <1>9, <1>10, <1>11 DEF JobNext

(* Every statement about one worker does. *)
LEMMA WorkerStep ==
    ASSUME StoreInv, NEW w \in Workers, WorkerNext(w)
    PROVE  RowsGood /\ EventsGood /\ WorkersGood
  <1>1. CASE MigrateJobsFromWorker(w)
    <2>1. ASSUME NEW j \in Jobs PROVE GoodStep(jobs[j], jobs'[j])
      <3>0. RowOK(jobs[j])
        BY DEF StoreInv
      <3>1. jobs'[j] \in {jobs[j], Migrated(jobs[j]), Failed(jobs[j], "WORKER_CRASH")}
        BY <1>1 DEF MigrateJobsFromWorker
      <3>2. jobs'[j] # jobs[j] => jobs[j].status \in ActiveStatus
        BY <1>1 DEF MigrateJobsFromWorker, ActiveJobs, Owns, Active
      <3>3. jobs'[j] # jobs[j] => GoodStep(jobs[j], Migrated(jobs[j]))
                                  /\ GoodStep(jobs[j], Failed(jobs[j], "WORKER_CRASH"))
        BY <3>0, <3>2, MigratedRow, FailedRow DEF FailureType
      <3> QED
        BY <3>0, <3>1, <3>3, SameRow
    <2>2. RowsGood
      <3>1. jobs' = [j \in Jobs |-> jobs'[j]]
        BY <1>1 DEF MigrateJobsFromWorker
      <3> QED
        BY <2>1, <3>1, ManyRows
    <2>3. EventsGood
      <3>1. ASSUME NEW j \in Jobs PROVE EventOK(events'[j])
        <4>1. events[j] \in EventRow /\ EventOK(events[j])
          BY DEF StoreInv
        <4>2. \/ events'[j] = events[j]
              \/ /\ ~(events[j].crash >= MaxRetryCount)
                 /\ events'[j] = [events[j] EXCEPT !.crash = @ + 1, !.last = "heartbeat_timeout"]
          BY <1>1 DEF MigrateJobsFromWorker
        <4> QED
          BY <4>1, <4>2, CrashEvent
      <3>2. events' = [j \in Jobs |-> events'[j]]
        BY <1>1 DEF MigrateJobsFromWorker
      <3> QED
        BY <3>1, <3>2 DEF EventsGood, EventOK
    <2> QED
      BY <1>1, <2>2, <2>3, SameWorkers DEF MigrateJobsFromWorker
  <1>2. ASSUME NEW S \in SUBSET Jobs, AssignPendingJobsToWorker(w, S)
        PROVE  RowsGood /\ EventsGood /\ WorkersGood
    <2>1. ASSUME NEW j \in Jobs PROVE GoodStep(jobs[j], jobs'[j])
      <3>0. RowOK(jobs[j])
        BY DEF StoreInv
      <3>1. jobs'[j] = IF j \in S THEN Claimed(jobs[j], w) ELSE jobs[j]
        BY <1>2 DEF AssignPendingJobsToWorker
      <3>2. j \in S => jobs[j].status = "pending"
        BY <1>2 DEF AssignPendingJobsToWorker, Claimable, Pending
      <3> QED
        BY <3>0, <3>1, <3>2, ClaimedRow, SameRow
    <2>2. RowsGood
      <3>1. jobs' = [j \in Jobs |-> jobs'[j]]
        BY <1>2 DEF AssignPendingJobsToWorker
      <3> QED
        BY <2>1, <3>1, ManyRows
    <2>3. WorkersGood
      BY <1>2 DEF AssignPendingJobsToWorker, StoreInv, WorkersGood, WorkerRow
    <2> QED
      BY <1>2, <2>2, <2>3, SameEvents DEF AssignPendingJobsToWorker
  <1>3. ASSUME NEW v \in Workers, NEW r \in WorkerRow, workers' = [workers EXCEPT ![v] = r]
        PROVE  WorkersGood
    BY <1>3 DEF StoreInv, WorkersGood
  <1>4. workers[w] \in WorkerRow
    BY DEF StoreInv
  <1>5. CASE CreateOrUpdateWorker(w)
    <2>1. [status |-> "idle", hb |-> "fresh", evicted |-> workers[w].evicted] \in WorkerRow
      BY <1>4 DEF WorkerRow
    <2>2. NoWorker \in WorkerRow
      BY DEF NoWorker, WorkerRow
    <2>3. WorkersGood
      BY <1>5, <2>1, <2>2 DEF CreateOrUpdateWorker, StoreInv, WorkersGood
    <2> QED
      BY <1>5, <2>3, SameRows, SameEvents DEF CreateOrUpdateWorker
  <1>6. CASE UpdateWorkerHeartbeat(w)
    <2>1. [workers[w] EXCEPT !.hb = "fresh"] \in WorkerRow
      BY <1>4 DEF WorkerRow
    <2> QED
      BY <1>3, <1>6, <2>1, SameRows, SameEvents DEF UpdateWorkerHeartbeat
  <1>7. CASE HeartbeatExpires(w)
    <2>1. [workers[w] EXCEPT !.hb = "stale"] \in WorkerRow
      BY <1>4 DEF WorkerRow
    <2> QED
      BY <1>3, <1>7, <2>1, SameRows, SameEvents DEF HeartbeatExpires
  <1>8. CASE SetWorkerIdleIfNoActiveJobs(w)
    <2>1. [workers[w] EXCEPT !.status = "idle", !.hb = "fresh"] \in WorkerRow
      BY <1>4 DEF WorkerRow
    <2>2. workers' = [workers EXCEPT ![w] = [workers[w] EXCEPT !.status = "idle", !.hb = "fresh"]]
      BY <1>8 DEF SetWorkerIdleIfNoActiveJobs, StoreInv
    <2> QED
      BY <1>3, <1>8, <2>1, <2>2, SameRows, SameEvents DEF SetWorkerIdleIfNoActiveJobs
  <1>9. CASE RestoreWorkerStatusAfterFailedMigration(w)
    <2> DEFINE t == IF ActiveJobs(w) # {} THEN "busy" ELSE "idle"
    <2>1. t \in {"idle", "busy"}
      OBVIOUS
    <2>2. workers' = [workers EXCEPT ![w] = [workers[w] EXCEPT !.status = t]]
      BY <1>9 DEF RestoreWorkerStatusAfterFailedMigration
    <2> HIDE DEF t
    <2>3. [workers[w] EXCEPT !.status = t] \in WorkerRow
      BY <1>4, <2>1 DEF WorkerRow
    <2> QED
      BY <1>3, <1>9, <2>2, <2>3, SameRows, SameEvents
         DEF RestoreWorkerStatusAfterFailedMigration
  <1>10. CASE MarkWorkerEvicted(w)
    <2>1. [workers[w] EXCEPT !.evicted = TRUE] \in WorkerRow
      BY <1>4 DEF WorkerRow
    <2> QED
      BY <1>3, <1>10, <2>1, SameRows, SameEvents DEF MarkWorkerEvicted
  <1>11. CASE ClearWorkerEviction(w)
    <2>1. [workers[w] EXCEPT !.evicted = FALSE] \in WorkerRow
      BY <1>4 DEF WorkerRow
    <2> QED
      BY <1>3, <1>11, <2>1, SameRows, SameEvents DEF ClearWorkerEviction
  <1> QED
    BY <1>1, <1>2, <1>5, <1>6, <1>7, <1>8, <1>9, <1>10, <1>11 DEF WorkerNext

(* Every statement about many jobs or many workers does. *)
LEMMA SweepStep ==
    ASSUME StoreInv, SweepNext
    PROVE  RowsGood /\ EventsGood /\ WorkersGood
  <1>1. ASSUME NEW S, NEW T, NEW f \in FailureType, NEW g \in FailureType,
               f # "none", g # "none", FailAll(S, f, T, g),
               \A j \in S \cup T : jobs[j].status \in {"pending"} \cup ActiveStatus
        PROVE  RowsGood
    <2>1. ASSUME NEW j \in Jobs PROVE GoodStep(jobs[j], jobs'[j])
      <3>0. RowOK(jobs[j])
        BY DEF StoreInv
      <3>1. jobs'[j] \in {jobs[j], Failed(jobs[j], f), Failed(jobs[j], g)}
        BY <1>1 DEF FailAll
      <3>2. j \in S \cup T => GoodStep(jobs[j], Failed(jobs[j], f))
                               /\ GoodStep(jobs[j], Failed(jobs[j], g))
        BY <1>1, <3>0, FailedRow
      <3>3. j \notin S \cup T => jobs'[j] = jobs[j]
        BY <1>1 DEF FailAll
      <3> QED
        BY <3>0, <3>1, <3>2, <3>3, SameRow
    <2>2. jobs' = [j \in Jobs |-> jobs'[j]]
      BY <1>1 DEF FailAll
    <2> QED
      BY <2>1, <2>2, ManyRows
  <1>2. ASSUME NEW A \in SUBSET Jobs, NEW B \in SUBSET Jobs, FailStarvedPendingJobs(A, B)
        PROVE  RowsGood /\ EventsGood /\ WorkersGood
    <2>1. \A j \in StillStarved(A) \cup StillStarved(B) : jobs[j].status \in {"pending"} \cup ActiveStatus
      BY DEF StillStarved, Pending
    <2>2. "WORKER_CRASH" \in FailureType /\ "NO_WORKER_AVAILABLE" \in FailureType
      BY DEF FailureType
    <2>3. RowsGood
      BY <1>1, <1>2, <2>1, <2>2 DEF FailStarvedPendingJobs
    <2> QED
      BY <1>2, <2>3, SameEvents, SameWorkers DEF FailStarvedPendingJobs
  <1>3. ASSUME NEW A \in SUBSET Jobs, NEW B \in SUBSET Jobs, FailStuckActiveJobs(A, B)
        PROVE  RowsGood /\ EventsGood /\ WorkersGood
    <2>1. \A j \in StillStuck(A, TRUE) \cup StillStuck(B, FALSE) :
             jobs[j].status \in {"pending"} \cup ActiveStatus
      BY DEF StillStuck, Active
    <2>2. "WORKER_CRASH" \in FailureType /\ "INFRA" \in FailureType
      BY DEF FailureType
    <2>3. RowsGood
      BY <1>1, <1>3, <2>1, <2>2 DEF FailStuckActiveJobs
    <2> QED
      BY <1>3, <2>3, SameEvents, SameWorkers DEF FailStuckActiveJobs
  <1>4. NoWorker \in WorkerRow
    BY DEF NoWorker, WorkerRow
  <1>5. ASSUME NEW r \in WorkerRow PROVE [r EXCEPT !.status = "offline"] \in WorkerRow
    BY DEF WorkerRow
  <1>6. CASE MarkOfflineWorkersWithMigration
    <2>1. WorkersGood
      BY <1>5, <1>6 DEF MarkOfflineWorkersWithMigration, StoreInv, WorkersGood
    <2> QED
      BY <1>6, <2>1, SameRows, SameEvents DEF MarkOfflineWorkersWithMigration
  <1>7. ASSUME NEW S \in SUBSET Workers, RemoveOfflineWorkers(S)
        PROVE  RowsGood /\ EventsGood /\ WorkersGood
    <2>1. WorkersGood
      BY <1>4, <1>7 DEF RemoveOfflineWorkers, Without, StoreInv, WorkersGood
    <2> QED
      BY <1>7, <2>1, SameRows, SameEvents DEF RemoveOfflineWorkers
  <1>8. ASSUME NEW S \in SUBSET Workers, RecoverState(S)
        PROVE  RowsGood /\ EventsGood /\ WorkersGood
    <2>1. WorkersGood
      BY <1>4, <1>5, <1>8 DEF RecoverState, StoreInv, WorkersGood
    <2>2. ASSUME NEW j \in Jobs PROVE GoodStep(jobs[j], jobs'[j])
      BY <1>8, RequeuedRow, SameRow DEF RecoverState, Active, StoreInv
    <2>3. jobs' = [j \in Jobs |-> jobs'[j]]
      BY <1>8 DEF RecoverState
    <2> QED
      BY <1>8, <2>1, <2>2, <2>3, ManyRows, SameEvents DEF RecoverState
  <1> QED
    BY <1>2, <1>3, <1>6, <1>7, <1>8 DEF SweepNext

-----------------------------------------------------------------------------
(* The inductive invariant and what follows from it *)

(* Every step of the store, or a stutter, keeps the tables good. *)
LEMMA EveryStep ==
    ASSUME StoreInv, [Next]_storeVars
    PROVE  RowsGood /\ EventsGood /\ WorkersGood
  <1>1. CASE UNCHANGED storeVars
    BY <1>1, SameRows, SameEvents, SameWorkers DEF storeVars
  <1> QED
    BY <1>1, JobStep, WorkerStep, SweepStep DEF Next

(* StoreInv is an inductive invariant of the store. *)
THEOREM Invariance == Spec => []StoreInv
  <1>1. Init => StoreInv
    <2> SUFFICES ASSUME Init PROVE StoreInv
      OBVIOUS
    <2>1. NoJob \in JobRow
      BY DEF NoJob, JobRow, JobStatus, FailureType, Clock
    <2>2. RowOK(NoJob)
      <3>1. /\ NoJob.status = "none" /\ NoJob.failure = "none"
            /\ NoJob.retryable = FALSE /\ NoJob.finished = FALSE
        BY DEF NoJob
      <3>2. Retryable("none") = FALSE
        BY DEF Retryable
      <3> QED
        BY <2>1, <3>1, <3>2 DEF RowOK, ActiveStatus, TerminalStatus
    <2>3. NoWorker \in WorkerRow
      BY DEF NoWorker, WorkerRow
    <2>4. NoEvents \in EventRow /\ EventOK(NoEvents)
      BY DEF NoEvents, EventRow, EventOK
    <2> QED
      BY <2>1, <2>2, <2>3, <2>4 DEF Init, StoreInv
  <1>2. StoreInv /\ [Next]_storeVars => StoreInv'
    BY EveryStep DEF StoreInv, RowsGood, EventsGood, WorkersGood, GoodStep
  <1> QED
    BY <1>1, <1>2, PTL DEF Spec

(* Type correctness of the three tables. *)
THEOREM TypeCorrect == Spec => []TypeOK
  <1>1. StoreInv => TypeOK
    BY DEF StoreInv, TypeOK
  <1> QED
    BY <1>1, Invariance, PTL

(* No interleaving of the store's statements leaves an orphan row: a pending job
   that has a worker, or an active job that has none. *)
THEOREM NoOrphans == Spec => []OwnedIffActive
  <1>1. StoreInv => OwnedIffActive
    BY DEF StoreInv, RowOK, OwnedIffActive, Active
  <1> QED
    BY <1>1, Invariance, PTL

(* started_at is always that of the current attempt. *)
THEOREM StartedFresh == Spec => []StartedIsThisAttempt
  <1>1. StoreInv => StartedIsThisAttempt
    BY DEF StoreInv, RowOK, StartedIsThisAttempt
  <1> QED
    BY <1>1, Invariance, PTL

(* The verdict columns always agree with the status and with each other. *)
THEOREM VerdictsAgree == Spec => []VerdictConsistent
  <1>1. StoreInv => VerdictConsistent
    BY DEF StoreInv, RowOK, VerdictConsistent
  <1> QED
    BY <1>1, Invariance, PTL

(* Neither requeue budget is ever overdrawn. *)
THEOREM BudgetsKept == Spec => []RequeueBudgets
  <1>1. StoreInv => RequeueBudgets
    BY DEF StoreInv, EventOK, RequeueBudgets
  <1> QED
    BY <1>1, Invariance, PTL

(* A terminal verdict is never changed. *)
THEOREM VerdictsFinal == Spec => TerminalIsFinal
  <1>1. StoreInv /\ [Next]_storeVars
          => [\A j \in Jobs : Terminal(j) => jobs'[j] = jobs[j]]_storeVars
    BY EveryStep DEF RowsGood, GoodStep, Terminal
  <1> QED
    BY <1>1, Invariance, PTL DEF Spec, TerminalIsFinal

(* Published progress never goes back. *)
THEOREM ProgressNeverRewinds == Spec => ProgressMonotonic
  <1>1. StoreInv /\ [Next]_storeVars
          => [\A j \in Jobs : jobs'[j].progress >= jobs[j].progress]_storeVars
    BY EveryStep DEF RowsGood, GoodStep
  <1> QED
    BY <1>1, Invariance, PTL DEF Spec, ProgressMonotonic

-----------------------------------------------------------------------------
(* Audit and refinement *)

(* An active row turns pending only by Requeued or Migrated: no other transform
   has "pending" as its result, and a claim or an insertion does not start from
   an active row. *)
GoesBack(j) == Active(j) /\ jobs'[j].status = "pending"

(* The status each transform leaves. *)
LEMMA StatusAfter ==
    ASSUME NEW r \in JobRow
    PROVE  /\ Rejected(r).status = "failed" /\ Running(r).status = "running"
           /\ Cancelled(r).status = "cancelled"
           /\ \A f : Failed(r, f).status = "failed"
           /\ \A w : Claimed(r, w).status = "queued"
           /\ \A p : Progressed(r, p).status = r.status
           /\ Attached(r).status = r.status
           /\ \A s, f : Reported(r, s, f).status = s
  BY DEF Rejected, Running, Cancelled, Failed, Claimed, Progressed, Attached, Reported, JobRow

(* The statements of a server that runs: all but the recovery at its start. *)
Statement ==
    \/ \E j \in Jobs : JobNext(j)
    \/ \E w \in Workers : WorkerNext(w)
    \/ \E A, B \in SUBSET Jobs : FailStarvedPendingJobs(A, B) \/ FailStuckActiveJobs(A, B)
    \/ MarkOfflineWorkersWithMigration
    \/ \E S \in SUBSET Workers : RemoveOfflineWorkers(S)

Moves(j) == events[j].crash + events[j].timeout

Counted(j) == events'[j].crash + events'[j].timeout = events[j].crash + events[j].timeout + 1

AuditRow(j) ==
    \/ events'[j].crash + events'[j].timeout = events[j].crash + events[j].timeout + 1
    \/ \A w \in Workers : workers'[w].status \in {"absent", "offline"}

(* A step of the store is a statement or the recovery. *)
LEMMA StatementOrRecovery == Next <=> Statement \/ \E S \in SUBSET Workers : RecoverState(S)
  BY DEF Next, SweepNext, Statement

(* The two requeues, RecordJobTimeoutMigration and MigrateJobsFromWorker, count
   the event they write. *)
LEMMA CountedRequeue ==
    ASSUME StoreInv, Statement, NEW j \in Jobs, GoesBack(j)
    PROVE  Counted(j)
  <1> USE DEF GoesBack, Active
  <1>a. /\ jobs[j] \in JobRow /\ jobs \in [Jobs -> JobRow]
        /\ events[j] \in EventRow /\ events \in [Jobs -> EventRow]
        /\ workers \in [Workers -> WorkerRow]
    BY DEF StoreInv
  <1>b. events[j].crash \in Nat /\ events[j].timeout \in Nat
    BY <1>a DEF EventRow
  <1>0. /\ jobs[j] \in JobRow /\ jobs \in [Jobs -> JobRow]
        /\ events[j] \in EventRow /\ events \in [Jobs -> EventRow]
        /\ events[j].crash \in Nat /\ events[j].timeout \in Nat
        /\ workers \in [Workers -> WorkerRow]
    BY <1>a, <1>b
  <1>1. ASSUME NEW k \in Jobs, JobNext(k) PROVE Counted(j)
    <2>1. CASE RecordJobTimeoutMigration(k)
      <3>1. k = j
        BY <1>0, <2>1 DEF RecordJobTimeoutMigration, ActiveStatus
      <3>2. events'[j] = [events[j] EXCEPT !.timeout = @ + 1, !.last = "job_timeout"]
        BY <1>0, <2>1, <3>1 DEF RecordJobTimeoutMigration
      <3>3. events'[j].crash = events[j].crash /\ events'[j].timeout = events[j].timeout + 1
        BY <1>0, <3>2 DEF EventRow
      <3> QED
        BY <1>0, <3>3 DEF Counted
    <2>2. CASE ~RecordJobTimeoutMigration(k)
      <3>1. jobs'[j].status # "pending"
        <4>0. jobs[j].status # "pending" /\ jobs[j].status # "none"
          BY DEF ActiveStatus
        <4>1. k # j => jobs'[j] = jobs[j]
          BY <1>0, <1>1, <2>2
             DEF JobNext, CreateJobWithStreaming, CreateFailedJob, CancelJob, FailJob,
                 CreatedExpires, UpdatedExpires, StartedExpires, AssignJobToWorker,
                 UpdateJobRunningStatusWithOwner, UpdateJobProgressWithOwner,
                 UpdateJobOutputWithOwner, UpdateJobTerminalStatusWithOwner
        <4>2. CASE k = j
          <5>1. CASE CreateJobWithStreaming(j) \/ CreateFailedJob(j)
                     \/ \E w \in Workers : AssignJobToWorker(j, w)
            BY <4>0, <5>1 DEF CreateJobWithStreaming, CreateFailedJob, AssignJobToWorker,
                              Pending
          <5>2. CASE CancelJob(j) \/ FailJob(j)
            BY <1>0, <5>2, StatusAfter DEF CancelJob, FailJob
          <5>3. CASE CreatedExpires(j) \/ UpdatedExpires(j) \/ StartedExpires(j)
            <6>1. jobs'[j].status = jobs[j].status
              BY <1>0, <5>3 DEF CreatedExpires, UpdatedExpires, StartedExpires, JobRow
            <6> QED
              BY <4>0, <6>1
          <5>4. CASE \E w \in Workers : UpdateJobRunningStatusWithOwner(j, w)
            BY <1>0, <5>4, StatusAfter DEF UpdateJobRunningStatusWithOwner
          <5>5. CASE \E w \in Workers : \E p \in 1..MaxProgress :
                       UpdateJobProgressWithOwner(j, w, p)
            BY <1>0, <4>0, <5>5, StatusAfter DEF UpdateJobProgressWithOwner
          <5>6. CASE \E w \in Workers : \E s \in TerminalStatus : \E f \in ReportClass(s) :
                       UpdateJobTerminalStatusWithOwner(j, w, s, f)
            BY <1>0, <5>6, StatusAfter DEF UpdateJobTerminalStatusWithOwner, TerminalStatus
          <5>7. CASE \E w \in Workers : UpdateJobOutputWithOwner(j, w)
            BY <1>0, <4>0, <5>7, StatusAfter DEF UpdateJobOutputWithOwner
          <5> QED
            BY <1>1, <2>2, <4>2, <5>1, <5>2, <5>3, <5>4, <5>5, <5>6, <5>7 DEF JobNext
        <4> QED
          BY <4>0, <4>1, <4>2
      <3> QED
        BY <3>1
    <2> QED
      BY <2>1, <2>2
  <1>2. ASSUME NEW w \in Workers, WorkerNext(w) PROVE Counted(j)
    <2>1. CASE MigrateJobsFromWorker(w)
      <3>1. events'[j] = [events[j] EXCEPT !.crash = @ + 1, !.last = "heartbeat_timeout"]
        BY <1>0, <2>1 DEF MigrateJobsFromWorker, Failed, JobRow, ActiveStatus
      <3>2. events'[j].timeout = events[j].timeout /\ events'[j].crash = events[j].crash + 1
        BY <1>0, <3>1 DEF EventRow
      <3> QED
        BY <1>0, <3>2 DEF Counted
    <2>2. CASE ~MigrateJobsFromWorker(w)
      <3>1. jobs'[j].status # "pending"
        BY <1>0, <1>2, <2>2, StatusAfter
           DEF WorkerNext, CreateOrUpdateWorker, UpdateWorkerHeartbeat, HeartbeatExpires,
               SetWorkerIdleIfNoActiveJobs, RestoreWorkerStatusAfterFailedMigration,
               MarkWorkerEvicted, ClearWorkerEviction, AssignPendingJobsToWorker,
               ActiveStatus
      <3> QED
        BY <3>1
    <2> QED
      BY <2>1, <2>2
  <1>3. ASSUME NEW A \in SUBSET Jobs, NEW B \in SUBSET Jobs,
               FailStarvedPendingJobs(A, B) \/ FailStuckActiveJobs(A, B)
        PROVE  Counted(j)
    <2>1. ASSUME NEW S, NEW f, NEW T, NEW g, FailAll(S, f, T, g)
          PROVE  jobs'[j] = jobs[j] \/ jobs'[j].status = "failed"
      BY <1>0, <2>1, StatusAfter DEF FailAll
    <2>2. jobs'[j] = jobs[j] \/ jobs'[j].status = "failed"
      BY <1>3, <2>1 DEF FailStarvedPendingJobs, FailStuckActiveJobs
    <2> QED
      BY <2>2 DEF ActiveStatus
  <1>4. CASE MarkOfflineWorkersWithMigration \/ \E S \in SUBSET Workers : RemoveOfflineWorkers(S)
    <2>1. jobs' = jobs
      BY <1>4 DEF MarkOfflineWorkersWithMigration, RemoveOfflineWorkers
    <2> QED
      BY <2>1 DEF ActiveStatus
  <1> QED
    BY <1>1, <1>2, <1>3, <1>4 DEF Statement

(* Events are only ever added. *)
LEMMA EventsGrow ==
    ASSUME StoreInv, [Next]_storeVars, NEW j \in Jobs
    PROVE  Moves(j) \in Nat /\ Moves(j)' \in Nat /\ Moves(j)' >= Moves(j)
  <1>1. /\ events \in [Jobs -> EventRow] /\ events[j] \in EventRow
        /\ events[j].crash \in Nat /\ events[j].timeout \in Nat
    BY DEF StoreInv, EventRow
  <1>2. ASSUME NEW k \in Jobs, RecordJobTimeoutMigration(k) PROVE Moves(j)' \in {Moves(j), Moves(j) + 1}
    <2>1. \/ events'[j] = events[j]
          \/ events'[j] = [events[j] EXCEPT !.timeout = @ + 1, !.last = "job_timeout"]
      BY <1>1, <1>2 DEF RecordJobTimeoutMigration
    <2>2. /\ events'[j].crash = events[j].crash
          /\ events'[j].timeout \in {events[j].timeout, events[j].timeout + 1}
      BY <1>1, <2>1 DEF EventRow
    <2> QED
      BY <1>1, <2>2 DEF Moves
  <1>3. ASSUME NEW w \in Workers, MigrateJobsFromWorker(w) PROVE Moves(j)' \in {Moves(j), Moves(j) + 1}
    <2>1. \/ events'[j] = events[j]
          \/ events'[j] = [events[j] EXCEPT !.crash = @ + 1, !.last = "heartbeat_timeout"]
      BY <1>1, <1>3 DEF MigrateJobsFromWorker
    <2>2. /\ events'[j].timeout = events[j].timeout
          /\ events'[j].crash \in {events[j].crash, events[j].crash + 1}
      BY <1>1, <2>1 DEF EventRow
    <2> QED
      BY <1>1, <2>2 DEF Moves
  <1>4. ASSUME NEW k \in Jobs, JobNext(k), ~RecordJobTimeoutMigration(k) PROVE UNCHANGED events
    BY <1>4 DEF JobNext, CreateJobWithStreaming, CreateFailedJob, CancelJob, FailJob,
       CreatedExpires, UpdatedExpires, StartedExpires, AssignJobToWorker,
       UpdateJobRunningStatusWithOwner, UpdateJobProgressWithOwner,
       UpdateJobOutputWithOwner, UpdateJobTerminalStatusWithOwner
  <1>5. ASSUME NEW w \in Workers, WorkerNext(w), ~MigrateJobsFromWorker(w) PROVE UNCHANGED events
    BY <1>5 DEF WorkerNext, CreateOrUpdateWorker, UpdateWorkerHeartbeat, HeartbeatExpires,
       SetWorkerIdleIfNoActiveJobs, RestoreWorkerStatusAfterFailedMigration,
       MarkWorkerEvicted, ClearWorkerEviction, AssignPendingJobsToWorker
  <1>6. ASSUME SweepNext PROVE UNCHANGED events
    BY <1>6 DEF SweepNext, FailStarvedPendingJobs, FailStuckActiveJobs, FailAll,
       MarkOfflineWorkersWithMigration, RemoveOfflineWorkers, RecoverState
  <1>7. UNCHANGED events \/ Moves(j)' \in {Moves(j), Moves(j) + 1}
    BY <1>2, <1>3, <1>4, <1>5, <1>6 DEF Next, storeVars
  <1>8. Moves(j) \in Nat
    BY <1>1 DEF Moves
  <1>9. UNCHANGED events => Moves(j)' = Moves(j)
    BY DEF Moves
  <1> QED
    BY <1>7, <1>8, <1>9

(* Every requeue is audited, the restart recovery apart. *)
THEOREM RequeuesAudited == Spec => RequeueIsAudited
  <1>1. ASSUME StoreInv, Next, NEW j \in Jobs, GoesBack(j)
        PROVE  AuditRow(j)
    <2>1. ASSUME NEW S \in SUBSET Workers, RecoverState(S) PROVE AuditRow(j)
      BY <1>1, <2>1 DEF StoreInv, RecoverState, Present, NoWorker, WorkerRow, AuditRow
    <2> QED
      BY <1>1, <2>1, CountedRequeue, StatementOrRecovery DEF AuditRow, Counted
  <1>2. StoreInv /\ [Next]_storeVars
          => [\A j \in Jobs : GoesBack(j) => AuditRow(j)]_storeVars
    BY <1>1
  <1> QED
    BY <1>2, Invariance, PTL DEF Spec, RequeueIsAudited, GoesBack, AuditRow

(* The tables implement the abstract lifecycle: initial rows are new jobs, and
   every step is, job by job, a legal step of JobLifecycle or a stutter. *)
THEOREM StoreImplementsLifecycle == Spec => ImplementsLifecycle
  <1> DEFINE L == [j \in Jobs |-> LifeOf(jobs[j])]
  <1>1. Init => L = [j \in Jobs |-> Lifecycle!New]
    BY DEF Init, LifeOf, NoJob, ActiveStatus, TerminalStatus, Lifecycle!New
  <1>2. ASSUME NEW r, RowOK(r) PROVE LifeOf(r) \in Lifecycle!Lives
    <2>1. r.status \in JobStatus
      BY <1>2 DEF RowOK, JobRow
    <2>2. TerminalStatus = Lifecycle!Results
      BY DEF TerminalStatus, Lifecycle!Results
    <2> QED
      BY <1>2, <2>1, <2>2, LifeCases DEF JobStatus, Lifecycle!Lives
  <1>3. StoreInv /\ [Next]_storeVars => Lifecycle!Next
    <2> SUFFICES ASSUME StoreInv, [Next]_storeVars PROVE Lifecycle!Next
      OBVIOUS
    <2>1. \A j \in Jobs : GoodStep(jobs[j], jobs'[j])
      BY EveryStep DEF RowsGood
    <2>2. L' \in [Jobs -> Lifecycle!Lives]
      BY <1>2, <2>1 DEF GoodStep
    <2>3. \A j \in Jobs : Lifecycle!LegalStep(L[j], L'[j])
      BY <2>1 DEF GoodStep
    <2> QED
      BY <2>2, <2>3 DEF Lifecycle!Next
  <1>4. Init => Lifecycle!Init
    BY <1>1 DEF Lifecycle!Init
  <1>5. StoreInv /\ [Next]_storeVars => [Lifecycle!Next]_L
    BY <1>3
  <1> QED
    BY <1>4, <1>5, Invariance, PTL DEF Spec, ImplementsLifecycle, Lifecycle!Spec
=============================================================================
