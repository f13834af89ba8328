------------------------------ MODULE Cluster ------------------------------
(***************************************************************************)
(* The processes of an rffmpeg cluster around the tables of JobStore: the  *)
(* scheduler goroutine, the worker health monitor, the HTTP handlers and   *)
(* the worker processes.  Whatever the code reads in one statement and     *)
(* acts on in a later one (a sweep's scan, the worker a job was matched    *)
(* with, the check before a pull's claim, a heartbeat's answer) is kept    *)
(* here between two steps, so other processes run in between.              *)
(***************************************************************************)
EXTENDS JobStore, Sequences

CONSTANTS
    Tiers,       \* Tiers[j]: workers with the requested encoder, then with each
                 \* compatible one in priority order; <<Workers>> if none requested
    Faults,      \* the kinds of fault that may happen
    Expiring,    \* the job clocks that may run out
    MaxFaults,   \* bound: how many faults, server restarts apart
    MaxRestarts  \* bound: how many server restarts

FaultKinds == {"crash", "stop", "late", "loss", "dberror", "evict"}

ASSUME ClusterAssumption ==
    /\ Tiers \in [Jobs -> Seq(SUBSET Workers)]
    /\ Faults \subseteq FaultKinds
    /\ Expiring \subseteq {"created", "updated", "started"}
    /\ MaxFaults \in Nat /\ MaxRestarts \in Nat
ASSUME FiniteAssumption == IsFiniteSet(Jobs)

VARIABLES
    sched,    \* what the scheduler goroutine has read and will act on
    mon,      \* mon[w]: what the monitor still has to do for w in this tick
    pulling,  \* workers whose pull passed PullWorkerJobs' checks
    idleHook, \* workers a terminal report is about to set idle
    admitted, \* submissions past their worker checks, not inserted yet
    proc,     \* proc[w]: "down", "up" or "stopping" (SIGTERM received)
    exec,     \* exec[w][j]: how far w's processJob is with j (activeJobs)
    doomed,   \* doomed[w]: jobs whose context w has cancelled
    hbReply,  \* hbReply[w]: cancelled_jobs on their way to w
    faults, restarts

serverVars  == <<sched, mon, pulling, idleHook, admitted>>
workerVars  == <<proc, exec, doomed, hbReply>>
boundVars   == <<faults, restarts>>
clusterVars == <<storeVars, serverVars, workerVars, boundVars>>

Idle == [op |-> "idle", job |-> NULL, worker |-> NULL, A |-> {}, B |-> {}]
NoExec == [j \in Jobs |-> "none"]

ClusterInit ==
    /\ Init
    /\ sched = Idle /\ mon = [w \in Workers |-> "none"]
    /\ pulling = {} /\ idleHook = {} /\ admitted = {}
    /\ proc = [w \in Workers |-> "down"]
    /\ exec = [w \in Workers |-> NoExec]
    /\ doomed = [w \in Workers |-> {}]
    /\ hbReply = [w \in Workers |-> {}]
    /\ faults = 0 /\ restarts = 0

Fault(kind) == kind \in Faults /\ faults < MaxFaults /\ faults' = faults + 1
NoFault     == UNCHANGED faults

-----------------------------------------------------------------------------
(* What the queries return *)

(* GetLiveSchedulableWorkers, and the idle ones GetIdleWorkers* adds *)
LiveSchedulable ==
    {w \in Workers : /\ workers[w].status \in {"idle", "busy"}
                     /\ ~workers[w].evicted /\ workers[w].hb = "fresh"}
IdleWorkers(W) == {w \in W \cap LiveSchedulable : workers[w].status = "idle"}

(* mutant: the least loaded worker, free slot or not *)
BestOfAnyLoad(W) ==
    {w \in W : \A v \in W : Cardinality(ActiveJobs(w)) <= Cardinality(ActiveJobs(v))}

(* selectBestWorker: of the workers with a free slot, those with the fewest
   active jobs, then the fewest completed ones *)
BestOf(W) ==
    LET load(w) == Cardinality(ActiveJobs(w))
        done(w) == Cardinality(CompletedJobs(w))
        free    == {w \in W : load(w) < MaxConcurrent[w]}
    IN  {w \in free : \A v \in free :
           load(w) < load(v) \/ (load(w) = load(v) /\ done(w) <= done(v))}

(* the requested encoder's workers if any is idle, full or not; otherwise the
   first compatible encoder that has a worker with a free slot *)
Eligible(j) ==
    LET idle(i) == IdleWorkers(Tiers[j][i])
    IN  {w \in Workers : \E i \in DOMAIN Tiers[j] :
           /\ w \in BestOf(idle(i))
           /\ i > 1 => idle(1) = {}
           /\ \A k \in 1..(i - 1) : BestOf(idle(k)) = {}}

Capable(j) == UNION {Tiers[j][i] : i \in DOMAIN Tiers[j]}

-----------------------------------------------------------------------------
(* Client requests *)

SubmitJob(j) ==
    /\ jobs[j].status = "none" /\ j \notin admitted
    /\ LiveSchedulable \cap Capable(j) # {}
    /\ admitted' = admitted \cup {j}
    /\ UNCHANGED <<storeVars, sched, mon, pulling, idleHook, workerVars, boundVars>>

InsertJob(j) ==
    /\ j \in admitted
    /\ CreateJobWithStreaming(j)
    /\ admitted' = admitted \ {j}
    /\ UNCHANGED <<sched, mon, pulling, idleHook, workerVars, boundVars>>

(* workers are there, but none, not even a stale one, has a fitting encoder *)
FailAsEncoderUnavailable(j) ==
    /\ j \notin admitted
    /\ LET schedulable == {w \in Workers : workers[w].status \in {"idle", "busy"}
                                           /\ ~workers[w].evicted}
       IN  schedulable # {} /\ schedulable \cap Capable(j) = {}
    /\ CreateFailedJob(j)
    /\ UNCHANGED <<serverVars, workerVars, boundVars>>

ClientCancel(j) == CancelJob(j) /\ UNCHANGED <<serverVars, workerVars, boundVars>>

-----------------------------------------------------------------------------
(* The scheduler goroutine: one operation at a time, each in two steps *)

schedRest == <<mon, pulling, idleHook, admitted, workerVars, boundVars>>

SelectWorker(j) ==
    /\ sched = Idle /\ Pending(j)
    /\ \E w \in Eligible(j) :
         sched' = [Idle EXCEPT !.op = "assign", !.job = j, !.worker = w]
    /\ UNCHANGED <<storeVars, schedRest>>

(* mutant: the assignment trusts the scan that found the job pending *)
ScheduleWithoutRecheck ==
    /\ sched.op = "assign"
    /\ IF Terminal(sched.job) THEN UNCHANGED storeVars
       ELSE /\ jobs' = [jobs EXCEPT ![sched.job] = Claimed(@, sched.worker)]
            /\ UNCHANGED <<workers, events>>
    /\ sched' = Idle
    /\ UNCHANGED schedRest

(* the assignment, or sql.ErrNoRows if the job is no longer pending *)
ScheduleJob ==
    /\ sched.op = "assign"
    /\ \/ AssignJobToWorker(sched.job, sched.worker)
       \/ ~Pending(sched.job) /\ UNCHANGED storeVars
    /\ sched' = Idle
    /\ UNCHANGED schedRest

GetTimedOutJobs ==
    LET timedOut == {j \in Jobs : jobs[j].status = "running" /\ jobs[j].started = "expired"}
    IN  /\ sched = Idle /\ timedOut # {}
        /\ sched' = [Idle EXCEPT !.op = "timeouts", !.A = timedOut]
        /\ UNCHANGED <<storeVars, schedRest>>

(* the job may have left running, or even be running again, since the scan *)
CheckTimeout(j) ==
    /\ sched.op = "timeouts" /\ j \in sched.A
    /\ \/ RecordJobTimeoutMigration(j)
       \/ FailJob(j)
       \/ /\ IF events[j].timeout < MaxTimeoutRetries
             THEN jobs[j].status # "running" ELSE Terminal(j)
          /\ UNCHANGED storeVars
    /\ sched' = IF sched.A = {j} THEN Idle ELSE [sched EXCEPT !.A = @ \ {j}]
    /\ UNCHANGED schedRest

(* mutant: only jobs whose worker row is gone count as stuck *)
OnlyMissingWorkers ==
    LET stuck == {j \in Jobs : Active(j) /\ jobs[j].updated = "expired" /\ MissingWorker(j)}
    IN  /\ sched = Idle /\ stuck # {}
        /\ sched' = [Idle EXCEPT !.op = "stuck", !.A = stuck]
        /\ UNCHANGED <<storeVars, schedRest>>

GetStuckActiveJobs ==
    LET stuck == {j \in Jobs : /\ Active(j) /\ jobs[j].updated = "expired"
                               /\ jobs[j].status = "queued" \/ MissingWorker(j)}
        crashed == {j \in stuck : MissingWorker(j) \/ OfflineWorker(j)}
    IN  /\ sched = Idle /\ stuck # {}
        /\ sched' = [Idle EXCEPT !.op = "stuck", !.A = crashed, !.B = stuck \ crashed]
        /\ UNCHANGED <<storeVars, schedRest>>

SweepStuckJobs ==
    /\ sched.op = "stuck"
    /\ FailStuckActiveJobs(sched.A, sched.B)
    /\ sched' = Idle
    /\ UNCHANGED schedRest

GetStarvedPendingJobs ==
    LET starved == {j \in Jobs : Pending(j) /\ jobs[j].created = "expired"}
        crashed == {j \in starved : events[j].last = "heartbeat_timeout"}
    IN  /\ sched = Idle /\ LiveSchedulable = {} /\ starved # {}
        /\ sched' = [Idle EXCEPT !.op = "starve", !.A = crashed, !.B = starved \ crashed]
        /\ UNCHANGED <<storeVars, schedRest>>

CheckNoWorkerStarvation ==
    /\ sched.op = "starve"
    /\ FailStarvedPendingJobs(sched.A, sched.B)
    /\ sched' = Idle
    /\ UNCHANGED schedRest

SchedulerNext ==
    \/ \E j \in Jobs : SelectWorker(j) \/ CheckTimeout(j)
    \/ ScheduleJob \/ GetTimedOutJobs \/ GetStuckActiveJobs \/ SweepStuckJobs
    \/ GetStarvedPendingJobs \/ CheckNoWorkerStarvation

-----------------------------------------------------------------------------
(* The health monitor: one tick marks workers offline, migrates the jobs of each
   worker it marked, then removes rows and judges slow workers *)

monRest == <<sched, pulling, idleHook, admitted, workerVars, restarts>>
TickDone == \A w \in Workers : mon[w] = "none"

CheckWorkers ==
    /\ TickDone
    /\ MarkOfflineWorkersWithMigration
    /\ mon' = [w \in Workers |-> IF w \in StaleWorkers THEN "migrate" ELSE "none"]
    /\ NoFault /\ UNCHANGED monRest

MonitorMigrate(w) ==
    /\ mon[w] = "migrate" /\ \A v \in Workers : mon[v] # "restore"
    /\ \/ /\ MigrateJobsFromWorker(w)
          /\ mon' = [mon EXCEPT ![w] = "none"]
          /\ NoFault
       \/ /\ Fault("dberror")
          /\ mon' = [mon EXCEPT ![w] = "restore"]
          /\ UNCHANGED storeVars
    /\ UNCHANGED monRest

MonitorRestore(w) ==
    /\ mon[w] = "restore"
    /\ \/ RestoreWorkerStatusAfterFailedMigration(w) /\ NoFault
       \/ workers[w].status # "offline" /\ UNCHANGED storeVars /\ NoFault
       \/ Fault("dberror") /\ UNCHANGED storeVars
    /\ mon' = [mon EXCEPT ![w] = "none"]
    /\ UNCHANGED monRest

MonitorRemove(S) ==
    /\ TickDone /\ RemoveOfflineWorkers(S)
    /\ NoFault /\ UNCHANGED <<mon, monRest>>

MonitorEvict(w) ==
    /\ TickDone /\ ~workers[w].evicted /\ Fault("evict") /\ MarkWorkerEvicted(w)
    /\ UNCHANGED <<mon, monRest>>

(* the monitor on recovery, or an operator at any moment *)
ClearEviction(w) == ClearWorkerEviction(w) /\ NoFault /\ UNCHANGED <<mon, monRest>>

MonitorNext ==
    \/ CheckWorkers
    \/ \E w \in Workers : MonitorMigrate(w) \/ MonitorRestore(w)
                          \/ MonitorEvict(w) \/ ClearEviction(w)
    \/ \E S \in SUBSET Workers : MonitorRemove(S)

-----------------------------------------------------------------------------
(* Workers: registration, heartbeat, pull *)

workerRest == <<sched, mon, admitted, restarts>>

(* a restarted worker process does not overtake its old pull request *)
WorkerStart(w) ==
    /\ proc[w] = "down" /\ w \notin pulling
    /\ CreateOrUpdateWorker(w)
    /\ proc' = [proc EXCEPT ![w] = "up"]
    /\ NoFault /\ UNCHANGED <<pulling, idleHook, exec, doomed, hbReply, workerRest>>

(* mutant: only a deleted row makes the worker register again *)
ReregisterOnlyIfAbsent(w) ==
    /\ proc[w] = "up"
    /\ workers[w].status = "absent"
    /\ CreateOrUpdateWorker(w)
    /\ NoFault /\ UNCHANGED <<pulling, idleHook, workerVars, workerRest>>

(* told by a 404 or 409 that its row is gone or offline, after enough pulls were
   refused because it is evicted, or after a request that failed on the way *)
Reregister(w) ==
    /\ proc[w] = "up"
    /\ \/ (workers[w].status \in {"absent", "offline"} \/ workers[w].evicted) /\ NoFault
       \/ Fault("loss")
    /\ CreateOrUpdateWorker(w)
    /\ UNCHANGED <<pulling, idleHook, workerVars, workerRest>>

Executing(w) == {j \in Jobs : exec[w][j] # "none"}

(* the cancel notification of the heartbeat response *)
CancelList(w) ==
    {j \in Executing(w) : \/ jobs[j].status \in {"cancelled", "pending"}
                          \/ jobs[j].worker \notin {NULL, w}}

WorkerHeartbeat(w) ==
    /\ proc[w] = "up"
    /\ UpdateWorkerHeartbeat(w)
    /\ hbReply' = [hbReply EXCEPT ![w] = @ \cup CancelList(w)]
    /\ NoFault /\ UNCHANGED <<pulling, idleHook, proc, exec, doomed, workerRest>>

(* cancels whatever activeJobs holds under that id when the answer arrives *)
HeartbeatReply(w, j) ==
    /\ proc[w] # "down" /\ j \in hbReply[w]
    /\ hbReply' = [hbReply EXCEPT ![w] = @ \ {j}]
    /\ doomed' = [doomed EXCEPT ![w] = @ \cup ({j} \cap Executing(w))]
    /\ NoFault /\ UNCHANGED <<storeVars, pulling, idleHook, proc, exec, workerRest>>

(* a streaming job also polls its own status, with the same predicate *)
WatchStreamingJobCancellation(w, j) ==
    /\ proc[w] # "down" /\ j \in CancelList(w) \ doomed[w]
    /\ doomed' = [doomed EXCEPT ![w] = @ \cup {j}]
    /\ NoFault /\ UNCHANGED <<storeVars, pulling, idleHook, proc, exec, hbReply, workerRest>>

PullCheck(w) ==
    /\ proc[w] = "up" /\ w \notin pulling
    /\ workers[w].status \in {"idle", "busy"} /\ ~workers[w].evicted
    /\ pulling' = pulling \cup {w}
    /\ NoFault /\ UNCHANGED <<storeVars, idleHook, workerVars, workerRest>>

(* Every job queued for w and the newly claimed ones are returned; w starts
   those it is not processing already, unless the answer is lost. *)
PullWorkerJobs(w, S) ==
    LET answer == S \cup {j \in Jobs : jobs[j].status = "queued" /\ jobs[j].worker = w}
        begun  == answer \ Executing(w)
    IN  /\ w \in pulling
        /\ AssignPendingJobsToWorker(w, S)
        /\ pulling' = pulling \ {w}
        /\ \/ /\ proc[w] # "down" /\ NoFault
              /\ exec' = [exec EXCEPT ![w] =
                   [j \in Jobs |-> IF j \in begun THEN "prep" ELSE @[j]]]
              /\ doomed' = [doomed EXCEPT ![w] =
                   IF proc[w] = "stopping" THEN @ \cup begun ELSE @]
           \/ /\ IF proc[w] = "down" THEN NoFault ELSE Fault("loss")
              /\ UNCHANGED <<exec, doomed>>
        /\ UNCHANGED <<idleHook, proc, hbReply, workerRest>>

-----------------------------------------------------------------------------
(* Workers: processJob and its reports *)

(* A refused or unanswered running report is followed by a failure report. *)
ReportRunning(w, j) ==
    LET to(step) == exec' = [exec EXCEPT ![w][j] = step]
    IN  /\ exec[w][j] = "prep"
        /\ \/ /\ UpdateJobRunningStatusWithOwner(j, w)
              /\ \/ NoFault /\ to("run")
                 \/ Fault("loss") /\ to("abort")
           \/ /\ IF Owns(j, w) THEN Fault("loss") ELSE NoFault
              /\ to("abort") /\ UNCHANGED storeVars
        /\ UNCHANGED <<pulling, idleHook, proc, doomed, hbReply, workerRest>>

ReportProgress(w, j, p) ==
    /\ exec[w][j] = "run"
    /\ UpdateJobProgressWithOwner(j, w, p)
    /\ NoFault /\ UNCHANGED <<pulling, idleHook, workerVars, workerRest>>

(* A cache hit or a probe uploads before the running report, a run after it, and
   "completed" follows.  Not answered, the upload counts as failed: the job is
   reported so, but after a cache hit it is transcoded. *)
UploadOutput(w, j) ==
    LET to(step) == exec' = [exec EXCEPT ![w][j] = step]
    IN  /\ exec[w][j] \in {"prep", "run"}
        /\ UpdateJobOutputWithOwner(j, w)
        /\ \/ NoFault /\ to("sent")
           \/ Fault("loss") /\ to("abort")
           \/ Fault("loss") /\ exec[w][j] = "prep" /\ UNCHANGED exec
        /\ UNCHANGED <<pulling, idleHook, proc, doomed, hbReply, workerRest>>

(* how processJob may end: a cache hit, a probe's result or a failure before
   ffmpeg runs, a timeout too after it; a cancelled context adds "cancelled" *)
Outcome(step, s, f) ==
    \/ step = "prep" /\ s \in {"completed", "failed"} /\ f \in ReportClass(s)
    \/ step = "run" /\ s # "cancelled" /\ f \in ReportClass(s)
    \/ step = "sent" /\ s = "completed" /\ f \in ReportClass(s)
    \/ step = "abort" /\ s = "failed" /\ f = "INFRA"

(* the job leaves activeJobs whatever becomes of the report *)
ReportTerminal(w, j, s, f) ==
    /\ exec[w][j] # "none"
    /\ Outcome(exec[w][j], s, f) \/ (j \in doomed[w] /\ s = "cancelled" /\ f = NULL)
    /\ \/ /\ UpdateJobTerminalStatusWithOwner(j, w, s, f)
          /\ idleHook' = idleHook \cup {w} /\ NoFault
       \/ /\ IF Owns(j, w) THEN Fault("loss") ELSE NoFault
          /\ UNCHANGED <<storeVars, idleHook>>
    /\ exec' = [exec EXCEPT ![w][j] = "none"]
    /\ doomed' = [doomed EXCEPT ![w] = @ \ {j}]
    /\ UNCHANGED <<pulling, proc, hbReply, workerRest>>

(* the second statement of UpdateJob, after an accepted terminal report *)
SetIdleAfterReport(w) ==
    /\ w \in idleHook
    /\ \/ SetWorkerIdleIfNoActiveJobs(w)
       \/ (workers[w].status # "busy" \/ ActiveJobs(w) # {}) /\ UNCHANGED storeVars
    /\ idleHook' = idleHook \ {w}
    /\ NoFault /\ UNCHANGED <<pulling, workerVars, workerRest>>

Gone(w) == /\ exec' = [exec EXCEPT ![w] = NoExec]
           /\ doomed' = [doomed EXCEPT ![w] = {}]
           /\ hbReply' = [hbReply EXCEPT ![w] = {}]
           /\ proc' = [proc EXCEPT ![w] = "down"]

WorkerCrash(w) ==
    /\ proc[w] = "up" /\ Fault("crash") /\ Gone(w)
    /\ UNCHANGED <<storeVars, pulling, idleHook, workerRest>>

(* SIGTERM cancels the context of every job; main does not wait for them *)
WorkerStop(w) ==
    /\ proc[w] = "up" /\ Fault("stop")
    /\ proc' = [proc EXCEPT ![w] = "stopping"]
    /\ doomed' = [doomed EXCEPT ![w] = Executing(w)]
    /\ UNCHANGED <<storeVars, pulling, idleHook, exec, hbReply, workerRest>>

ProcessExit(w) ==
    /\ proc[w] = "stopping" /\ Gone(w)
    /\ NoFault /\ UNCHANGED <<storeVars, pulling, idleHook, workerRest>>

WorkerProcNext(w) ==
    \/ WorkerStart(w) \/ Reregister(w) \/ WorkerHeartbeat(w) \/ PullCheck(w)
    \/ \E S \in SUBSET Jobs : PullWorkerJobs(w, S)
    \/ SetIdleAfterReport(w) \/ WorkerCrash(w) \/ WorkerStop(w) \/ ProcessExit(w)
    \/ \E j \in Jobs :
         \/ HeartbeatReply(w, j) \/ WatchStreamingJobCancellation(w, j) \/ ReportRunning(w, j)
         \/ UploadOutput(w, j)
         \/ \E p \in 1..MaxProgress : ReportProgress(w, j, p)
         \/ \E s \in TerminalStatus : \E f \in ReportClass(s) : ReportTerminal(w, j, s, f)

-----------------------------------------------------------------------------
(* The server process dies and comes back: handlers, scheduler and monitor start
   over, the workers keep running *)

ServerRestart(S) ==
    /\ restarts < MaxRestarts
    /\ RecoverState(S)
    /\ sched' = Idle /\ mon' = [w \in Workers |-> "none"]
    /\ pulling' = {} /\ idleHook' = {} /\ admitted' = {}
    /\ restarts' = restarts + 1
    /\ UNCHANGED <<workerVars, faults>>

(* The starvation verdict reuses the cutoff of its scan: a clock restarted since
   does not run past it. *)
JobClock(j) ==
    /\ \/ "created" \in Expiring /\ sched.op # "starve" /\ CreatedExpires(j)
       \/ "updated" \in Expiring /\ UpdatedExpires(j)
       \/ "started" \in Expiring /\ StartedExpires(j)
    /\ UNCHANGED <<serverVars, workerVars, boundVars>>

(* a running worker beats in time unless something delays it *)
HeartbeatClock(w) ==
    /\ HeartbeatExpires(w)
    /\ IF proc[w] = "up" THEN Fault("late") ELSE NoFault
    /\ UNCHANGED <<serverVars, workerVars, restarts>>

ClusterNext ==
    \/ \E j \in Jobs : SubmitJob(j) \/ InsertJob(j) \/ FailAsEncoderUnavailable(j)
                       \/ ClientCancel(j) \/ JobClock(j)
    \/ SchedulerNext
    \/ MonitorNext
    \/ \E w \in Workers : WorkerProcNext(w) \/ HeartbeatClock(w)
    \/ \E S \in SUBSET Workers : ServerRestart(S)

ClusterSpec == ClusterInit /\ [][ClusterNext]_clusterVars

-----------------------------------------------------------------------------
(* Fairness.  Timers keep firing and the goroutines' loops keep turning: a scan
   that stays due is eventually chosen although the loop serves other ticks in
   between (strong fairness), what it then does is finished (weak fairness).  A
   live worker keeps polling and re-registering.  Nothing is assumed of ffmpeg:
   an execution may hang for ever, and a report may never be sent. *)
Fairness ==
    /\ \A j \in Jobs : /\ WF_clusterVars(JobClock(j)) /\ WF_clusterVars(InsertJob(j))
                       /\ WF_clusterVars(CheckTimeout(j))
    /\ WF_clusterVars(ScheduleJob)
    /\ SF_clusterVars(GetTimedOutJobs)
    /\ SF_clusterVars(GetStuckActiveJobs) /\ WF_clusterVars(SweepStuckJobs)
    /\ SF_clusterVars(GetStarvedPendingJobs) /\ WF_clusterVars(CheckNoWorkerStarvation)
    /\ SF_clusterVars(CheckWorkers)
    /\ \A w \in Workers :
         /\ WF_clusterVars(MonitorMigrate(w)) /\ WF_clusterVars(MonitorRestore(w))
         /\ WF_clusterVars(proc[w] # "up" /\ HeartbeatClock(w))
         /\ WF_clusterVars(Reregister(w)) /\ WF_clusterVars(ProcessExit(w))
         /\ WF_clusterVars(PullCheck(w))
         /\ WF_clusterVars(\E S \in SUBSET Jobs : PullWorkerJobs(w, S))

FairSpec == ClusterSpec /\ Fairness

-----------------------------------------------------------------------------
(* Properties that hold *)

SchedulerTypeOK ==
    /\ sched \in [op : {"idle", "assign", "timeouts", "stuck", "starve"},
                  job : Jobs \cup {NULL}, worker : Workers \cup {NULL},
                  A : SUBSET Jobs, B : SUBSET Jobs]
    /\ sched.op = "assign" => sched.job \in Jobs /\ sched.worker \in Workers
HandlerTypeOK ==
    /\ mon \in [Workers -> {"none", "migrate", "restore"}]
    /\ pulling \subseteq Workers /\ idleHook \subseteq Workers /\ admitted \subseteq Jobs
ProcessTypeOK ==
    /\ proc \in [Workers -> {"down", "up", "stopping"}]
    /\ exec \in [Workers -> [Jobs -> {"none", "prep", "run", "sent", "abort"}]]
    /\ doomed \in [Workers -> SUBSET Jobs] /\ hbReply \in [Workers -> SUBSET Jobs]
BoundsOK == faults \in 0..MaxFaults /\ restarts \in 0..MaxRestarts

(* What each process remembers between two steps is of the shape it reads. *)
ClusterTypeOK ==
    TypeOK /\ SchedulerTypeOK /\ HandlerTypeOK /\ ProcessTypeOK /\ BoundsOK

(* The scheduler's count-then-assign is not one transaction, so a pull can take
   the slot it counted on; but the scheduler has a single assignment in flight,
   so a worker is never given more than one job above its max_concurrent. *)
OvercommitAtMostOne ==
    \A w \in Workers : Cardinality(ActiveJobs(w)) <= MaxConcurrent[w] + 1

(* Several workers process the same job only after it was requeued: every extra
   executor is accounted for by a migration event (timeout or worker loss) or by
   a server restart.  Pulls and assignments racing each other never hand one
   attempt to two workers. *)
DoubleExecutionIsAudited ==
    \A j \in Jobs : Cardinality({w \in Workers : exec[w][j] # "none"})
                      <= 1 + events[j].crash + events[j].timeout + restarts

(* Every accepted submission ends in a terminal state, although workers crash or
   go silent, answers get lost, migrations fail, the server restarts and ffmpeg
   may hang for ever: one of the sweeps gets hold of every job. *)
EverySubmittedJobSettles == \A j \in Jobs : jobs[j].status # "none" ~> Terminal(j)

(* A live worker whose row went offline or was deleted gets it back. *)
LiveWorkerReturns ==
    \A w \in Workers : proc[w] = "up" ~> (proc[w] # "up" \/ workers[w].status \in {"idle", "busy"})

-----------------------------------------------------------------------------
(* What the documentation or a comment says and the code does not keep *)

(* README.md:200: a job held back by capacity is not executed above
   max_concurrent. *)
SlotsRespected ==
    \A w \in Workers : Cardinality(ActiveJobs(w)) <= MaxConcurrent[w]

(* README.md:1013: a worker's graceful exit cannot report cancelled, its jobs
   stay running until the heartbeat timeout migrates them.  So only the client's
   request cancels a job. *)
CancelledOnlyByClient ==
    [][\A j \in Jobs : (jobs'[j].status = "cancelled" /\ jobs[j].status # "cancelled")
                          => ClientCancel(j)]_clusterVars

(* handlers/workers.go:124: the heartbeat answer names every job the worker
   lists that is cancelled, requeued, reassigned or already terminal. *)
CancelListNamesTerminal ==
    \A w \in Workers : \A j \in Executing(w) : Terminal(j) => j \in CancelList(w)

(* scheduler.go:366: a job that requests an encoder no worker has must stay
   pending and is not assigned to an incapable worker. *)
OnlyCapableWorkersClaim ==
    \A j \in Jobs : Active(j) => jobs[j].worker \in Capable(j)
=============================================================================
