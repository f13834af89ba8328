--------------------------- MODULE ClusterProofs ---------------------------
(***************************************************************************)
(* Proofs about Cluster.  Every step of a scheduler, monitor, handler or   *)
(* worker process is one statement of the store or leaves the tables       *)
(* alone, provided that what the process remembers is well formed: the     *)
(* scheduler must hold a real job and worker when it assigns.  So the      *)
(* shape of the processes' memory is proved together with the refinement,  *)
(* and the store's theorems then hold of the cluster.                      *)
(***************************************************************************)
EXTENDS Cluster, JobStoreProofs, FiniteSetTheorems

ShapeOK == SchedulerTypeOK /\ HandlerTypeOK /\ ProcessTypeOK /\ BoundsOK

Recovered == restarts' = restarts + 1 /\ \E S \in SUBSET Workers : RecoverState(S)

StepOK == ShapeOK' /\ ([Statement]_storeVars \/ Recovered)

USE ClusterAssumption

-----------------------------------------------------------------------------
(* A scheduler with nothing in hand is well formed, whatever else happens. *)
LEMMA IdleShape == ASSUME sched' = Idle PROVE SchedulerTypeOK'
  BY DEF SchedulerTypeOK, Idle

(* Bounds: a fault is counted below its limit, or not at all. *)
LEMMA FaultBound ==
    ASSUME BoundsOK, UNCHANGED restarts, NoFault \/ \E k \in FaultKinds : Fault(k)
    PROVE  BoundsOK'
  BY DEF BoundsOK, NoFault, Fault

(* Client requests: submit, insert, reject, cancel, and the job clocks. *)
LEMMA ClientStep ==
    ASSUME ShapeOK, NEW j \in Jobs,
           SubmitJob(j) \/ InsertJob(j) \/ FailAsEncoderUnavailable(j)
             \/ ClientCancel(j) \/ JobClock(j)
    PROVE  StepOK
  <1> USE DEF ShapeOK, SchedulerTypeOK, HandlerTypeOK, ProcessTypeOK, BoundsOK,
              serverVars, workerVars, boundVars
  <1>1. CASE SubmitJob(j)
    <2>1. ShapeOK' /\ UNCHANGED storeVars
      BY <1>1 DEF SubmitJob
    <2> QED
      BY <2>1 DEF StepOK
  <1>2. CASE InsertJob(j)
    <2>1. ShapeOK'
      BY <1>2 DEF InsertJob
    <2>2. Statement
      BY <1>2 DEF InsertJob, Statement, JobNext
    <2> QED
      BY <2>1, <2>2 DEF StepOK
  <1>3. CASE FailAsEncoderUnavailable(j)
    <2>1. ShapeOK'
      BY <1>3 DEF FailAsEncoderUnavailable
    <2>2. Statement
      BY <1>3 DEF FailAsEncoderUnavailable, Statement, JobNext
    <2> QED
      BY <2>1, <2>2 DEF StepOK
  <1>4. CASE ClientCancel(j)
    <2>1. ShapeOK'
      BY <1>4 DEF ClientCancel
    <2>2. Statement
      BY <1>4 DEF ClientCancel, Statement, JobNext
    <2> QED
      BY <2>1, <2>2 DEF StepOK
  <1>5. CASE JobClock(j)
    <2>1. ShapeOK'
      BY <1>5 DEF JobClock
    <2>2. Statement
      BY <1>5 DEF JobClock, Statement, JobNext
    <2> QED
      BY <2>1, <2>2 DEF StepOK
  <1> QED
    BY <1>1, <1>2, <1>3, <1>4, <1>5

(* The scheduler goroutine: what it has scanned stays within the tables, so what
   it then does is a statement of the store. *)
LEMMA SchedulerStep == ASSUME ShapeOK, SchedulerNext PROVE StepOK
  <1>0. /\ SchedulerTypeOK
        /\ UNCHANGED schedRest => HandlerTypeOK' /\ ProcessTypeOK' /\ BoundsOK'
    BY DEF ShapeOK, HandlerTypeOK, ProcessTypeOK, BoundsOK, schedRest, workerVars, boundVars
  <1>1. ASSUME NEW j \in Jobs, SelectWorker(j) PROVE StepOK
    <2>1. PICK w \in Workers : sched' = [Idle EXCEPT !.op = "assign", !.job = j, !.worker = w]
      BY <1>1 DEF SelectWorker, Eligible
    <2>2. SchedulerTypeOK'
      BY <2>1 DEF SchedulerTypeOK, Idle
    <2> QED
      BY <1>0, <1>1, <2>2 DEF SelectWorker, StepOK, ShapeOK
  <1>2. CASE ScheduleJob
    <2>1. sched.job \in Jobs /\ sched.worker \in Workers
      BY <1>0, <1>2 DEF ScheduleJob, SchedulerTypeOK
    <2>2. Statement \/ UNCHANGED storeVars
      BY <1>2, <2>1 DEF ScheduleJob, Statement, JobNext
    <2> QED
      BY <1>0, <1>2, <2>2, IdleShape DEF ScheduleJob, StepOK, ShapeOK
  <1>3. CASE GetTimedOutJobs
    <2>1. PICK A \in SUBSET Jobs : sched' = [Idle EXCEPT !.op = "timeouts", !.A = A]
      BY <1>3 DEF GetTimedOutJobs
    <2>2. SchedulerTypeOK'
      BY <2>1 DEF SchedulerTypeOK, Idle
    <2> QED
      BY <1>0, <1>3, <2>2 DEF GetTimedOutJobs, StepOK, ShapeOK
  <1>4. ASSUME NEW j \in Jobs, CheckTimeout(j) PROVE StepOK
    <2>1. Statement \/ UNCHANGED storeVars
      BY <1>4 DEF CheckTimeout, Statement, JobNext
    <2>2. SchedulerTypeOK'
      <3>1. CASE sched' = Idle
        BY <3>1, IdleShape
      <3>2. CASE sched' = [sched EXCEPT !.A = @ \ {j}]
        BY <1>0, <1>4, <3>2 DEF SchedulerTypeOK, CheckTimeout
      <3> QED
        BY <1>4, <3>1, <3>2 DEF CheckTimeout
    <2> QED
      BY <1>0, <1>4, <2>1, <2>2 DEF CheckTimeout, StepOK, ShapeOK
  <1>5. CASE GetStuckActiveJobs
    <2>1. PICK A \in SUBSET Jobs, B \in SUBSET Jobs :
            sched' = [Idle EXCEPT !.op = "stuck", !.A = A, !.B = B]
      BY <1>5 DEF GetStuckActiveJobs
    <2>2. SchedulerTypeOK'
      BY <2>1 DEF SchedulerTypeOK, Idle
    <2> QED
      BY <1>0, <1>5, <2>2 DEF GetStuckActiveJobs, StepOK, ShapeOK
  <1>6. CASE SweepStuckJobs
    <2>1. sched.A \in SUBSET Jobs /\ sched.B \in SUBSET Jobs
      BY <1>0 DEF SchedulerTypeOK
    <2>2. Statement
      BY <1>6, <2>1 DEF SweepStuckJobs, Statement
    <2> QED
      BY <1>0, <1>6, <2>2, IdleShape DEF SweepStuckJobs, StepOK, ShapeOK
  <1>7. CASE GetStarvedPendingJobs
    <2>1. PICK A \in SUBSET Jobs, B \in SUBSET Jobs :
            sched' = [Idle EXCEPT !.op = "starve", !.A = A, !.B = B]
      BY <1>7 DEF GetStarvedPendingJobs
    <2>2. SchedulerTypeOK'
      BY <2>1 DEF SchedulerTypeOK, Idle
    <2> QED
      BY <1>0, <1>7, <2>2 DEF GetStarvedPendingJobs, StepOK, ShapeOK
  <1>8. CASE CheckNoWorkerStarvation
    <2>1. sched.A \in SUBSET Jobs /\ sched.B \in SUBSET Jobs
      BY <1>0 DEF SchedulerTypeOK
    <2>2. Statement
      BY <1>8, <2>1 DEF CheckNoWorkerStarvation, Statement
    <2> QED
      BY <1>0, <1>8, <2>2, IdleShape DEF CheckNoWorkerStarvation, StepOK, ShapeOK
  <1> QED
    BY <1>1, <1>2, <1>3, <1>4, <1>5, <1>6, <1>7, <1>8 DEF SchedulerNext

(* The health monitor. *)
LEMMA MonitorStep == ASSUME ShapeOK, MonitorNext PROVE StepOK
  <1>0. /\ mon \in [Workers -> {"none", "migrate", "restore"}]
        /\ mon' \in [Workers -> {"none", "migrate", "restore"}] /\ UNCHANGED monRest
             => SchedulerTypeOK' /\ HandlerTypeOK' /\ ProcessTypeOK'
    BY DEF ShapeOK, SchedulerTypeOK, HandlerTypeOK, ProcessTypeOK, monRest, workerVars
  <1>a. ASSUME UNCHANGED monRest, NoFault \/ \E k \in FaultKinds : Fault(k) PROVE BoundsOK'
    BY <1>a, FaultBound DEF ShapeOK, monRest
  <1>1. CASE CheckWorkers
    <2>1. Statement
      BY <1>1 DEF CheckWorkers, Statement
    <2> QED
      BY <1>0, <1>1, <1>a, <2>1 DEF CheckWorkers, StepOK, ShapeOK
  <1>2. ASSUME NEW w \in Workers, MonitorMigrate(w) PROVE StepOK
    <2>1. Statement \/ UNCHANGED storeVars
      BY <1>2 DEF MonitorMigrate, Statement, WorkerNext
    <2>2. NoFault \/ \E k \in FaultKinds : Fault(k)
      BY <1>2 DEF MonitorMigrate, FaultKinds
    <2> QED
      BY <1>0, <1>2, <1>a, <2>1, <2>2 DEF MonitorMigrate, StepOK, ShapeOK
  <1>3. ASSUME NEW w \in Workers, MonitorRestore(w) PROVE StepOK
    <2>1. Statement \/ UNCHANGED storeVars
      BY <1>3 DEF MonitorRestore, Statement, WorkerNext
    <2>2. NoFault \/ \E k \in FaultKinds : Fault(k)
      BY <1>3 DEF MonitorRestore, FaultKinds
    <2> QED
      BY <1>0, <1>3, <1>a, <2>1, <2>2 DEF MonitorRestore, StepOK, ShapeOK
  <1>4. ASSUME NEW w \in Workers, MonitorEvict(w) PROVE StepOK
    <2>1. Statement
      BY <1>4 DEF MonitorEvict, Statement, WorkerNext
    <2>2. NoFault \/ \E k \in FaultKinds : Fault(k)
      BY <1>4 DEF MonitorEvict, FaultKinds
    <2> QED
      BY <1>0, <1>4, <1>a, <2>1, <2>2 DEF MonitorEvict, StepOK, ShapeOK
  <1>5. ASSUME NEW w \in Workers, ClearEviction(w) PROVE StepOK
    <2>1. Statement
      BY <1>5 DEF ClearEviction, Statement, WorkerNext
    <2> QED
      BY <1>0, <1>5, <1>a, <2>1 DEF ClearEviction, StepOK, ShapeOK
  <1>6. ASSUME NEW S \in SUBSET Workers, MonitorRemove(S) PROVE StepOK
    <2>1. Statement
      BY <1>6 DEF MonitorRemove, Statement
    <2> QED
      BY <1>0, <1>6, <1>a, <2>1 DEF MonitorRemove, StepOK, ShapeOK
  <1> QED
    BY <1>1, <1>2, <1>3, <1>4, <1>5, <1>6 DEF MonitorNext

(* What a worker's step may touch outside the store, and stay well formed *)
WorkerShape ==
    /\ pulling' \subseteq Workers /\ idleHook' \subseteq Workers
    /\ proc' \in [Workers -> {"down", "up", "stopping"}]
    /\ exec' \in [Workers -> [Jobs -> {"none", "prep", "run", "sent", "abort"}]]
    /\ doomed' \in [Workers -> SUBSET Jobs] /\ hbReply' \in [Workers -> SUBSET Jobs]

(* A worker's step leaves the scheduler and the monitor alone. *)
LEMMA WorkerFrame ==
    ASSUME ShapeOK, WorkerShape, UNCHANGED workerRest,
           NoFault \/ \E k \in FaultKinds : Fault(k)
    PROVE  ShapeOK'
  <1>1. BoundsOK'
    BY FaultBound DEF ShapeOK, workerRest
  <1>2. SchedulerTypeOK' /\ HandlerTypeOK' /\ ProcessTypeOK'
    BY DEF ShapeOK, WorkerShape, SchedulerTypeOK, HandlerTypeOK, ProcessTypeOK, workerRest
  <1> QED
    BY <1>1, <1>2 DEF ShapeOK

(* Registration, heartbeat, pull, and the death of a worker process. *)
LEMMA WorkerLoopStep ==
    ASSUME ShapeOK, NEW w \in Workers,
           \/ WorkerStart(w) \/ Reregister(w) \/ WorkerHeartbeat(w) \/ PullCheck(w)
           \/ \E S \in SUBSET Jobs : PullWorkerJobs(w, S)
           \/ SetIdleAfterReport(w) \/ WorkerCrash(w) \/ WorkerStop(w) \/ ProcessExit(w)
           \/ HeartbeatClock(w)
    PROVE  StepOK
  <1>0. /\ pulling \subseteq Workers /\ idleHook \subseteq Workers
        /\ proc \in [Workers -> {"down", "up", "stopping"}]
        /\ exec \in [Workers -> [Jobs -> {"none", "prep", "run", "sent", "abort"}]]
        /\ doomed \in [Workers -> SUBSET Jobs] /\ hbReply \in [Workers -> SUBSET Jobs]
    BY DEF ShapeOK, HandlerTypeOK, ProcessTypeOK
  <1>1. CASE WorkerStart(w)
    <2>1. WorkerShape
      BY <1>0, <1>1 DEF WorkerStart, WorkerShape
    <2>2. Statement
      BY <1>1 DEF WorkerStart, Statement, WorkerNext
    <2> QED
      BY <1>1, <2>1, <2>2, WorkerFrame DEF WorkerStart, StepOK
  <1>2. CASE Reregister(w)
    <2>1. WorkerShape
      BY <1>0, <1>2 DEF Reregister, WorkerShape, workerVars
    <2>2. Statement
      BY <1>2 DEF Reregister, Statement, WorkerNext
    <2>3. NoFault \/ \E k \in FaultKinds : Fault(k)
      BY <1>2 DEF Reregister, FaultKinds
    <2> QED
      BY <1>2, <2>1, <2>2, <2>3, WorkerFrame DEF Reregister, StepOK
  <1>3. CASE WorkerHeartbeat(w)
    <2>1. WorkerShape
      BY <1>0, <1>3 DEF WorkerHeartbeat, WorkerShape, CancelList, Executing
    <2>2. Statement
      BY <1>3 DEF WorkerHeartbeat, Statement, WorkerNext
    <2> QED
      BY <1>3, <2>1, <2>2, WorkerFrame DEF WorkerHeartbeat, StepOK
  <1>4. CASE PullCheck(w)
    <2>1. WorkerShape
      BY <1>0, <1>4 DEF PullCheck, WorkerShape, workerVars
    <2> QED
      BY <1>4, <2>1, WorkerFrame DEF PullCheck, StepOK
  <1>5. ASSUME NEW S \in SUBSET Jobs, PullWorkerJobs(w, S) PROVE StepOK
    <2>1. WorkerShape
      <3>1. pulling' \subseteq Workers /\ UNCHANGED <<idleHook, proc, hbReply>>
        BY <1>0, <1>5 DEF PullWorkerJobs
      <3>2. PICK begun \in SUBSET Jobs :
              \/ UNCHANGED <<exec, doomed>>
              \/ /\ exec' = [exec EXCEPT ![w] = [j \in Jobs |-> IF j \in begun THEN "prep" ELSE @[j]]]
                 /\ doomed' = [doomed EXCEPT ![w] = IF proc[w] = "stopping" THEN @ \cup begun ELSE @]
        BY <1>5 DEF PullWorkerJobs
      <3>3. exec' \in [Workers -> [Jobs -> {"none", "prep", "run", "sent", "abort"}]]
        <4> DEFINE row == [j \in Jobs |-> IF j \in begun THEN "prep" ELSE exec[w][j]]
        <4>1. row \in [Jobs -> {"none", "prep", "run", "sent", "abort"}]
          BY <1>0
        <4>2. UNCHANGED exec \/ exec' = [exec EXCEPT ![w] = row]
          BY <3>2
        <4> HIDE DEF row
        <4> QED
          BY <1>0, <4>1, <4>2
      <3>4. doomed' \in [Workers -> SUBSET Jobs]
        BY <1>0, <3>2
      <3> QED
        BY <1>0, <3>1, <3>3, <3>4 DEF WorkerShape
    <2>2. Statement
      BY <1>5 DEF PullWorkerJobs, Statement, WorkerNext
    <2>3. NoFault \/ \E k \in FaultKinds : Fault(k)
      BY <1>5 DEF PullWorkerJobs, FaultKinds
    <2> QED
      BY <1>5, <2>1, <2>2, <2>3, WorkerFrame DEF PullWorkerJobs, StepOK
  <1>6. CASE SetIdleAfterReport(w)
    <2>1. WorkerShape
      BY <1>0, <1>6 DEF SetIdleAfterReport, WorkerShape, workerVars
    <2>2. Statement \/ UNCHANGED storeVars
      BY <1>6 DEF SetIdleAfterReport, Statement, WorkerNext
    <2> QED
      BY <1>6, <2>1, <2>2, WorkerFrame DEF SetIdleAfterReport, StepOK
  <1>7. CASE WorkerCrash(w)
    <2>1. WorkerShape
      BY <1>0, <1>7 DEF WorkerCrash, Gone, NoExec, WorkerShape
    <2>2. NoFault \/ \E k \in FaultKinds : Fault(k)
      BY <1>7 DEF WorkerCrash, FaultKinds
    <2> QED
      BY <1>7, <2>1, <2>2, WorkerFrame DEF WorkerCrash, StepOK
  <1>8. CASE WorkerStop(w)
    <2>1. WorkerShape
      BY <1>0, <1>8 DEF WorkerStop, WorkerShape, Executing
    <2>2. NoFault \/ \E k \in FaultKinds : Fault(k)
      BY <1>8 DEF WorkerStop, FaultKinds
    <2> QED
      BY <1>8, <2>1, <2>2, WorkerFrame DEF WorkerStop, StepOK
  <1>9. CASE ProcessExit(w)
    <2>1. WorkerShape
      BY <1>0, <1>9 DEF ProcessExit, Gone, NoExec, WorkerShape
    <2> QED
      BY <1>9, <2>1, WorkerFrame DEF ProcessExit, StepOK
  <1>10. CASE HeartbeatClock(w)
    <2>1. WorkerShape /\ UNCHANGED workerRest
      BY <1>0, <1>10 DEF HeartbeatClock, WorkerShape, serverVars, workerVars, workerRest
    <2>2. Statement
      BY <1>10 DEF HeartbeatClock, Statement, WorkerNext
    <2>3. NoFault \/ \E k \in FaultKinds : Fault(k)
      BY <1>10 DEF HeartbeatClock, FaultKinds
    <2> QED
      BY <2>1, <2>2, <2>3, WorkerFrame DEF StepOK
  <1> QED
    BY <1>1, <1>2, <1>3, <1>4, <1>5, <1>6, <1>7, <1>8, <1>9, <1>10

(* processJob: cancellation, and the running, progress and terminal reports. *)
LEMMA ProcessJobStep ==
    ASSUME ShapeOK, NEW w \in Workers, NEW j \in Jobs,
           \/ HeartbeatReply(w, j) \/ WatchStreamingJobCancellation(w, j) \/ ReportRunning(w, j)
           \/ UploadOutput(w, j)
           \/ \E p \in 1..MaxProgress : ReportProgress(w, j, p)
           \/ \E s \in TerminalStatus : \E f \in ReportClass(s) : ReportTerminal(w, j, s, f)
    PROVE  StepOK
  <1>0. /\ pulling \subseteq Workers /\ idleHook \subseteq Workers
        /\ proc \in [Workers -> {"down", "up", "stopping"}]
        /\ exec \in [Workers -> [Jobs -> {"none", "prep", "run", "sent", "abort"}]]
        /\ doomed \in [Workers -> SUBSET Jobs] /\ hbReply \in [Workers -> SUBSET Jobs]
    BY DEF ShapeOK, HandlerTypeOK, ProcessTypeOK
  <1>1. CASE HeartbeatReply(w, j)
    <2>1. WorkerShape
      BY <1>0, <1>1 DEF HeartbeatReply, WorkerShape, Executing
    <2> QED
      BY <1>1, <2>1, WorkerFrame DEF HeartbeatReply, StepOK
  <1>2. CASE WatchStreamingJobCancellation(w, j)
    <2>1. WorkerShape
      BY <1>0, <1>2 DEF WatchStreamingJobCancellation, WorkerShape
    <2> QED
      BY <1>2, <2>1, WorkerFrame DEF WatchStreamingJobCancellation, StepOK
  <1>3. CASE ReportRunning(w, j)
    <2>1. PICK step \in {"run", "abort"} : exec' = [exec EXCEPT ![w][j] = step]
      BY <1>3 DEF ReportRunning
    <2>2. WorkerShape
      BY <1>0, <1>3, <2>1 DEF ReportRunning, WorkerShape
    <2>3. Statement \/ UNCHANGED storeVars
      BY <1>3 DEF ReportRunning, Statement, JobNext
    <2>4. NoFault \/ \E k \in FaultKinds : Fault(k)
      BY <1>3 DEF ReportRunning, FaultKinds
    <2> QED
      BY <1>3, <2>2, <2>3, <2>4, WorkerFrame DEF ReportRunning, StepOK
  <1>4. ASSUME NEW p \in 1..MaxProgress, ReportProgress(w, j, p) PROVE StepOK
    <2>1. WorkerShape
      BY <1>0, <1>4 DEF ReportProgress, WorkerShape, workerVars
    <2>2. Statement
      BY <1>4 DEF ReportProgress, Statement, JobNext
    <2> QED
      BY <1>4, <2>1, <2>2, WorkerFrame DEF ReportProgress, StepOK
  <1>u. CASE UploadOutput(w, j)
    <2>1. exec' = exec \/ \E step \in {"sent", "abort"} : exec' = [exec EXCEPT ![w][j] = step]
      BY <1>u DEF UploadOutput
    <2>2. WorkerShape
      <3>1. exec' \in [Workers -> [Jobs -> {"none", "prep", "run", "sent", "abort"}]]
        <4>1. CASE exec' = exec
          BY <1>0, <4>1
        <4>2. ASSUME NEW step \in {"sent", "abort"}, exec' = [exec EXCEPT ![w][j] = step]
              PROVE  exec' \in [Workers -> [Jobs -> {"none", "prep", "run", "sent", "abort"}]]
          BY <1>0, <4>2
        <4> QED
          BY <2>1, <4>1, <4>2
      <3> QED
        BY <1>0, <1>u, <3>1 DEF UploadOutput, WorkerShape
    <2>3. Statement
      BY <1>u DEF UploadOutput, Statement, JobNext
    <2>4. NoFault \/ \E k \in FaultKinds : Fault(k)
      BY <1>u DEF UploadOutput, FaultKinds
    <2> QED
      BY <1>u, <2>2, <2>3, <2>4, WorkerFrame DEF UploadOutput, StepOK
  <1>5. ASSUME NEW s \in TerminalStatus, NEW f \in ReportClass(s), ReportTerminal(w, j, s, f)
        PROVE  StepOK
    <2>1. WorkerShape
      BY <1>0, <1>5 DEF ReportTerminal, WorkerShape
    <2>2. Statement \/ UNCHANGED storeVars
      BY <1>5 DEF ReportTerminal, Statement, JobNext
    <2>3. NoFault \/ \E k \in FaultKinds : Fault(k)
      BY <1>5 DEF ReportTerminal, FaultKinds
    <2> QED
      BY <1>5, <2>1, <2>2, <2>3, WorkerFrame DEF ReportTerminal, StepOK
  <1> QED
    BY <1>1, <1>2, <1>3, <1>4, <1>5, <1>u

(* A restart of the server is the store's RecoverState. *)
LEMMA RestartStep ==
    ASSUME ShapeOK, NEW S \in SUBSET Workers, ServerRestart(S) PROVE StepOK
  <1>1. SchedulerTypeOK'
    BY IdleShape DEF ServerRestart
  <1>2. HandlerTypeOK' /\ ProcessTypeOK' /\ BoundsOK'
    BY DEF ServerRestart, ShapeOK, HandlerTypeOK, ProcessTypeOK, BoundsOK, workerVars
  <1>3. Recovered
    BY DEF ServerRestart, Recovered
  <1> QED
    BY <1>1, <1>2, <1>3 DEF StepOK, ShapeOK

(* Every step of the cluster keeps the processes' memory well formed and is a
   step of the store or leaves the tables alone. *)
LEMMA EveryClusterStep == ASSUME ShapeOK, [ClusterNext]_clusterVars PROVE StepOK
  <1>1. CASE UNCHANGED clusterVars
    BY <1>1 DEF clusterVars, serverVars, workerVars, boundVars, StepOK, ShapeOK,
                SchedulerTypeOK, HandlerTypeOK, ProcessTypeOK, BoundsOK
  <1>2. ASSUME NEW w \in Workers, WorkerProcNext(w) \/ HeartbeatClock(w) PROVE StepOK
    BY <1>2, WorkerLoopStep, ProcessJobStep DEF WorkerProcNext
  <1> QED
    BY <1>1, <1>2, ClientStep, SchedulerStep, MonitorStep, RestartStep DEF ClusterNext

-----------------------------------------------------------------------------
(* The scheduler, the monitor, the handlers and the workers never have in hand
   anything but real jobs and workers, in every reachable state. *)
THEOREM MemoryWellFormed == ClusterSpec => []ShapeOK
  <1>1. ClusterInit => ShapeOK
    BY DEF ClusterInit, ShapeOK, SchedulerTypeOK, HandlerTypeOK, ProcessTypeOK, BoundsOK,
           Idle, NoExec
  <1>2. ShapeOK /\ [ClusterNext]_clusterVars => ShapeOK'
    BY EveryClusterStep DEF StepOK
  <1> QED
    BY <1>1, <1>2, PTL DEF ClusterSpec

(* The processes of the cluster touch the tables only through the statements of
   JobStore: the detailed specification implements the store's. *)
THEOREM ClusterImplementsStore == ClusterSpec => Spec
  <1>1. ClusterInit => Init
    BY DEF ClusterInit
  <1>2. ShapeOK /\ [ClusterNext]_clusterVars => [Next]_storeVars
    BY EveryClusterStep, StatementOrRecovery DEF StepOK, Recovered
  <1> QED
    BY <1>1, <1>2, MemoryWellFormed, PTL DEF ClusterSpec, Spec

(* So the tables keep their types, and all processes their shape. *)
THEOREM ClusterTypeCorrect == ClusterSpec => []ClusterTypeOK
  <1>1. TypeOK /\ ShapeOK => ClusterTypeOK
    BY DEF ShapeOK, ClusterTypeOK
  <1> QED
    BY <1>1, MemoryWellFormed, ClusterImplementsStore, TypeCorrect, PTL

(* And whatever scheduler, monitor, workers and restarts do to each other, a
   job's verdict is final and it is held by one worker at a time. *)
THEOREM ClusterLifecycle == ClusterSpec => TerminalIsFinal /\ ImplementsLifecycle
  BY ClusterImplementsStore, VerdictsFinal, StoreImplementsLifecycle, PTL

-----------------------------------------------------------------------------
(* Capacity.  Only two statements give a worker a job it did not have: the
   scheduler's assignment and a pull's claim. *)

JobsTyped == jobs \in [Jobs -> JobRow]

NoGain == \A j \in Jobs : jobs'[j].status \in ActiveStatus =>
                            jobs[j].status \in ActiveStatus /\ jobs'[j].worker = jobs[j].worker

Quiet == NoGain /\ (sched' = sched \/ sched'.op # "assign")

(* A statement on one row that does not hand the job to a worker. *)
LEMMA OneRowNoGain ==
    ASSUME JobsTyped, NEW k \in Jobs, NEW r, jobs' = [jobs EXCEPT ![k] = r],
           r.status \in ActiveStatus =>
             jobs[k].status \in ActiveStatus /\ r.worker = jobs[k].worker
    PROVE  NoGain
  BY DEF NoGain, JobsTyped

(* A step that leaves the jobs table alone. *)
LEMMA SameJobsNoGain == ASSUME UNCHANGED jobs PROVE NoGain
  BY DEF NoGain

(* Submission, rejection, cancel, the timeout verdicts, the clocks and every
   report leave a job with its worker or take it away. *)
LEMMA JobStatementNoGain ==
    ASSUME JobsTyped, NEW j \in Jobs,
           \/ CreateJobWithStreaming(j) \/ CreateFailedJob(j) \/ CancelJob(j)
           \/ RecordJobTimeoutMigration(j) \/ FailJob(j)
           \/ CreatedExpires(j) \/ UpdatedExpires(j) \/ StartedExpires(j)
           \/ \E w \in Workers :
                \/ UpdateJobRunningStatusWithOwner(j, w)
                \/ UpdateJobOutputWithOwner(j, w)
                \/ \E p \in 1..MaxProgress : UpdateJobProgressWithOwner(j, w, p)
                \/ \E s \in TerminalStatus : \E f \in ReportClass(s) :
                     UpdateJobTerminalStatusWithOwner(j, w, s, f)
    PROVE  NoGain
  <1>0. jobs[j] \in JobRow
    BY DEF JobsTyped
  <1> USE DEF ActiveStatus
  <1>1. CASE CreateJobWithStreaming(j)
    <2>1. Inserted(jobs[j]).status = "pending"
      BY <1>0 DEF Inserted, JobRow
    <2> QED
      BY <1>1, <2>1, OneRowNoGain DEF CreateJobWithStreaming
  <1>2. CASE CreateFailedJob(j)
    BY <1>0, <1>2, StatusAfter, OneRowNoGain DEF CreateFailedJob
  <1>3. CASE CancelJob(j)
    BY <1>0, <1>3, StatusAfter, OneRowNoGain DEF CancelJob
  <1>4. CASE RecordJobTimeoutMigration(j)
    <2>1. Requeued(jobs[j]).status = "pending"
      BY <1>0 DEF Requeued, JobRow
    <2> QED
      BY <1>4, <2>1, OneRowNoGain DEF RecordJobTimeoutMigration
  <1>5. CASE FailJob(j)
    BY <1>0, <1>5, StatusAfter, OneRowNoGain DEF FailJob
  <1>6. CASE CreatedExpires(j) \/ UpdatedExpires(j) \/ StartedExpires(j)
    <2>1. CASE CreatedExpires(j)
      <3>1. /\ [jobs[j] EXCEPT !.created = "expired"].status = jobs[j].status
            /\ [jobs[j] EXCEPT !.created = "expired"].worker = jobs[j].worker
        BY <1>0 DEF JobRow
      <3>2. jobs' = [jobs EXCEPT ![j] = [jobs[j] EXCEPT !.created = "expired"]]
        BY <2>1 DEF CreatedExpires
      <3> QED
        BY <3>1, <3>2, OneRowNoGain
    <2>2. CASE UpdatedExpires(j)
      <3>1. /\ [jobs[j] EXCEPT !.updated = "expired"].status = jobs[j].status
            /\ [jobs[j] EXCEPT !.updated = "expired"].worker = jobs[j].worker
        BY <1>0 DEF JobRow
      <3>2. jobs' = [jobs EXCEPT ![j] = [jobs[j] EXCEPT !.updated = "expired"]]
        BY <2>2 DEF UpdatedExpires
      <3> QED
        BY <3>1, <3>2, OneRowNoGain
    <2>3. CASE StartedExpires(j)
      <3>1. /\ [jobs[j] EXCEPT !.started = "expired"].status = jobs[j].status
            /\ [jobs[j] EXCEPT !.started = "expired"].worker = jobs[j].worker
        BY <1>0 DEF JobRow
      <3>2. jobs' = [jobs EXCEPT ![j] = [jobs[j] EXCEPT !.started = "expired"]]
        BY <2>3 DEF StartedExpires
      <3> QED
        BY <3>1, <3>2, OneRowNoGain
    <2> QED
      BY <1>6, <2>1, <2>2, <2>3
  <1>7. ASSUME NEW w \in Workers, UpdateJobRunningStatusWithOwner(j, w) PROVE NoGain
    <2>1. Running(jobs[j]).worker = jobs[j].worker
      BY <1>0 DEF Running, JobRow
    <2> QED
      BY <1>7, <2>1, OneRowNoGain DEF UpdateJobRunningStatusWithOwner, Owns, Active
  <1>8. ASSUME NEW w \in Workers, NEW p \in 1..MaxProgress, UpdateJobProgressWithOwner(j, w, p)
        PROVE  NoGain
    <2>1. Progressed(jobs[j], p).worker = jobs[j].worker
      BY <1>0 DEF Progressed, JobRow
    <2> QED
      BY <1>8, <2>1, OneRowNoGain DEF UpdateJobProgressWithOwner, Owns, Active
  <1>9. ASSUME NEW w \in Workers, NEW s \in TerminalStatus, NEW f \in ReportClass(s),
               UpdateJobTerminalStatusWithOwner(j, w, s, f)
        PROVE  NoGain
    <2>1. Reported(jobs[j], s, f).status \notin ActiveStatus
      BY <1>0, StatusAfter DEF TerminalStatus
    <2> QED
      BY <1>9, <2>1, OneRowNoGain DEF UpdateJobTerminalStatusWithOwner
  <1>10. ASSUME NEW w \in Workers, UpdateJobOutputWithOwner(j, w) PROVE NoGain
    <2>1. Attached(jobs[j]).worker = jobs[j].worker
      BY <1>0 DEF Attached, JobRow
    <2> QED
      BY <1>10, <2>1, OneRowNoGain DEF UpdateJobOutputWithOwner, Owns, Active
  <1> QED
    BY <1>1, <1>2, <1>3, <1>4, <1>5, <1>6, <1>7, <1>8, <1>9, <1>10

(* So do the sweeps, the migration and the restart. *)
LEMMA SweepNoGain ==
    ASSUME JobsTyped,
           \/ \E A, B \in SUBSET Jobs : FailStarvedPendingJobs(A, B) \/ FailStuckActiveJobs(A, B)
           \/ \E w \in Workers : MigrateJobsFromWorker(w)
           \/ \E S \in SUBSET Workers : RecoverState(S)
    PROVE  NoGain
  <1>0. \A j \in Jobs : jobs[j] \in JobRow
    BY DEF JobsTyped
  <1>a. \A j \in Jobs : /\ \A f : Failed(jobs[j], f).status = "failed"
                        /\ Requeued(jobs[j]).status = "pending"
                        /\ Migrated(jobs[j]).status = "pending"
    BY <1>0, StatusAfter DEF Requeued, Migrated, JobRow
  <1> USE DEF ActiveStatus
  <1>1. ASSUME NEW A \in SUBSET Jobs, NEW B \in SUBSET Jobs, FailStarvedPendingJobs(A, B)
        PROVE  NoGain
    BY <1>1, <1>a DEF FailStarvedPendingJobs, FailAll, NoGain
  <1>2. ASSUME NEW A \in SUBSET Jobs, NEW B \in SUBSET Jobs, FailStuckActiveJobs(A, B)
        PROVE  NoGain
    BY <1>2, <1>a DEF FailStuckActiveJobs, FailAll, NoGain
  <1>3. ASSUME NEW w \in Workers, MigrateJobsFromWorker(w) PROVE NoGain
    BY <1>3, <1>a DEF MigrateJobsFromWorker, NoGain
  <1>4. ASSUME NEW S \in SUBSET Workers, RecoverState(S) PROVE NoGain
    BY <1>4, <1>a DEF RecoverState, NoGain, Active
  <1> QED
    BY <1>1, <1>2, <1>3, <1>4

(* Every step of the cluster either gives no worker a job and remembers no new
   assignment, or is one of the three steps of a hand-over. *)
LEMMA HandOvers ==
    ASSUME ShapeOK, JobsTyped, ClusterNext
    PROVE  \/ Quiet
           \/ \E j \in Jobs : SelectWorker(j)
           \/ ScheduleJob
           \/ \E w \in Workers : \E S \in SUBSET Jobs : PullWorkerJobs(w, S)
  <1>i. Idle.op # "assign"
    BY DEF Idle
  <1>1. ASSUME NEW j \in Jobs, SubmitJob(j) \/ InsertJob(j) \/ FailAsEncoderUnavailable(j)
                                 \/ ClientCancel(j) \/ JobClock(j)
        PROVE  Quiet
    <2>1. UNCHANGED sched
      BY <1>1 DEF SubmitJob, InsertJob, FailAsEncoderUnavailable, ClientCancel, JobClock, serverVars
    <2>2. NoGain
      BY <1>1, JobStatementNoGain, SameJobsNoGain DEF SubmitJob, InsertJob,
         FailAsEncoderUnavailable, ClientCancel, JobClock, storeVars
    <2> QED
      BY <2>1, <2>2 DEF Quiet
  <1>2. ASSUME NEW j \in Jobs, CheckTimeout(j) PROVE Quiet
    <2>1. NoGain
      BY <1>2, JobStatementNoGain, SameJobsNoGain DEF CheckTimeout, storeVars
    <2>2. sched'.op # "assign"
      BY <1>2, <1>i DEF CheckTimeout, ShapeOK, SchedulerTypeOK
    <2> QED
      BY <2>1, <2>2 DEF Quiet
  <1>3. CASE GetTimedOutJobs \/ GetStuckActiveJobs \/ GetStarvedPendingJobs
    <2>1. sched'.op # "assign"
      BY <1>3 DEF GetTimedOutJobs, GetStuckActiveJobs, GetStarvedPendingJobs, Idle
    <2> QED
      BY <1>3, <2>1, SameJobsNoGain DEF Quiet, GetTimedOutJobs, GetStuckActiveJobs,
         GetStarvedPendingJobs, storeVars
  <1>4. CASE SweepStuckJobs \/ CheckNoWorkerStarvation
    <2>1. sched.A \in SUBSET Jobs /\ sched.B \in SUBSET Jobs
      BY DEF ShapeOK, SchedulerTypeOK
    <2> QED
      BY <1>4, <1>i, <2>1, SweepNoGain DEF Quiet, SweepStuckJobs, CheckNoWorkerStarvation
  <1>5. CASE MonitorNext
    <2>1. UNCHANGED sched
      BY <1>5 DEF MonitorNext, CheckWorkers, MonitorMigrate, MonitorRestore, MonitorEvict,
         ClearEviction, MonitorRemove, monRest
    <2>2. NoGain
      BY <1>5, SweepNoGain, SameJobsNoGain DEF MonitorNext, CheckWorkers, MonitorMigrate,
         MonitorRestore, MonitorEvict, ClearEviction, MonitorRemove, storeVars,
         MarkOfflineWorkersWithMigration, RestoreWorkerStatusAfterFailedMigration,
         MarkWorkerEvicted, ClearWorkerEviction, RemoveOfflineWorkers
    <2> QED
      BY <2>1, <2>2 DEF Quiet
  <1>6. ASSUME NEW w \in Workers,
               \/ WorkerStart(w) \/ Reregister(w) \/ WorkerHeartbeat(w) \/ PullCheck(w)
               \/ SetIdleAfterReport(w) \/ WorkerCrash(w) \/ WorkerStop(w) \/ ProcessExit(w)
               \/ HeartbeatClock(w)
        PROVE  Quiet
    <2>1. UNCHANGED sched
      BY <1>6 DEF WorkerStart, Reregister, WorkerHeartbeat, PullCheck, SetIdleAfterReport,
         WorkerCrash, WorkerStop, ProcessExit, HeartbeatClock, workerRest, serverVars
    <2>2. UNCHANGED jobs
      BY <1>6 DEF WorkerStart, Reregister, WorkerHeartbeat, PullCheck, SetIdleAfterReport,
         WorkerCrash, WorkerStop, ProcessExit, HeartbeatClock, storeVars, CreateOrUpdateWorker,
         UpdateWorkerHeartbeat, SetWorkerIdleIfNoActiveJobs, HeartbeatExpires
    <2> QED
      BY <2>1, <2>2, SameJobsNoGain DEF Quiet
  <1>7. ASSUME NEW w \in Workers, NEW j \in Jobs,
               \/ HeartbeatReply(w, j) \/ WatchStreamingJobCancellation(w, j) \/ ReportRunning(w, j)
               \/ UploadOutput(w, j)
               \/ \E p \in 1..MaxProgress : ReportProgress(w, j, p)
               \/ \E s \in TerminalStatus : \E f \in ReportClass(s) : ReportTerminal(w, j, s, f)
        PROVE  Quiet
    <2>1. UNCHANGED sched
      BY <1>7 DEF HeartbeatReply, WatchStreamingJobCancellation, ReportRunning, ReportProgress,
         UploadOutput, ReportTerminal, workerRest
    <2>2. NoGain
      BY <1>7, JobStatementNoGain, SameJobsNoGain DEF HeartbeatReply,
         WatchStreamingJobCancellation, ReportRunning, ReportProgress, UploadOutput,
         ReportTerminal, storeVars
    <2> QED
      BY <2>1, <2>2 DEF Quiet
  <1>8. ASSUME NEW S \in SUBSET Workers, ServerRestart(S) PROVE Quiet
    BY <1>8, <1>i, SweepNoGain DEF ServerRestart, Quiet
  <1> QED
    BY <1>1, <1>2, <1>3, <1>4, <1>5, <1>6, <1>7, <1>8 DEF ClusterNext, SchedulerNext, WorkerProcNext

-----------------------------------------------------------------------------
(* The inductive form of OvercommitAtMostOne: the worker an assignment is on its
   way to has no more jobs than slots, since a pull never fills it further. *)
RoomInv ==
    /\ OvercommitAtMostOne
    /\ sched.op = "assign" =>
         Cardinality(ActiveJobs(sched.worker)) <= MaxConcurrent[sched.worker]

(* The jobs a worker has are finitely many, so they can be counted. *)
LEMMA Countable ==
    ASSUME NEW w
    PROVE  /\ IsFiniteSet(ActiveJobs(w)) /\ Cardinality(ActiveJobs(w)) \in Nat
           /\ IsFiniteSet(ActiveJobs(w))' /\ Cardinality(ActiveJobs(w))' \in Nat
  <1>1. ActiveJobs(w) \subseteq Jobs /\ ActiveJobs(w)' \subseteq Jobs
    BY DEF ActiveJobs
  <1> QED
    BY <1>1, FiniteAssumption, FS_Subset, FS_CardinalityType

(* A step that gives no worker a job leaves every count where it was or lowers it. *)
LEMMA QuietCount ==
    ASSUME NoGain, NEW w PROVE Cardinality(ActiveJobs(w))' <= Cardinality(ActiveJobs(w))
  <1>1. ActiveJobs(w)' \subseteq ActiveJobs(w)
    BY DEF NoGain, ActiveJobs, Owns, Active
  <1> QED
    BY <1>1, Countable, FS_Subset

(* Claiming a set of pending jobs adds it to the claimant's jobs alone. *)
LEMMA ClaimSet ==
    ASSUME JobsTyped, NEW w \in Workers, NEW S \in SUBSET Jobs, \A j \in S : Pending(j),
           jobs' = [j \in Jobs |-> IF j \in S THEN Claimed(jobs[j], w) ELSE jobs[j]]
    PROVE  /\ ActiveJobs(w)' = ActiveJobs(w) \cup S
           /\ ActiveJobs(w) \cap S = {}
           /\ \A v \in Workers \ {w} : ActiveJobs(v)' = ActiveJobs(v)
  <1>1. \A j \in S : Claimed(jobs[j], w).status = "queued" /\ Claimed(jobs[j], w).worker = w
    BY DEF Claimed, JobsTyped, JobRow
  <1>2. \A j \in S : jobs[j].status = "pending"
    BY DEF Pending
  <1> QED
    BY <1>1, <1>2 DEF ActiveJobs, Owns, Active, ActiveStatus

(* A pull fills free slots only. *)
LEMMA PullCount ==
    ASSUME JobsTyped, NEW w \in Workers, NEW S \in SUBSET Jobs, AssignPendingJobsToWorker(w, S)
    PROVE  /\ \/ Cardinality(ActiveJobs(w))' <= MaxConcurrent[w]
              \/ Cardinality(ActiveJobs(w))' <= Cardinality(ActiveJobs(w))
           /\ \A v \in Workers \ {w} : ActiveJobs(v)' = ActiveJobs(v)
  <1> DEFINE n == Cardinality(ActiveJobs(w))
             room == IF MaxConcurrent[w] > n THEN MaxConcurrent[w] - n ELSE 0
             pend == {j \in Jobs : Pending(j)}
  <1>1. n \in Nat /\ MaxConcurrent[w] \in Nat
    BY Countable, SlotsAssumption
  <1>2. IsFiniteSet(S) /\ Cardinality(S) \in Nat /\ Cardinality(pend) \in Nat
    BY FiniteAssumption, FS_Subset, FS_CardinalityType
  <1>3. S \subseteq pend /\ Cardinality(S) <= room
    BY <1>1, <1>2 DEF AssignPendingJobsToWorker, Claimable
  <1>4. /\ ActiveJobs(w)' = ActiveJobs(w) \cup S /\ ActiveJobs(w) \cap S = {}
        /\ \A v \in Workers \ {w} : ActiveJobs(v)' = ActiveJobs(v)
    BY <1>3, ClaimSet DEF AssignPendingJobsToWorker
  <1>5. Cardinality(ActiveJobs(w) \cup S) = n + Cardinality(S)
    <2>1. Cardinality(ActiveJobs(w) \cap S) = 0
      BY <1>4, FS_EmptySet
    <2>2. Cardinality(ActiveJobs(w) \cup S)
            = n + Cardinality(S) - Cardinality(ActiveJobs(w) \cap S)
      BY <1>2, Countable, FS_Union
    <2> QED
      BY <1>1, <1>2, <2>1, <2>2
  <1>6. Cardinality(ActiveJobs(w))' = Cardinality(ActiveJobs(w) \cup S)
    BY <1>4
  <1> QED
    BY <1>1, <1>2, <1>3, <1>4, <1>5, <1>6

(* An assignment adds one job. *)
LEMMA AssignCount ==
    ASSUME JobsTyped, NEW j \in Jobs, NEW w \in Workers, AssignJobToWorker(j, w)
    PROVE  /\ Cardinality(ActiveJobs(w))' <= Cardinality(ActiveJobs(w)) + 1
           /\ \A v \in Workers \ {w} : ActiveJobs(v)' = ActiveJobs(v)
  <1>1. jobs' = [k \in Jobs |-> IF k \in {j} THEN Claimed(jobs[k], w) ELSE jobs[k]]
    BY DEF AssignJobToWorker, JobsTyped
  <1>2. /\ ActiveJobs(w)' = ActiveJobs(w) \cup {j}
        /\ \A v \in Workers \ {w} : ActiveJobs(v)' = ActiveJobs(v)
    <2>1. {j} \in SUBSET Jobs /\ \A k \in {j} : Pending(k)
      BY DEF AssignJobToWorker
    <2> QED
      BY <1>1, <2>1, ClaimSet
  <1>3. /\ Cardinality(ActiveJobs(w)) \in Nat
        /\ Cardinality(ActiveJobs(w) \cup {j}) <= Cardinality(ActiveJobs(w)) + 1
    <2>1. IsFiniteSet(ActiveJobs(w)) /\ Cardinality(ActiveJobs(w)) \in Nat
      BY Countable
    <2>2. Cardinality(ActiveJobs(w) \cup {j})
            = IF j \in ActiveJobs(w) THEN Cardinality(ActiveJobs(w)) ELSE Cardinality(ActiveJobs(w)) + 1
      BY <2>1, FS_AddElement
    <2> QED
      BY <2>1, <2>2
  <1>4. Cardinality(ActiveJobs(w))' = Cardinality(ActiveJobs(w) \cup {j})
    BY <1>2
  <1> QED
    BY <1>2, <1>3, <1>4

(* For every set of jobs, every number of workers and slots: however the
   scheduler's count-then-assign races the workers' pulls, no worker ever has
   more than one job above its max_concurrent. *)
THEOREM OvercommitBounded == ClusterSpec => []OvercommitAtMostOne
  <1>1. ClusterInit => RoomInv
    <2> SUFFICES ASSUME ClusterInit PROVE RoomInv
      OBVIOUS
    <2>1. \A w \in Workers : ActiveJobs(w) = {}
      BY DEF ClusterInit, Init, NoJob, ActiveJobs, Owns, Active, ActiveStatus
    <2>2. sched.op # "assign"
      BY DEF ClusterInit, Idle
    <2>3. ASSUME NEW w \in Workers PROVE Cardinality(ActiveJobs(w)) <= MaxConcurrent[w] + 1
      <3>1. Cardinality(ActiveJobs(w)) = 0 /\ MaxConcurrent[w] \in Nat
        BY <2>1, FS_EmptySet, SlotsAssumption
      <3> QED
        BY <3>1
    <2> QED
      BY <2>2, <2>3 DEF RoomInv, OvercommitAtMostOne
  <1>2. ASSUME ShapeOK, JobsTyped, RoomInv, [ClusterNext]_clusterVars PROVE RoomInv'
    <2>0. /\ \A w \in Workers : /\ Cardinality(ActiveJobs(w)) \in Nat /\ MaxConcurrent[w] \in Nat
                                /\ Cardinality(ActiveJobs(w))' \in Nat
          /\ sched.op = "assign" => sched.job \in Jobs /\ sched.worker \in Workers
          /\ Idle.op # "assign"
      BY <1>2, Countable, SlotsAssumption DEF ShapeOK, SchedulerTypeOK, Idle
    <2>1. CASE UNCHANGED clusterVars
      BY <1>2, <2>1 DEF clusterVars, storeVars, serverVars, RoomInv, OvercommitAtMostOne,
                        ActiveJobs, Owns, Active
    <2>2. CASE Quiet
      <3>1. \A w \in Workers : Cardinality(ActiveJobs(w))' <= Cardinality(ActiveJobs(w))
        BY <2>2, QuietCount DEF Quiet
      <3>2. OvercommitAtMostOne'
        BY <1>2, <2>0, <3>1 DEF RoomInv, OvercommitAtMostOne
      <3>3. ASSUME sched'.op = "assign"
            PROVE  (Cardinality(ActiveJobs(sched.worker)) <= MaxConcurrent[sched.worker])'
        <4>1. sched' = sched
          BY <2>2, <3>3 DEF Quiet
        <4>2. PICK x \in Workers : x = sched.worker
          BY <2>0, <3>3, <4>1
        <4>3. Cardinality(ActiveJobs(x)) <= MaxConcurrent[x]
          BY <1>2, <3>3, <4>1, <4>2 DEF RoomInv
        <4>4. Cardinality(ActiveJobs(x))' <= MaxConcurrent[x]
          BY <2>0, <3>1, <4>3
        <4> QED
          BY <4>1, <4>2, <4>4
      <3> QED
        BY <3>2, <3>3 DEF RoomInv
    <2>3. ASSUME NEW j \in Jobs, SelectWorker(j) PROVE RoomInv'
      <3>1. PICK w \in Eligible(j) :
              sched' = [Idle EXCEPT !.op = "assign", !.job = j, !.worker = w]
        BY <2>3 DEF SelectWorker
      <3>2. w \in Workers /\ Cardinality(ActiveJobs(w)) < MaxConcurrent[w]
        BY DEF Eligible, BestOf
      <3>3. sched'.worker = w /\ \A v : ActiveJobs(v)' = ActiveJobs(v)
        BY <2>3, <3>1 DEF SelectWorker, Idle, storeVars, ActiveJobs, Owns, Active
      <3>4. OvercommitAtMostOne'
        BY <1>2, <3>3 DEF RoomInv, OvercommitAtMostOne
      <3> QED
        BY <2>0, <3>2, <3>3, <3>4 DEF RoomInv
    <2>4. CASE ScheduleJob
      <3>1. sched'.op # "assign"
        BY <2>0, <2>4 DEF ScheduleJob
      <3>2. OvercommitAtMostOne'
        <4>1. CASE UNCHANGED storeVars
          BY <1>2, <4>1 DEF RoomInv, OvercommitAtMostOne, storeVars, ActiveJobs, Owns, Active
        <4>2. CASE AssignJobToWorker(sched.job, sched.worker)
          <5>1. sched.op = "assign" /\ sched.job \in Jobs /\ sched.worker \in Workers
            BY <2>0, <2>4 DEF ScheduleJob
          <5>2. /\ Cardinality(ActiveJobs(sched.worker)) <= MaxConcurrent[sched.worker]
                /\ \A v \in Workers : Cardinality(ActiveJobs(v)) <= MaxConcurrent[v] + 1
            BY <1>2, <5>1 DEF RoomInv, OvercommitAtMostOne
          <5>3. ASSUME NEW v \in Workers PROVE Cardinality(ActiveJobs(v))' <= MaxConcurrent[v] + 1
            <6>1. PICK x \in Workers, k \in Jobs : x = sched.worker /\ k = sched.job
              BY <5>1
            <6>2. /\ Cardinality(ActiveJobs(x))' <= Cardinality(ActiveJobs(x)) + 1
                  /\ \A y \in Workers \ {x} : ActiveJobs(y)' = ActiveJobs(y)
              BY <1>2, <4>2, <6>1, AssignCount
            <6> QED
              BY <2>0, <5>2, <6>1, <6>2
          <5> QED
            BY <5>3 DEF OvercommitAtMostOne
        <4> QED
          BY <2>4, <4>1, <4>2 DEF ScheduleJob
      <3> QED
        BY <3>1, <3>2 DEF RoomInv
    <2>5. ASSUME NEW w \in Workers, NEW S \in SUBSET Jobs, PullWorkerJobs(w, S) PROVE RoomInv'
      <3>1. AssignPendingJobsToWorker(w, S) /\ UNCHANGED sched
        BY <2>5 DEF PullWorkerJobs, workerRest
      <3>2. /\ \/ Cardinality(ActiveJobs(w))' <= MaxConcurrent[w]
               \/ Cardinality(ActiveJobs(w))' <= Cardinality(ActiveJobs(w))
            /\ \A v \in Workers \ {w} : ActiveJobs(v)' = ActiveJobs(v)
        BY <1>2, <3>1, PullCount
      <3>3. OvercommitAtMostOne'
        BY <1>2, <2>0, <3>2 DEF RoomInv, OvercommitAtMostOne
      <3>4. ASSUME sched.op = "assign"
            PROVE  Cardinality(ActiveJobs(sched.worker))' <= MaxConcurrent[sched.worker]
        <4>1. PICK x \in Workers : x = sched.worker
          BY <2>0, <3>4
        <4>2. Cardinality(ActiveJobs(x)) <= MaxConcurrent[x]
          BY <1>2, <3>4, <4>1 DEF RoomInv
        <4>3. Cardinality(ActiveJobs(x))' <= MaxConcurrent[x]
          BY <2>0, <3>2, <4>2
        <4> QED
          BY <3>1, <4>1, <4>3
      <3> QED
        BY <3>1, <3>3, <3>4 DEF RoomInv
    <2> QED
      BY <1>2, <2>1, <2>2, <2>3, <2>4, <2>5, HandOvers
  <1>3. StoreInv => JobsTyped
    BY DEF StoreInv, JobsTyped
  <1>4. RoomInv => OvercommitAtMostOne
    BY DEF RoomInv
  <1> QED
    BY <1>1, <1>2, <1>3, <1>4, MemoryWellFormed, ClusterImplementsStore, Invariance, PTL
       DEF ClusterSpec

-----------------------------------------------------------------------------
(* Double execution.  A worker begins a job only when a pull hands it one it
   owns, so whoever else executes a job has lost it: to a requeue, which is
   counted, or to a restart.  Workers need not be finitely many for this, only
   those that execute a job. *)

Executors(j) == {w \in Workers : exec[w][j] # "none"}
Losses(j) == Moves(j) + restarts

ExecutorsInv ==
    \A j \in Jobs :
      /\ IsFiniteSet(Executors(j))
      /\ Cardinality(Executors(j)) <= 1 + Losses(j)
      /\ jobs[j].status = "none" => Executors(j) = {}
      /\ jobs[j].status = "pending" => Cardinality(Executors(j)) <= Losses(j)
      /\ Active(j) => Cardinality(Executors(j) \ {jobs[j].worker}) <= Losses(j)

(* Begun by a worker that owns the job now, or begun before. *)
Begun(j) ==
    \/ Executors(j)' \subseteq Executors(j)
    \/ /\ jobs'[j].status = "queued"
       /\ Executors(j)' \subseteq Executors(j) \cup {jobs'[j].worker}

(* A step that starts nothing. *)
LEMMA NothingBegun ==
    ASSUME ShapeOK, NEW j \in Jobs, \A w \in Workers : exec'[w] = exec[w] \/ exec'[w][j] = "none"
    PROVE  Begun(j)
  BY DEF Begun, Executors

(* A pull starts the jobs of its answer, which the worker owns by then. *)
LEMMA PullBegins ==
    ASSUME ShapeOK, JobsTyped, NEW w \in Workers, NEW S \in SUBSET Jobs, PullWorkerJobs(w, S),
           NEW j \in Jobs
    PROVE  Begun(j)
  <1> DEFINE mine == {k \in Jobs : jobs[k].status = "queued" /\ jobs[k].worker = w}
             begun == (S \cup mine) \ Executing(w)
             row == [k \in Jobs |-> IF k \in begun THEN "prep" ELSE exec[w][k]]
  <1>0. exec \in [Workers -> [Jobs -> {"none", "prep", "run", "sent", "abort"}]]
    BY DEF ShapeOK, ProcessTypeOK
  <1>1. UNCHANGED exec \/ exec' = [exec EXCEPT ![w] = row]
    BY DEF PullWorkerJobs
  <1>2. jobs' = [k \in Jobs |-> IF k \in S THEN Claimed(jobs[k], w) ELSE jobs[k]]
    BY DEF PullWorkerJobs, AssignPendingJobsToWorker
  <1>3. j \in begun => jobs'[j].status = "queued" /\ jobs'[j].worker = w
    BY <1>2 DEF JobsTyped, Claimed, JobRow
  <1>4. row[j] = IF j \in begun THEN "prep" ELSE exec[w][j]
    OBVIOUS
  <1> HIDE DEF begun, row
  <1>5. \A v \in Workers : exec'[v][j] # "none" => exec[v][j] # "none" \/ (v = w /\ j \in begun)
    BY <1>0, <1>1, <1>4
  <1> QED
    BY <1>3, <1>5 DEF Begun, Executors

(* Only a pull starts anything. *)
LEMMA BegunByOwner ==
    ASSUME ShapeOK, JobsTyped, [ClusterNext]_clusterVars, NEW j \in Jobs
    PROVE  Begun(j)
  <1>0. exec \in [Workers -> [Jobs -> {"none", "prep", "run", "sent", "abort"}]]
    BY DEF ShapeOK, ProcessTypeOK
  <1>1. CASE UNCHANGED exec
    BY <1>1, NothingBegun
  <1>2. CASE UNCHANGED clusterVars
    BY <1>1, <1>2 DEF clusterVars, workerVars
  <1>3. ASSUME NEW k \in Jobs, SubmitJob(k) \/ InsertJob(k) \/ FailAsEncoderUnavailable(k)
                                 \/ ClientCancel(k) \/ JobClock(k)
        PROVE  Begun(j)
    BY <1>1, <1>3 DEF SubmitJob, InsertJob, FailAsEncoderUnavailable, ClientCancel, JobClock, workerVars
  <1>4. CASE SchedulerNext
    BY <1>1, <1>4 DEF SchedulerNext, SelectWorker, CheckTimeout, ScheduleJob, GetTimedOutJobs,
       GetStuckActiveJobs, SweepStuckJobs, GetStarvedPendingJobs, CheckNoWorkerStarvation,
       schedRest, workerVars
  <1>5. CASE MonitorNext
    BY <1>1, <1>5 DEF MonitorNext, CheckWorkers, MonitorMigrate, MonitorRestore, MonitorEvict,
       ClearEviction, MonitorRemove, monRest, workerVars
  <1>6. ASSUME NEW w \in Workers,
               \/ WorkerStart(w) \/ Reregister(w) \/ WorkerHeartbeat(w) \/ PullCheck(w)
               \/ SetIdleAfterReport(w) \/ WorkerStop(w) \/ HeartbeatClock(w)
        PROVE  Begun(j)
    BY <1>1, <1>6 DEF WorkerStart, Reregister, WorkerHeartbeat, PullCheck, SetIdleAfterReport,
       WorkerStop, HeartbeatClock, workerVars
  <1>7. ASSUME NEW w \in Workers, WorkerCrash(w) \/ ProcessExit(w) PROVE Begun(j)
    <2>1. exec' = [exec EXCEPT ![w] = NoExec] /\ NoExec[j] = "none"
      BY <1>7 DEF WorkerCrash, ProcessExit, Gone, NoExec
    <2> QED
      BY <1>0, <2>1, NothingBegun
  <1>8. ASSUME NEW w \in Workers, NEW k \in Jobs,
               HeartbeatReply(w, k) \/ WatchStreamingJobCancellation(w, k)
                 \/ \E p \in 1..MaxProgress : ReportProgress(w, k, p)
        PROVE  Begun(j)
    BY <1>1, <1>8 DEF HeartbeatReply, WatchStreamingJobCancellation, ReportProgress, workerVars
  <1>9. ASSUME NEW w \in Workers, NEW k \in Jobs, ReportRunning(w, k) PROVE Begun(j)
    <2>1. PICK step \in {"run", "abort"} : exec' = [exec EXCEPT ![w][k] = step]
      BY <1>9 DEF ReportRunning
    <2>2. exec[w][k] = "prep"
      BY <1>9 DEF ReportRunning
    <2> QED
      BY <1>0, <2>1, <2>2 DEF Begun, Executors
  <1>10. ASSUME NEW w \in Workers, NEW k \in Jobs, NEW s \in TerminalStatus, NEW f \in ReportClass(s),
                ReportTerminal(w, k, s, f)
         PROVE  Begun(j)
    <2>1. exec' = [exec EXCEPT ![w][k] = "none"]
      BY <1>10 DEF ReportTerminal
    <2> QED
      BY <1>0, <2>1 DEF Begun, Executors
  <1>12. ASSUME NEW w \in Workers, NEW k \in Jobs, UploadOutput(w, k) PROVE Begun(j)
    <2>1. exec' = exec \/ \E step \in {"sent", "abort"} : exec' = [exec EXCEPT ![w][k] = step]
      BY <1>12 DEF UploadOutput
    <2>2. exec[w][k] # "none"
      BY <1>12 DEF UploadOutput
    <2>3. Executors(j)' \subseteq Executors(j)
      BY <1>0, <2>1, <2>2 DEF Executors
    <2> QED
      BY <2>3 DEF Begun
  <1>11. ASSUME NEW S \in SUBSET Workers, ServerRestart(S) PROVE Begun(j)
    BY <1>1, <1>11 DEF ServerRestart, workerVars
  <1> QED
    BY <1>2, <1>3, <1>4, <1>5, <1>6, <1>7, <1>8, <1>9, <1>10, <1>11, <1>12, PullBegins
       DEF ClusterNext, WorkerProcNext

(* The restarts are counted up. *)
LEMMA RestartsGrow ==
    ASSUME ShapeOK, [ClusterNext]_clusterVars
    PROVE  restarts' \in {restarts, restarts + 1}
  <1> USE DEF boundVars
  <1>1. ASSUME NEW k \in Jobs, SubmitJob(k) \/ InsertJob(k) \/ FailAsEncoderUnavailable(k)
                                 \/ ClientCancel(k) \/ JobClock(k)
        PROVE  UNCHANGED restarts
    BY <1>1 DEF SubmitJob, InsertJob, FailAsEncoderUnavailable, ClientCancel, JobClock
  <1>2. CASE SchedulerNext
    BY <1>2 DEF SchedulerNext, SelectWorker, CheckTimeout, ScheduleJob, GetTimedOutJobs,
       GetStuckActiveJobs, SweepStuckJobs, GetStarvedPendingJobs, CheckNoWorkerStarvation, schedRest
  <1>3. CASE MonitorNext
    BY <1>3 DEF MonitorNext, CheckWorkers, MonitorMigrate, MonitorRestore, MonitorEvict,
       ClearEviction, MonitorRemove, monRest
  <1>4. ASSUME NEW w \in Workers, WorkerProcNext(w) \/ HeartbeatClock(w) PROVE UNCHANGED restarts
    BY <1>4 DEF WorkerProcNext, WorkerStart, Reregister, WorkerHeartbeat, PullCheck, PullWorkerJobs,
       SetIdleAfterReport, WorkerCrash, WorkerStop, ProcessExit, HeartbeatReply,
       WatchStreamingJobCancellation, ReportRunning, ReportProgress, UploadOutput,
       ReportTerminal, HeartbeatClock, workerRest
  <1>5. ASSUME NEW S \in SUBSET Workers, ServerRestart(S) PROVE restarts' = restarts + 1
    BY <1>5 DEF ServerRestart
  <1> QED
    BY <1>1, <1>2, <1>3, <1>4, <1>5 DEF ClusterNext, clusterVars

(* A job that is not taken back loses its worker only to a verdict. *)
LEMMA JobMoves ==
    ASSUME NEW a, NEW b, RowOK(a), GoodStep(a, b)
    PROVE  /\ b.status = "none" => a.status = "none"
           /\ b.status = "pending" => a.status \in {"none", "pending"} \cup ActiveStatus
           /\ b.status \in ActiveStatus =>
                a.status = "pending" \/ (a.status \in ActiveStatus /\ a.worker = b.worker)
           /\ b.status \in TerminalStatus \/ b.status \in {"none", "pending"} \cup ActiveStatus
           /\ b.status \in ActiveStatus => b.worker \in Workers
           /\ a.status \in JobStatus
  <1>1. RowOK(b) /\ Lifecycle!LegalStep(LifeOf(a), LifeOf(b))
    BY DEF GoodStep
  <1>2. a.status \in JobStatus /\ b.status \in JobStatus
    BY <1>1 DEF RowOK, JobRow
  <1>3. /\ a.status = "none" => LifeOf(a) = Lifecycle!New
        /\ a.status = "pending" => LifeOf(a) = Lifecycle!Waiting
        /\ a.status \in ActiveStatus => LifeOf(a) = Lifecycle!HeldBy(a.worker)
        /\ a.status \in TerminalStatus => LifeOf(a) = Lifecycle!SettledAs(a.status)
    BY LifeCases
  <1>4. /\ b.status = "none" => LifeOf(b) = Lifecycle!New
        /\ b.status = "pending" => LifeOf(b) = Lifecycle!Waiting
        /\ b.status \in ActiveStatus => b.worker \in Workers /\ LifeOf(b) = Lifecycle!HeldBy(b.worker)
        /\ b.status \in TerminalStatus => LifeOf(b) = Lifecycle!SettledAs(b.status)
    BY <1>1, LifeCases
  <1> QED
    BY <1>1, <1>2, <1>3, <1>4 DEF JobStatus, ActiveStatus, TerminalStatus, Lifecycle!LegalStep,
       Lifecycle!New, Lifecycle!Waiting, Lifecycle!HeldBy, Lifecycle!SettledAs

(* Counting with one executor more or less. *)
LEMMA OneMore ==
    ASSUME NEW E, IsFiniteSet(E), NEW F, NEW w, F \subseteq E \cup {w}
    PROVE  /\ IsFiniteSet(F) /\ Cardinality(F) \in Nat
           /\ IsFiniteSet(E \ {w}) /\ Cardinality(E \ {w}) \in Nat
           /\ Cardinality(F) <= 1 + Cardinality(E \ {w})
           /\ IsFiniteSet(F \ {w}) /\ Cardinality(F \ {w}) <= Cardinality(E \ {w})
  <1> DEFINE R == E \ {w}
  <1>1. IsFiniteSet(R) /\ Cardinality(R) \in Nat
    BY FS_Subset, FS_CardinalityType
  <1>2. w \notin R
    OBVIOUS
  <1>3. F \subseteq R \cup {w} /\ F \ {w} \subseteq R
    OBVIOUS
  <1> HIDE DEF R
  <1>4. IsFiniteSet(R \cup {w}) /\ Cardinality(R \cup {w}) = Cardinality(R) + 1
    BY <1>1, <1>2, FS_AddElement
  <1>5. IsFiniteSet(F) /\ Cardinality(F) <= Cardinality(R) + 1
    BY <1>3, <1>4, FS_Subset
  <1>6. IsFiniteSet(F \ {w}) /\ Cardinality(F \ {w}) <= Cardinality(R)
    BY <1>1, <1>3, FS_Subset
  <1>7. Cardinality(F) \in Nat
    BY <1>5, FS_CardinalityType
  <1> QED
    BY <1>1, <1>5, <1>6, <1>7 DEF R

(* Every step keeps the account. *)
LEMMA ExecutorsStep ==
    ASSUME ShapeOK, StoreInv, ExecutorsInv, [ClusterNext]_clusterVars
    PROVE  ExecutorsInv'
  <1> SUFFICES ASSUME NEW j \in Jobs
               PROVE  /\ IsFiniteSet(Executors(j)')
                      /\ Cardinality(Executors(j)') <= 1 + Losses(j)'
                      /\ jobs'[j].status = "none" => Executors(j)' = {}
                      /\ jobs'[j].status = "pending" => Cardinality(Executors(j)') <= Losses(j)'
                      /\ jobs'[j].status \in ActiveStatus =>
                           Cardinality(Executors(j)' \ {jobs'[j].worker}) <= Losses(j)'
    BY DEF ExecutorsInv, Active
  <1> DEFINE E == Executors(j)
             F == Executors(j)'
             L == Losses(j)
             M == Losses(j)'
             a == jobs[j]
             b == jobs'[j]
  <1>1. /\ IsFiniteSet(E) /\ Cardinality(E) <= 1 + L
        /\ a.status = "none" => E = {}
        /\ a.status = "pending" => Cardinality(E) <= L
        /\ a.status \in ActiveStatus => Cardinality(E \ {a.worker}) <= L
    BY DEF ExecutorsInv, Active
  <1>2. StepOK /\ [Next]_storeVars
    BY EveryClusterStep, StatementOrRecovery DEF StepOK, Recovered
  <1>3. RowOK(a) /\ GoodStep(a, b)
    BY <1>2, EveryStep DEF RowsGood, StoreInv
  <1>4. /\ b.status = "none" => a.status = "none"
        /\ b.status = "pending" => a.status \in {"none", "pending"} \cup ActiveStatus
        /\ b.status \in ActiveStatus =>
             a.status = "pending" \/ (a.status \in ActiveStatus /\ a.worker = b.worker)
    BY <1>3, JobMoves
  <1>5. L \in Nat /\ M \in Nat /\ M >= L
    <2>1. Moves(j) \in Nat /\ Moves(j)' \in Nat /\ Moves(j)' >= Moves(j)
      BY <1>2, EventsGrow
    <2>2. restarts \in Nat /\ restarts' \in {restarts, restarts + 1}
      BY RestartsGrow DEF ShapeOK, BoundsOK
    <2> QED
      BY <2>1, <2>2 DEF Losses
  <1>6. a.status \in ActiveStatus /\ b.status = "pending" => M >= L + 1
    <2> SUFFICES ASSUME a.status \in ActiveStatus, b.status = "pending" PROVE M >= L + 1
      OBVIOUS
    <2>1. GoesBack(j)
      BY DEF GoesBack, Active
    <2>2. Moves(j) \in Nat /\ Moves(j)' \in Nat /\ Moves(j)' >= Moves(j)
      BY <1>2, EventsGrow
    <2>3. restarts \in Nat /\ restarts' \in {restarts, restarts + 1}
      BY RestartsGrow DEF ShapeOK, BoundsOK
    <2>4. CASE Statement
      <3>1. Moves(j)' = Moves(j) + 1
        BY <2>1, <2>4, CountedRequeue DEF Counted, Moves
      <3> QED
        BY <2>2, <2>3, <3>1 DEF Losses
    <2>5. CASE Recovered
      BY <2>2, <2>3, <2>5 DEF Losses, Recovered
    <2>6. CASE UNCHANGED storeVars
      BY <2>6 DEF storeVars, ActiveStatus
    <2> QED
      BY <1>2, <2>4, <2>5, <2>6 DEF StepOK
  <1>7. F \subseteq E \/ (b.status = "queued" /\ F \subseteq E \cup {b.worker})
    BY BegunByOwner DEF Begun, StoreInv, JobsTyped
  <1> HIDE DEF E, F, L, M, a, b
  <1>8. /\ IsFiniteSet(F) /\ Cardinality(F) \in Nat /\ Cardinality(E) \in Nat
        /\ \A w : F \subseteq E \cup {w} =>
             /\ Cardinality(F) <= 1 + Cardinality(E \ {w})
             /\ Cardinality(F \ {w}) <= Cardinality(E \ {w})
             /\ Cardinality(F \ {w}) \in Nat /\ Cardinality(E \ {w}) \in Nat
             /\ Cardinality(E \ {w}) <= Cardinality(E)
    <2>1. \A w : F \subseteq E \cup {w} =>
             /\ IsFiniteSet(F) /\ Cardinality(F) \in Nat
             /\ Cardinality(E \ {w}) \in Nat /\ IsFiniteSet(F \ {w})
             /\ Cardinality(F) <= 1 + Cardinality(E \ {w})
             /\ Cardinality(F \ {w}) <= Cardinality(E \ {w})
      BY <1>1, OneMore
    <2>2. \A w : Cardinality(E \ {w}) <= Cardinality(E)
      BY <1>1, FS_Subset
    <2>3. \A w : IsFiniteSet(F \ {w}) => Cardinality(F \ {w}) \in Nat
      BY FS_CardinalityType
    <2>4. F \subseteq E \cup {b.worker} /\ Cardinality(E) \in Nat
      BY <1>1, <1>7, FS_CardinalityType
    <2> QED
      BY <2>1, <2>2, <2>3, <2>4
  <1>9. F \subseteq E => Cardinality(F) <= Cardinality(E)
    BY <1>1, FS_Subset
  <1> DEFINE n == Cardinality(F)
             x == Cardinality(E \ {b.worker})
             y == Cardinality(F \ {b.worker})
             z == Cardinality(E \ {a.worker})
  <1>10. /\ x \in Nat /\ y \in Nat /\ n <= 1 + x /\ y <= x /\ x <= Cardinality(E)
         /\ F \subseteq E => z \in Nat /\ n <= 1 + z
    <2>1. F \subseteq E \cup {b.worker} /\ (F \subseteq E => F \subseteq E \cup {a.worker})
      BY <1>7
    <2> QED
      BY <1>8, <2>1
  <1>11. /\ n \in Nat
         /\ a.status \in ActiveStatus => z <= L
         /\ a.worker = b.worker => x = z
    BY <1>1, <1>8
  <1>12. b.status = "none" => F = {}
    BY <1>1, <1>4, <1>7
  <1>13. b.status = "pending" => n <= M
    <2> SUFFICES ASSUME b.status = "pending" PROVE n <= M
      OBVIOUS
    <2>1. F \subseteq E
      BY <1>7
    <2>2. CASE a.status = "pending"
      BY <1>1, <1>5, <1>8, <1>9, <2>1, <2>2
    <2>3. CASE a.status = "none"
      <3>1. F = {}
        BY <1>1, <2>1, <2>3
      <3> QED
        BY <1>5, <3>1, FS_EmptySet
    <2>4. CASE a.status \in ActiveStatus
      <3> HIDE DEF n, z
      <3> QED
        BY <1>5, <1>6, <1>10, <1>11, <2>1, <2>4
    <2> QED
      BY <1>4, <2>2, <2>3, <2>4
  <1>14. b.status \in ActiveStatus => x <= L
    <2>1. CASE a.status = "pending"
      <3> HIDE DEF x
      <3> QED
        BY <1>1, <1>5, <1>8, <1>10, <2>1
    <2>2. CASE a.status \in ActiveStatus /\ a.worker = b.worker
      <3> HIDE DEF x, z
      <3> QED
        BY <1>11, <2>2
    <2> QED
      BY <1>4, <2>1, <2>2
  <1>15. b.status \in ActiveStatus => y <= M
    <2> HIDE DEF x, y
    <2> QED
      BY <1>5, <1>10, <1>14
  <1>16. n <= 1 + M
    <2>1. CASE F \subseteq E
      BY <1>1, <1>5, <1>8, <1>9, <2>1
    <2>2. CASE b.status = "queued"
      <3>1. x <= L
        BY <1>14, <2>2 DEF ActiveStatus
      <3> HIDE DEF n, x
      <3> QED
        BY <1>5, <1>10, <1>11, <3>1
    <2> QED
      BY <1>7, <2>1, <2>2
  <1> QED
    BY <1>8, <1>12, <1>13, <1>15, <1>16 DEF F, M, b

(* Whatever restarts, crashes, lost answers and racing pulls do, the workers that
   process a job beyond the first are no more than its recorded requeues and the
   server's restarts, for any number of jobs and workers. *)
THEOREM ExecutorsAreAccountedFor == ClusterSpec => []DoubleExecutionIsAudited
  <1>1. ClusterInit => ExecutorsInv
    <2> SUFFICES ASSUME ClusterInit, NEW j \in Jobs
                 PROVE  Executors(j) = {} /\ Losses(j) = 0
      <3>1. Cardinality({}) = 0 /\ IsFiniteSet({}) /\ \A w : {} \ {w} = {}
        BY FS_EmptySet
      <3>2. ASSUME ClusterInit, NEW k \in Jobs
            PROVE  /\ IsFiniteSet(Executors(k)) /\ Cardinality(Executors(k)) <= 1 + Losses(k)
                   /\ Executors(k) = {} /\ Cardinality(Executors(k)) <= Losses(k)
                   /\ \A w : Cardinality(Executors(k) \ {w}) <= Losses(k)
        <4>1. Executors(k) = {} /\ Losses(k) = 0
          BY <3>2
        <4>2. \A w : Cardinality(Executors(k) \ {w}) = 0
          BY <3>1, <4>1
        <4> QED
          BY <3>1, <4>1, <4>2
      <3> QED
        BY <3>2 DEF ExecutorsInv
    <2> QED
      BY DEF ClusterInit, Init, NoExec, NoEvents, Executors, Losses, Moves
  <1>2. StoreInv /\ ShapeOK /\ ExecutorsInv => DoubleExecutionIsAudited
    <2> SUFFICES ASSUME StoreInv, ShapeOK, ExecutorsInv, NEW j \in Jobs
                 PROVE  Cardinality(Executors(j)) <= 1 + events[j].crash + events[j].timeout + restarts
      BY DEF DoubleExecutionIsAudited, Executors
    <2>1. events[j].crash \in Nat /\ events[j].timeout \in Nat /\ restarts \in Nat
      BY DEF StoreInv, EventRow, ShapeOK, BoundsOK
    <2>2. Cardinality(Executors(j)) <= 1 + (events[j].crash + events[j].timeout + restarts)
      BY DEF ExecutorsInv, Losses, Moves
    <2>3. 1 + (events[j].crash + events[j].timeout + restarts)
            = 1 + events[j].crash + events[j].timeout + restarts
      BY <2>1
    <2> QED
      BY <2>2, <2>3
  <1> QED
    BY <1>1, <1>2, ExecutorsStep, MemoryWellFormed, ClusterImplementsStore, Invariance, PTL
       DEF ClusterSpec
=============================================================================
