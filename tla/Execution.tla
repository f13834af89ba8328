------------------------------ MODULE Execution ------------------------------
(***************************************************************************)
(* What a worker does with one dispatched job: processJob of               *)
(* src/pkg/worker/worker.go with the retry executor, the ffmpeg executor,  *)
(* the error interceptor and the software fallback it calls.  The job may  *)
(* be dispatched again, to the same or to another worker, after a crash or *)
(* because the server believes its worker gone; in shared-file-system      *)
(* ("direct") mode the attempts then meet in one staging directory and at  *)
(* one target path.                                                        *)
(*                                                                         *)
(* A file is what a reader of it would find: "none", "empty", "partial",   *)
(* "whole", or "mixed" when two ffmpeg processes wrote to it; "user" is a  *)
(* file that was there before the job.                                     *)
(***************************************************************************)
EXTENDS Integers, FiniteSets, EncoderFallback

CONSTANTS
    Workers,      \* the workers, all mounting the shared file system
    Jobs,         \* the jobs to consider, see JobRecords
    MaxRetries,   \* RetryConfig.MaxRetries
    MaxDispatch,  \* bound: how often the server hands the job out
    Faults,       \* the kinds of fault that may happen, see FaultKinds
    MaxFaults     \* bound: how many faults an attempt survives in a behaviour

FaultKinds == {"crash", "unheard", "panic", "stop", "io", "net", "codec", "report", "oom"}

JobRecords == [mode : {"upload", "direct", "stream", "net"},
               policy : {"force", "never", "ask", "conflict"},
               encoder : HardwareEncoders \cup KnownSoftwareEncoders \cup {"copy", "exotic", None},
               container : {"mp4", "webm", "other"},
               exists : BOOLEAN,  \* the direct target is there already
               timed : BOOLEAN]   \* the job carries a --timeout budget

ASSUME ExecutionAssumption ==
    /\ Jobs \subseteq JobRecords
    /\ MaxRetries \in Nat \ {0} /\ MaxDispatch \in Nat \ {0} /\ MaxFaults \in Nat
    /\ Faults \subseteq FaultKinds
    /\ Workers \cap {"nodir", "clear"} = {}

VARIABLES
    job,        \* the job, chosen once
    x,          \* x[w]: the attempt worker w is running, or last ran
    file,       \* file[w]: the file w's latest ffmpeg opened
    cache,      \* cache[w]: w's cache entry under the job's key
    staged,     \* the staging path: "nodir", "clear", or whose file is there
    target,     \* the main file at the direct target
    segments,   \* the sibling files published with it
    delivered,  \* the output the server holds
    owner,      \* the worker the server assigned the job to
    verdict,    \* the status the server settled on, "none" until then
    dispatches, faults

vars == <<job, x, file, cache, staged, target, segments, delivered, owner, verdict,
          dispatches, faults>>
disk == <<file, cache, staged, target, segments, delivered>>
server == <<owner, verdict, dispatches>>

Contents == {"none", "user", "empty", "partial", "whole", "mixed"}
Final == MaxRetries + 1   \* the attempt number of the last software fallback

OnFile == job.mode \in {"upload", "direct"}
Working(w) == x[w].pc \notin {"idle", "done", "crashed"}
ContextDone(w) == x[w].cancelled \/ x[w].expired

\* A terminal report, with the grounds the worker had for it.
NoReport == [status |-> "none", type |-> "none", last |-> "none", oom |-> FALSE,
             retried |-> FALSE, expired |-> FALSE, cancelled |-> FALSE]
Report(w, status, type) ==
    [status |-> status, type |-> type, last |-> x[w].last, oom |-> x[w].oom,
     retried |-> x[w].att > 0, expired |-> x[w].expired, cancelled |-> x[w].cancelled]

\* What processJob starts from: userSel is isUserSelected, usedSw is
\* RetryResult.UsedSoftwareEncoder, att the attempt (0 is the initial run); last
\* is how the latest ffmpeg ended, and oom that its stderr speaks of memory
\* exhausted (isOOMKill).
Fresh(retryCount) ==
    [pc |-> "start", retryCount |-> retryCount, cancelled |-> FALSE, expired |-> FALSE,
     att |-> 0, enc |-> None, params |-> {"hardware", "advanced"}, userSel |-> TRUE,
     usedSw |-> FALSE, last |-> "none", oom |-> FALSE, staging |-> FALSE, report |-> NoReport]

Init ==
    /\ job \in Jobs
    /\ x = [w \in Workers |-> [Fresh(0) EXCEPT !.pc = "idle"]]
    /\ file = [w \in Workers |-> "none"]
    /\ cache = [w \in Workers |-> "none"]
    /\ staged = "nodir"
    /\ target = IF job.exists THEN "user" ELSE "none"
    /\ segments = target
    /\ delivered = "none"
    /\ owner = "none" /\ verdict = "none" /\ dispatches = 0 /\ faults = 0

Fault(kind) == kind \in Faults /\ faults < MaxFaults /\ faults' = faults + 1
NoFault == UNCHANGED faults

-----------------------------------------------------------------------------
(* The server's side, as far as processJob sees it.                        *)

\* A job is handed out once, and again when the server gave its worker up:
\* the worker died, or it is alive and was not heard.  A worker never runs
\* two attempts of one job (activeJobs).
Dispatch(w) ==
    /\ verdict = "none" /\ dispatches < MaxDispatch /\ ~Working(w)
    /\ owner' = w
    /\ dispatches' = dispatches + 1
    /\ \/ /\ \A v \in Workers : ~Working(v)
          /\ NoFault
       \/ /\ \E v \in Workers : Working(v)
          /\ Fault("unheard")
    /\ x' = [x EXCEPT ![w] = Fresh(dispatches)]
    /\ UNCHANGED <<job, disk, verdict>>

ClientCancels ==
    /\ dispatches > 0 /\ verdict = "none"
    /\ verdict' = "cancelled"
    /\ UNCHANGED <<job, x, disk, owner, dispatches, faults>>

\* The job's context is cancelled: the heartbeat answer or the status poll of
\* a streaming job told the worker, or the worker is being stopped.
CancelContext(w) ==
    /\ Working(w) /\ ~x[w].cancelled
    /\ \/ verdict = "cancelled" /\ NoFault
       \/ Fault("stop")
    /\ x' = [x EXCEPT ![w].cancelled = TRUE]
    /\ UNCHANGED <<job, disk, server>>

\* The ffmpeg budget starts at the execution boundary and not before.
ExpireBudget(w) ==
    /\ job.timed /\ x[w].pc \in {"launch", "run", "judge", "retry", "final"}
    /\ ~ContextDone(w)
    /\ x' = [x EXCEPT ![w].expired = TRUE]
    /\ UNCHANGED <<job, disk, server, faults>>

\* UpdateJob: the server takes a report of the worker that owns the open job
\* and answers 409 to any other.
Accepts(w) == owner = w /\ verdict = "none"

\* Leaving processJob: one terminal report, then the deferred clean-up, which
\* removes the job directory and, once it was made, the staging directory.  A
\* report the server does not get is only logged.
Exit(w, status, type) ==
    /\ x' = [x EXCEPT ![w] = [Fresh(0) EXCEPT !.pc = "done", !.report = Report(w, status, type)]]
    /\ \/ verdict' = (IF Accepts(w) THEN status ELSE verdict) /\ NoFault
       \/ Fault("report") /\ UNCHANGED verdict
    /\ file' = IF job.mode = "upload" THEN [file EXCEPT ![w] = "none"] ELSE file
    /\ staged' = IF x[w].staging THEN "nodir" ELSE staged
    /\ UNCHANGED <<job, owner, dispatches>>

\* An exit at which the only thing that happened is what Exit says.
Leave(w, status, type) ==
    Exit(w, status, type) /\ UNCHANGED <<cache, target, segments, delivered>>

-----------------------------------------------------------------------------
(* Before ffmpeg.                                                          *)

Goto(w, pc) == x' = [x EXCEPT ![w].pc = pc]

\* Direct paths are validated; an upload job is looked up in the cache first.
\* A hit that cannot be copied or uploaded, or that would overwrite a file the
\* caller did not allow to be overwritten, is a miss.
CheckCache(w) ==
    LET hit == job.mode = "upload" /\ cache[w] # "none"
    IN  /\ x[w].pc = "start"
        /\ \/ /\ job.mode = "direct" /\ "io" \in Faults
              /\ Leave(w, "failed", "INPUT_UNREACHABLE")
           \/ /\ hit /\ (file[w] = "none" \/ job.policy = "force")
              /\ delivered' = cache[w]
              /\ Exit(w, "completed", "none")
              /\ UNCHANGED <<cache, target, segments>>
           \/ /\ hit /\ "io" \in Faults
              /\ Leave(w, "failed", "INFRA")
           \/ /\ \/ ~hit /\ NoFault
                 \/ hit /\ file[w] # "none" /\ job.policy # "force" /\ NoFault
                 \/ hit /\ Fault("net")
              /\ Goto(w, "prepare")
              /\ UNCHANGED <<job, disk, server>>

\* A fresh job directory and the inputs; a cancellation that landed meanwhile
\* is honoured before anything is paid for.
Prepare(w) ==
    /\ x[w].pc = "prepare"
    /\ \/ "io" \in Faults /\ Leave(w, "failed", "INFRA")
       \/ /\ job.mode # "direct" /\ "net" \in Faults
          /\ IF x[w].cancelled THEN Leave(w, "cancelled", "none")
                               ELSE \E t \in {"INFRA", "INPUT_UNREACHABLE"} :
                                      Leave(w, "failed", t)
       \/ x[w].cancelled /\ Leave(w, "cancelled", "none")
       \/ /\ ~x[w].cancelled
          /\ Goto(w, "stage")
          /\ file' = IF job.mode = "upload" THEN [file EXCEPT ![w] = "none"] ELSE file
          /\ UNCHANGED <<job, cache, staged, target, segments, delivered, server, faults>>

\* OverwritePolicy decides twice: a re-dispatched attempt removes the output
\* the previous worker is assumed to have left, and a direct job refuses an
\* existing target.  Then the staging directory is made afresh.
Redispatched(w) == OnFile /\ x[w].retryCount > 0 /\ job.policy \notin {"never", "conflict"}

Stage(w) ==
    LET found == IF Redispatched(w) THEN "none" ELSE target
    IN  /\ x[w].pc = "stage"
        /\ UNCHANGED <<job, cache, segments, delivered>>
        /\ \/ /\ Redispatched(w) /\ "io" \in Faults
              /\ Exit(w, "failed", "INFRA")
              /\ UNCHANGED target
           \/ /\ job.mode # "direct"
              /\ Goto(w, "rewrite")
              /\ UNCHANGED <<file, staged, target, server, faults>>
           \/ /\ job.mode = "direct" /\ job.policy \notin {"force", "conflict"} /\ found # "none"
              /\ target' = found
              /\ Exit(w, "failed", "FFMPEG_ERROR")
           \/ /\ job.mode = "direct" /\ (job.policy \in {"force", "conflict"} \/ found = "none")
              /\ target' = found
              /\ \/ "io" \in Faults /\ Exit(w, "failed", "FFMPEG_ERROR")
                 \/ /\ staged' = "clear"
                    /\ x' = [x EXCEPT ![w].pc = "rewrite", ![w].staging = TRUE]
                    /\ UNCHANGED <<file, server, faults>>

\* The encoder after the rewrite; VAAPI and a pixel format it cannot take
\* switch to software up front, an encoder the runtime lacks fails the job.
VAAPI == {"h264_vaapi", "hevc_vaapi", "vp9_vaapi", "vp8_vaapi", "av1_vaapi", "mpeg2_vaapi"}

Encodings == {job.encoder} \cup
             (IF job.encoder \in VAAPI THEN {PrepareFallback(job.encoder, job.container, FALSE)} ELSE {})

Rewrite(w) ==
    /\ x[w].pc = "rewrite"
    /\ \/ "codec" \in Faults /\ Leave(w, "failed", "FFMPEG_ERROR")
       \/ \E e \in Encodings : IsHardwareEncoder(e) /\ "codec" \in Faults
                                /\ Leave(w, "failed", "ENCODER_UNSUPPORTED")
       \/ x[w].cancelled /\ Leave(w, "cancelled", "none")
       \/ /\ ~x[w].cancelled
          /\ \E e \in Encodings : x' = [x EXCEPT ![w].pc = "boundary", ![w].enc = e]
          /\ UNCHANGED <<job, disk, server, faults>>

\* Mutant: a refused running report is logged, and ffmpeg runs all the same.
MarkRunningUnheeded(w) ==
    /\ x[w].pc = "boundary"
    /\ Goto(w, "launch")
    /\ UNCHANGED <<job, disk, server, faults>>

\* The job is marked running where the budget begins.  An attempt the server
\* no longer knows is refused here and ends.
MarkRunning(w) ==
    /\ x[w].pc = "boundary"
    /\ \/ /\ ~Accepts(w) \/ "report" \in Faults
          /\ Leave(w, IF x[w].cancelled THEN "cancelled" ELSE "failed",
                      IF x[w].cancelled THEN "none" ELSE "INFRA")
       \/ /\ Accepts(w)
          /\ Goto(w, "launch")
          /\ UNCHANGED <<job, disk, server, faults>>

-----------------------------------------------------------------------------
(* One ffmpeg process.                                                     *)

\* What is at the path ffmpeg writes to.
AtPath(w) ==
    CASE job.mode = "upload" -> file[w]
      [] job.mode = "direct" /\ staged \in Workers -> file[staged]
      [] OTHER -> "none"

\* Mutant: no attempt clears what the one before it left.
NoClear(w) == FALSE

\* clearStaleOutput: the path is free before every attempt but the initial one.
clearStaleOutput(w) == x[w].att > 0

\* ffmpeg opens its output.  It refuses a file that is there unless it was
\* given -y, rejects -y with -n, and cannot create one in a directory that is
\* gone; a command whose context is done never starts.
Launch(w) ==
    LET there == ~clearStaleOutput(w) /\ AtPath(w) # "none"
        ends(o) == x' = [x EXCEPT ![w].pc = "judge", ![w].last = o, ![w].oom = FALSE]
    IN  /\ x[w].pc = "launch"
        /\ UNCHANGED <<job, cache, target, segments, delivered, server, faults>>
        /\ \/ /\ ContextDone(w)
              /\ ends("nostart")
              /\ UNCHANGED <<file, staged>>
           \/ /\ ~ContextDone(w) /\ job.policy = "conflict"
              /\ ends("fatal")
              /\ UNCHANGED <<file, staged>>
           \/ /\ ~ContextDone(w) /\ job.policy # "conflict" /\ ~OnFile
              /\ Goto(w, "run")
              /\ UNCHANGED <<file, staged>>
           \/ /\ ~ContextDone(w) /\ job.policy # "conflict" /\ OnFile
              /\ \/ /\ job.mode = "direct" /\ staged = "nodir"
                    /\ ends("unwritten")
                    /\ UNCHANGED <<file, staged>>
                 \/ /\ there /\ job.policy # "force"
                    /\ ends("refused")
                    /\ UNCHANGED <<file, staged>>
                 \/ /\ there /\ job.policy = "force" /\ job.mode = "direct" /\ staged # w
                    /\ file' = [file EXCEPT ![staged] = "mixed", ![w] = "none"]
                    /\ Goto(w, "run")
                    /\ UNCHANGED staged
                 \/ /\ ~there \/ (job.policy = "force" /\ (job.mode = "upload" \/ staged = w))
                    /\ job.mode = "direct" => staged # "nodir"
                    /\ file' = [file EXCEPT ![w] = "partial"]
                    /\ staged' = IF job.mode = "direct" THEN w ELSE staged
                    /\ Goto(w, "run")

\* How an ffmpeg run ends: "warned" exits 0 with its output written and a
\* message the interceptor's patterns match (or a silent software encode under
\* a hardware name); "empty" exits 0 and writes nothing; "unwritten" exits 0
\* and could not open its output; "crash" dies of a signal; "noenc" has no such
\* encoder; "fatal" fails for a reason no retry cures; "stall" is killed by the
\* watchdog or by the executor's own time limit.
Outcomes == {"ok", "warned", "empty", "unwritten", "crash", "noenc", "fatal", "stall"}

Left(outcome) ==
    CASE outcome \in {"ok", "warned"}     -> "whole"
      [] outcome \in {"empty", "noenc"}   -> "empty"
      [] OTHER                            -> "partial"

\* The runs whose stderr the worker reads for more than their ending.
Telling == {"warned", "empty", "unwritten", "noenc", "fatal", "stall", "timeout"}

\* A done context kills the process group, unless it ended just before.
FFmpegEnds(w) ==
    /\ x[w].pc = "run"
    /\ \E o \in Outcomes \cup (IF x[w].expired THEN {"timeout"}
                               ELSE IF x[w].cancelled THEN {"killed"} ELSE {}) :
         /\ \/ /\ x' = [x EXCEPT ![w].pc = "judge", ![w].last = o, ![w].oom = FALSE]
               /\ NoFault
            \/ /\ x' = [x EXCEPT ![w].pc = "judge", ![w].last = o, ![w].oom = TRUE]
               /\ o \in Telling /\ Fault("oom")
         /\ IF o = "unwritten"
              THEN /\ file' = [file EXCEPT ![w] = "none"]
                   /\ staged' = IF staged = w THEN "clear" ELSE staged
              ELSE /\ file' = [file EXCEPT ![w] = IF ~OnFile \/ @ \in {"none", "mixed"}
                                                    THEN @ ELSE Left(o)]
                   /\ UNCHANGED staged
    /\ UNCHANGED <<job, cache, target, segments, delivered, server>>

-----------------------------------------------------------------------------
(* Judging a run and retrying it.                                          *)

\* The error interceptor's type for a run that did not succeed.  The text a
\* stalled run left behind may match a retryable pattern or none, and a line on
\* exhausted memory may come first: memory_allocation, like "unknown", is final.
ErrorTypes(last, oom) ==
    (CASE last \in {"crash", "killed"}   -> {"process_crash"}
       [] last = "noenc"                 -> {"encoder_not_found"}
       [] last = "warned"                -> {"hwaccel_failed"}
       [] last \in {"ok", "empty", "refused"} -> {"output_empty"}
       [] last = "unwritten"             -> {"output_open"}
       [] last \in {"stall", "timeout"}  -> {"unknown", "hwaccel_failed"}
       [] OTHER                          -> {"unknown"})
      \cup (IF oom THEN {"unknown"} ELSE {})

IsRetryable(t) == t \in {"process_crash", "encoder_not_found", "hwaccel_failed", "output_empty"}

\* ClassifyFailure: a death by signal and exhausted memory outrank a timeout.
\* (What only the text tells apart, a full disk or an unreachable input, is
\* counted with FFMPEG_ERROR.)
ClassifyFailure(last, oom, isTimeout) ==
    IF last \in {"crash", "killed"} \/ oom THEN "WORKER_CRASH"
    ELSE IF isTimeout THEN "TIMEOUT"
    ELSE IF last = "noenc" THEN "ENCODER_UNSUPPORTED"
    ELSE "FFMPEG_ERROR"

FailureClass(w, isTimeout) == ClassifyFailure(x[w].last, x[w].oom, isTimeout)

HasOutput(w) == ~OnFile \/ AtPath(w) \notin {"none", "empty"}

\* The initial run: ffmpeg's exit code wins over its warnings, unless the
\* output is missing, empty or was never opened.  An empty stream is no error.
InitialSucceeded(w) ==
    /\ x[w].last \in {"ok", "warned"} \cup (IF OnFile THEN {} ELSE {"empty"})
    /\ HasOutput(w)

\* (A network output that exits non-zero with the same text fails at once.)
\* A retried run: any matching line of its stderr makes it a failure.
RetrySucceeded(w) == x[w].last \in {"ok", "refused"} /\ HasOutput(w)

JudgeInitial(w) ==
    /\ x[w].pc = "judge" /\ x[w].att = 0
    /\ \/ x[w].cancelled /\ Leave(w, "cancelled", "none")
       \/ /\ ~x[w].cancelled /\ x[w].last \in {"timeout", "stall"}
          /\ Leave(w, "timeout", FailureClass(w, TRUE))
       \/ ~x[w].cancelled /\ job.mode = "net" /\ x[w].last = "empty"
            /\ Leave(w, "failed", FailureClass(w, FALSE))
       \/ /\ ~x[w].cancelled /\ InitialSucceeded(w)
          /\ Goto(w, "publish")
          /\ UNCHANGED <<job, disk, server, faults>>
       \/ /\ ~x[w].cancelled /\ x[w].last \notin {"timeout", "stall"} /\ ~InitialSucceeded(w)
          /\ \E t \in IF x[w].last = "refused" THEN {"unknown"} ELSE ErrorTypes(x[w].last, x[w].oom) :
               \/ ~IsRetryable(t) /\ Leave(w, "failed", FailureClass(w, FALSE))
               \/ /\ IsRetryable(t)
                  /\ x' = [x EXCEPT ![w].pc = "retry", ![w].att = 1, ![w].last = "none",
                                    ![w].oom = FALSE]
                  /\ UNCHANGED <<job, disk, server, faults>>

\* pruneHardwareParams: the hardware options go, and a hardware encoder with
\* them; pruneAdvancedParams: the advanced options too.
PrunedEncoder(e) ==
    LET sw == PrepareFallback(e, "other", FALSE)
    IN  IF IsHardwareEncoder(e) /\ sw # None THEN sw ELSE e

\* applyRetryStrategy: the command line of the next attempt, or Exhausted.
Exhausted == [enc |-> None, params |-> {"exhausted"}]

Strategy(w, t) ==
    LET e  == x[w].enc
        fb == PrepareFallback(e, job.container, ~x[w].userSel)
        switch == [enc |-> fb, params |-> x[w].params \ {"hardware"}]
    IN  CASE t = "output_empty" /\ job.mode # "net" /\ fb \notin {None, e} -> switch
          [] t = "encoder_not_found" -> IF fb # None THEN switch ELSE Exhausted
          [] OTHER ->
               CASE x[w].att = 1 -> [enc |-> PrunedEncoder(e), params |-> x[w].params \ {"hardware"}]
                 [] x[w].att = 2 -> [enc |-> PrunedEncoder(e), params |-> {}]
                 [] OTHER -> IF fb # None THEN switch ELSE [enc |-> e, params |-> x[w].params]

\* The top of the retry loop: no attempt starts under a context that is done.
RetryTop(w) ==
    /\ x[w].pc = "retry"
    /\ Goto(w, IF ContextDone(w) \/ x[w].att > MaxRetries THEN "final" ELSE "launch")
    /\ UNCHANGED <<job, disk, server, faults>>

\* Mutant: a retry is not counted.
NextAttemptUncounted(w, t) ==
    LET s == Strategy(w, t)
    IN  IF ~IsRetryable(t) \/ x[w].att = MaxRetries \/ s = Exhausted
          THEN Goto(w, "final")
          ELSE x' = [x EXCEPT ![w].pc = "retry", ![w].enc = s.enc, ![w].params = s.params,
                              ![w].userSel = @ /\ s.enc = x[w].enc,
                              ![w].usedSw = @ \/ (s.enc # x[w].enc /\ ~IsHardwareEncoder(s.enc))]

\* The attempt after a retryable failure.  An encoder that changed was chosen
\* by the worker and not by the user.
NextAttempt(w, t) ==
    LET s == Strategy(w, t)
    IN  IF ~IsRetryable(t) \/ x[w].att = MaxRetries \/ s = Exhausted
          THEN Goto(w, "final")
          ELSE x' = [x EXCEPT ![w].pc = "retry", ![w].att = @ + 1,
                              ![w].enc = s.enc, ![w].params = s.params,
                              ![w].userSel = @ /\ s.enc = x[w].enc,
                              ![w].usedSw = @ \/ (s.enc # x[w].enc /\ ~IsHardwareEncoder(s.enc))]

JudgeRetry(w) ==
    /\ x[w].pc = "judge" /\ x[w].att \in 1..MaxRetries
    /\ IF RetrySucceeded(w)
         THEN Goto(w, "publish")
         ELSE \E t \in ErrorTypes(x[w].last, x[w].oom) : NextAttempt(w, t)
    /\ UNCHANGED <<job, disk, server, faults>>

\* Mutant: only a run that was itself cut short is a timeout.
GiveUpByResult(w) ==
    IF x[w].last \in {"timeout", "stall"}
      THEN Leave(w, "timeout", FailureClass(w, TRUE))
      ELSE Leave(w, "failed", FailureClass(w, FALSE))

\* All attempts are spent.  The budget may have run out inside an attempt or
\* between two of them; both are a timeout, but only the first has a stderr to
\* be classified by.
GiveUp(w) ==
    \/ /\ x[w].last \in {"timeout", "stall"}
       /\ Leave(w, "timeout", FailureClass(w, TRUE))
    \/ /\ x[w].last \notin {"timeout", "stall"} /\ x[w].expired
       /\ Leave(w, "timeout", "TIMEOUT")
    \/ /\ x[w].last \notin {"timeout", "stall"} /\ ~x[w].expired
       /\ Leave(w, "failed", FailureClass(w, FALSE))

\* One more run in software when no attempt used it yet, also after an error
\* that no retry cures.
FinalFallback(w) ==
    LET fb == PrepareFallback(x[w].enc, job.container, ~x[w].userSel)
    IN  /\ x[w].pc = "final"
        /\ IF ~ContextDone(w) /\ ~x[w].usedSw /\ fb # None
             THEN /\ x' = [x EXCEPT ![w].pc = "launch", ![w].att = Final,
                                    ![w].enc = fb, ![w].usedSw = TRUE]
                  /\ UNCHANGED <<job, disk, server, faults>>
             ELSE GiveUp(w)

JudgeFinal(w) ==
    /\ x[w].pc = "judge" /\ x[w].att = Final
    /\ IF RetrySucceeded(w)
         THEN Goto(w, "publish") /\ UNCHANGED <<job, disk, server, faults>>
         ELSE GiveUp(w)

-----------------------------------------------------------------------------
(* After ffmpeg.                                                           *)

\* Mutant: the main output is moved with its siblings still staged.
PublishMainFirst(w) ==
    /\ x[w].pc = "publish"
    /\ IF job.mode # "direct"
         THEN Goto(w, "upload") /\ UNCHANGED <<job, disk, server, faults>>
         ELSE /\ target' = IF staged \in Workers THEN file[staged] ELSE target
              /\ Goto(w, "publishMain")
              /\ UNCHANGED <<job, file, cache, staged, segments, delivered, server, faults>>

\* publishStagedOutput moves the siblings first and the main output last; a
\* failed move fails the job.
PublishSiblings(w) ==
    /\ x[w].pc = "publish"
    /\ IF job.mode # "direct"
         THEN Goto(w, "upload") /\ UNCHANGED <<job, disk, server, faults>>
         ELSE \/ /\ staged = "nodir" \/ "io" \in Faults
                 /\ Leave(w, "failed", "INFRA")
              \/ /\ staged # "nodir"
                 /\ segments' = IF staged \in Workers THEN "whole" ELSE segments
                 /\ Goto(w, "publishMain")
                 /\ UNCHANGED <<job, file, cache, staged, target, delivered, server, faults>>

PublishMain(w) ==
    /\ x[w].pc = "publishMain"
    /\ \/ /\ staged = "nodir" \/ "io" \in Faults
          /\ Leave(w, "failed", "INFRA")
       \/ /\ staged # "nodir"
          /\ target' = IF staged \in Workers THEN file[staged] ELSE target
          /\ staged' = "clear"
          /\ Goto(w, "upload")
          /\ UNCHANGED <<job, file, cache, segments, delivered, server, faults>>

\* UploadOutput, then cache.Put, whose failure costs nothing but the entry.
Upload(w) ==
    /\ x[w].pc = "upload"
    /\ \/ job.mode = "upload" /\ "net" \in Faults /\ Leave(w, "failed", "INFRA")
       \/ /\ job.mode = "upload"
          /\ delivered' = file[w]
          /\ \/ cache' = [cache EXCEPT ![w] = file[w]] /\ NoFault
             \/ Fault("io") /\ UNCHANGED cache
          /\ Goto(w, "finish")
          /\ UNCHANGED <<job, file, staged, target, segments, server>>
       \/ /\ job.mode # "upload"
          /\ Goto(w, "finish")
          /\ UNCHANGED <<job, disk, server, faults>>

\* The tail of a stream must have reached the server before "completed".
Finish(w) ==
    /\ x[w].pc = "finish"
    /\ \/ job.mode = "stream" /\ "net" \in Faults /\ Leave(w, "failed", "INFRA")
       \/ Leave(w, "completed", "none")

\* The worker process dies and ffmpeg with it (Pdeathsig); nothing is cleaned
\* up.  A panic is recovered, reported (as WORKER_CRASH, named apart here) and
\* cleaned up after.
Crash(w) ==
    /\ Working(w) /\ Fault("crash")
    /\ x' = [x EXCEPT ![w] = [Fresh(0) EXCEPT !.pc = "crashed"]]
    /\ UNCHANGED <<job, disk, server>>

Panic(w) ==
    /\ Working(w) /\ "panic" \in Faults
    /\ Leave(w, "failed", "PANIC")

-----------------------------------------------------------------------------

Step(w) ==
    \/ CheckCache(w) \/ Prepare(w) \/ Stage(w) \/ Rewrite(w) \/ MarkRunning(w)
    \/ Launch(w) \/ FFmpegEnds(w) \/ JudgeInitial(w) \/ RetryTop(w) \/ JudgeRetry(w)
    \/ FinalFallback(w) \/ JudgeFinal(w)
    \/ PublishSiblings(w) \/ PublishMain(w) \/ Upload(w) \/ Finish(w)

Next ==
    \/ ClientCancels
    \/ \E w \in Workers :
         \/ Dispatch(w) \/ CancelContext(w) \/ ExpireBudget(w)
         \/ Step(w) \/ Crash(w) \/ Panic(w)

Spec == Init /\ [][Next]_vars

\* processJob runs on: its steps have time limits of their own (the data-plane
\* client, ffprobe, the executor), so none of them lasts for ever.
FairSpec == Spec /\ \A w \in Workers : WF_vars(Step(w))

-----------------------------------------------------------------------------
(* Properties.                                                             *)

TypeOK ==
    /\ job \in Jobs
    /\ x \in [Workers ->
          [pc : {"idle", "start", "prepare", "stage", "rewrite", "boundary", "launch", "run",
                 "judge", "retry", "final", "publish", "publishMain", "upload", "finish",
                 "done", "crashed"},
           retryCount : 0..(MaxDispatch - 1), cancelled : BOOLEAN, expired : BOOLEAN,
           att : 0..Final, enc : HardwareEncoders \cup KnownSoftwareEncoders \cup {"copy", "exotic", None},
           params : SUBSET {"hardware", "advanced"}, userSel : BOOLEAN, usedSw : BOOLEAN,
           last : Outcomes \cup {"none", "nostart", "refused", "timeout", "killed"},
           oom : BOOLEAN, staging : BOOLEAN,
           report : [status : {"none", "completed", "failed", "timeout", "cancelled"},
                     type : {"none", "INFRA", "INPUT_UNREACHABLE", "FFMPEG_ERROR",
                             "ENCODER_UNSUPPORTED", "WORKER_CRASH", "PANIC", "TIMEOUT"},
                     last : Outcomes \cup {"none", "nostart", "refused", "timeout", "killed"},
                     oom : BOOLEAN, retried : BOOLEAN, expired : BOOLEAN, cancelled : BOOLEAN]]]
    /\ file \in [Workers -> Contents] /\ cache \in [Workers -> Contents]
    /\ staged \in Workers \cup {"nodir", "clear"}
    /\ target \in Contents /\ segments \in Contents /\ delivered \in Contents
    /\ owner \in Workers \cup {"none"}
    /\ verdict \in {"none", "completed", "failed", "timeout", "cancelled"}
    /\ dispatches \in 0..MaxDispatch /\ faults \in 0..MaxFaults

\* What the server is given and what the cache keeps is the finished output of
\* a run that succeeded, never the remains of a run that failed before it
\* (uploadOutput, cache.Put, clearStaleOutput); a completed upload job has one.
DeliveredIsWhole ==
    /\ delivered \in {"none", "whole"}
    /\ \A w \in Workers : cache[w] \in {"none", "whole"}
    /\ job.mode = "upload" /\ verdict = "completed" => delivered = "whole"

\* A reader of the shared target finds the old file,
\* no file, or a finished one whose siblings are all in place, whatever crashes
\* (staging and publishStagedOutput); a completed direct job has published one.
TargetIntact ==
    job.mode = "direct" =>
      /\ target \in {"none", "user", "whole"}
      /\ target = "whole" => segments = "whole"
      /\ verdict = "completed" => target = "whole"

\* However a run is retried, the output keeps the codec family that was asked
\* for, as long as the tables know a software encoder for it, and a software
\* encoder the user named is never replaced (applyRetryStrategy,
\* prepareFallbackArgsWithSource).  For a hardware encoder without a software
\* counterpart (mjpeg_qsv) the code falls back to what the container suggests.
CodecKept ==
    \A w \in Workers : x[w].pc \in {"launch", "run", "judge", "publish", "upload", "finish"} =>
      /\ GetEncoderFamily(job.encoder) # None /\ GetSoftwareEncoder(job.encoder) # None =>
           GetEncoderFamily(x[w].enc) = GetEncoderFamily(job.encoder)
      /\ IsKnownSoftwareEncoder(job.encoder) => x[w].enc = job.encoder

\* A report says what happened: a timeout needs a budget that ran out or a
\* stalled run, a cancellation a cancelled context, a crash a signal or a stderr
\* on exhausted memory, which a run that was cut short is never reported without;
\* and a retried job whose budget is spent is not an ffmpeg error
\* (reportJobTimeout, reportJobCancelled, ClassifyFailure).
VerdictHonest ==
    \A w \in Workers :
      LET r == x[w].report
      IN  /\ r.status = "timeout" => r.expired \/ r.last \in {"stall", "timeout"}
          /\ r.status = "cancelled" => r.cancelled
          /\ r.type = "WORKER_CRASH" => r.last \in {"crash", "killed"} \/ r.oom
          /\ r.type = "TIMEOUT" /\ r.oom => r.last \notin {"stall", "timeout"}
          /\ r.type \in {"FFMPEG_ERROR", "ENCODER_UNSUPPORTED"} /\ r.retried => ~r.expired

\* Every attempt ends: with a report, or with the worker's death.
AttemptEnds == \A w \in Workers : Working(w) ~> ~Working(w)

\* How many steps of processJob an attempt has left at most: those of the place
\* it has reached, and five for each attempt of the retry executor to come.
Ahead == [start |-> 12, prepare |-> 11, stage |-> 10, rewrite |-> 9, boundary |-> 8,
          retry |-> 8, launch |-> 7, run |-> 6, judge |-> 5, final |-> 4,
          publish |-> 4, publishMain |-> 3, upload |-> 2, finish |-> 1]

Rank(w) == IF Working(w) THEN Ahead[x[w].pc] + 5 * (Final - x[w].att) ELSE 0

Nearer ==
    \A w \in Workers : Working(w) =>
      Rank(w)' < Rank(w) \/ (x'[w].pc = x[w].pc /\ x'[w].att = x[w].att)

\* The retry loop cannot go round for ever: whatever a run leaves behind, every
\* step that moves an attempt brings it closer to its end, and nothing that
\* happens to it meanwhile (a cancellation, an expiring budget, the steps of
\* others) sends it back, so ffmpeg is started at most MaxRetries + 2 times
\* (ExecuteWithRetry, applyRetryStrategy, the final fallback).
RetriesRunOut == [][Nearer]_vars

\* The attempts as AttemptContract sees them.
StageOf(pc) ==
    CASE pc \in {"start", "prepare", "stage", "rewrite", "boundary"} -> "prep"
      [] pc \in {"idle", "done", "crashed"}                          -> "none"
      [] OTHER                                                       -> "run"

ClassOf(type) ==
    CASE type \in {"INPUT_UNREACHABLE", "ENCODER_UNSUPPORTED"} -> "FFMPEG_ERROR"
      [] type = "PANIC"                                        -> "WORKER_CRASH"
      [] OTHER                                                 -> type

Contract == INSTANCE AttemptContract WITH
    stage  <- [w \in Workers |-> StageOf(x[w].pc)],
    doomed <- [w \in Workers |-> x[w].cancelled],
    report <- [w \in Workers |-> [status |-> x[w].report.status,
                                  class |-> ClassOf(x[w].report.type)]]

\* processJob, with its retries, fallbacks, panics and clean-up, does what
\* Cluster takes it to do: ffmpeg runs only for an open job of this worker, an
\* attempt reports once and only what its stage allows, and a verdict of the
\* server is its owner's report or the client's cancellation.
ImplementsContract == Contract!Spec

\* What the code says of an existing direct target and no -y: "the existing
\* output is the user's data and must not be replaced".
UserOutputKept ==
    job.mode = "direct" /\ job.exists /\ job.policy # "force" => target = "user"
=============================================================================
