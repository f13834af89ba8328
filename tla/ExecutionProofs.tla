-------------------------- MODULE ExecutionProofs --------------------------
(***************************************************************************)
(* Proofs about Execution: what is delivered and published is whole, a     *)
(* retried run keeps its codec, and a report says what happened.           *)
(***************************************************************************)
EXTENDS Execution, TLAPS

Encoders == HardwareEncoders \cup KnownSoftwareEncoders \cup {"copy", "exotic", None}
PCs == {"idle", "start", "prepare", "stage", "rewrite", "boundary", "launch", "run", "judge",
        "retry", "final", "publish", "publishMain", "upload", "finish", "done", "crashed"}
Lasts == Outcomes \cup {"none", "nostart", "refused", "timeout", "killed"}
Statuses == {"none", "completed", "failed", "timeout", "cancelled"}
Types == {"none", "INFRA", "INPUT_UNREACHABLE", "FFMPEG_ERROR", "ENCODER_UNSUPPORTED",
          "WORKER_CRASH", "PANIC", "TIMEOUT"}
Reports == [status : Statuses, type : Types, last : Lasts, oom : BOOLEAN, retried : BOOLEAN,
            expired : BOOLEAN, cancelled : BOOLEAN]
Attempts == [pc : PCs, retryCount : 0..(MaxDispatch - 1), cancelled : BOOLEAN,
             expired : BOOLEAN, att : 0..Final, enc : Encoders,
             params : SUBSET {"hardware", "advanced"}, userSel : BOOLEAN, usedSw : BOOLEAN,
             last : Lasts, oom : BOOLEAN, staging : BOOLEAN, report : Reports]

Shape ==
    /\ job \in Jobs
    /\ x \in [Workers -> Attempts]
    /\ file \in [Workers -> Contents]
    /\ cache \in [Workers -> Contents]
    /\ staged \in Workers \cup {"nodir", "clear"}
    /\ target \in Contents
    /\ segments \in Contents
    /\ delivered \in Contents
    /\ owner \in Workers \cup {"none"}
    /\ verdict \in Statuses
    /\ dispatches \in 0..MaxDispatch
    /\ faults \in 0..MaxFaults

-----------------------------------------------------------------------------
(* The encoder tables *)

(* The encoders a fallback leads to are encoders of the tables. *)
LEMMA SoftwareType ==
    ASSUME NEW e \in Encoders
    PROVE  GetSoftwareEncoder(e) \in KnownSoftwareEncoders \cup {e, None}
<1>1. \A h \in DOMAIN HardwareToSoftware : HardwareToSoftware[h] \in KnownSoftwareEncoders
  BY DEF HardwareToSoftware, KnownSoftwareEncoders
<1>2. \A h \in DOMAIN inferSoftwareEncoder :
        inferSoftwareEncoder[h] \in KnownSoftwareEncoders \cup {None}
  BY DEF inferSoftwareEncoder, KnownSoftwareEncoders
<1> QED
  BY <1>1, <1>2 DEF GetSoftwareEncoder

(* PrepareFallback names an encoder of the tables, or none. *)
LEMMA FallbackType ==
    ASSUME NEW e \in Encoders, NEW c, NEW b
    PROVE  PrepareFallback(e, c, b) \in KnownSoftwareEncoders \cup {None}
<1> DEFINE sw == GetSoftwareEncoder(e)
<1>1. sw \in KnownSoftwareEncoders \cup {e, None}
  BY SoftwareType
<1>2. GetAlternativeSoftwareEncoder(e) \in KnownSoftwareEncoders \cup {None}
  BY DEF GetAlternativeSoftwareEncoder, SoftwareFallbackChain, KnownSoftwareEncoders
<1>3. inferSoftwareEncoderFromContext(c) \in KnownSoftwareEncoders \cup {None}
  BY DEF inferSoftwareEncoderFromContext, KnownSoftwareEncoders
<1>4. "libx264" \in KnownSoftwareEncoders
  BY DEF KnownSoftwareEncoders
<1>5. CASE e \in {None, "copy"}
  BY <1>5 DEF PrepareFallback
<1>6. CASE e \notin {None, "copy"} /\ sw \notin {None, e}
  BY <1>1, <1>6 DEF PrepareFallback
<1>7. CASE e \notin {None, "copy"} /\ sw \in {None, e} /\ IsKnownSoftwareEncoder(e)
  BY <1>2, <1>7 DEF PrepareFallback
<1>8. CASE e \notin {None, "copy"} /\ sw \in {None, e} /\ ~IsKnownSoftwareEncoder(e)
  <2>1. PrepareFallback(e, c, b) = IF inferSoftwareEncoderFromContext(c) # None
                                   THEN inferSoftwareEncoderFromContext(c) ELSE "libx264"
    BY <1>8 DEF PrepareFallback
  <2> QED
    BY <2>1, <1>3, <1>4
<1> QED
  BY <1>5, <1>6, <1>7, <1>8

(* An encoder belongs to one family. *)
LEMMA FamilyOf ==
    ASSUME NEW f \in DOMAIN EncodersOfFamily, NEW e \in EncodersOfFamily[f]
    PROVE  GetEncoderFamily(e) = f
<1>1. \A g \in DOMAIN EncodersOfFamily : e \in EncodersOfFamily[g] => g = f
  BY DEF EncodersOfFamily
<1> QED
  BY <1>1 DEF GetEncoderFamily

(* An encoder with a family is in it. *)
LEMMA FamilyMember ==
    ASSUME NEW e, GetEncoderFamily(e) # None
    PROVE  /\ GetEncoderFamily(e) \in DOMAIN EncodersOfFamily
           /\ e \in EncodersOfFamily[GetEncoderFamily(e)]
BY DEF GetEncoderFamily

(* The software counterpart of a hardware encoder is of its family. *)
LEMMA SoftwareFamily ==
    ASSUME NEW f \in DOMAIN EncodersOfFamily, NEW e \in EncodersOfFamily[f],
           GetSoftwareEncoder(e) # None
    PROVE  GetSoftwareEncoder(e) \in EncodersOfFamily[f]
<1>1. ASSUME e \in DOMAIN HardwareToSoftware
      PROVE  HardwareToSoftware[e] \in EncodersOfFamily[f]
  BY <1>1 DEF HardwareToSoftware, EncodersOfFamily
<1>2. ASSUME e \in DOMAIN inferSoftwareEncoder, inferSoftwareEncoder[e] # None
      PROVE  inferSoftwareEncoder[e] \in EncodersOfFamily[f]
  BY <1>2 DEF inferSoftwareEncoder, EncodersOfFamily
<1> QED
  BY <1>1, <1>2 DEF GetSoftwareEncoder

(* A software encoder is its own counterpart. *)
LEMMA SoftwareOfSoftware ==
    ASSUME NEW e \in KnownSoftwareEncoders
    PROVE  GetSoftwareEncoder(e) = e /\ e # None /\ ~IsHardwareEncoder(e)
<1>1. e \notin DOMAIN HardwareToSoftware
  BY DEF KnownSoftwareEncoders, HardwareToSoftware
<1>2. e \notin DOMAIN inferSoftwareEncoder
  BY DEF KnownSoftwareEncoders, inferSoftwareEncoder
<1>3. e # None
  BY DEF KnownSoftwareEncoders, None
<1> QED
  BY <1>1, <1>2, <1>3 DEF GetSoftwareEncoder, IsHardwareEncoder, HardwareEncoders

(* The encoders that have a software counterpart and are not software. *)
LEMMA KnownOrHardware ==
    ASSUME NEW f \in DOMAIN EncodersOfFamily, NEW e \in EncodersOfFamily[f]
    PROVE  e \in KnownSoftwareEncoders \/ GetSoftwareEncoder(e) # e
<1>1. e \in KnownSoftwareEncoders \/ e \in DOMAIN HardwareToSoftware
        \/ e \in DOMAIN inferSoftwareEncoder
  BY DEF EncodersOfFamily, KnownSoftwareEncoders, HardwareToSoftware, inferSoftwareEncoder
<1>2. \A h \in DOMAIN HardwareToSoftware : HardwareToSoftware[h] # h
  BY DEF HardwareToSoftware
<1>3. \A h \in DOMAIN inferSoftwareEncoder : inferSoftwareEncoder[h] # h
  BY DEF inferSoftwareEncoder, None
<1> QED
  BY <1>1, <1>2, <1>3 DEF GetSoftwareEncoder

(* A fallback keeps the family of an encoder with a software counterpart. *)
LEMMA FallbackFamily ==
    ASSUME NEW e, NEW c, NEW b, GetEncoderFamily(e) # None, GetSoftwareEncoder(e) # None,
           PrepareFallback(e, c, b) # None
    PROVE  /\ GetEncoderFamily(PrepareFallback(e, c, b)) = GetEncoderFamily(e)
           /\ GetSoftwareEncoder(PrepareFallback(e, c, b)) # None
<1> DEFINE f == GetEncoderFamily(e)
           sw == GetSoftwareEncoder(e)
<1>1. f \in DOMAIN EncodersOfFamily /\ e \in EncodersOfFamily[f]
  BY FamilyMember
<1>2. sw \in EncodersOfFamily[f]
  BY <1>1, SoftwareFamily
<1>3. e \notin {None, "copy"}
  BY DEF PrepareFallback
<1>4. CASE sw # e
  <2>1. PrepareFallback(e, c, b) = sw
    BY <1>3, <1>4 DEF PrepareFallback
  <2>2. GetEncoderFamily(sw) = f
    BY <1>1, <1>2, FamilyOf
  <2>3. sw \in KnownSoftwareEncoders
    <3>1. \A h \in DOMAIN HardwareToSoftware : HardwareToSoftware[h] \in KnownSoftwareEncoders
      BY DEF HardwareToSoftware, KnownSoftwareEncoders
    <3>2. \A h \in DOMAIN inferSoftwareEncoder :
            inferSoftwareEncoder[h] \in KnownSoftwareEncoders \cup {None}
      BY DEF inferSoftwareEncoder, KnownSoftwareEncoders
    <3> QED
      BY <1>4, <3>1, <3>2 DEF GetSoftwareEncoder
  <2> QED
    BY <2>1, <2>2, <2>3, SoftwareOfSoftware
<1>5. CASE sw = e
  <2>1. e \in KnownSoftwareEncoders
    BY <1>1, <1>5, KnownOrHardware
  <2>2. PrepareFallback(e, c, b) = IF b THEN GetAlternativeSoftwareEncoder(e) ELSE None
    BY <1>3, <1>5, <2>1 DEF PrepareFallback, IsKnownSoftwareEncoder
  <2> DEFINE next == SoftwareFallbackChain(e)
  <2>3. PrepareFallback(e, c, b) = next /\ GetEncoderFamily(next) = f
    BY <2>2 DEF GetAlternativeSoftwareEncoder
  <2>4. next \in KnownSoftwareEncoders
    BY <2>3 DEF SoftwareFallbackChain, KnownSoftwareEncoders
  <2> QED
    BY <2>3, <2>4, SoftwareOfSoftware
<1> QED
  BY <1>4, <1>5

(* A software encoder the user named has no fallback. *)
LEMMA NoFallbackForUser ==
    ASSUME NEW e \in KnownSoftwareEncoders, NEW c
    PROVE  PrepareFallback(e, c, FALSE) = None
<1>1. GetSoftwareEncoder(e) = e /\ e # None
  BY SoftwareOfSoftware
<1>2. e # "copy"
  BY DEF KnownSoftwareEncoders
<1> QED
  BY <1>1, <1>2 DEF PrepareFallback, IsKnownSoftwareEncoder

-----------------------------------------------------------------------------
(* Types *)

(* The constants the bounds are made of. *)
LEMMA Bounds ==
    /\ Final \in Nat /\ Final = MaxRetries + 1 /\ Final > 1
    /\ MaxRetries \in Nat \ {0} /\ MaxDispatch \in Nat \ {0} /\ MaxFaults \in Nat
    /\ 0 \in 0..(MaxDispatch - 1) /\ 0 \in 0..Final
BY ExecutionAssumption DEF Final

(* A new attempt is well formed. *)
LEMMA FreshType ==
    ASSUME NEW n \in 0..(MaxDispatch - 1)
    PROVE  Fresh(n) \in Attempts
<1>1. NoReport \in Reports
  BY DEF NoReport, Reports, Statuses, Types, Lasts
<1>2. None \in Encoders
  BY DEF Encoders
<1>3. "none" \in Lasts /\ "start" \in PCs
  BY DEF Lasts, PCs
<1> QED
  BY <1>1, <1>2, <1>3, Bounds DEF Fresh, Attempts

(* The fields of an attempt. *)
LEMMA Fields ==
    ASSUME Shape, NEW w \in Workers
    PROVE  /\ x[w] \in Attempts
           /\ x[w].pc \in PCs /\ x[w].retryCount \in 0..(MaxDispatch - 1)
           /\ x[w].cancelled \in BOOLEAN /\ x[w].expired \in BOOLEAN
           /\ x[w].att \in 0..Final /\ x[w].enc \in Encoders
           /\ x[w].params \in SUBSET {"hardware", "advanced"}
           /\ x[w].userSel \in BOOLEAN /\ x[w].usedSw \in BOOLEAN /\ x[w].last \in Lasts
           /\ x[w].oom \in BOOLEAN
           /\ x[w].staging \in BOOLEAN /\ x[w].report \in Reports
BY DEF Shape, Attempts

(* What a step to another place of processJob changes. *)
LEMMA GotoEffect ==
    ASSUME Shape, NEW w \in Workers, NEW pc \in PCs, Goto(w, pc)
    PROVE  /\ x' \in [Workers -> Attempts]
           /\ \A v \in Workers \ {w} : x'[v] = x[v]
           /\ x'[w] = [x[w] EXCEPT !.pc = pc]
BY Fields DEF Goto, Shape, Attempts

(* What leaving processJob changes: the attempt is over, its report is     *)
(* made, and the server takes the report of the owner of an open job.      *)
LEMMA ExitEffect ==
    ASSUME Shape, NEW w \in Workers, NEW status \in Statuses, NEW type \in Types,
           Exit(w, status, type)
    PROVE  /\ x' \in [Workers -> Attempts]
           /\ \A v \in Workers \ {w} : x'[v] = x[v]
           /\ x'[w].pc = "done" /\ x'[w].report = Report(w, status, type)
           /\ verdict' \in Statuses
           /\ verdict' = verdict \/ (Accepts(w) /\ verdict' = status)
           /\ file' \in [Workers -> Contents]
           /\ file' = IF job.mode = "upload" THEN [file EXCEPT ![w] = "none"] ELSE file
           /\ staged' \in Workers \cup {"nodir", "clear"}
           /\ faults' \in 0..MaxFaults
           /\ UNCHANGED <<job, owner, dispatches>>
<1>1. Report(w, status, type) \in Reports
  BY Fields, Bounds DEF Report, Reports
<1> DEFINE r == [Fresh(0) EXCEPT !.pc = "done", !.report = Report(w, status, type)]
<1>2. r \in Attempts /\ r.pc = "done" /\ r.report = Report(w, status, type)
  <2>1. Fresh(0) \in Attempts
    BY FreshType, Bounds
  <2>2. "done" \in PCs
    BY DEF PCs
  <2> QED
    BY <1>1, <2>1, <2>2 DEF Attempts
<1>3. x' = [x EXCEPT ![w] = r]
  BY DEF Exit
<1> HIDE DEF r
<1>4. /\ x' \in [Workers -> Attempts]
      /\ \A v \in Workers \ {w} : x'[v] = x[v]
      /\ x'[w].pc = "done" /\ x'[w].report = Report(w, status, type)
  BY <1>2, <1>3 DEF Shape
<1>5. verdict' \in Statuses /\ (verdict' = verdict \/ (Accepts(w) /\ verdict' = status))
  BY DEF Exit, Shape, NoFault
<1>6. /\ file' = IF job.mode = "upload" THEN [file EXCEPT ![w] = "none"] ELSE file
      /\ staged' = IF x[w].staging THEN "nodir" ELSE staged
      /\ UNCHANGED <<job, owner, dispatches>>
  BY DEF Exit
<1>7. file' \in [Workers -> Contents] /\ staged' \in Workers \cup {"nodir", "clear"}
  BY <1>6 DEF Shape, Contents
<1>8. faults' \in 0..MaxFaults
  BY Bounds DEF Exit, Fault, NoFault, Shape
<1> QED
  BY <1>4, <1>5, <1>6, <1>7, <1>8

(* An exit that changes nothing else keeps the shape. *)
LEMMA LeaveShape ==
    ASSUME Shape, NEW w \in Workers, NEW status \in Statuses, NEW type \in Types,
           Leave(w, status, type)
    PROVE  Shape'
BY ExitEffect DEF Leave, Shape

(* A step to another place keeps the shape of the rest. *)
LEMMA GotoShape ==
    ASSUME Shape, NEW w \in Workers, NEW pc \in PCs, Goto(w, pc),
           file' \in [Workers -> Contents], cache' \in [Workers -> Contents],
           staged' \in Workers \cup {"nodir", "clear"}, target' \in Contents,
           segments' \in Contents, delivered' \in Contents, faults' \in 0..MaxFaults,
           UNCHANGED <<job, server>>
    PROVE  Shape'
BY GotoEffect DEF Shape, server

-----------------------------------------------------------------------------
(* The inductive invariant *)

(* Where an attempt can be. *)
Places(w) ==
    /\ x[w].pc \in {"start", "prepare", "stage", "rewrite", "boundary"} =>
         x[w].att = 0 /\ x[w].userSel
    /\ x[w].pc \in {"retry", "final"} => x[w].att \in 1..MaxRetries
    /\ x[w].pc = "publishMain" => job.mode = "direct"

(* The encoder of an attempt, from the rewrite on. *)
KeepsCodec(w) ==
    x[w].pc \in {"boundary", "launch", "run", "judge", "retry", "final", "publish",
                 "publishMain", "upload", "finish"} =>
      /\ GetEncoderFamily(job.encoder) # None /\ GetSoftwareEncoder(job.encoder) # None =>
           /\ GetEncoderFamily(x[w].enc) = GetEncoderFamily(job.encoder)
           /\ GetSoftwareEncoder(x[w].enc) # None
      /\ IsKnownSoftwareEncoder(job.encoder) => x[w].enc = job.encoder /\ x[w].userSel

(* The file an upload job writes, which no other worker sees. *)
OwnFile(w) ==
    job.mode = "upload" =>
      /\ x[w].pc \in {"stage", "rewrite", "boundary"} => file[w] = "none"
      /\ x[w].pc = "launch" /\ x[w].att = 0 => file[w] = "none"
      /\ x[w].pc = "run" => file[w] = "partial"
      /\ x[w].pc = "judge" => x[w].last # "refused"
      /\ x[w].pc = "judge" /\ x[w].last \in {"ok", "warned"} => file[w] = "whole"
      /\ x[w].pc \in {"publish", "upload"} => file[w] = "whole"
      /\ x[w].pc = "finish" => delivered = "whole"

(* The grounds a terminal report needs. *)
Grounded(r) ==
    /\ r.status = "timeout" => r.expired \/ r.last \in {"stall", "timeout"}
    /\ r.status = "cancelled" => r.cancelled
    /\ r.type = "WORKER_CRASH" => r.last \in {"crash", "killed"} \/ r.oom
    /\ r.type = "TIMEOUT" /\ r.oom => r.last \notin {"stall", "timeout"}
    /\ r.type \in {"FFMPEG_ERROR", "ENCODER_UNSUPPORTED"} /\ r.retried => ~r.expired

Attempt(w) == Places(w) /\ KeepsCodec(w) /\ OwnFile(w) /\ Grounded(x[w].report)

ExecInv ==
    /\ Shape
    /\ \A w \in Workers : Attempt(w)
    /\ DeliveredIsWhole

(* A step of one worker keeps the invariant when it keeps that worker's    *)
(* part, leaves the attempts of the others alone, and delivers whole files.*)
LEMMA OneWorker ==
    ASSUME ExecInv, NEW w \in Workers, Shape', job' = job,
           \A v \in Workers \ {w} : x'[v] = x[v] /\ (job.mode = "upload" => file'[v] = file[v]),
           delivered' \in {delivered, "whole"}, DeliveredIsWhole', Attempt(w)'
    PROVE  ExecInv'
<1>1. ASSUME NEW v \in Workers \ {w} PROVE Attempt(v)'
  <2>1. Attempt(v) /\ x'[v] = x[v] /\ (job.mode = "upload" => file'[v] = file[v])
    BY DEF ExecInv
  <2>2. Places(v)' /\ KeepsCodec(v)'
    BY <2>1 DEF Attempt, Places, KeepsCodec
  <2>3. OwnFile(v)'
    BY <2>1 DEF Attempt, OwnFile
  <2>4. Grounded(x[v].report)'
    BY <2>1 DEF Attempt, Grounded
  <2> QED
    BY <2>2, <2>3, <2>4 DEF Attempt
<1> QED
  BY <1>1 DEF ExecInv

(* The report made for an exit has its grounds. *)
Grounds(w, status, type) ==
    /\ status = "timeout" => x[w].expired \/ x[w].last \in {"stall", "timeout"}
    /\ status = "cancelled" => x[w].cancelled
    /\ type = "WORKER_CRASH" => x[w].last \in {"crash", "killed"} \/ x[w].oom
    /\ type = "TIMEOUT" /\ x[w].oom => x[w].last \notin {"stall", "timeout"}
    /\ type \in {"FFMPEG_ERROR", "ENCODER_UNSUPPORTED"} /\ x[w].att > 0 => ~x[w].expired

(* An exit with its grounds keeps the invariant. *)
LEMMA ExitKeeps ==
    ASSUME ExecInv, NEW w \in Workers, NEW status \in Statuses, NEW type \in Types,
           Exit(w, status, type), Grounds(w, status, type),
           cache' = cache, segments' = segments, target' \in Contents,
           delivered' \in {delivered, "whole"},
           status = "completed" /\ job.mode = "upload" => delivered' = "whole"
    PROVE  ExecInv'
<1>1. Shape
  BY DEF ExecInv
<1>2. /\ x' \in [Workers -> Attempts]
      /\ \A v \in Workers \ {w} : x'[v] = x[v]
      /\ x'[w].pc = "done" /\ x'[w].report = Report(w, status, type)
      /\ verdict' \in Statuses
      /\ verdict' = verdict \/ (Accepts(w) /\ verdict' = status)
      /\ file' \in [Workers -> Contents]
      /\ file' = IF job.mode = "upload" THEN [file EXCEPT ![w] = "none"] ELSE file
      /\ staged' \in Workers \cup {"nodir", "clear"}
      /\ faults' \in 0..MaxFaults
      /\ UNCHANGED <<job, owner, dispatches>>
  BY <1>1, ExitEffect
<1>3. Shape'
  BY <1>1, <1>2 DEF Shape, Contents
<1>4. Places(w)' /\ KeepsCodec(w)' /\ OwnFile(w)'
  BY <1>2 DEF Places, KeepsCodec, OwnFile
<1>5. Grounded(x[w].report)'
  <2>1. x'[w].report = Report(w, status, type)
    BY <1>2
  <2>2. Grounded(Report(w, status, type))
    BY DEF Grounded, Grounds, Report
  <2> QED
    BY <2>1, <2>2 DEF Grounded
<1>6. DeliveredIsWhole'
  BY <1>2 DEF ExecInv, DeliveredIsWhole
<1>7. \A v \in Workers \ {w} : x'[v] = x[v] /\ (job.mode = "upload" => file'[v] = file[v])
  BY <1>2 DEF ExecInv, Shape
<1>8. Attempt(w)'
  BY <1>4, <1>5 DEF Attempt
<1> QED
  BY <1>2, <1>3, <1>6, <1>7, <1>8, OneWorker

(* The same for an exit that changes nothing else. *)
LEMMA LeaveKeeps ==
    ASSUME ExecInv, NEW w \in Workers, NEW status \in Statuses, NEW type \in Types,
           Leave(w, status, type), Grounds(w, status, type),
           status = "completed" /\ job.mode = "upload" => delivered = "whole"
    PROVE  ExecInv'
<1>1. target' \in Contents /\ UNCHANGED <<cache, target, segments, delivered>>
  BY DEF Leave, ExecInv, Shape
<1> QED
  BY <1>1, ExitKeeps DEF Leave

(* A step to another place that delivers nothing keeps the invariant when  *)
(* it keeps the worker's own part.                                         *)
LEMMA GotoKeeps ==
    ASSUME ExecInv, NEW w \in Workers, NEW pc \in PCs, Goto(w, pc), UNCHANGED <<job, disk, server>>,
           faults' \in 0..MaxFaults, Places(w)', KeepsCodec(w)', OwnFile(w)'
    PROVE  ExecInv'
<1>1. UNCHANGED <<file, cache, staged, target, segments, delivered, owner, verdict, dispatches>>
  BY DEF disk, server
<1>2. Shape'
  BY <1>1, GotoShape DEF ExecInv, Shape
<1>3. /\ \A v \in Workers \ {w} : x'[v] = x[v]
      /\ x'[w] = [x[w] EXCEPT !.pc = pc]
  BY GotoEffect DEF ExecInv
<1>4. x'[w].report = x[w].report
  <2>1. x[w] \in Attempts
    BY Fields DEF ExecInv
  <2> QED
    BY <1>3, <2>1 DEF Attempts
<1>5. Attempt(w)'
  BY <1>4 DEF ExecInv, Attempt, Grounded
<1>6. DeliveredIsWhole'
  BY <1>1 DEF ExecInv, DeliveredIsWhole
<1> QED
  BY <1>1, <1>2, <1>3, <1>5, <1>6, OneWorker

(* The fields a step to another place leaves alone. *)
LEMMA GotoFields ==
    ASSUME Shape, NEW w \in Workers, NEW pc \in PCs, Goto(w, pc)
    PROVE  /\ x'[w].pc = pc /\ x'[w].att = x[w].att /\ x'[w].enc = x[w].enc
           /\ x'[w].userSel = x[w].userSel /\ x'[w].last = x[w].last
           /\ x'[w].cancelled = x[w].cancelled /\ x'[w].expired = x[w].expired
           /\ x'[w].staging = x[w].staging
<1>1. x'[w] = [x[w] EXCEPT !.pc = pc] /\ x[w] \in Attempts
  BY GotoEffect, Fields
<1> QED
  BY <1>1 DEF Attempts

-----------------------------------------------------------------------------
(* The server's side *)

(* A dispatched attempt starts afresh. *)
LEMMA DispatchStep ==
    ASSUME ExecInv, NEW w \in Workers, Dispatch(w)
    PROVE  ExecInv'
<1>1. Shape
  BY DEF ExecInv
<1>2. dispatches \in 0..(MaxDispatch - 1)
  BY <1>1, Bounds DEF Dispatch, Shape
<1>3. Fresh(dispatches) \in Attempts
  BY <1>2, FreshType
<1>4. /\ x' = [x EXCEPT ![w] = Fresh(dispatches)]
      /\ owner' = w /\ dispatches' = dispatches + 1
      /\ UNCHANGED <<job, file, cache, staged, target, segments, delivered, verdict>>
  BY DEF Dispatch, disk
<1>5. faults' \in 0..MaxFaults
  BY <1>1, Bounds DEF Dispatch, Fault, NoFault, Shape
<1>6. Shape'
  BY <1>1, <1>2, <1>3, <1>4, <1>5, Bounds DEF Shape
<1>7. /\ x'[w] = Fresh(dispatches)
      /\ \A v \in Workers \ {w} : x'[v] = x[v]
  BY <1>1, <1>4 DEF Shape
<1>8. x'[w].pc = "start" /\ x'[w].att = 0 /\ x'[w].userSel /\ x'[w].report = NoReport
  BY <1>7 DEF Fresh
<1>9. Attempt(w)'
  BY <1>8 DEF Attempt, Places, KeepsCodec, OwnFile, Grounded, NoReport
<1>10. DeliveredIsWhole'
  BY <1>4 DEF ExecInv, DeliveredIsWhole
<1> QED
  BY <1>4, <1>6, <1>7, <1>9, <1>10, OneWorker

(* A cancellation settles the job and touches no attempt. *)
LEMMA ClientCancelsStep ==
    ASSUME ExecInv, ClientCancels
    PROVE  ExecInv'
<1>1. /\ UNCHANGED <<job, x, file, cache, staged, target, segments, delivered, owner,
                     dispatches, faults>>
      /\ verdict' = "cancelled"
  BY DEF ClientCancels, disk
<1>2. Shape'
  BY <1>1 DEF ExecInv, Shape, Statuses
<1>3. \A w \in Workers : Attempt(w)'
  BY <1>1 DEF ExecInv, Attempt, Places, KeepsCodec, OwnFile, Grounded
<1>4. DeliveredIsWhole'
  BY <1>1 DEF ExecInv, DeliveredIsWhole
<1> QED
  BY <1>2, <1>3, <1>4 DEF ExecInv

(* A flag of the context changes nothing else of the attempt. *)
LEMMA FlagKeeps ==
    ASSUME ExecInv, NEW w \in Workers,
           \/ x' = [x EXCEPT ![w].cancelled = TRUE]
           \/ x' = [x EXCEPT ![w].expired = TRUE],
           UNCHANGED <<job, disk, server>>, faults' \in 0..MaxFaults
    PROVE  ExecInv'
<1>1. Shape
  BY DEF ExecInv
<1>2. UNCHANGED <<file, cache, staged, target, segments, delivered, owner, verdict, dispatches>>
  BY DEF disk, server
<1>3. x[w] \in Attempts
  BY <1>1, Fields
<1>4. /\ x' \in [Workers -> Attempts]
      /\ \A v \in Workers \ {w} : x'[v] = x[v]
      /\ x'[w].pc = x[w].pc /\ x'[w].att = x[w].att /\ x'[w].enc = x[w].enc
      /\ x'[w].userSel = x[w].userSel /\ x'[w].last = x[w].last
      /\ x'[w].report = x[w].report
  <2>1. CASE x' = [x EXCEPT ![w].cancelled = TRUE]
    BY <1>1, <1>3, <2>1 DEF Shape, Attempts
  <2>2. CASE x' = [x EXCEPT ![w].expired = TRUE]
    BY <1>1, <1>3, <2>2 DEF Shape, Attempts
  <2> QED
    BY <2>1, <2>2
<1>5. Shape'
  BY <1>1, <1>2, <1>4 DEF Shape
<1>6. Attempt(w)'
  BY <1>2, <1>4 DEF ExecInv, Attempt, Places, KeepsCodec, OwnFile, Grounded
<1>7. DeliveredIsWhole'
  BY <1>2 DEF ExecInv, DeliveredIsWhole
<1> QED
  BY <1>2, <1>4, <1>5, <1>6, <1>7, OneWorker

(* The context is cancelled. *)
LEMMA CancelContextStep ==
    ASSUME ExecInv, NEW w \in Workers, CancelContext(w)
    PROVE  ExecInv'
<1>1. faults' \in 0..MaxFaults
  BY Bounds DEF CancelContext, Fault, NoFault, ExecInv, Shape
<1> QED
  BY <1>1, FlagKeeps DEF CancelContext

(* The budget runs out. *)
LEMMA ExpireBudgetStep ==
    ASSUME ExecInv, NEW w \in Workers, ExpireBudget(w)
    PROVE  ExecInv'
<1>1. faults' \in 0..MaxFaults
  BY DEF ExpireBudget, ExecInv, Shape
<1> QED
  BY <1>1, FlagKeeps DEF ExpireBudget

-----------------------------------------------------------------------------
(* Before ffmpeg *)

(* A cache hit delivers what the cache keeps, a whole file. *)
LEMMA CheckCacheStep ==
    ASSUME ExecInv, NEW w \in Workers, CheckCache(w)
    PROVE  ExecInv'
<1> DEFINE hit == job.mode = "upload" /\ cache[w] # "none"
<1>1. x[w].pc = "start" /\ Shape /\ Attempt(w)
  BY DEF CheckCache, ExecInv
<1>2. x[w].att = 0
  BY <1>1 DEF Attempt, Places
<1>3. CASE Leave(w, "failed", "INPUT_UNREACHABLE")
  BY <1>3, LeaveKeeps DEF Grounds, Statuses, Types
<1>4. CASE hit /\ Leave(w, "failed", "INFRA")
  BY <1>4, LeaveKeeps DEF Grounds, Statuses, Types
<1>5. CASE hit /\ delivered' = cache[w] /\ Exit(w, "completed", "none")
           /\ UNCHANGED <<cache, target, segments>>
  <2>1. delivered' = "whole"
    BY <1>5 DEF ExecInv, DeliveredIsWhole
  <2>2. target' \in Contents
    BY <1>1, <1>5 DEF Shape
  <2> QED
    BY <1>5, <2>1, <2>2, ExitKeeps DEF Grounds, Statuses, Types
<1>6. CASE Goto(w, "prepare") /\ UNCHANGED <<job, disk, server>> /\ (NoFault \/ Fault("net"))
  <2>1. "prepare" \in PCs
    BY DEF PCs
  <2>2. x'[w].pc = "prepare" /\ x'[w].att = x[w].att /\ x'[w].userSel = x[w].userSel
    BY <1>1, <1>6, <2>1, GotoFields
  <2>3. Places(w)' /\ KeepsCodec(w)' /\ OwnFile(w)'
    BY <1>1, <2>2 DEF Attempt, Places, KeepsCodec, OwnFile
  <2>4. faults' \in 0..MaxFaults
    BY <1>1, <1>6, Bounds DEF Fault, NoFault, Shape
  <2> QED
    BY <1>6, <2>1, <2>3, <2>4, GotoKeeps
<1> QED
  BY <1>3, <1>4, <1>5, <1>6 DEF CheckCache

(* An upload job prepares an empty directory of its own. *)
LEMMA PrepareStep ==
    ASSUME ExecInv, NEW w \in Workers, Prepare(w)
    PROVE  ExecInv'
<1>1. x[w].pc = "prepare" /\ Shape /\ Attempt(w)
  BY DEF Prepare, ExecInv
<1>2. ASSUME NEW t \in {"INFRA", "INPUT_UNREACHABLE"}, Leave(w, "failed", t) PROVE ExecInv'
  BY <1>2, LeaveKeeps DEF Grounds, Statuses, Types
<1>3. CASE x[w].cancelled /\ Leave(w, "cancelled", "none")
  BY <1>3, LeaveKeeps DEF Grounds, Statuses, Types
<1>4. CASE /\ Goto(w, "stage")
           /\ file' = IF job.mode = "upload" THEN [file EXCEPT ![w] = "none"] ELSE file
           /\ UNCHANGED <<job, cache, staged, target, segments, delivered, server, faults>>
  <2>1. "stage" \in PCs
    BY DEF PCs
  <2>2. /\ x'[w].pc = "stage" /\ x'[w].att = x[w].att /\ x'[w].userSel = x[w].userSel
        /\ \A v \in Workers \ {w} : x'[v] = x[v]
        /\ x'[w] = [x[w] EXCEPT !.pc = "stage"]
    BY <1>1, <1>4, <2>1, GotoFields, GotoEffect
  <2>3. file' \in [Workers -> Contents]
    BY <1>1, <1>4 DEF Shape, Contents
  <2>4. /\ job.mode = "upload" => file'[w] = "none"
        /\ \A v \in Workers \ {w} : file'[v] = file[v]
    BY <1>1, <1>4 DEF Shape
  <2>5. Shape'
    BY <1>1, <1>4, <2>1, <2>3, GotoShape DEF Shape
  <2>6. x'[w].report = x[w].report
    BY <1>1, <2>2, Fields DEF Attempts
  <2>7. Places(w)' /\ KeepsCodec(w)' /\ OwnFile(w)'
    BY <1>1, <1>4, <2>2, <2>4 DEF Attempt, Places, KeepsCodec, OwnFile
  <2>8. Attempt(w)'
    BY <1>1, <2>6, <2>7 DEF Attempt, Grounded
  <2>9. DeliveredIsWhole'
    BY <1>4 DEF ExecInv, DeliveredIsWhole, server
  <2> QED
    BY <1>4, <2>2, <2>4, <2>5, <2>8, <2>9, OneWorker
<1> QED
  BY <1>2, <1>3, <1>4 DEF Prepare

(* Staging decides about the target and writes no output. *)
LEMMA StageStep ==
    ASSUME ExecInv, NEW w \in Workers, Stage(w)
    PROVE  ExecInv'
<1> DEFINE found == IF Redispatched(w) THEN "none" ELSE target
<1>1. x[w].pc = "stage" /\ Shape /\ Attempt(w) /\ UNCHANGED <<job, cache, segments, delivered>>
  BY DEF Stage, ExecInv
<1>2. x[w].att = 0
  BY <1>1 DEF Attempt, Places
<1>3. target \in Contents /\ found \in Contents
  BY <1>1 DEF Shape, Contents
<1>4. ASSUME NEW t \in {"INFRA", "FFMPEG_ERROR"}, Exit(w, "failed", t), target' \in {target, found}
      PROVE  ExecInv'
  <2>1. target' \in Contents
    BY <1>3, <1>4
  <2> QED
    BY <1>1, <1>2, <1>4, <2>1, ExitKeeps DEF Grounds, Statuses, Types
<1>5. CASE Goto(w, "rewrite") /\ UNCHANGED <<file, staged, target, server, faults>>
  <2>1. "rewrite" \in PCs
    BY DEF PCs
  <2>2. x'[w].pc = "rewrite" /\ x'[w].att = x[w].att /\ x'[w].userSel = x[w].userSel
    BY <1>1, <1>5, <2>1, GotoFields
  <2>3. Places(w)' /\ KeepsCodec(w)' /\ OwnFile(w)'
    BY <1>1, <1>5, <2>2 DEF Attempt, Places, KeepsCodec, OwnFile
  <2> QED
    BY <1>1, <1>5, <2>1, <2>3, GotoKeeps DEF disk, Shape
<1>6. CASE /\ job.mode = "direct" /\ target' = found /\ staged' = "clear"
           /\ x' = [x EXCEPT ![w].pc = "rewrite", ![w].staging = TRUE]
           /\ UNCHANGED <<file, server, faults>>
  <2>1. "rewrite" \in PCs
    BY DEF PCs
  <2>2. x[w] \in Attempts
    BY <1>1, Fields
  <2>3. /\ x' \in [Workers -> Attempts]
        /\ \A v \in Workers \ {w} : x'[v] = x[v]
        /\ x'[w].pc = "rewrite" /\ x'[w].att = x[w].att /\ x'[w].userSel = x[w].userSel
        /\ x'[w].report = x[w].report
    BY <1>1, <1>6, <2>1, <2>2 DEF Shape, Attempts
  <2>4. Shape'
    BY <1>1, <1>3, <1>6, <2>3 DEF Shape, server
  <2>5. Attempt(w)'
    BY <1>1, <1>6, <2>3 DEF Attempt, Places, KeepsCodec, OwnFile, Grounded
  <2>6. DeliveredIsWhole'
    BY <1>1, <1>6 DEF ExecInv, DeliveredIsWhole, server
  <2> QED
    BY <1>1, <1>6, <2>3, <2>4, <2>5, <2>6, OneWorker
<1> QED
  BY <1>4, <1>5, <1>6 DEF Stage

(* The job is one of the records it may be. *)
LEMMA JobType ==
    ASSUME Shape
    PROVE  /\ job.encoder \in Encoders
           /\ job.mode \in {"upload", "direct", "stream", "net"}
           /\ job.policy \in {"force", "never", "ask", "conflict"}
<1>1. job \in JobRecords
  BY ExecutionAssumption DEF Shape
<1> QED
  BY <1>1 DEF JobRecords, Encoders

(* The rewrite keeps the encoder or switches VAAPI to its own software. *)
LEMMA EncodingsKeep ==
    ASSUME Shape, NEW e \in Encodings
    PROVE  /\ e \in Encoders
           /\ GetEncoderFamily(job.encoder) # None /\ GetSoftwareEncoder(job.encoder) # None =>
                /\ GetEncoderFamily(e) = GetEncoderFamily(job.encoder)
                /\ GetSoftwareEncoder(e) # None
           /\ IsKnownSoftwareEncoder(job.encoder) => e = job.encoder
<1> DEFINE fb == PrepareFallback(job.encoder, job.container, FALSE)
<1>1. CASE e = job.encoder
  BY <1>1, JobType
<1>2. CASE job.encoder \in VAAPI /\ e = fb
  <2>1. /\ job.encoder \in DOMAIN HardwareToSoftware
        /\ HardwareToSoftware[job.encoder] \in KnownSoftwareEncoders
        /\ job.encoder \notin KnownSoftwareEncoders
        /\ job.encoder \notin {None, "copy"}
    BY <1>2 DEF VAAPI, HardwareToSoftware, KnownSoftwareEncoders, None
  <2>2. GetSoftwareEncoder(job.encoder) \in KnownSoftwareEncoders
    <3>1. job.encoder \notin DOMAIN inferSoftwareEncoder
      BY <1>2 DEF VAAPI, inferSoftwareEncoder
    <3>2. GetSoftwareEncoder(job.encoder) = HardwareToSoftware[job.encoder]
      BY <2>1, <3>1 DEF GetSoftwareEncoder
    <3> QED
      BY <2>1, <3>2
  <2>3. GetSoftwareEncoder(job.encoder) \notin {None, job.encoder}
    BY <2>1, <2>2, SoftwareOfSoftware
  <2>4. fb = GetSoftwareEncoder(job.encoder)
    BY <2>1, <2>3 DEF PrepareFallback
  <2>5. fb # None
    BY <2>3, <2>4
  <2>6. e \in Encoders
    BY <1>2, <2>2, <2>4 DEF Encoders
  <2> QED
    BY <1>2, <2>1, <2>5, <2>6, FallbackFamily DEF IsKnownSoftwareEncoder
<1> QED
  BY <1>1, <1>2 DEF Encodings

(* The rewrite chooses an encoder of the job's codec. *)
LEMMA RewriteStep ==
    ASSUME ExecInv, NEW w \in Workers, Rewrite(w)
    PROVE  ExecInv'
<1>1. x[w].pc = "rewrite" /\ Shape /\ Attempt(w)
  BY DEF Rewrite, ExecInv
<1>2. x[w].att = 0 /\ x[w].userSel
  BY <1>1 DEF Attempt, Places
<1>3. ASSUME NEW t \in {"FFMPEG_ERROR", "ENCODER_UNSUPPORTED"}, Leave(w, "failed", t)
      PROVE  ExecInv'
  BY <1>2, <1>3, LeaveKeeps DEF Grounds, Statuses, Types
<1>4. CASE x[w].cancelled /\ Leave(w, "cancelled", "none")
  BY <1>4, LeaveKeeps DEF Grounds, Statuses, Types
<1>5. ASSUME NEW e \in Encodings, x' = [x EXCEPT ![w].pc = "boundary", ![w].enc = e],
             UNCHANGED <<job, disk, server, faults>>
      PROVE  ExecInv'
  <2>1. "boundary" \in PCs
    BY DEF PCs
  <2>2. x[w] \in Attempts
    BY <1>1, Fields
  <2>3. /\ e \in Encoders
        /\ GetEncoderFamily(job.encoder) # None /\ GetSoftwareEncoder(job.encoder) # None =>
             /\ GetEncoderFamily(e) = GetEncoderFamily(job.encoder)
             /\ GetSoftwareEncoder(e) # None
        /\ IsKnownSoftwareEncoder(job.encoder) => e = job.encoder
    BY <1>1, <1>5, EncodingsKeep
  <2>4. /\ x' \in [Workers -> Attempts]
        /\ \A v \in Workers \ {w} : x'[v] = x[v]
        /\ x'[w].pc = "boundary" /\ x'[w].att = x[w].att /\ x'[w].userSel = x[w].userSel
        /\ x'[w].enc = e /\ x'[w].report = x[w].report
    BY <1>1, <1>5, <2>1, <2>2, <2>3 DEF Shape, Attempts
  <2>5. Shape'
    BY <1>1, <1>5, <2>4 DEF Shape, disk, server
  <2>6. Places(w)' /\ OwnFile(w)' /\ Grounded(x[w].report)'
    BY <1>1, <1>2, <1>5, <2>4 DEF Attempt, Places, OwnFile, Grounded, disk
  <2>7. KeepsCodec(w)'
    BY <1>2, <1>5, <2>3, <2>4 DEF KeepsCodec
  <2>8. DeliveredIsWhole'
    BY <1>5 DEF ExecInv, DeliveredIsWhole, disk, server
  <2> QED
    BY <1>5, <2>4, <2>5, <2>6, <2>7, <2>8, OneWorker DEF Attempt, disk
<1> QED
  BY <1>3, <1>4, <1>5 DEF Rewrite

(* An attempt the server refuses ends before ffmpeg runs. *)
LEMMA MarkRunningStep ==
    ASSUME ExecInv, NEW w \in Workers, MarkRunning(w)
    PROVE  ExecInv'
<1>1. x[w].pc = "boundary" /\ Shape /\ Attempt(w)
  BY DEF MarkRunning, ExecInv
<1>2. CASE Leave(w, IF x[w].cancelled THEN "cancelled" ELSE "failed",
                    IF x[w].cancelled THEN "none" ELSE "INFRA")
  <2>1. CASE x[w].cancelled
    <3>1. Leave(w, "cancelled", "none")
      BY <1>2, <2>1
    <3> QED
      BY <2>1, <3>1, LeaveKeeps DEF Grounds, Statuses, Types
  <2>2. CASE ~x[w].cancelled
    <3>1. Leave(w, "failed", "INFRA")
      BY <1>2, <2>2
    <3> QED
      BY <3>1, LeaveKeeps DEF Grounds, Statuses, Types
  <2> QED
    BY <2>1, <2>2
<1>3. CASE Goto(w, "launch") /\ UNCHANGED <<job, disk, server, faults>>
  <2>1. "launch" \in PCs
    BY DEF PCs
  <2>2. /\ x'[w].pc = "launch" /\ x'[w].att = x[w].att /\ x'[w].userSel = x[w].userSel
        /\ x'[w].enc = x[w].enc
    BY <1>1, <1>3, <2>1, GotoFields
  <2>3. Places(w)' /\ KeepsCodec(w)' /\ OwnFile(w)'
    BY <1>1, <1>3, <2>2 DEF Attempt, Places, KeepsCodec, OwnFile, disk
  <2> QED
    BY <1>1, <1>3, <2>1, <2>3, GotoKeeps DEF Shape
<1> QED
  BY <1>2, <1>3 DEF MarkRunning

-----------------------------------------------------------------------------
(* One ffmpeg process *)

(* A step of the ffmpeg process changes the place and the last result of   *)
(* the attempt, and files.                                                 *)
LEMMA RunKeeps ==
    ASSUME ExecInv, NEW w \in Workers, NEW pc \in {"run", "judge"}, NEW o \in Lasts,
           NEW oom \in BOOLEAN, x[w].pc \in {"launch", "run"},
           \/ x' = [x EXCEPT ![w].pc = pc, ![w].last = o, ![w].oom = oom]
           \/ Goto(w, pc) /\ o = x[w].last,
           UNCHANGED <<job, cache, target, segments, delivered, server>>,
           faults' \in 0..MaxFaults,
           file' \in [Workers -> Contents],
           job.mode = "upload" => \A v \in Workers \ {w} : file'[v] = file[v],
           staged' \in Workers \cup {"nodir", "clear"},
           job.mode = "upload" /\ pc = "run" => file'[w] = "partial",
           job.mode = "upload" /\ pc = "judge" => o # "refused",
           job.mode = "upload" /\ pc = "judge" /\ o \in {"ok", "warned"} => file'[w] = "whole"
    PROVE  ExecInv'
<1>1. Shape /\ Attempt(w) /\ x[w] \in Attempts
  BY Fields DEF ExecInv
<1>2. pc \in PCs
  BY DEF PCs
<1>3. /\ x' \in [Workers -> Attempts]
      /\ \A v \in Workers \ {w} : x'[v] = x[v]
      /\ x'[w].pc = pc /\ x'[w].att = x[w].att /\ x'[w].enc = x[w].enc
      /\ x'[w].userSel = x[w].userSel /\ x'[w].last = o
      /\ x'[w].report = x[w].report
  <2>1. CASE x' = [x EXCEPT ![w].pc = pc, ![w].last = o, ![w].oom = oom]
    BY <1>1, <1>2, <2>1 DEF Shape, Attempts
  <2>2. CASE Goto(w, pc) /\ o = x[w].last
    BY <1>1, <1>2, <2>2 DEF Shape, Attempts, Goto
  <2> QED
    BY <2>1, <2>2
<1>4. Shape'
  BY <1>1, <1>3 DEF Shape, server
<1>5. Places(w)' /\ KeepsCodec(w)' /\ Grounded(x[w].report)'
  BY <1>1, <1>3 DEF Attempt, Places, KeepsCodec, Grounded
<1>6. OwnFile(w)'
  BY <1>1, <1>3 DEF Attempt, OwnFile
<1>7. DeliveredIsWhole'
  BY DEF ExecInv, DeliveredIsWhole, server
<1> QED
  BY <1>3, <1>4, <1>5, <1>6, <1>7, OneWorker DEF Attempt

(* ffmpeg opens its output: an upload job finds its path free. *)
LEMMA LaunchStep ==
    ASSUME ExecInv, NEW w \in Workers, Launch(w)
    PROVE  ExecInv'
<1> DEFINE there == ~clearStaleOutput(w) /\ AtPath(w) # "none"
           ends(o) == x' = [x EXCEPT ![w].pc = "judge", ![w].last = o, ![w].oom = FALSE]
<1>1. /\ x[w].pc = "launch" /\ Shape /\ Attempt(w)
      /\ UNCHANGED <<job, cache, target, segments, delivered, server, faults>>
  BY DEF Launch, ExecInv
<1>2. job.mode = "upload" => ~there
  <2> SUFFICES ASSUME job.mode = "upload", x[w].att = 0 PROVE AtPath(w) = "none"
    BY <1>1, Fields DEF clearStaleOutput
  <2> QED
    BY <1>1 DEF Attempt, OwnFile, AtPath
<1>3. /\ file \in [Workers -> Contents] /\ staged \in Workers \cup {"nodir", "clear"}
      /\ x[w].last \in Lasts /\ FALSE \in BOOLEAN /\ faults' \in 0..MaxFaults
  BY <1>1, Fields DEF Shape
<1>4. ASSUME NEW o \in {"nostart", "fatal", "unwritten", "refused"}, ends(o), UNCHANGED <<file, staged>>,
             o = "refused" => there
      PROVE  ExecInv'
  <2>1. o \in Lasts
    BY DEF Lasts, Outcomes
  <2> QED
    BY <1>1, <1>2, <1>3, <1>4, <2>1, RunKeeps
<1>5. CASE ~OnFile /\ Goto(w, "run") /\ UNCHANGED <<file, staged>>
  BY <1>1, <1>3, <1>5, RunKeeps DEF OnFile
<1>6. CASE /\ there /\ job.mode = "direct" /\ Goto(w, "run") /\ UNCHANGED staged
           /\ file' = [file EXCEPT ![staged] = "mixed", ![w] = "none"]
  <2>1. file' \in [Workers -> Contents]
    BY <1>3, <1>6 DEF Contents
  <2> QED
    BY <1>1, <1>3, <1>6, <2>1, RunKeeps
<1>7. CASE /\ Goto(w, "run") /\ file' = [file EXCEPT ![w] = "partial"]
           /\ staged' = IF job.mode = "direct" THEN w ELSE staged
  <2>1. file' \in [Workers -> Contents] /\ file'[w] = "partial"
    BY <1>3, <1>7 DEF Contents
  <2>2. \A v \in Workers \ {w} : file'[v] = file[v]
    BY <1>3, <1>7
  <2>3. staged' \in Workers \cup {"nodir", "clear"}
    BY <1>3, <1>7
  <2> QED
    BY <1>1, <1>3, <1>7, <2>1, <2>2, <2>3, RunKeeps
<1> QED
  BY <1>4, <1>5, <1>6, <1>7 DEF Launch

(* ffmpeg ends: only a run that exits 0 leaves a whole file. *)
LEMMA FFmpegEndsStep ==
    ASSUME ExecInv, NEW w \in Workers, FFmpegEnds(w)
    PROVE  ExecInv'
<1>1. /\ x[w].pc = "run" /\ Shape /\ Attempt(w)
      /\ UNCHANGED <<job, cache, target, segments, delivered, server>>
  BY DEF FFmpegEnds, ExecInv
<1>2. PICK o \in Outcomes \cup {"timeout", "killed"}, oom \in BOOLEAN :
         /\ x' = [x EXCEPT ![w].pc = "judge", ![w].last = o, ![w].oom = oom]
         /\ NoFault \/ Fault("oom")
         /\ IF o = "unwritten"
              THEN /\ file' = [file EXCEPT ![w] = "none"]
                   /\ staged' = IF staged = w THEN "clear" ELSE staged
              ELSE /\ file' = [file EXCEPT ![w] = IF ~OnFile \/ @ \in {"none", "mixed"}
                                                    THEN @ ELSE Left(o)]
                   /\ UNCHANGED staged
  BY DEF FFmpegEnds
<1>3. file \in [Workers -> Contents] /\ staged \in Workers \cup {"nodir", "clear"}
  BY <1>1 DEF Shape
<1>4. Left(o) \in Contents /\ "none" \in Contents
  BY DEF Left, Contents
<1>5. file' \in [Workers -> Contents] /\ \A v \in Workers \ {w} : file'[v] = file[v]
  BY <1>2, <1>3, <1>4
<1>6. staged' \in Workers \cup {"nodir", "clear"}
  BY <1>2, <1>3
<1>7. o \in Lasts /\ o # "refused" /\ faults' \in 0..MaxFaults
  BY <1>1, <1>2, Bounds DEF Lasts, Outcomes, Fault, NoFault, Shape
<1>8. ASSUME job.mode = "upload", o \in {"ok", "warned"} PROVE file'[w] = "whole"
  <2>1. file[w] = "partial" /\ OnFile
    BY <1>1, <1>8 DEF Attempt, OwnFile, OnFile
  <2>2. Left(o) = "whole"
    BY <1>8 DEF Left
  <2> QED
    BY <1>2, <1>3, <1>8, <2>1, <2>2
<1> QED
  BY <1>1, <1>2, <1>5, <1>6, <1>7, <1>8, RunKeeps

-----------------------------------------------------------------------------
(* Judging and retrying *)

(* The encoder of the next attempt is of the job's codec, and a software   *)
(* encoder the user named is kept.                                         *)
Suits(w, e) ==
    /\ e \in Encoders
    /\ GetEncoderFamily(job.encoder) # None /\ GetSoftwareEncoder(job.encoder) # None =>
         /\ GetEncoderFamily(e) = GetEncoderFamily(job.encoder)
         /\ GetSoftwareEncoder(e) # None
    /\ IsKnownSoftwareEncoder(job.encoder) => e = job.encoder /\ x[w].userSel

(* A fallback from a suitable encoder is suitable. *)
LEMMA FallbackSuits ==
    ASSUME Shape, NEW w \in Workers, Suits(w, x[w].enc), NEW c, NEW b \in BOOLEAN,
           b => ~x[w].userSel, PrepareFallback(x[w].enc, c, b) # None
    PROVE  Suits(w, PrepareFallback(x[w].enc, c, b))
<1> DEFINE fb == PrepareFallback(x[w].enc, c, b)
<1>1. x[w].enc \in Encoders
  BY Fields
<1>2. fb \in Encoders
  BY <1>1, FallbackType DEF Encoders
<1>3. ~IsKnownSoftwareEncoder(job.encoder)
  <2> SUFFICES ASSUME IsKnownSoftwareEncoder(job.encoder) PROVE FALSE
    OBVIOUS
  <2>1. x[w].enc \in KnownSoftwareEncoders /\ b = FALSE
    BY DEF Suits, IsKnownSoftwareEncoder
  <2>2. PrepareFallback(x[w].enc, c, FALSE) = None
    BY <2>1, NoFallbackForUser
  <2> QED
    BY <2>1, <2>2
<1>4. ASSUME GetEncoderFamily(job.encoder) # None, GetSoftwareEncoder(job.encoder) # None
      PROVE  GetEncoderFamily(fb) = GetEncoderFamily(job.encoder) /\ GetSoftwareEncoder(fb) # None
  <2>1. GetEncoderFamily(x[w].enc) = GetEncoderFamily(job.encoder) /\ GetSoftwareEncoder(x[w].enc) # None
    BY <1>4 DEF Suits
  <2> QED
    BY <1>4, <2>1, FallbackFamily
<1> QED
  BY <1>2, <1>3, <1>4 DEF Suits

(* Every strategy but the exhausted one yields a suitable command line. *)
LEMMA StrategySuits ==
    ASSUME Shape, NEW w \in Workers, Suits(w, x[w].enc), NEW t, Strategy(w, t) # Exhausted
    PROVE  /\ Suits(w, Strategy(w, t).enc)
           /\ Strategy(w, t).params \in SUBSET {"hardware", "advanced"}
<1> DEFINE e  == x[w].enc
           b  == ~x[w].userSel
           fb == PrepareFallback(e, job.container, b)
           switch == [enc |-> fb, params |-> x[w].params \ {"hardware"}]
           pruned == PrunedEncoder(e)
<1>1. x[w].params \in SUBSET {"hardware", "advanced"} /\ b \in BOOLEAN
  BY Fields
<1>2. fb # None => Suits(w, fb)
  BY <1>1, FallbackSuits
<1>3. Suits(w, pruned)
  <2> DEFINE sw == PrepareFallback(e, "other", FALSE)
  <2>1. sw # None => Suits(w, sw)
    BY FallbackSuits
  <2> QED
    BY <2>1 DEF PrunedEncoder
<1>4. \/ fb # None /\ Strategy(w, t) = switch
      \/ Strategy(w, t) = [enc |-> pruned, params |-> x[w].params \ {"hardware"}]
      \/ Strategy(w, t) = [enc |-> pruned, params |-> {}]
      \/ Strategy(w, t) = [enc |-> e, params |-> x[w].params]
  <2> HIDE DEF e, fb, pruned
  <2>1. CASE t = "output_empty" /\ job.mode # "net" /\ fb \notin {None, e}
    BY <2>1 DEF Strategy, e, fb
  <2>2. CASE ~(t = "output_empty" /\ job.mode # "net" /\ fb \notin {None, e}) /\ t = "encoder_not_found"
    BY <2>2 DEF Strategy, e, fb
  <2>3. CASE ~(t = "output_empty" /\ job.mode # "net" /\ fb \notin {None, e}) /\ t # "encoder_not_found"
    <3>1. CASE x[w].att = 1
      BY <2>3, <3>1 DEF Strategy, e, fb, pruned
    <3>2. CASE x[w].att = 2
      BY <2>3, <3>2 DEF Strategy, e, fb, pruned
    <3>3. CASE x[w].att \notin {1, 2}
      BY <2>3, <3>3 DEF Strategy, e, fb
    <3> QED
      BY <3>1, <3>2, <3>3
  <2> QED
    BY <2>1, <2>2, <2>3
<1> HIDE DEF e, fb, pruned
<1> QED
  BY <1>1, <1>2, <1>3, <1>4 DEF e

(* An attempt that runs has a suitable encoder. *)
LEMMA RunningSuits ==
    ASSUME ExecInv, NEW w \in Workers, x[w].pc \in {"judge", "retry", "final"}
    PROVE  Suits(w, x[w].enc)
BY Fields DEF ExecInv, Attempt, KeepsCodec, Suits

(* A step of the retry executor sets the place, the attempt and the command *)
(* line.                                                                    *)
LEMMA RetryKeeps ==
    ASSUME ExecInv, NEW w \in Workers, NEW r \in Attempts, x' = [x EXCEPT ![w] = r],
           UNCHANGED <<job, disk, server, faults>>,
           r.pc \in {"retry", "launch"}, r.att > 0, r.pc = "retry" => r.att \in 1..MaxRetries,
           r.report = x[w].report, Suits(w, r.enc),
           IsKnownSoftwareEncoder(job.encoder) => r.userSel
    PROVE  ExecInv'
<1>1. Shape /\ Attempt(w)
  BY DEF ExecInv
<1>2. UNCHANGED <<job, file, cache, staged, target, segments, delivered, owner, verdict,
                  dispatches, faults>>
  BY DEF disk, server
<1>3. /\ x' \in [Workers -> Attempts] /\ x'[w] = r
      /\ \A v \in Workers \ {w} : x'[v] = x[v]
  BY <1>1 DEF Shape
<1>4. Shape'
  BY <1>1, <1>2, <1>3 DEF Shape
<1>5. r.att \in 0..Final
  BY DEF Attempts
<1>6. Places(w)' /\ OwnFile(w)' /\ Grounded(x[w].report)'
  BY <1>1, <1>3, <1>5, Bounds DEF Attempt, Places, OwnFile, Grounded
<1>7. KeepsCodec(w)'
  BY <1>2, <1>3 DEF KeepsCodec, Suits
<1>8. DeliveredIsWhole'
  BY <1>2 DEF ExecInv, DeliveredIsWhole
<1> QED
  BY <1>2, <1>3, <1>4, <1>6, <1>7, <1>8, OneWorker DEF Attempt

(* A judged run goes on to publish only with a whole file. *)
LEMMA JudgedGoto ==
    ASSUME ExecInv, NEW w \in Workers, x[w].pc \in {"judge", "retry"},
           NEW pc \in {"publish", "final", "launch"}, Goto(w, pc),
           UNCHANGED <<job, disk, server, faults>>,
           job.mode = "upload" /\ pc = "publish" => file[w] = "whole",
           pc \in {"launch", "final"} => x[w].att \in 1..MaxRetries
    PROVE  ExecInv'
<1>1. Shape /\ Attempt(w) /\ pc \in PCs
  BY DEF ExecInv, PCs
<1>2. /\ x'[w].pc = pc /\ x'[w].att = x[w].att /\ x'[w].userSel = x[w].userSel
      /\ x'[w].enc = x[w].enc /\ x[w].att \in 0..Final
  BY <1>1, GotoFields, Fields
<1>3. Places(w)' /\ KeepsCodec(w)' /\ OwnFile(w)'
  BY <1>1, <1>2, Bounds DEF Attempt, Places, KeepsCodec, OwnFile, disk
<1> QED
  BY <1>1, <1>3, GotoKeeps DEF Shape

(* The class of a run that was cut short, and of one that failed. *)
LEMMA ClassOfRun ==
    ASSUME NEW w \in Workers
    PROVE  /\ FailureClass(w, TRUE) \in {"TIMEOUT", "WORKER_CRASH"}
           /\ FailureClass(w, TRUE) = "WORKER_CRASH" <=> x[w].last \in {"crash", "killed"} \/ x[w].oom
           /\ FailureClass(w, FALSE) \in {"WORKER_CRASH", "ENCODER_UNSUPPORTED", "FFMPEG_ERROR"}
           /\ FailureClass(w, FALSE) = "WORKER_CRASH" <=> x[w].last \in {"crash", "killed"} \/ x[w].oom
BY DEF FailureClass, ClassifyFailure

(* Those classes have their grounds. *)
LEMMA ClassGrounds ==
    ASSUME NEW w \in Workers
    PROVE  /\ FailureClass(w, TRUE) \in Types /\ FailureClass(w, FALSE) \in Types
           /\ x[w].last \in {"timeout", "stall"} => Grounds(w, "timeout", FailureClass(w, TRUE))
           /\ ~x[w].expired \/ ~(x[w].att > 0) => Grounds(w, "failed", FailureClass(w, FALSE))
BY ClassOfRun DEF Types, Grounds

(* Giving up is a timeout when the budget is spent. *)
LEMMA GiveUpKeeps ==
    ASSUME ExecInv, NEW w \in Workers, GiveUp(w)
    PROVE  ExecInv'
<1>1. {"timeout", "failed"} \subseteq Statuses /\ "TIMEOUT" \in Types
  BY DEF Statuses, Types
<1>2. CASE x[w].last \in {"timeout", "stall"}
  <2>1. Leave(w, "timeout", FailureClass(w, TRUE))
    BY <1>2 DEF GiveUp
  <2> QED
    BY <1>1, <1>2, <2>1, ClassGrounds, LeaveKeeps
<1>3. CASE x[w].last \notin {"timeout", "stall"} /\ x[w].expired
  <2>1. Leave(w, "timeout", "TIMEOUT")
    BY <1>3 DEF GiveUp
  <2>2. Grounds(w, "timeout", "TIMEOUT")
    BY <1>3 DEF Grounds
  <2> QED
    BY <1>1, <2>1, <2>2, LeaveKeeps
<1>4. CASE x[w].last \notin {"timeout", "stall"} /\ ~x[w].expired
  <2>1. Leave(w, "failed", FailureClass(w, FALSE))
    BY <1>4 DEF GiveUp
  <2> QED
    BY <1>1, <1>4, <2>1, ClassGrounds, LeaveKeeps
<1> QED
  BY <1>2, <1>3, <1>4

(* A file an upload job is found to have written is whole. *)
LEMMA SucceededIsWhole ==
    ASSUME ExecInv, NEW w \in Workers, x[w].pc = "judge", job.mode = "upload",
           InitialSucceeded(w) \/ RetrySucceeded(w)
    PROVE  file[w] = "whole"
<1>1. Attempt(w) /\ OnFile
  BY DEF ExecInv, OnFile
<1>2. x[w].last \in {"ok", "warned", "refused"}
  BY <1>1 DEF InitialSucceeded, RetrySucceeded
<1> QED
  BY <1>1, <1>2 DEF Attempt, OwnFile

(* The initial run is judged. *)
LEMMA JudgeInitialStep ==
    ASSUME ExecInv, NEW w \in Workers, JudgeInitial(w)
    PROVE  ExecInv'
<1>1. x[w].pc = "judge" /\ x[w].att = 0 /\ Shape /\ Attempt(w)
  BY DEF JudgeInitial, ExecInv
<1>2. CASE x[w].cancelled /\ Leave(w, "cancelled", "none")
  BY <1>2, LeaveKeeps DEF Grounds, Statuses, Types
<1>3. CASE x[w].last \in {"timeout", "stall"} /\ Leave(w, "timeout", FailureClass(w, TRUE))
  BY <1>3, ClassGrounds, LeaveKeeps DEF Statuses
<1>5. CASE InitialSucceeded(w) /\ Goto(w, "publish") /\ UNCHANGED <<job, disk, server, faults>>
  BY <1>1, <1>5, SucceededIsWhole, JudgedGoto
<1>6. CASE Leave(w, "failed", FailureClass(w, FALSE))
  <2>1. FailureClass(w, FALSE) \in Types /\ Grounds(w, "failed", FailureClass(w, FALSE))
    <3>1. ~(x[w].att > 0)
      BY <1>1
    <3> QED
      BY <3>1, ClassGrounds
  <2>2. "failed" \in Statuses
    BY DEF Statuses
  <2> QED
    BY <1>6, <2>1, <2>2, LeaveKeeps
<1>7. CASE /\ x' = [x EXCEPT ![w].pc = "retry", ![w].att = 1, ![w].last = "none", ![w].oom = FALSE]
           /\ UNCHANGED <<job, disk, server, faults>>
  <2> DEFINE r == [x[w] EXCEPT !.pc = "retry", !.att = 1, !.last = "none", !.oom = FALSE]
  <2>1. x[w] \in Attempts /\ Suits(w, x[w].enc)
    BY <1>1, Fields, RunningSuits
  <2>2. "retry" \in PCs /\ "none" \in Lasts /\ 1 \in 0..Final
    BY Bounds DEF PCs, Lasts
  <2>3. /\ r \in Attempts /\ r.pc = "retry" /\ r.att = 1 /\ r.report = x[w].report
        /\ r.enc = x[w].enc /\ r.userSel = x[w].userSel
    BY <2>1, <2>2 DEF Attempts
  <2>4. x' = [x EXCEPT ![w] = r]
    BY <1>7
  <2> HIDE DEF r
  <2>5. IsKnownSoftwareEncoder(job.encoder) => r.userSel
    BY <2>1, <2>3 DEF Suits
  <2>6. Suits(w, r.enc) /\ r.att \in 1..MaxRetries /\ r.att > 0 /\ r.pc \in {"retry", "launch"}
    BY <2>1, <2>3, Bounds
  <2> QED
    BY <1>7, <2>3, <2>4, <2>5, <2>6, RetryKeeps
<1> QED
  BY <1>2, <1>3, <1>5, <1>6, <1>7 DEF JudgeInitial

(* The top of the retry loop. *)
LEMMA RetryTopStep ==
    ASSUME ExecInv, NEW w \in Workers, RetryTop(w)
    PROVE  ExecInv'
<1>1. /\ x[w].pc = "retry" /\ x[w].att \in 1..MaxRetries
      /\ UNCHANGED <<job, disk, server, faults>>
  BY DEF RetryTop, ExecInv, Attempt, Places
<1>2. Goto(w, "final") \/ Goto(w, "launch")
  BY DEF RetryTop
<1> QED
  BY <1>1, <1>2, JudgedGoto

(* The next attempt keeps the codec. *)
LEMMA NextAttemptKeeps ==
    ASSUME ExecInv, NEW w \in Workers, NEW t, x[w].pc = "judge", x[w].att \in 1..MaxRetries,
           NextAttempt(w, t), UNCHANGED <<job, disk, server, faults>>
    PROVE  ExecInv'
<1> DEFINE s == Strategy(w, t)
<1>1. CASE ~IsRetryable(t) \/ x[w].att = MaxRetries \/ s = Exhausted
  <2>1. Goto(w, "final")
    BY <1>1 DEF NextAttempt
  <2> QED
    BY <2>1, JudgedGoto
<1>2. CASE ~(~IsRetryable(t) \/ x[w].att = MaxRetries \/ s = Exhausted)
  <2> DEFINE u == x[w].userSel /\ s.enc = x[w].enc
             sw == x[w].usedSw \/ (s.enc # x[w].enc /\ ~IsHardwareEncoder(s.enc))
             r == [x[w] EXCEPT !.pc = "retry", !.att = @ + 1, !.enc = s.enc,
                               !.params = s.params, !.userSel = u, !.usedSw = sw]
  <2>1. x[w] \in Attempts /\ Suits(w, x[w].enc) /\ Shape
    BY Fields, RunningSuits DEF ExecInv
  <2>2. Suits(w, s.enc) /\ s.params \in SUBSET {"hardware", "advanced"}
    BY <1>2, <2>1, StrategySuits
  <2>3. x' = [x EXCEPT ![w] = r]
    BY <1>2 DEF NextAttempt
  <2>4. u \in BOOLEAN /\ sw \in BOOLEAN
    BY <2>1, Fields
  <2>5. s.enc \in Encoders
    BY <2>2 DEF Suits
  <2>6. IsKnownSoftwareEncoder(job.encoder) => u
    BY <2>1, <2>2 DEF Suits
  <2>7. /\ x[w].att + 1 \in 0..Final /\ x[w].att + 1 \in 1..MaxRetries /\ x[w].att + 1 > 0
        /\ "retry" \in PCs
    BY <1>2, Bounds DEF PCs
  <2> HIDE DEF s, u, sw
  <2>8. /\ r \in Attempts /\ r.pc = "retry" /\ r.att = x[w].att + 1
        /\ r.report = x[w].report /\ r.enc = s.enc /\ r.userSel = u
    BY <2>1, <2>2, <2>4, <2>5, <2>7 DEF Attempts
  <2>9. Suits(w, r.enc)
    BY <2>2, <2>8
  <2> HIDE DEF r
  <2> QED
    BY <2>3, <2>6, <2>7, <2>8, <2>9, RetryKeeps
<1> QED
  BY <1>1, <1>2

(* A retried run is judged. *)
LEMMA JudgeRetryStep ==
    ASSUME ExecInv, NEW w \in Workers, JudgeRetry(w)
    PROVE  ExecInv'
<1>1. x[w].pc = "judge" /\ x[w].att \in 1..MaxRetries /\ UNCHANGED <<job, disk, server, faults>>
  BY DEF JudgeRetry
<1>2. CASE RetrySucceeded(w)
  <2>1. Goto(w, "publish")
    BY <1>2 DEF JudgeRetry
  <2> QED
    BY <1>1, <1>2, <2>1, SucceededIsWhole, JudgedGoto
<1>3. CASE ~RetrySucceeded(w)
  <2>1. PICK t : NextAttempt(w, t)
    BY <1>3 DEF JudgeRetry
  <2> QED
    BY <1>1, <2>1, NextAttemptKeeps
<1> QED
  BY <1>2, <1>3

(* The last run in software. *)
LEMMA FinalFallbackStep ==
    ASSUME ExecInv, NEW w \in Workers, FinalFallback(w)
    PROVE  ExecInv'
<1> DEFINE b == ~x[w].userSel
           fb == PrepareFallback(x[w].enc, job.container, b)
<1>1. x[w].pc = "final"
  BY DEF FinalFallback
<1>2. CASE ~ContextDone(w) /\ ~x[w].usedSw /\ fb # None
  <2> DEFINE r == [x[w] EXCEPT !.pc = "launch", !.att = Final, !.enc = fb, !.usedSw = TRUE]
  <2>1. x[w] \in Attempts /\ Suits(w, x[w].enc) /\ Shape /\ b \in BOOLEAN
    BY <1>1, Fields, RunningSuits DEF ExecInv
  <2>2. Suits(w, fb)
    BY <1>2, <2>1, FallbackSuits
  <2>3. x' = [x EXCEPT ![w] = r] /\ UNCHANGED <<job, disk, server, faults>>
    BY <1>2 DEF FinalFallback
  <2>4. fb \in Encoders
    BY <2>2 DEF Suits
  <2>5. "launch" \in PCs /\ Final \in 0..Final /\ Final > 0
    BY Bounds DEF PCs
  <2> HIDE DEF fb
  <2>6. /\ r \in Attempts /\ r.pc = "launch" /\ r.att = Final
        /\ r.report = x[w].report /\ r.enc = fb /\ r.userSel = x[w].userSel
    BY <2>1, <2>4, <2>5 DEF Attempts
  <2>7. Suits(w, r.enc)
    BY <2>2, <2>6
  <2>8. IsKnownSoftwareEncoder(job.encoder) => r.userSel
    BY <2>1, <2>6 DEF Suits
  <2> HIDE DEF r
  <2> QED
    BY <2>3, <2>5, <2>6, <2>7, <2>8, RetryKeeps
<1>3. CASE ~(~ContextDone(w) /\ ~x[w].usedSw /\ fb # None)
  <2>1. GiveUp(w)
    BY <1>3 DEF FinalFallback
  <2> QED
    BY <2>1, GiveUpKeeps
<1> QED
  BY <1>2, <1>3

(* The last run is judged. *)
LEMMA JudgeFinalStep ==
    ASSUME ExecInv, NEW w \in Workers, JudgeFinal(w)
    PROVE  ExecInv'
<1>1. x[w].pc = "judge"
  BY DEF JudgeFinal
<1>2. CASE RetrySucceeded(w)
  <2>1. Goto(w, "publish") /\ UNCHANGED <<job, disk, server, faults>>
    BY <1>2 DEF JudgeFinal
  <2> QED
    BY <1>1, <1>2, <2>1, SucceededIsWhole, JudgedGoto
<1>3. CASE ~RetrySucceeded(w)
  <2>1. GiveUp(w)
    BY <1>3 DEF JudgeFinal
  <2> QED
    BY <2>1, GiveUpKeeps
<1> QED
  BY <1>2, <1>3

-----------------------------------------------------------------------------
(* After ffmpeg *)

(* The siblings of a staged output are published. *)
LEMMA PublishSiblingsStep ==
    ASSUME ExecInv, NEW w \in Workers, PublishSiblings(w)
    PROVE  ExecInv'
<1>1. x[w].pc = "publish" /\ Shape /\ Attempt(w)
  BY DEF PublishSiblings, ExecInv
<1>2. CASE job.mode # "direct"
  <2>1. Goto(w, "upload") /\ UNCHANGED <<job, disk, server, faults>>
    BY <1>2 DEF PublishSiblings
  <2>2. "upload" \in PCs
    BY DEF PCs
  <2>3. /\ x'[w].pc = "upload" /\ x'[w].att = x[w].att /\ x'[w].userSel = x[w].userSel
        /\ x'[w].enc = x[w].enc
    BY <1>1, <2>1, <2>2, GotoFields
  <2>4. Places(w)' /\ KeepsCodec(w)' /\ OwnFile(w)'
    BY <1>1, <2>1, <2>3 DEF Attempt, Places, KeepsCodec, OwnFile, disk
  <2> QED
    BY <1>1, <2>1, <2>2, <2>4, GotoKeeps DEF Shape
<1>3. CASE Leave(w, "failed", "INFRA")
  BY <1>3, LeaveKeeps DEF Grounds, Statuses, Types
<1>4. CASE /\ job.mode = "direct" /\ segments' = IF staged \in Workers THEN "whole" ELSE segments
           /\ Goto(w, "publishMain")
           /\ UNCHANGED <<job, file, cache, staged, target, delivered, server, faults>>
  <2>1. "publishMain" \in PCs /\ segments' \in Contents
    BY <1>1, <1>4 DEF PCs, Shape, Contents
  <2>2. /\ x'[w].pc = "publishMain" /\ x'[w].userSel = x[w].userSel /\ x'[w].enc = x[w].enc
        /\ \A v \in Workers \ {w} : x'[v] = x[v]
        /\ x'[w] = [x[w] EXCEPT !.pc = "publishMain"]
    BY <1>1, <1>4, <2>1, GotoFields, GotoEffect
  <2>3. Shape'
    BY <1>1, <1>4, <2>1, GotoShape DEF Shape
  <2>4. x'[w].report = x[w].report
    BY <1>1, <2>2, Fields DEF Attempts
  <2>5. Attempt(w)'
    BY <1>1, <1>4, <2>2, <2>4 DEF Attempt, Places, KeepsCodec, OwnFile, Grounded
  <2>6. DeliveredIsWhole'
    BY <1>4 DEF ExecInv, DeliveredIsWhole, server
  <2> QED
    BY <1>4, <2>2, <2>3, <2>5, <2>6, OneWorker
<1> QED
  BY <1>2, <1>3, <1>4 DEF PublishSiblings

(* The main output is published. *)
LEMMA PublishMainStep ==
    ASSUME ExecInv, NEW w \in Workers, PublishMain(w)
    PROVE  ExecInv'
<1>1. x[w].pc = "publishMain" /\ Shape /\ Attempt(w) /\ job.mode = "direct"
  BY DEF PublishMain, ExecInv, Attempt, Places
<1>2. CASE Leave(w, "failed", "INFRA")
  BY <1>2, LeaveKeeps DEF Grounds, Statuses, Types
<1>3. CASE /\ target' = IF staged \in Workers THEN file[staged] ELSE target
           /\ staged' = "clear"
           /\ Goto(w, "upload")
           /\ UNCHANGED <<job, file, cache, segments, delivered, server, faults>>
  <2>1. "upload" \in PCs /\ target' \in Contents
    BY <1>1, <1>3 DEF PCs, Shape
  <2>2. /\ x'[w].pc = "upload" /\ x'[w].userSel = x[w].userSel /\ x'[w].enc = x[w].enc
        /\ \A v \in Workers \ {w} : x'[v] = x[v]
        /\ x'[w] = [x[w] EXCEPT !.pc = "upload"]
    BY <1>1, <1>3, <2>1, GotoFields, GotoEffect
  <2>3. Shape'
    BY <1>1, <1>3, <2>1, GotoShape DEF Shape
  <2>4. x'[w].report = x[w].report
    BY <1>1, <2>2, Fields DEF Attempts
  <2>5. Attempt(w)'
    BY <1>1, <1>3, <2>2, <2>4 DEF Attempt, Places, KeepsCodec, OwnFile, Grounded
  <2>6. DeliveredIsWhole'
    BY <1>3 DEF ExecInv, DeliveredIsWhole, server
  <2> QED
    BY <1>1, <1>3, <2>2, <2>3, <2>5, <2>6, OneWorker
<1> QED
  BY <1>2, <1>3 DEF PublishMain

(* What is uploaded and cached is the whole file of a run that succeeded. *)
LEMMA UploadStep ==
    ASSUME ExecInv, NEW w \in Workers, Upload(w)
    PROVE  ExecInv'
<1>1. x[w].pc = "upload" /\ Shape /\ Attempt(w)
  BY DEF Upload, ExecInv
<1>2. CASE Leave(w, "failed", "INFRA")
  BY <1>2, LeaveKeeps DEF Grounds, Statuses, Types
<1>3. "finish" \in PCs
  BY DEF PCs
<1>4. CASE /\ job.mode = "upload" /\ delivered' = file[w]
           /\ \/ cache' = [cache EXCEPT ![w] = file[w]] /\ NoFault
              \/ Fault("io") /\ UNCHANGED cache
           /\ Goto(w, "finish")
           /\ UNCHANGED <<job, file, staged, target, segments, server>>
  <2>1. file[w] = "whole"
    BY <1>1, <1>4 DEF Attempt, OwnFile
  <2>2. /\ x'[w].pc = "finish" /\ x'[w].userSel = x[w].userSel /\ x'[w].enc = x[w].enc
        /\ \A v \in Workers \ {w} : x'[v] = x[v]
        /\ x'[w] = [x[w] EXCEPT !.pc = "finish"]
    BY <1>1, <1>3, <1>4, GotoFields, GotoEffect
  <2>3. cache' \in [Workers -> Contents] /\ delivered' \in Contents
    BY <1>1, <1>4, <2>1 DEF Shape, Contents
  <2>4. faults' \in 0..MaxFaults
    BY <1>1, <1>4, Bounds DEF Fault, NoFault, Shape
  <2>5. Shape'
    BY <1>1, <1>3, <1>4, <2>3, <2>4, GotoShape DEF Shape
  <2>6. x'[w].report = x[w].report
    BY <1>1, <2>2, Fields DEF Attempts
  <2>7. Attempt(w)'
    BY <1>1, <1>4, <2>1, <2>2, <2>6 DEF Attempt, Places, KeepsCodec, OwnFile, Grounded
  <2>8. \A v \in Workers : cache'[v] \in {"none", "whole"}
    BY <1>1, <1>4, <2>1 DEF ExecInv, DeliveredIsWhole, Shape
  <2>9. DeliveredIsWhole'
    BY <1>4, <2>1, <2>8 DEF DeliveredIsWhole
  <2> QED
    BY <1>4, <2>1, <2>2, <2>5, <2>7, <2>9, OneWorker
<1>5. CASE /\ job.mode # "upload" /\ Goto(w, "finish")
           /\ UNCHANGED <<job, disk, server, faults>>
  <2>1. x'[w].pc = "finish" /\ x'[w].userSel = x[w].userSel /\ x'[w].enc = x[w].enc
    BY <1>1, <1>3, <1>5, GotoFields
  <2>2. Places(w)' /\ KeepsCodec(w)' /\ OwnFile(w)'
    BY <1>1, <1>5, <2>1 DEF Attempt, Places, KeepsCodec, OwnFile
  <2> QED
    BY <1>1, <1>3, <1>5, <2>2, GotoKeeps DEF Shape
<1> QED
  BY <1>2, <1>4, <1>5 DEF Upload

(* A job is reported completed once its output was delivered. *)
LEMMA FinishStep ==
    ASSUME ExecInv, NEW w \in Workers, Finish(w)
    PROVE  ExecInv'
<1>1. x[w].pc = "finish" /\ Attempt(w)
  BY DEF Finish, ExecInv
<1>2. CASE Leave(w, "failed", "INFRA")
  BY <1>2, LeaveKeeps DEF Grounds, Statuses, Types
<1>3. CASE Leave(w, "completed", "none")
  BY <1>1, <1>3, LeaveKeeps DEF Grounds, Statuses, Types, Attempt, OwnFile
<1> QED
  BY <1>2, <1>3 DEF Finish

(* A crash ends the attempt without a report. *)
LEMMA CrashStep ==
    ASSUME ExecInv, NEW w \in Workers, Crash(w)
    PROVE  ExecInv'
<1> DEFINE r == [Fresh(0) EXCEPT !.pc = "crashed"]
<1>1. Shape
  BY DEF ExecInv
<1>2. /\ x' = [x EXCEPT ![w] = r]
      /\ UNCHANGED <<job, file, cache, staged, target, segments, delivered, owner, verdict, dispatches>>
  BY DEF Crash, disk, server
<1>3. r \in Attempts /\ r.pc = "crashed" /\ r.report = NoReport
  <2>1. Fresh(0) \in Attempts /\ "crashed" \in PCs
    BY FreshType, Bounds DEF PCs
  <2>2. Fresh(0).report = NoReport
    BY DEF Fresh
  <2> QED
    BY <2>1, <2>2 DEF Attempts
<1>4. faults' \in 0..MaxFaults
  BY <1>1, Bounds DEF Crash, Fault, Shape
<1> HIDE DEF r
<1>5. /\ x' \in [Workers -> Attempts] /\ x'[w] = r
      /\ \A v \in Workers \ {w} : x'[v] = x[v]
  BY <1>1, <1>2, <1>3 DEF Shape
<1>6. Shape'
  BY <1>1, <1>2, <1>4, <1>5 DEF Shape
<1>7. Attempt(w)'
  BY <1>3, <1>5 DEF Attempt, Places, KeepsCodec, OwnFile, Grounded, NoReport
<1>8. DeliveredIsWhole'
  BY <1>2 DEF ExecInv, DeliveredIsWhole
<1> QED
  BY <1>2, <1>5, <1>6, <1>7, <1>8, OneWorker

(* A panic is reported as a failure. *)
LEMMA PanicStep ==
    ASSUME ExecInv, NEW w \in Workers, Panic(w)
    PROVE  ExecInv'
BY LeaveKeeps DEF Panic, Grounds, Statuses, Types

-----------------------------------------------------------------------------
(* The invariant *)

(* Every job starts with no attempt under way. *)
LEMMA ExecInit == Init => ExecInv
<1> SUFFICES ASSUME Init PROVE ExecInv
  OBVIOUS
<1> DEFINE r == [Fresh(0) EXCEPT !.pc = "idle"]
<1>1. r \in Attempts /\ r.pc = "idle" /\ r.report = NoReport
  <2>1. Fresh(0) \in Attempts /\ "idle" \in PCs
    BY FreshType, Bounds DEF PCs
  <2>2. Fresh(0).report = NoReport
    BY DEF Fresh
  <2> QED
    BY <2>1, <2>2 DEF Attempts
<1>2. x = [w \in Workers |-> r]
  BY DEF Init
<1> HIDE DEF r
<1>3. Shape
  <2>1. x \in [Workers -> Attempts]
    BY <1>1, <1>2
  <2>2. dispatches \in 0..MaxDispatch /\ faults \in 0..MaxFaults
    BY Bounds DEF Init
  <2> QED
    BY <2>1, <2>2 DEF Init, Shape, Contents, Statuses
<1>4. \A w \in Workers : Attempt(w)
  BY <1>1, <1>2 DEF Attempt, Places, KeepsCodec, OwnFile, Grounded, NoReport
<1>5. DeliveredIsWhole
  BY DEF Init, DeliveredIsWhole
<1> QED
  BY <1>3, <1>4, <1>5 DEF ExecInv

(* Every step of the workers, the server and the faults keeps it. *)
LEMMA ExecStep == ExecInv /\ [Next]_vars => ExecInv'
<1> SUFFICES ASSUME ExecInv, [Next]_vars PROVE ExecInv'
  OBVIOUS
<1>1. CASE ClientCancels
  BY <1>1, ClientCancelsStep
<1>2. ASSUME NEW w \in Workers, Dispatch(w) \/ CancelContext(w) \/ ExpireBudget(w) \/ Crash(w) \/ Panic(w)
      PROVE  ExecInv'
  BY <1>2, DispatchStep, CancelContextStep, ExpireBudgetStep, CrashStep, PanicStep
<1>3. ASSUME NEW w \in Workers, Step(w) PROVE ExecInv'
  <2>1. CASE CheckCache(w) \/ Prepare(w) \/ Stage(w) \/ Rewrite(w) \/ MarkRunning(w)
    BY <2>1, CheckCacheStep, PrepareStep, StageStep, RewriteStep, MarkRunningStep
  <2>2. CASE Launch(w) \/ FFmpegEnds(w) \/ JudgeInitial(w) \/ RetryTop(w) \/ JudgeRetry(w)
    BY <2>2, LaunchStep, FFmpegEndsStep, JudgeInitialStep, RetryTopStep, JudgeRetryStep
  <2>3. CASE FinalFallback(w) \/ JudgeFinal(w)
    BY <2>3, FinalFallbackStep, JudgeFinalStep
  <2>4. CASE PublishSiblings(w) \/ PublishMain(w) \/ Upload(w) \/ Finish(w)
    BY <2>4, PublishSiblingsStep, PublishMainStep, UploadStep, FinishStep
  <2> QED
    BY <1>3, <2>1, <2>2, <2>3, <2>4 DEF Step
<1>4. CASE UNCHANGED vars
  <2>1. UNCHANGED <<job, x, file, cache, staged, target, segments, delivered, owner, verdict,
                    dispatches, faults>>
    BY <1>4 DEF vars
  <2>2. Shape'
    BY <2>1 DEF ExecInv, Shape
  <2>3. \A w \in Workers : Attempt(w)'
    BY <2>1 DEF ExecInv, Attempt, Places, KeepsCodec, OwnFile, Grounded
  <2>4. DeliveredIsWhole'
    BY <2>1 DEF ExecInv, DeliveredIsWhole
  <2> QED
    BY <2>2, <2>3, <2>4 DEF ExecInv
<1> QED
  BY <1>1, <1>2, <1>3, <1>4 DEF Next

(* The invariant holds in every reachable state. *)
LEMMA ExecInvariance == Spec => []ExecInv
BY ExecInit, ExecStep, PTL DEF Spec

-----------------------------------------------------------------------------
(* Theorems *)

(* Every handler keeps the attempt, the files and the server's view well   *)
(* formed; no attempt outruns MaxRetries and its one software fallback.    *)
THEOREM ExecutionTypeCorrect == Spec => []TypeOK
<1>1. ExecInv => TypeOK
  BY DEF ExecInv, Shape, TypeOK, Attempts, Reports, PCs, Lasts, Statuses, Types, Encoders
<1> QED
  BY <1>1, ExecInvariance, PTL

(* uploadOutput and cache.Put only ever see the whole output of a run that *)
(* succeeded, whatever was retried, cancelled, dispatched twice or crashed *)
(* before.                                                                 *)
THEOREM DeliveriesAreWhole == Spec => []DeliveredIsWhole
<1>1. ExecInv => DeliveredIsWhole
  BY DEF ExecInv
<1> QED
  BY <1>1, ExecInvariance, PTL

(* applyRetryStrategy, the pruning of parameters and the final fallback    *)
(* keep the codec family, for every encoder of the tables, container and   *)
(* number of retries.                                                      *)
THEOREM RetriesKeepCodec == Spec => []CodecKept
<1>1. ExecInv => CodecKept
  BY DEF ExecInv, Attempt, KeepsCodec, CodecKept
<1> QED
  BY <1>1, ExecInvariance, PTL

(* Every exit of processJob has the grounds its report claims. *)
THEOREM ReportsAreHonest == Spec => []VerdictHonest
<1>1. ExecInv => VerdictHonest
  BY DEF ExecInv, Attempt, Grounded, VerdictHonest
<1> QED
  BY <1>1, ExecInvariance, PTL

-----------------------------------------------------------------------------
(* Direct mode: the staging directory and the target are shared, so what   *)
(* protects them is that the server runs one attempt at a time.  That is   *)
(* so as long as it never takes a living worker for dead.                  *)

(* At most one attempt is under way. *)
Alone == \A v, w \in Workers : Working(v) /\ Working(w) => v = w

(* The staging path, as the attempt at work finds it. *)
Staging(w) ==
    /\ x[w].pc \in {"rewrite", "boundary"} => staged = "clear"
    /\ x[w].pc = "launch" /\ x[w].att = 0 => staged = "clear"
    /\ x[w].pc \in {"launch", "judge", "retry", "final"} => staged \in {"clear", w}
    /\ x[w].pc = "run" => staged = w /\ file[w] = "partial"
    /\ x[w].pc = "judge" => x[w].last # "refused"
    /\ x[w].pc = "judge" /\ staged = w /\ x[w].last \in {"ok", "warned"} => file[w] = "whole"
    /\ x[w].pc \in {"publish", "publishMain"} => staged = w /\ file[w] = "whole"
    /\ x[w].pc = "publishMain" => segments = "whole"
    /\ x[w].pc \in {"upload", "finish"} => target = "whole"

(* The target, and who may still change it. *)
Published ==
    /\ target \in {"none", "user", "whole"}
    /\ target = "whole" => segments = "whole"
    /\ verdict = "completed" => target = "whole" /\ \A w \in Workers : ~Working(w)

DirectInv == job.mode = "direct" => Alone /\ Published /\ \A w \in Workers : Staging(w)

(* A step of the attempt at work keeps the invariant when it keeps its own *)
(* view of the staging path and the state of the target.                   *)
LEMMA DirectOne ==
    ASSUME Shape, DirectInv, job.mode = "direct", NEW w \in Workers, Working(w), job' = job,
           \A v \in Workers \ {w} : x'[v] = x[v], Staging(w)', Published'
    PROVE  DirectInv'
<1>1. \A v \in Workers \ {w} : ~Working(v)
  BY DEF DirectInv, Alone
<1>2. \A v \in Workers \ {w} : x'[v].pc \in {"idle", "done", "crashed"}
  BY <1>1 DEF Working
<1>3. \A v \in Workers \ {w} : Staging(v)'
  BY <1>2 DEF Staging
<1>4. Alone'
  BY <1>2 DEF Alone, Working
<1> QED
  BY <1>3, <1>4 DEF DirectInv

(* An exit keeps the invariant; "completed" is reported with the target    *)
(* in place.                                                               *)
LEMMA DirectExit ==
    ASSUME Shape, DirectInv, job.mode = "direct", NEW w \in Workers, Working(w),
           NEW status \in Statuses, NEW type \in Types, Exit(w, status, type),
           target' \in {target, "none"}, segments' = segments,
           status = "completed" => target' = "whole"
    PROVE  DirectInv'
<1>1. /\ \A v \in Workers \ {w} : x'[v] = x[v]
      /\ x'[w].pc = "done"
      /\ verdict' = verdict \/ verdict' = status
      /\ job' = job
  BY ExitEffect
<1>2. Published /\ Alone
  BY DEF DirectInv
<1>3. verdict # "completed"
  BY <1>2 DEF Published
<1>4. \A v \in Workers : ~Working(v)'
  BY <1>1, <1>2 DEF Alone, Working
<1>5. Published'
  BY <1>1, <1>2, <1>3, <1>4 DEF Published
<1>6. Staging(w)'
  BY <1>1 DEF Staging
<1> QED
  BY <1>1, <1>5, <1>6, DirectOne

(* The same for an exit that changes nothing else. *)
LEMMA DirectLeave ==
    ASSUME Shape, DirectInv, job.mode = "direct", NEW w \in Workers, Working(w),
           NEW status \in Statuses, NEW type \in Types, Leave(w, status, type),
           status = "completed" => target = "whole"
    PROVE  DirectInv'
BY DirectExit DEF Leave

(* A step that leaves files and server alone keeps the target. *)
LEMMA DirectGoto ==
    ASSUME Shape, DirectInv, job.mode = "direct", NEW w \in Workers, Working(w),
           NEW pc \in PCs, Goto(w, pc), UNCHANGED <<job, disk, server>>, Staging(w)'
    PROVE  DirectInv'
<1>1. \A v \in Workers \ {w} : x'[v] = x[v]
  BY GotoEffect
<1>2. Published /\ verdict # "completed"
  BY DEF DirectInv, Published
<1>3. Published'
  BY <1>2 DEF Published, disk, server
<1> QED
  BY <1>1, <1>3, DirectOne

(* The steps of the server. *)
LEMMA DirectServer ==
    ASSUME Shape, DirectInv, job.mode = "direct", "unheard" \notin Faults,
           ClientCancels \/ \E w \in Workers : Dispatch(w) \/ CancelContext(w) \/ ExpireBudget(w)
    PROVE  DirectInv'
<1>1. Published /\ Alone /\ \A w \in Workers : Staging(w)
  BY DEF DirectInv
<1>2. CASE ClientCancels
  <2>1. UNCHANGED <<job, x, file, staged, target, segments>> /\ verdict' = "cancelled"
    BY <1>2 DEF ClientCancels, disk
  <2> QED
    BY <1>1, <2>1 DEF DirectInv, Published, Alone, Staging, Working
<1>3. ASSUME NEW w \in Workers, Dispatch(w) PROVE DirectInv'
  <2>1. \A v \in Workers : ~Working(v)
    BY <1>3 DEF Dispatch, Fault
  <2>2. /\ verdict' = verdict /\ verdict = "none"
        /\ UNCHANGED <<job, file, staged, target, segments>>
        /\ \A v \in Workers \ {w} : x'[v] = x[v]
        /\ x'[w].pc = "start"
    BY <1>3 DEF Dispatch, disk, Fresh, Shape
  <2>3. Published'
    BY <1>1, <2>2 DEF Published
  <2>4. \A v \in Workers \ {w} : ~Working(v)'
    BY <2>1, <2>2 DEF Working
  <2>5. Alone'
    BY <2>4 DEF Alone
  <2>6. \A v \in Workers : Staging(v)'
    BY <1>1, <2>2 DEF Staging
  <2> QED
    BY <2>3, <2>5, <2>6 DEF DirectInv
<1>4. ASSUME NEW w \in Workers, CancelContext(w) \/ ExpireBudget(w) PROVE DirectInv'
  <2>1. UNCHANGED <<job, file, staged, target, segments, verdict>>
    BY <1>4 DEF CancelContext, ExpireBudget, disk, server
  <2>2. x[w] \in Attempts
    BY Fields
  <2>3. \A v \in Workers : x'[v].pc = x[v].pc /\ x'[v].att = x[v].att /\ x'[v].last = x[v].last
    <3>1. CASE x' = [x EXCEPT ![w].cancelled = TRUE]
      BY <2>2, <3>1 DEF Shape, Attempts
    <3>2. CASE x' = [x EXCEPT ![w].expired = TRUE]
      BY <2>2, <3>2 DEF Shape, Attempts
    <3> QED
      BY <1>4, <3>1, <3>2 DEF CancelContext, ExpireBudget
  <2>4. Published' /\ Alone'
    BY <1>1, <2>1, <2>3 DEF Published, Alone, Working
  <2>5. \A v \in Workers : Staging(v)'
    BY <1>1, <2>1, <2>3 DEF Staging
  <2> QED
    BY <2>4, <2>5 DEF DirectInv
<1> QED
  BY <1>2, <1>3, <1>4

(* The steps before ffmpeg. *)
LEMMA DirectBefore ==
    ASSUME ExecInv, DirectInv, job.mode = "direct", NEW w \in Workers,
           CheckCache(w) \/ Prepare(w) \/ Stage(w) \/ Rewrite(w) \/ MarkRunning(w)
    PROVE  DirectInv'
<1>1. Shape /\ Staging(w) /\ Published /\ Attempt(w)
  BY DEF ExecInv, DirectInv
<1>2. CASE CheckCache(w)
  <2>1. x[w].pc = "start" /\ Working(w) /\ "prepare" \in PCs
    BY <1>2 DEF CheckCache, Working, PCs
  <2>2. CASE Leave(w, "failed", "INPUT_UNREACHABLE")
    BY <1>1, <2>1, <2>2, DirectLeave DEF Statuses, Types
  <2>3. CASE Goto(w, "prepare") /\ UNCHANGED <<job, disk, server>>
    <3>1. x'[w].pc = "prepare"
      BY <1>1, <2>1, <2>3, GotoFields
    <3>2. Staging(w)'
      BY <3>1 DEF Staging
    <3> QED
      BY <1>1, <2>1, <2>3, <3>2, DirectGoto
  <2> QED
    BY <1>2, <2>2, <2>3 DEF CheckCache
<1>3. CASE Prepare(w)
  <2>1. x[w].pc = "prepare" /\ Working(w) /\ "stage" \in PCs
    BY <1>3 DEF Prepare, Working, PCs
  <2>2. ASSUME NEW t \in {"INFRA", "INPUT_UNREACHABLE"}, Leave(w, "failed", t) PROVE DirectInv'
    BY <1>1, <2>1, <2>2, DirectLeave DEF Statuses, Types
  <2>3. CASE Leave(w, "cancelled", "none")
    BY <1>1, <2>1, <2>3, DirectLeave DEF Statuses, Types
  <2>4. CASE Goto(w, "stage") /\ UNCHANGED <<job, file, cache, staged, target, segments, delivered, server>>
    <3>1. x'[w].pc = "stage"
      BY <1>1, <2>1, <2>4, GotoFields
    <3>2. Staging(w)'
      BY <3>1 DEF Staging
    <3> QED
      BY <1>1, <2>1, <2>4, <3>2, DirectGoto DEF disk
  <2> QED
    BY <1>3, <2>2, <2>3, <2>4 DEF Prepare
<1>4. CASE Stage(w)
  <2> DEFINE found == IF Redispatched(w) THEN "none" ELSE target
  <2>1. x[w].pc = "stage" /\ Working(w) /\ UNCHANGED <<job, segments>>
    BY <1>4 DEF Stage, Working
  <2>2. ASSUME NEW t \in {"INFRA", "FFMPEG_ERROR"}, Exit(w, "failed", t), target' \in {target, found}
        PROVE  DirectInv'
    BY <1>1, <2>1, <2>2, DirectExit DEF Statuses, Types
  <2>3. CASE /\ target' = found /\ staged' = "clear"
             /\ x' = [x EXCEPT ![w].pc = "rewrite", ![w].staging = TRUE]
             /\ UNCHANGED <<file, server, faults>>
    <3>1. x[w] \in Attempts
      BY <1>1, Fields
    <3>2. x'[w].pc = "rewrite" /\ \A v \in Workers \ {w} : x'[v] = x[v]
      BY <1>1, <2>3, <3>1 DEF Shape, Attempts
    <3>3. Staging(w)'
      BY <2>3, <3>2 DEF Staging
    <3>4. verdict' = verdict /\ verdict # "completed"
      BY <1>1, <2>1, <2>3 DEF Published, server
    <3>5. Published'
      BY <1>1, <2>1, <2>3, <3>4 DEF Published
    <3> QED
      BY <1>1, <2>1, <3>2, <3>3, <3>5, DirectOne
  <2> QED
    BY <1>4, <2>2, <2>3 DEF Stage
<1>5. CASE Rewrite(w)
  <2>1. x[w].pc = "rewrite" /\ Working(w)
    BY <1>5 DEF Rewrite, Working
  <2>2. ASSUME NEW t \in {"FFMPEG_ERROR", "ENCODER_UNSUPPORTED"}, Leave(w, "failed", t) PROVE DirectInv'
    BY <1>1, <2>1, <2>2, DirectLeave DEF Statuses, Types
  <2>3. CASE Leave(w, "cancelled", "none")
    BY <1>1, <2>1, <2>3, DirectLeave DEF Statuses, Types
  <2>4. ASSUME NEW e \in Encodings, x' = [x EXCEPT ![w].pc = "boundary", ![w].enc = e],
               UNCHANGED <<job, disk, server, faults>>
        PROVE  DirectInv'
    <3>1. x[w] \in Attempts
      BY <1>1, Fields
    <3>2. x'[w].pc = "boundary" /\ \A v \in Workers \ {w} : x'[v] = x[v]
      BY <1>1, <2>4, <3>1 DEF Shape, Attempts
    <3>3. Staging(w)'
      BY <1>1, <2>1, <2>4, <3>2 DEF Staging, disk
    <3>4. Published'
      BY <1>1, <2>1, <2>4 DEF Published, disk, server
    <3> QED
      BY <1>1, <2>1, <2>4, <3>2, <3>3, <3>4, DirectOne
  <2> QED
    BY <1>5, <2>2, <2>3, <2>4 DEF Rewrite
<1>6. CASE MarkRunning(w)
  <2>1. x[w].pc = "boundary" /\ Working(w) /\ "launch" \in PCs
    BY <1>6 DEF MarkRunning, Working, PCs
  <2>2. CASE Leave(w, IF x[w].cancelled THEN "cancelled" ELSE "failed",
                      IF x[w].cancelled THEN "none" ELSE "INFRA")
    <3>1. Leave(w, "cancelled", "none") \/ Leave(w, "failed", "INFRA")
      BY <2>2
    <3> QED
      BY <1>1, <2>1, <3>1, DirectLeave DEF Statuses, Types
  <2>3. CASE Goto(w, "launch") /\ UNCHANGED <<job, disk, server>>
    <3>1. x'[w].pc = "launch"
      BY <1>1, <2>1, <2>3, GotoFields
    <3>2. Staging(w)'
      BY <1>1, <2>1, <2>3, <3>1 DEF Staging, disk
    <3> QED
      BY <1>1, <2>1, <2>3, <3>2, DirectGoto
  <2> QED
    BY <1>6, <2>2, <2>3 DEF MarkRunning
<1> QED
  BY <1>2, <1>3, <1>4, <1>5, <1>6

(* A step that changes the attempt and not the files keeps the invariant   *)
(* when it keeps its own view of them.                                     *)
LEMMA DirectUpdate ==
    ASSUME Shape, DirectInv, job.mode = "direct", NEW w \in Workers, Working(w), NEW r,
           x' = [x EXCEPT ![w] = r], UNCHANGED <<job, target, segments, verdict>>, Staging(w)'
    PROVE  DirectInv'
<1>1. \A v \in Workers \ {w} : x'[v] = x[v]
  BY DEF Shape
<1>2. Published'
  BY DEF DirectInv, Published
<1> QED
  BY <1>1, <1>2, DirectOne

(* ffmpeg opens the staging path of the only attempt and finds it free. *)
LEMMA DirectLaunch ==
    ASSUME ExecInv, DirectInv, job.mode = "direct", NEW w \in Workers, Launch(w)
    PROVE  DirectInv'
<1>1. Shape /\ Staging(w) /\ x[w].pc = "launch" /\ Working(w) /\ x[w] \in Attempts
  BY Fields DEF ExecInv, DirectInv, Launch, Working
<1>2. UNCHANGED <<job, target, segments, verdict>>
  BY DEF Launch, server
<1>3. staged \in {"clear", w} /\ (x[w].att = 0 => staged = "clear")
  BY <1>1 DEF Staging
<1>4. "clear" \notin Workers /\ "nodir" \notin Workers
  BY ExecutionAssumption
<1> DEFINE there == ~clearStaleOutput(w) /\ AtPath(w) # "none"
<1>5. ~there
  <2>1. CASE x[w].att = 0
    BY <1>3, <1>4, <2>1 DEF AtPath
  <2>2. CASE x[w].att > 0
    BY <2>2 DEF clearStaleOutput
  <2>3. x[w].att \in Nat
    BY <1>1, Bounds DEF Attempts
  <2> QED
    BY <2>1, <2>2, <2>3
<1>6. ASSUME NEW o \in {"nostart", "fatal"}, x' = [x EXCEPT ![w].pc = "judge", ![w].last = o, ![w].oom = FALSE],
             UNCHANGED <<file, staged>>
      PROVE  DirectInv'
  <2> DEFINE r == [x[w] EXCEPT !.pc = "judge", !.last = o, !.oom = FALSE]
  <2>1. x' = [x EXCEPT ![w] = r] /\ r.pc = "judge" /\ r.last = o
    BY <1>1, <1>6 DEF Attempts
  <2> HIDE DEF r
  <2>2. x'[w] = r
    BY <1>1, <2>1 DEF Shape
  <2>3. Staging(w)'
    BY <1>3, <1>6, <2>1, <2>2 DEF Staging
  <2> QED
    BY <1>1, <1>2, <2>1, <2>3, DirectUpdate
<1>7. ASSUME file' = [file EXCEPT ![w] = "partial"], staged' = w, Goto(w, "run")
      PROVE  DirectInv'
  <2>1. x'[w].pc = "run" /\ \A v \in Workers \ {w} : x'[v] = x[v]
    BY <1>1, <1>7, GotoFields, GotoEffect DEF PCs
  <2>2. Staging(w)'
    BY <1>1, <1>7, <2>1 DEF Staging, Shape
  <2>3. Published'
    BY <1>1, <1>2 DEF DirectInv, Published
  <2> QED
    BY <1>1, <1>2, <2>1, <2>2, <2>3, DirectOne
<1> HIDE DEF there
<1>8. OnFile /\ staged # "nodir"
  BY <1>3, <1>4 DEF OnFile
<1> QED
  BY <1>5, <1>6, <1>7, <1>8 DEF Launch, there

(* ffmpeg ends: what is staged is whole exactly when the run says so. *)
LEMMA DirectEnds ==
    ASSUME ExecInv, DirectInv, job.mode = "direct", NEW w \in Workers, FFmpegEnds(w)
    PROVE  DirectInv'
<1>1. Shape /\ Staging(w) /\ x[w].pc = "run" /\ Working(w) /\ x[w] \in Attempts
  BY Fields DEF ExecInv, DirectInv, FFmpegEnds, Working
<1>2. UNCHANGED <<job, target, segments, verdict>>
  BY DEF FFmpegEnds, server
<1>3. staged = w /\ file[w] = "partial" /\ OnFile
  BY <1>1 DEF Staging, OnFile
<1>4. PICK o \in Outcomes \cup {"timeout", "killed"}, oom \in BOOLEAN :
        /\ x' = [x EXCEPT ![w].pc = "judge", ![w].last = o, ![w].oom = oom]
        /\ IF o = "unwritten"
             THEN file' = [file EXCEPT ![w] = "none"] /\ staged' = "clear"
             ELSE file' = [file EXCEPT ![w] = Left(o)] /\ staged' = staged
  <2>1. file[w] \notin {"none", "mixed"}
    BY <1>3
  <2> QED
    BY <1>1, <1>3, <2>1 DEF FFmpegEnds
<1> DEFINE r == [x[w] EXCEPT !.pc = "judge", !.last = o, !.oom = oom]
<1>5. x' = [x EXCEPT ![w] = r] /\ r.pc = "judge" /\ r.last = o
  BY <1>1, <1>4 DEF Attempts
<1> HIDE DEF r
<1>6. x'[w] = r
  BY <1>1, <1>5 DEF Shape
<1>7. o # "refused"
  BY <1>4 DEF Outcomes
<1>8. "clear" \notin Workers
  BY ExecutionAssumption
<1>9. staged' = w /\ o \in {"ok", "warned"} => file'[w] = "whole"
  BY <1>1, <1>4, <1>8 DEF Left, Shape
<1>10. staged' \in {"clear", w}
  BY <1>3, <1>4
<1>11. Staging(w)'
  BY <1>5, <1>6, <1>7, <1>9, <1>10 DEF Staging
<1> QED
  BY <1>1, <1>2, <1>5, <1>11, DirectUpdate

(* A run that is judged a success left its whole output at the path. *)
LEMMA DirectSucceeded ==
    ASSUME Shape, job.mode = "direct", NEW w \in Workers, Staging(w), x[w].pc = "judge",
           InitialSucceeded(w) \/ RetrySucceeded(w)
    PROVE  staged = w /\ file[w] = "whole"
<1>1. "clear" \notin Workers /\ OnFile
  BY ExecutionAssumption DEF OnFile
<1>2. HasOutput(w) /\ x[w].last \in {"ok", "warned", "refused"}
  BY <1>1 DEF InitialSucceeded, RetrySucceeded
<1>3. staged # "clear"
  BY <1>1, <1>2 DEF HasOutput, AtPath
<1> QED
  BY <1>2, <1>3 DEF Staging

(* The attempt that is judged a success goes on to publish. *)
LEMMA DirectPublish ==
    ASSUME Shape, DirectInv, job.mode = "direct", NEW w \in Workers, x[w].pc = "judge",
           InitialSucceeded(w) \/ RetrySucceeded(w), Goto(w, "publish"),
           UNCHANGED <<job, disk, server>>
    PROVE  DirectInv'
<1>1. Staging(w) /\ Working(w)
  BY DEF DirectInv, Working
<1>2. x'[w].pc = "publish"
  BY GotoFields DEF PCs
<1>3. Staging(w)'
  BY <1>1, <1>2, DirectSucceeded DEF Staging, disk
<1> QED
  BY <1>1, <1>3, DirectGoto DEF PCs

(* The attempt that is judged a failure keeps what it finds staged. *)
LEMMA DirectRetry ==
    ASSUME Shape, DirectInv, job.mode = "direct", NEW w \in Workers,
           x[w].pc \in {"judge", "retry", "final"}, \A v \in Workers \ {w} : x'[v] = x[v],
           x'[w].pc \in {"retry", "final"} \/ (x'[w].pc = "launch" /\ x'[w].att # 0),
           UNCHANGED <<job, disk, server>>
    PROVE  DirectInv'
<1>1. Staging(w) /\ Working(w)
  BY DEF DirectInv, Working
<1>2. UNCHANGED <<job, staged, target, segments, verdict>>
  BY DEF disk, server
<1>3. staged \in {"clear", w}
  BY <1>1 DEF Staging
<1>4. Staging(w)'
  BY <1>2, <1>3 DEF Staging
<1>5. Published'
  BY <1>1, <1>2 DEF DirectInv, Published
<1> QED
  BY <1>1, <1>2, <1>4, <1>5, DirectOne

(* A step to a place of the retry loop. *)
LEMMA DirectLoop ==
    ASSUME Shape, DirectInv, job.mode = "direct", NEW w \in Workers,
           x[w].pc \in {"judge", "retry", "final"},
           Goto(w, "final") \/ (Goto(w, "launch") /\ x[w].att # 0),
           UNCHANGED <<job, disk, server>>
    PROVE  DirectInv'
<1>1. x[w] \in Attempts
  BY Fields
<1>2. ASSUME NEW pc \in PCs, Goto(w, pc), pc = "final" \/ (pc = "launch" /\ x[w].att # 0)
      PROVE  DirectInv'
  <2>1. /\ x'[w].pc = pc /\ x'[w].att = x[w].att
        /\ \A v \in Workers \ {w} : x'[v] = x[v]
    BY <1>2, GotoFields, GotoEffect
  <2> QED
    BY <1>2, <2>1, DirectRetry
<1>3. "final" \in PCs /\ "launch" \in PCs
  BY DEF PCs
<1> QED
  BY <1>2, <1>3

(* Giving up publishes nothing. *)
LEMMA DirectGiveUp ==
    ASSUME Shape, DirectInv, job.mode = "direct", NEW w \in Workers, Working(w), GiveUp(w)
    PROVE  DirectInv'
<1>1. \/ Leave(w, "timeout", "TIMEOUT") \/ Leave(w, "timeout", FailureClass(w, TRUE))
      \/ Leave(w, "failed", FailureClass(w, FALSE))
  BY DEF GiveUp
<1>2. FailureClass(w, TRUE) \in Types /\ FailureClass(w, FALSE) \in Types /\ "TIMEOUT" \in Types
  BY ClassGrounds DEF Types
<1>3. "timeout" \in Statuses /\ "failed" \in Statuses
  BY DEF Statuses
<1> QED
  BY <1>1, <1>2, <1>3, DirectLeave

(* The steps that judge a run and retry it. *)
LEMMA DirectJudge ==
    ASSUME ExecInv, DirectInv, job.mode = "direct", NEW w \in Workers,
           JudgeInitial(w) \/ RetryTop(w) \/ JudgeRetry(w) \/ FinalFallback(w) \/ JudgeFinal(w)
    PROVE  DirectInv'
<1>1. Shape /\ Attempt(w) /\ x[w] \in Attempts
  BY Fields DEF ExecInv
<1>2. CASE JudgeInitial(w)
  <2>1. x[w].pc = "judge" /\ Working(w)
    BY <1>2 DEF JudgeInitial, Working
  <2>2. ASSUME NEW status \in {"cancelled", "timeout", "failed"}, NEW type \in Types,
               Leave(w, status, type)
        PROVE  DirectInv'
    BY <1>1, <2>1, <2>2, DirectLeave DEF Statuses
  <2>3. "none" \in Types /\ FailureClass(w, TRUE) \in Types /\ FailureClass(w, FALSE) \in Types
    BY ClassGrounds DEF Types
  <2>4. CASE InitialSucceeded(w) /\ Goto(w, "publish") /\ UNCHANGED <<job, disk, server>>
    BY <1>1, <2>1, <2>4, DirectPublish
  <2>5. CASE /\ x' = [x EXCEPT ![w].pc = "retry", ![w].att = 1, ![w].last = "none", ![w].oom = FALSE]
             /\ UNCHANGED <<job, disk, server>>
    <3> DEFINE r == [x[w] EXCEPT !.pc = "retry", !.att = 1, !.last = "none", !.oom = FALSE]
    <3>1. x' = [x EXCEPT ![w] = r] /\ r.pc = "retry"
      BY <1>1, <2>5 DEF Attempts
    <3> HIDE DEF r
    <3>2. x'[w].pc = "retry" /\ \A v \in Workers \ {w} : x'[v] = x[v]
      BY <1>1, <3>1 DEF Shape
    <3> QED
      BY <1>1, <2>1, <2>5, <3>2, DirectRetry
  <2> QED
    BY <1>2, <2>2, <2>3, <2>4, <2>5 DEF JudgeInitial
<1>3. CASE RetryTop(w)
  <2>1. x[w].pc = "retry" /\ x[w].att > 0 /\ UNCHANGED <<job, disk, server>>
    BY <1>1, <1>3 DEF RetryTop, Attempt, Places
  <2>2. x[w].att # 0
    BY <2>1
  <2>3. Goto(w, "final") \/ Goto(w, "launch")
    BY <1>3 DEF RetryTop
  <2> QED
    BY <1>1, <2>1, <2>2, <2>3, DirectLoop
<1>4. CASE JudgeRetry(w)
  <2>1. x[w].pc = "judge" /\ UNCHANGED <<job, disk, server>>
    BY <1>4 DEF JudgeRetry
  <2>2. CASE RetrySucceeded(w)
    <3>1. Goto(w, "publish")
      BY <1>4, <2>2 DEF JudgeRetry
    <3> QED
      BY <1>1, <2>1, <2>2, <3>1, DirectPublish
  <2>3. CASE ~RetrySucceeded(w)
    <3>1. PICK t : NextAttempt(w, t)
      BY <1>4, <2>3 DEF JudgeRetry
    <3> DEFINE s == Strategy(w, t)
               u == x[w].userSel /\ s.enc = x[w].enc
               sw == x[w].usedSw \/ (s.enc # x[w].enc /\ ~IsHardwareEncoder(s.enc))
               r == [x[w] EXCEPT !.pc = "retry", !.att = @ + 1, !.enc = s.enc,
                                 !.params = s.params, !.userSel = u, !.usedSw = sw]
    <3>2. Goto(w, "final") \/ x' = [x EXCEPT ![w] = r]
      BY <3>1 DEF NextAttempt
    <3> HIDE DEF s, u, sw
    <3>3. r.pc = "retry"
      BY <1>1 DEF Attempts
    <3> HIDE DEF r
    <3>4. CASE Goto(w, "final")
      BY <1>1, <2>1, <3>4, DirectLoop
    <3>5. CASE x' = [x EXCEPT ![w] = r]
      <4>1. x'[w].pc = "retry" /\ \A v \in Workers \ {w} : x'[v] = x[v]
        BY <1>1, <3>3, <3>5 DEF Shape
      <4> QED
        BY <1>1, <2>1, <4>1, DirectRetry
    <3> QED
      BY <3>2, <3>4, <3>5
  <2> QED
    BY <2>2, <2>3
<1>5. CASE FinalFallback(w)
  <2> DEFINE fb == PrepareFallback(x[w].enc, job.container, ~x[w].userSel)
             r == [x[w] EXCEPT !.pc = "launch", !.att = Final, !.enc = fb, !.usedSw = TRUE]
  <2>1. x[w].pc = "final" /\ Working(w)
    BY <1>5 DEF FinalFallback, Working
  <2>2. GiveUp(w) \/ (x' = [x EXCEPT ![w] = r] /\ UNCHANGED <<job, disk, server>>)
    BY <1>5 DEF FinalFallback
  <2> HIDE DEF fb
  <2>3. r.pc = "launch" /\ r.att # 0
    BY <1>1, Bounds DEF Attempts
  <2> HIDE DEF r
  <2>4. CASE GiveUp(w)
    BY <1>1, <2>1, <2>4, DirectGiveUp
  <2>5. CASE x' = [x EXCEPT ![w] = r] /\ UNCHANGED <<job, disk, server>>
    <3>1. /\ x'[w].pc = "launch" /\ x'[w].att # 0
          /\ \A v \in Workers \ {w} : x'[v] = x[v]
      BY <1>1, <2>3, <2>5 DEF Shape
    <3> QED
      BY <1>1, <2>1, <2>5, <3>1, DirectRetry
  <2> QED
    BY <2>2, <2>4, <2>5
<1>6. CASE JudgeFinal(w)
  <2>1. x[w].pc = "judge" /\ Working(w)
    BY <1>6 DEF JudgeFinal, Working
  <2>2. CASE RetrySucceeded(w)
    <3>1. Goto(w, "publish") /\ UNCHANGED <<job, disk, server>>
      BY <1>6, <2>2 DEF JudgeFinal
    <3> QED
      BY <1>1, <2>1, <2>2, <3>1, DirectPublish
  <2>3. CASE ~RetrySucceeded(w)
    <3>1. GiveUp(w)
      BY <1>6, <2>3 DEF JudgeFinal
    <3> QED
      BY <1>1, <2>1, <3>1, DirectGiveUp
  <2> QED
    BY <2>2, <2>3
<1> QED
  BY <1>2, <1>3, <1>4, <1>5, <1>6

(* publishStagedOutput: the siblings are in place before the main output.  *)
LEMMA DirectAfter ==
    ASSUME ExecInv, DirectInv, job.mode = "direct", NEW w \in Workers,
           PublishSiblings(w) \/ PublishMain(w) \/ Upload(w) \/ Finish(w)
    PROVE  DirectInv'
<1>1. Shape /\ Staging(w) /\ Published /\ "nodir" \notin Workers
  BY ExecutionAssumption DEF ExecInv, DirectInv
<1>2. {"publishMain", "upload", "finish"} \subseteq PCs
  BY DEF PCs
<1>3. CASE PublishSiblings(w)
  <2>1. x[w].pc = "publish" /\ Working(w) /\ staged = w /\ file[w] = "whole"
    BY <1>1, <1>3 DEF PublishSiblings, Working, Staging
  <2>2. CASE Leave(w, "failed", "INFRA")
    BY <1>1, <2>1, <2>2, DirectLeave DEF Statuses, Types
  <2>3. CASE /\ segments' = IF staged \in Workers THEN "whole" ELSE segments
             /\ Goto(w, "publishMain")
             /\ UNCHANGED <<job, file, cache, staged, target, delivered, server>>
    <3>1. x'[w].pc = "publishMain" /\ \A v \in Workers \ {w} : x'[v] = x[v]
      BY <1>1, <1>2, <2>3, GotoFields, GotoEffect
    <3>2. segments' = "whole" /\ verdict' = verdict
      BY <2>1, <2>3 DEF server
    <3>3. Staging(w)'
      BY <2>1, <2>3, <3>1, <3>2 DEF Staging
    <3>4. Published'
      BY <1>1, <2>1, <2>3, <3>2 DEF Published
    <3> QED
      BY <1>1, <2>1, <2>3, <3>1, <3>3, <3>4, DirectOne
  <2> QED
    BY <1>3, <2>2, <2>3 DEF PublishSiblings
<1>4. CASE PublishMain(w)
  <2>1. /\ x[w].pc = "publishMain" /\ Working(w)
        /\ staged = w /\ file[w] = "whole" /\ segments = "whole"
    BY <1>1, <1>4 DEF PublishMain, Working, Staging
  <2>2. CASE Leave(w, "failed", "INFRA")
    BY <1>1, <2>1, <2>2, DirectLeave DEF Statuses, Types
  <2>3. CASE /\ target' = IF staged \in Workers THEN file[staged] ELSE target
             /\ staged' = "clear"
             /\ Goto(w, "upload")
             /\ UNCHANGED <<job, file, cache, segments, delivered, server>>
    <3>1. x'[w].pc = "upload" /\ \A v \in Workers \ {w} : x'[v] = x[v]
      BY <1>1, <1>2, <2>3, GotoFields, GotoEffect
    <3>2. target' = "whole" /\ segments' = "whole" /\ verdict' = verdict
      BY <2>1, <2>3 DEF server
    <3>3. Staging(w)'
      BY <3>1, <3>2 DEF Staging
    <3>4. Published'
      BY <1>1, <2>1, <3>2 DEF Published
    <3> QED
      BY <1>1, <2>1, <2>3, <3>1, <3>3, <3>4, DirectOne
  <2> QED
    BY <1>4, <2>2, <2>3 DEF PublishMain
<1>5. CASE Upload(w)
  <2>1. x[w].pc = "upload" /\ Working(w) /\ Goto(w, "finish") /\ UNCHANGED <<job, disk, server>>
    BY <1>5 DEF Upload, Working
  <2>2. x'[w].pc = "finish"
    BY <1>1, <1>2, <2>1, GotoFields
  <2>3. Staging(w)'
    BY <1>1, <2>1, <2>2 DEF Staging, disk
  <2> QED
    BY <1>1, <1>2, <2>1, <2>3, DirectGoto
<1>6. CASE Finish(w)
  <2>1. x[w].pc = "finish" /\ Working(w) /\ target = "whole" /\ Leave(w, "completed", "none")
    BY <1>1, <1>6 DEF Finish, Working, Staging
  <2> QED
    BY <1>1, <2>1, DirectLeave DEF Statuses, Types
<1> QED
  BY <1>3, <1>4, <1>5, <1>6

(* A crash leaves the staging path as it is and the target alone. *)
LEMMA DirectFaults ==
    ASSUME ExecInv, DirectInv, job.mode = "direct", NEW w \in Workers, Crash(w) \/ Panic(w)
    PROVE  DirectInv'
<1>1. Shape
  BY DEF ExecInv
<1>2. CASE Crash(w)
  <2> DEFINE r == [Fresh(0) EXCEPT !.pc = "crashed"]
  <2>1. Working(w) /\ x' = [x EXCEPT ![w] = r] /\ UNCHANGED <<job, disk, server>>
    BY <1>2 DEF Crash
  <2>2. r.pc = "crashed"
    BY DEF Fresh
  <2> HIDE DEF r
  <2>3. x'[w] = r /\ UNCHANGED <<job, target, segments, verdict>>
    BY <1>1, <2>1 DEF Shape, disk, server
  <2>4. Staging(w)'
    BY <2>2, <2>3 DEF Staging
  <2> QED
    BY <1>1, <2>1, <2>3, <2>4, DirectUpdate
<1>3. CASE Panic(w)
  BY <1>1, <1>3, DirectLeave DEF Panic, Statuses, Types
<1> QED
  BY <1>2, <1>3

(* Before the first attempt the target is the user's, or nobody's. *)
LEMMA DirectInit == Init => DirectInv
<1> SUFFICES ASSUME Init PROVE DirectInv
  OBVIOUS
<1>1. \A w \in Workers : x[w].pc = "idle"
  BY DEF Init, Fresh
<1>2. Alone /\ \A w \in Workers : Staging(w)
  BY <1>1 DEF Alone, Working, Staging
<1>3. Published
  BY DEF Init, Published
<1> QED
  BY <1>2, <1>3 DEF DirectInv

(* Every step keeps it, when no living worker is taken for dead. *)
LEMMA DirectStep ==
    ASSUME "unheard" \notin Faults
    PROVE  ExecInv /\ DirectInv /\ [Next]_vars => DirectInv'
<1> SUFFICES ASSUME ExecInv, DirectInv, [Next]_vars PROVE DirectInv'
  OBVIOUS
<1>1. CASE UNCHANGED vars
  <2>1. UNCHANGED <<job, x, file, staged, target, segments, verdict>>
    BY <1>1 DEF vars
  <2> QED
    BY <2>1 DEF DirectInv, Alone, Working, Published, Staging
<1>2. job' = job
  <2>1. ASSUME NEW w \in Workers, NEW status, NEW type, Leave(w, status, type) \/ Exit(w, status, type)
        PROVE  job' = job
    BY <2>1 DEF Leave, Exit
  <2>2. ASSUME NEW w \in Workers, Step(w) PROVE job' = job
    <3>1. CASE CheckCache(w) \/ Prepare(w) \/ Stage(w)
      BY <2>1, <3>1 DEF CheckCache, Prepare, Stage
    <3>2. CASE Rewrite(w) \/ MarkRunning(w) \/ Launch(w) \/ FFmpegEnds(w)
      BY <2>1, <3>2 DEF Rewrite, MarkRunning, Launch, FFmpegEnds
    <3>3. CASE JudgeInitial(w) \/ RetryTop(w) \/ JudgeRetry(w)
      BY <2>1, <3>3 DEF JudgeInitial, RetryTop, JudgeRetry
    <3>4. CASE FinalFallback(w) \/ JudgeFinal(w)
      BY <2>1, <3>4 DEF FinalFallback, JudgeFinal, GiveUp
    <3>5. CASE PublishSiblings(w) \/ PublishMain(w) \/ Upload(w) \/ Finish(w)
      BY <2>1, <3>5 DEF PublishSiblings, PublishMain, Upload, Finish
    <3> QED
      BY <2>2, <3>1, <3>2, <3>3, <3>4, <3>5 DEF Step
  <2>3. ASSUME NEW w \in Workers, Dispatch(w) \/ CancelContext(w) \/ ExpireBudget(w) \/ Crash(w) \/ Panic(w)
        PROVE  job' = job
    BY <2>1, <2>3 DEF Dispatch, CancelContext, ExpireBudget, Crash, Panic
  <2>4. CASE ClientCancels
    BY <2>4 DEF ClientCancels
  <2> QED
    BY <1>1, <2>2, <2>3, <2>4 DEF Next, vars
<1>3. CASE job.mode # "direct"
  BY <1>2, <1>3 DEF DirectInv
<1>4. CASE job.mode = "direct" /\ Next
  <2>1. Shape
    BY DEF ExecInv
  <2>2. CASE ClientCancels \/ \E w \in Workers : Dispatch(w) \/ CancelContext(w) \/ ExpireBudget(w)
    BY <1>4, <2>1, <2>2, DirectServer
  <2>3. ASSUME NEW w \in Workers, Crash(w) \/ Panic(w) PROVE DirectInv'
    BY <1>4, <2>3, DirectFaults
  <2>4. ASSUME NEW w \in Workers, Step(w) PROVE DirectInv'
    BY <1>4, <2>4, DirectBefore, DirectLaunch, DirectEnds, DirectJudge, DirectAfter DEF Step
  <2> QED
    BY <1>4, <2>2, <2>3, <2>4 DEF Next
<1> QED
  BY <1>1, <1>3, <1>4

(* Staging and publishStagedOutput: as long as the server never hands out  *)
(* a job whose worker still runs it, a reader of the shared target finds   *)
(* the old file, none, or a finished one with its siblings in place, for   *)
(* any number of workers, dispatches, retries, crashes and panics.         *)
THEOREM TargetStaysIntact ==
    ASSUME "unheard" \notin Faults
    PROVE  Spec => []TargetIntact
<1>1. ExecInv /\ DirectInv /\ [Next]_vars => DirectInv'
  BY DirectStep
<1>2. DirectInv => TargetIntact
  BY DEF DirectInv, Published, TargetIntact
<1> QED
  BY <1>1, <1>2, DirectInit, ExecInvariance, PTL DEF Spec

-----------------------------------------------------------------------------
(* Every step of processJob brings an attempt closer to its end, and is a  *)
(* step AttemptContract allows.                                            *)

(* The attempt ends with a report its stage allows, which the server takes *)
(* if the attempt owns the open job.                                       *)
Concludes(w) ==
    /\ x'[w].pc = "done" /\ x'[w].cancelled = FALSE
    /\ \E s \in Statuses, t \in Types :
         /\ Contract!MayEnd(StageOf(x[w].pc), x[w].cancelled, s)
         /\ ClassOf(t) \in Contract!Classes(s)
         /\ x'[w].report.status = s /\ x'[w].report.type = t
         /\ verdict' = verdict \/ (owner = w /\ verdict = "none" /\ verdict' = s)

(* The attempt goes on; it starts ffmpeg only for an open job of its own. *)
GoesOn(w) ==
    /\ x'[w].pc \in PCs \ {"idle", "done", "crashed"}
    /\ x'[w].cancelled = x[w].cancelled /\ x'[w].report = x[w].report
    /\ verdict' = verdict
    /\ \/ StageOf(x'[w].pc) = StageOf(x[w].pc)
       \/ /\ StageOf(x[w].pc) = "prep" /\ StageOf(x'[w].pc) = "run"
          /\ owner = w /\ verdict = "none"

Advances(w) ==
    /\ Working(w)
    /\ \A v \in Workers \ {w} : x'[v] = x[v]
    /\ owner' = owner
    /\ Rank(w)' < Rank(w)
    /\ Concludes(w) \/ GoesOn(w)

(* An attempt under way has steps left. *)
LEMMA RankPositive ==
    ASSUME Shape, NEW w \in Workers, Working(w)
    PROVE  /\ Rank(w) = Ahead[x[w].pc] + 5 * (Final - x[w].att)
           /\ Ahead[x[w].pc] \in 1..12 /\ Rank(w) \in Nat \ {0}
<1>1. x[w].pc \in PCs \ {"idle", "done", "crashed"} /\ x[w].att \in 0..Final
  BY Fields DEF Working
<1>2. Ahead[x[w].pc] \in 1..12
  BY <1>1 DEF Ahead, PCs
<1>3. Rank(w) = Ahead[x[w].pc] + 5 * (Final - x[w].att)
  BY DEF Rank
<1> QED
  BY <1>1, <1>2, <1>3, Bounds

(* Leaving processJob. *)
LEMMA ExitAdvances ==
    ASSUME Shape, NEW w \in Workers, Working(w), NEW s \in Statuses, NEW t \in Types,
           Exit(w, s, t) \/ Leave(w, s, t),
           Contract!MayEnd(StageOf(x[w].pc), x[w].cancelled, s),
           ClassOf(t) \in Contract!Classes(s)
    PROVE  Advances(w)
<1>1. Exit(w, s, t)
  BY DEF Leave
<1>2. /\ \A v \in Workers \ {w} : x'[v] = x[v]
      /\ x'[w].pc = "done" /\ x'[w].report = Report(w, s, t)
      /\ verdict' = verdict \/ (Accepts(w) /\ verdict' = s)
      /\ owner' = owner
  BY <1>1, ExitEffect
<1>3. x'[w].cancelled = FALSE
  <2>1. x' = [x EXCEPT ![w] = [Fresh(0) EXCEPT !.pc = "done", !.report = Report(w, s, t)]]
    BY <1>1 DEF Exit
  <2>2. x'[w] = [Fresh(0) EXCEPT !.pc = "done", !.report = Report(w, s, t)]
    BY <2>1 DEF Shape
  <2> QED
    BY <2>2 DEF Fresh
<1>4. x'[w].report.status = s /\ x'[w].report.type = t
  BY <1>2 DEF Report
<1>5. Rank(w)' = 0
  BY <1>2 DEF Rank, Working
<1>6. Rank(w)' < Rank(w)
  BY <1>5, RankPositive
<1>7. Concludes(w)
  BY <1>2, <1>3, <1>4 DEF Concludes, Accepts
<1> QED
  BY <1>2, <1>6, <1>7 DEF Advances

(* Going on to another place, with the attempt counted as it is. *)
LEMMA GotoAdvances ==
    ASSUME Shape, NEW w \in Workers, Working(w),
           NEW pc \in PCs \ {"idle", "done", "crashed"}, Goto(w, pc),
           Ahead[pc] \in 1..12, Ahead[pc] < Ahead[x[w].pc], UNCHANGED server,
           \/ StageOf(pc) = StageOf(x[w].pc)
           \/ StageOf(x[w].pc) = "prep" /\ StageOf(pc) = "run" /\ Accepts(w)
    PROVE  Advances(w)
<1>1. /\ \A v \in Workers \ {w} : x'[v] = x[v]
      /\ x'[w] = [x[w] EXCEPT !.pc = pc]
  BY GotoEffect
<1>2. /\ x'[w].pc = pc /\ x'[w].att = x[w].att /\ x'[w].cancelled = x[w].cancelled
      /\ x'[w].report = x[w].report /\ x[w].att \in 0..Final
  BY <1>1, Fields DEF Attempts
<1>3. Rank(w)' = Ahead[pc] + 5 * (Final - x[w].att)
  BY <1>2 DEF Rank, Working
<1>4. Rank(w)' < Rank(w)
  BY <1>2, <1>3, RankPositive, Bounds
<1>5. GoesOn(w)
  BY <1>2 DEF GoesOn, server, Accepts
<1> QED
  BY <1>1, <1>4, <1>5 DEF Advances, server

(* Going on while ffmpeg's part lasts, with a new attempt or result. *)
LEMMA RowAdvances ==
    ASSUME Shape, NEW w \in Workers, Working(w), StageOf(x[w].pc) = "run",
           NEW r, x' = [x EXCEPT ![w] = r], UNCHANGED server,
           r.pc \in PCs \ {"idle", "done", "crashed"}, StageOf(r.pc) = "run",
           r.cancelled = x[w].cancelled, r.report = x[w].report,
           r.att \in 0..Final, Ahead[r.pc] \in 1..12,
           Ahead[r.pc] - 5 * r.att < Ahead[x[w].pc] - 5 * x[w].att
    PROVE  Advances(w)
<1>1. x'[w] = r /\ \A v \in Workers \ {w} : x'[v] = x[v]
  BY DEF Shape
<1>2. Rank(w)' = Ahead[r.pc] + 5 * (Final - r.att)
  BY <1>1 DEF Rank, Working
<1>3. x[w].att \in 0..Final
  BY Fields
<1>4. Rank(w)' < Rank(w)
  BY <1>2, <1>3, RankPositive, Bounds
<1>5. GoesOn(w)
  BY <1>1 DEF GoesOn, server
<1> QED
  BY <1>1, <1>4, <1>5 DEF Advances, server

(* Before ffmpeg: a cache hit completes, a failure fails, a cancelled      *)
(* context is the only ground for "cancelled".                             *)
LEMMA BeforeAdvances ==
    ASSUME ExecInv, NEW w \in Workers,
           CheckCache(w) \/ Prepare(w) \/ Stage(w) \/ Rewrite(w) \/ MarkRunning(w)
    PROVE  Advances(w)
<1>1. Shape
  BY DEF ExecInv
<1>2. ASSUME x[w].pc \in {"start", "prepare", "stage", "rewrite", "boundary"},
             NEW t \in {"INFRA", "INPUT_UNREACHABLE", "FFMPEG_ERROR", "ENCODER_UNSUPPORTED"},
             Exit(w, "failed", t) \/ Leave(w, "failed", t)
      PROVE  Advances(w)
  <2>1. StageOf(x[w].pc) = "prep" /\ Working(w)
    BY <1>2 DEF StageOf, Working
  <2>2. "failed" \in Statuses /\ t \in Types
    BY DEF Statuses, Types
  <2>3. ClassOf(t) \in Contract!Classes("failed")
    BY DEF ClassOf, Contract!Classes
  <2>4. Contract!MayEnd(StageOf(x[w].pc), x[w].cancelled, "failed")
    BY <2>1 DEF Contract!MayEnd
  <2> QED
    BY <1>1, <1>2, <2>1, <2>2, <2>3, <2>4, ExitAdvances
<1>3. ASSUME x[w].pc \in {"start", "prepare", "stage", "rewrite", "boundary"},
             NEW s \in {"completed", "cancelled"}, s = "cancelled" => x[w].cancelled,
             Exit(w, s, "none") \/ Leave(w, s, "none")
      PROVE  Advances(w)
  <2>1. StageOf(x[w].pc) = "prep" /\ Working(w)
    BY <1>3 DEF StageOf, Working
  <2>2. s \in Statuses /\ "none" \in Types
    BY DEF Statuses, Types
  <2>3. ClassOf("none") \in Contract!Classes(s)
    BY DEF ClassOf, Contract!Classes
  <2>4. Contract!MayEnd(StageOf(x[w].pc), x[w].cancelled, s)
    BY <1>3, <2>1 DEF Contract!MayEnd
  <2> QED
    BY <1>1, <1>3, <2>1, <2>2, <2>3, <2>4, ExitAdvances
<1>4. ASSUME NEW from, NEW to, x[w].pc = from, Goto(w, to), UNCHANGED server,
             <<from, to>> \in {<<"start", "prepare">>, <<"prepare", "stage">>,
                               <<"stage", "rewrite">>}
      PROVE  Advances(w)
  <2>1. /\ Working(w) /\ to \in PCs \ {"idle", "done", "crashed"}
        /\ StageOf(to) = StageOf(x[w].pc)
    BY <1>4 DEF Working, PCs, StageOf
  <2>2. Ahead[to] \in 1..12 /\ Ahead[to] < Ahead[x[w].pc]
    BY <1>4 DEF Ahead
  <2> QED
    BY <1>1, <1>4, <2>1, <2>2, GotoAdvances
<1>5. CASE CheckCache(w)
  BY <1>2, <1>3, <1>4, <1>5 DEF CheckCache
<1>6. CASE Prepare(w)
  BY <1>2, <1>3, <1>4, <1>6 DEF Prepare
<1> DEFINE Moved(to, e, st) == [x[w] EXCEPT !.pc = to, !.enc = e, !.staging = st]
<1>7. ASSUME NEW to \in {"rewrite", "boundary"}, NEW e, NEW st,
             x' = [x EXCEPT ![w] = Moved(to, e, st)], UNCHANGED server,
             x[w].pc = IF to = "rewrite" THEN "stage" ELSE "rewrite"
      PROVE  Advances(w)
  <2>1. x'[w] = Moved(to, e, st) /\ \A v \in Workers \ {w} : x'[v] = x[v]
    BY <1>1, <1>7 DEF Shape
  <2>2. /\ x'[w].pc = to /\ x'[w].att = x[w].att /\ x'[w].cancelled = x[w].cancelled
        /\ x'[w].report = x[w].report /\ x[w].att \in 0..Final
    BY <1>1, <2>1, Fields DEF Attempts
  <2>3. Working(w) /\ StageOf(x'[w].pc) = StageOf(x[w].pc)
    BY <1>7, <2>2 DEF Working, StageOf
  <2>4. Ahead[x'[w].pc] \in 1..12 /\ Ahead[x'[w].pc] < Ahead[x[w].pc]
    BY <1>7, <2>2 DEF Ahead
  <2>5. Rank(w)' = Ahead[x'[w].pc] + 5 * (Final - x[w].att)
    BY <1>7, <2>2 DEF Rank, Working
  <2>6. Rank(w)' < Rank(w)
    BY <1>1, <2>2, <2>3, <2>4, <2>5, RankPositive, Bounds
  <2>7. GoesOn(w)
    BY <1>7, <2>2, <2>3 DEF GoesOn, server, PCs
  <2> QED
    BY <1>7, <2>1, <2>3, <2>6, <2>7 DEF Advances, server
<1>8. CASE Stage(w)
  <2>1. x[w].pc = "stage"
    BY <1>8 DEF Stage
  <2>2. CASE x' = [x EXCEPT ![w].pc = "rewrite", ![w].staging = TRUE] /\ UNCHANGED server
    <3>1. x[w] \in Attempts
      BY <1>1, Fields
    <3>2. x' = [x EXCEPT ![w] = Moved("rewrite", x[w].enc, TRUE)]
      BY <1>1, <2>2, <3>1 DEF Shape, Attempts
    <3> QED
      BY <1>7, <2>1, <2>2, <3>2
  <2>3. CASE Exit(w, "failed", "INFRA") \/ Exit(w, "failed", "FFMPEG_ERROR")
    BY <1>2, <2>1, <2>3
  <2>4. CASE Goto(w, "rewrite") /\ UNCHANGED server
    BY <1>4, <2>1, <2>4
  <2> QED
    BY <1>8, <2>2, <2>3, <2>4 DEF Stage
<1>9. CASE Rewrite(w)
  <2>1. x[w].pc = "rewrite"
    BY <1>9 DEF Rewrite
  <2>2. ASSUME NEW e, x' = [x EXCEPT ![w].pc = "boundary", ![w].enc = e], UNCHANGED server
        PROVE  Advances(w)
    <3>1. x[w] \in Attempts
      BY <1>1, Fields
    <3>2. x' = [x EXCEPT ![w] = Moved("boundary", e, x[w].staging)]
      BY <1>1, <2>2, <3>1 DEF Shape, Attempts
    <3> QED
      BY <1>7, <2>1, <2>2, <3>2
  <2>3. CASE Leave(w, "failed", "FFMPEG_ERROR") \/ Leave(w, "failed", "ENCODER_UNSUPPORTED")
    BY <1>2, <2>1, <2>3
  <2>4. CASE x[w].cancelled /\ Leave(w, "cancelled", "none")
    BY <1>3, <2>1, <2>4
  <2> QED
    BY <1>9, <2>2, <2>3, <2>4 DEF Rewrite
<1>10. CASE MarkRunning(w)
  <2>1. x[w].pc = "boundary"
    BY <1>10 DEF MarkRunning
  <2>2. CASE Leave(w, IF x[w].cancelled THEN "cancelled" ELSE "failed",
                      IF x[w].cancelled THEN "none" ELSE "INFRA")
    <3>1. CASE x[w].cancelled
      BY <1>3, <2>1, <2>2, <3>1
    <3>2. CASE ~x[w].cancelled
      BY <1>2, <2>1, <2>2, <3>2
    <3> QED
      BY <3>1, <3>2
  <2>3. CASE Accepts(w) /\ Goto(w, "launch") /\ UNCHANGED server
    <3>1. /\ Working(w) /\ "launch" \in PCs \ {"idle", "done", "crashed"}
          /\ StageOf(x[w].pc) = "prep" /\ StageOf("launch") = "run"
      BY <2>1 DEF Working, PCs, StageOf
    <3>2. Ahead["launch"] \in 1..12 /\ Ahead["launch"] < Ahead[x[w].pc]
      BY <2>1 DEF Ahead
    <3> QED
      BY <1>1, <2>3, <3>1, <3>2, GotoAdvances
  <2> QED
    BY <1>10, <2>2, <2>3 DEF MarkRunning
<1> QED
  BY <1>5, <1>6, <1>8, <1>9, <1>10

(* From the launch on: an attempt may also time out. *)
LEMMA RunExits ==
    ASSUME ExecInv, NEW w \in Workers, Working(w), StageOf(x[w].pc) = "run",
           NEW s \in {"completed", "failed", "timeout", "cancelled"}, NEW t \in Types,
           Leave(w, s, t), ClassOf(t) \in Contract!Classes(s), s = "cancelled" => x[w].cancelled
    PROVE  Advances(w)
<1>1. s \in Statuses /\ Shape
  BY DEF Statuses, ExecInv
<1>2. Contract!MayEnd(StageOf(x[w].pc), x[w].cancelled, s)
  BY DEF Contract!MayEnd
<1> QED
  BY <1>1, <1>2, ExitAdvances

(* Giving up is a timeout or a failure. *)
LEMMA GiveUpAdvances ==
    ASSUME ExecInv, NEW w \in Workers, x[w].pc \in {"judge", "final"}, GiveUp(w)
    PROVE  Advances(w)
<1>1. Working(w) /\ StageOf(x[w].pc) = "run"
  BY DEF Working, StageOf
<1>2. CASE Leave(w, "timeout", "TIMEOUT")
  <2>1. "TIMEOUT" \in Types /\ ClassOf("TIMEOUT") \in Contract!Classes("timeout")
    BY DEF Types, ClassOf, Contract!Classes
  <2> QED
    BY <1>1, <1>2, <2>1, RunExits
<1>3. CASE Leave(w, "timeout", FailureClass(w, TRUE))
  <2>1. /\ FailureClass(w, TRUE) \in Types
        /\ ClassOf(FailureClass(w, TRUE)) \in Contract!Classes("timeout")
    BY ClassOfRun DEF Types, ClassOf, Contract!Classes
  <2> QED
    BY <1>1, <1>3, <2>1, RunExits
<1>4. CASE Leave(w, "failed", FailureClass(w, FALSE))
  <2>1. /\ FailureClass(w, FALSE) \in Types
        /\ ClassOf(FailureClass(w, FALSE)) \in Contract!Classes("failed")
    BY ClassOfRun DEF Types, ClassOf, Contract!Classes
  <2> QED
    BY <1>1, <1>4, <2>1, RunExits
<1> QED
  BY <1>2, <1>3, <1>4 DEF GiveUp

(* A place further on. *)
LEMMA RunGoes ==
    ASSUME ExecInv, NEW w \in Workers, NEW to, Goto(w, to), UNCHANGED server,
           <<x[w].pc, to>> \in {<<"launch", "run">>, <<"launch", "judge">>, <<"judge", "publish">>,
                                <<"judge", "final">>, <<"retry", "launch">>, <<"retry", "final">>,
                                <<"publish", "upload">>, <<"publish", "publishMain">>,
                                <<"publishMain", "upload">>, <<"upload", "finish">>}
    PROVE  Advances(w)
<1>1. Shape
  BY DEF ExecInv
<1>2. /\ Working(w) /\ to \in PCs \ {"idle", "done", "crashed"}
      /\ StageOf(x[w].pc) = "run" /\ StageOf(to) = "run"
  BY DEF Working, PCs, StageOf
<1>3. Ahead[to] \in 1..12 /\ Ahead[to] < Ahead[x[w].pc]
  BY DEF Ahead
<1> QED
  BY <1>1, <1>2, <1>3, GotoAdvances

(* One ffmpeg process starts and ends. *)
LEMMA ProcessAdvances ==
    ASSUME ExecInv, NEW w \in Workers, Launch(w) \/ FFmpegEnds(w)
    PROVE  Advances(w)
<1>1. Shape /\ x[w] \in Attempts
  BY Fields DEF ExecInv
<1>2. UNCHANGED server /\ x[w].pc \in {"launch", "run"}
  BY DEF Launch, FFmpegEnds
<1>3. ASSUME NEW o, NEW oom, x' = [x EXCEPT ![w].pc = "judge", ![w].last = o, ![w].oom = oom]
      PROVE  Advances(w)
  <2> DEFINE r == [x[w] EXCEPT !.pc = "judge", !.last = o, !.oom = oom]
  <2>1. x' = [x EXCEPT ![w] = r]
    BY <1>3
  <2>2. /\ r.pc = "judge" /\ r.cancelled = x[w].cancelled /\ r.report = x[w].report
        /\ r.att = x[w].att /\ x[w].att \in 0..Final
    BY <1>1, Fields DEF Attempts
  <2> HIDE DEF r
  <2>3. Ahead[r.pc] \in 1..12 /\ Ahead[r.pc] < Ahead[x[w].pc] /\ Ahead[x[w].pc] \in 1..12
    BY <1>2, <2>2 DEF Ahead
  <2>4. /\ Working(w) /\ r.pc \in PCs \ {"idle", "done", "crashed"}
        /\ StageOf(x[w].pc) = "run" /\ StageOf(r.pc) = "run"
    BY <1>2, <2>2 DEF Working, PCs, StageOf
  <2>5. Ahead[r.pc] - 5 * r.att < Ahead[x[w].pc] - 5 * x[w].att
    BY <2>2, <2>3, Bounds
  <2> QED
    BY <1>1, <1>2, <2>1, <2>2, <2>3, <2>4, <2>5, RowAdvances
<1>4. CASE Launch(w)
  <2>1. x[w].pc = "launch"
    BY <1>4 DEF Launch
  <2>2. Goto(w, "run") \/ \E o : x' = [x EXCEPT ![w].pc = "judge", ![w].last = o, ![w].oom = FALSE]
    BY <1>4 DEF Launch
  <2> QED
    BY <1>2, <1>3, <2>1, <2>2, RunGoes
<1>5. CASE FFmpegEnds(w)
  <2>1. \E o, oom : x' = [x EXCEPT ![w].pc = "judge", ![w].last = o, ![w].oom = oom]
    BY <1>5 DEF FFmpegEnds
  <2> QED
    BY <1>3, <2>1
<1> QED
  BY <1>4, <1>5

(* A retry is counted, so the place it goes back to is outweighed. *)
LEMMA CountedAdvances ==
    ASSUME ExecInv, NEW w \in Workers, x[w].pc \in {"judge", "final"}, NEW r,
           x' = [x EXCEPT ![w] = r], UNCHANGED server,
           r.cancelled = x[w].cancelled, r.report = x[w].report, r.att \in 0..Final,
           \/ r.pc = "retry" /\ x[w].pc = "judge" /\ r.att = x[w].att + 1
           \/ r.pc = "launch" /\ x[w].pc = "final" /\ r.att = Final /\ x[w].att \in 1..MaxRetries
    PROVE  Advances(w)
<1>1. Shape /\ x[w].att \in 0..Final
  BY Fields DEF ExecInv
<1>2. /\ Working(w) /\ r.pc \in PCs \ {"idle", "done", "crashed"}
      /\ StageOf(x[w].pc) = "run" /\ StageOf(r.pc) = "run"
  BY DEF Working, PCs, StageOf
<1>3. Ahead["retry"] = 8 /\ Ahead["launch"] = 7 /\ Ahead["judge"] = 5 /\ Ahead["final"] = 4
  BY DEF Ahead
<1>4. Ahead[r.pc] \in 1..12
  BY <1>3
<1>5. Ahead[r.pc] - 5 * r.att < Ahead[x[w].pc] - 5 * x[w].att
  BY <1>1, <1>3, Bounds
<1> QED
  BY <1>1, <1>2, <1>4, <1>5, RowAdvances

(* The initial run is judged. *)
LEMMA InitialAdvances ==
    ASSUME ExecInv, NEW w \in Workers, JudgeInitial(w)
    PROVE  Advances(w)
<1>1. Shape /\ x[w].pc = "judge" /\ x[w].att = 0 /\ x[w] \in Attempts
  BY Fields DEF JudgeInitial, ExecInv
<1>2. Working(w) /\ StageOf(x[w].pc) = "run"
  BY <1>1 DEF Working, StageOf
<1>3. CASE x[w].cancelled /\ Leave(w, "cancelled", "none")
  <2>1. "none" \in Types /\ ClassOf("none") \in Contract!Classes("cancelled")
    BY DEF Types, ClassOf, Contract!Classes
  <2> QED
    BY <1>2, <1>3, <2>1, RunExits
<1>4. CASE Leave(w, "timeout", FailureClass(w, TRUE))
  <2>1. /\ FailureClass(w, TRUE) \in Types
        /\ ClassOf(FailureClass(w, TRUE)) \in Contract!Classes("timeout")
    BY ClassOfRun DEF Types, ClassOf, Contract!Classes
  <2> QED
    BY <1>2, <1>4, <2>1, RunExits
<1>5. ASSUME NEW t \in {"WORKER_CRASH", "ENCODER_UNSUPPORTED", "FFMPEG_ERROR"},
             Leave(w, "failed", t)
      PROVE  Advances(w)
  <2>1. t \in Types /\ ClassOf(t) \in Contract!Classes("failed")
    BY DEF Types, ClassOf, Contract!Classes
  <2> QED
    BY <1>2, <1>5, <2>1, RunExits
<1>6. CASE Goto(w, "publish") /\ UNCHANGED server
  BY <1>1, <1>6, RunGoes
<1>7. CASE /\ x' = [x EXCEPT ![w].pc = "retry", ![w].att = 1, ![w].last = "none", ![w].oom = FALSE]
           /\ UNCHANGED server
  <2> DEFINE r == [x[w] EXCEPT !.pc = "retry", !.att = 1, !.last = "none", !.oom = FALSE]
  <2>1. x' = [x EXCEPT ![w] = r]
    BY <1>7
  <2>2. /\ r.pc = "retry" /\ r.cancelled = x[w].cancelled /\ r.report = x[w].report
        /\ r.att = 1
    BY <1>1 DEF Attempts
  <2> HIDE DEF r
  <2>3. r.att \in 0..Final /\ r.att = x[w].att + 1
    BY <1>1, <2>2, Bounds
  <2> QED
    BY <1>1, <1>7, <2>1, <2>2, <2>3, CountedAdvances
<1>8. FailureClass(w, FALSE) \in {"WORKER_CRASH", "ENCODER_UNSUPPORTED", "FFMPEG_ERROR"}
  BY ClassOfRun
<1> QED
  BY <1>3, <1>4, <1>5, <1>6, <1>7, <1>8 DEF JudgeInitial

(* The retry loop. *)
LEMMA RetryAdvances ==
    ASSUME ExecInv, NEW w \in Workers, RetryTop(w) \/ JudgeRetry(w)
    PROVE  Advances(w)
<1>1. Shape /\ x[w] \in Attempts /\ UNCHANGED server
  BY Fields DEF ExecInv, RetryTop, JudgeRetry
<1>2. CASE RetryTop(w)
  BY <1>1, <1>2, RunGoes DEF RetryTop
<1>3. CASE JudgeRetry(w)
  <2>1. x[w].pc = "judge" /\ x[w].att \in 1..MaxRetries
    BY <1>3 DEF JudgeRetry
  <2>2. CASE Goto(w, "publish") \/ Goto(w, "final")
    BY <1>1, <2>1, <2>2, RunGoes
  <2>3. ASSUME NEW t, NextAttempt(w, t), ~Goto(w, "final") PROVE Advances(w)
    <3> DEFINE s == Strategy(w, t)
               u == x[w].userSel /\ s.enc = x[w].enc
               sw == x[w].usedSw \/ (s.enc # x[w].enc /\ ~IsHardwareEncoder(s.enc))
               r == [x[w] EXCEPT !.pc = "retry", !.att = @ + 1, !.enc = s.enc,
                                 !.params = s.params, !.userSel = u, !.usedSw = sw]
    <3>1. x' = [x EXCEPT ![w] = r]
      BY <2>3 DEF NextAttempt
    <3> HIDE DEF s, u, sw
    <3>2. /\ r.pc = "retry" /\ r.cancelled = x[w].cancelled /\ r.report = x[w].report
          /\ r.att = x[w].att + 1
      BY <1>1 DEF Attempts
    <3> HIDE DEF r
    <3>3. r.att \in 0..Final
      BY <2>1, <3>2, Bounds
    <3> QED
      BY <1>1, <2>1, <3>1, <3>2, <3>3, CountedAdvances
  <2> QED
    BY <1>3, <2>2, <2>3 DEF JudgeRetry
<1> QED
  BY <1>2, <1>3

(* The last run in software. *)
LEMMA FinalAdvances ==
    ASSUME ExecInv, NEW w \in Workers, FinalFallback(w) \/ JudgeFinal(w)
    PROVE  Advances(w)
<1>1. Shape /\ x[w] \in Attempts /\ Attempt(w)
  BY Fields DEF ExecInv
<1>2. CASE FinalFallback(w)
  <2>1. x[w].pc = "final" /\ x[w].att \in 1..MaxRetries
    BY <1>1, <1>2 DEF FinalFallback, Attempt, Places
  <2>2. CASE GiveUp(w)
    BY <2>1, <2>2, GiveUpAdvances
  <2>3. CASE ~GiveUp(w)
    <3> DEFINE fb == PrepareFallback(x[w].enc, job.container, ~x[w].userSel)
               r == [x[w] EXCEPT !.pc = "launch", !.att = Final, !.enc = fb, !.usedSw = TRUE]
    <3>1. x' = [x EXCEPT ![w] = r] /\ UNCHANGED server
      BY <1>2, <2>3 DEF FinalFallback
    <3> HIDE DEF fb
    <3>2. /\ r.pc = "launch" /\ r.cancelled = x[w].cancelled /\ r.report = x[w].report
          /\ r.att = Final
      BY <1>1 DEF Attempts
    <3> HIDE DEF r
    <3>3. r.att \in 0..Final
      BY <3>2, Bounds
    <3> QED
      BY <2>1, <3>1, <3>2, <3>3, CountedAdvances
  <2> QED
    BY <2>2, <2>3
<1>3. CASE JudgeFinal(w)
  <2>1. x[w].pc = "judge"
    BY <1>3 DEF JudgeFinal
  <2>2. (Goto(w, "publish") /\ UNCHANGED server) \/ GiveUp(w)
    BY <1>3 DEF JudgeFinal
  <2> QED
    BY <2>1, <2>2, RunGoes, GiveUpAdvances
<1> QED
  BY <1>2, <1>3

(* After ffmpeg, and a panic anywhere. *)
LEMMA AfterAdvances ==
    ASSUME ExecInv, NEW w \in Workers,
           PublishSiblings(w) \/ PublishMain(w) \/ Upload(w) \/ Finish(w) \/ Panic(w)
    PROVE  Advances(w)
<1>1. "INFRA" \in Types /\ "PANIC" \in Types /\ "none" \in Types
  BY DEF Types
<1>2. /\ ClassOf("INFRA") \in Contract!Classes("failed")
      /\ ClassOf("PANIC") \in Contract!Classes("failed")
      /\ ClassOf("none") \in Contract!Classes("completed")
  BY DEF ClassOf, Contract!Classes
<1>3. ASSUME x[w].pc \in {"publish", "publishMain", "upload", "finish"},
             Leave(w, "failed", "INFRA") \/ Leave(w, "completed", "none")
      PROVE  Advances(w)
  <2>1. Working(w) /\ StageOf(x[w].pc) = "run"
    BY <1>3 DEF Working, StageOf
  <2> QED
    BY <1>1, <1>2, <1>3, <2>1, RunExits
<1>4. CASE PublishSiblings(w)
  BY <1>3, <1>4, RunGoes DEF PublishSiblings
<1>5. CASE PublishMain(w)
  BY <1>3, <1>5, RunGoes DEF PublishMain
<1>6. CASE Upload(w)
  BY <1>3, <1>6, RunGoes DEF Upload
<1>7. CASE Finish(w)
  BY <1>3, <1>7 DEF Finish
<1>8. CASE Panic(w)
  <2>1. Shape /\ Working(w) /\ Leave(w, "failed", "PANIC")
    BY <1>8 DEF Panic, ExecInv
  <2>2. StageOf(x[w].pc) \in {"prep", "run"}
    BY <2>1 DEF Working, StageOf
  <2>3. "failed" \in Statuses /\ Contract!MayEnd(StageOf(x[w].pc), x[w].cancelled, "failed")
    BY <2>2 DEF Statuses, Contract!MayEnd
  <2> QED
    BY <1>1, <1>2, <2>1, <2>3, ExitAdvances
<1> QED
  BY <1>4, <1>5, <1>6, <1>7, <1>8

(* Every step of processJob advances its attempt, and no other. *)
LEMMA StepAdvances ==
    ASSUME ExecInv, NEW w \in Workers, Step(w) \/ Panic(w)
    PROVE  Advances(w)
<1>1. CASE CheckCache(w) \/ Prepare(w) \/ Stage(w) \/ Rewrite(w) \/ MarkRunning(w)
  BY <1>1, BeforeAdvances
<1>2. CASE Launch(w) \/ FFmpegEnds(w) \/ JudgeInitial(w) \/ RetryTop(w) \/ JudgeRetry(w)
  BY <1>2, ProcessAdvances, InitialAdvances, RetryAdvances
<1>3. CASE FinalFallback(w) \/ JudgeFinal(w)
  BY <1>3, FinalAdvances
<1>4. CASE PublishSiblings(w) \/ PublishMain(w) \/ Upload(w) \/ Finish(w) \/ Panic(w)
  BY <1>4, AfterAdvances
<1> QED
  BY <1>1, <1>2, <1>3, <1>4 DEF Step

(* What happens to an attempt from outside: its context is cancelled or    *)
(* its budget spent, and it stays where it is.                             *)
LEMMA FlagEffect ==
    ASSUME Shape, NEW w \in Workers, CancelContext(w) \/ ExpireBudget(w)
    PROVE  /\ Working(w) /\ UNCHANGED server
           /\ \A v \in Workers \ {w} : x'[v] = x[v]
           /\ x'[w].pc = x[w].pc /\ x'[w].att = x[w].att /\ x'[w].report = x[w].report
           /\ \/ CancelContext(w) /\ ~x[w].cancelled /\ x'[w].cancelled = TRUE
              \/ x'[w].cancelled = x[w].cancelled
<1>1. x[w] \in Attempts
  BY Fields
<1>2. CASE CancelContext(w)
  <2>1. x' = [x EXCEPT ![w].cancelled = TRUE] /\ Working(w) /\ ~x[w].cancelled /\ UNCHANGED server
    BY <1>2 DEF CancelContext
  <2>2. x'[w] = [x[w] EXCEPT !.cancelled = TRUE] /\ \A v \in Workers \ {w} : x'[v] = x[v]
    BY <2>1 DEF Shape
  <2>3. /\ x'[w].pc = x[w].pc /\ x'[w].att = x[w].att /\ x'[w].report = x[w].report
        /\ x'[w].cancelled = TRUE
    BY <1>1, <2>2 DEF Attempts
  <2> QED
    BY <1>2, <2>1, <2>2, <2>3
<1>3. CASE ExpireBudget(w)
  <2>1. /\ x' = [x EXCEPT ![w].expired = TRUE] /\ UNCHANGED server
        /\ x[w].pc \in {"launch", "run", "judge", "retry", "final"}
    BY <1>3 DEF ExpireBudget
  <2>2. x'[w] = [x[w] EXCEPT !.expired = TRUE] /\ \A v \in Workers \ {w} : x'[v] = x[v]
    BY <2>1 DEF Shape
  <2>3. /\ x'[w].pc = x[w].pc /\ x'[w].att = x[w].att /\ x'[w].report = x[w].report
        /\ x'[w].cancelled = x[w].cancelled
    BY <1>1, <2>2 DEF Attempts
  <2> QED
    BY <2>1, <2>2, <2>3 DEF Working
<1> QED
  BY <1>2, <1>3

(* A row that is replaced by one of Fresh. *)
LEMMA FreshEffect ==
    ASSUME Shape, NEW w \in Workers, NEW n, NEW pc, x' = [x EXCEPT ![w] = [Fresh(n) EXCEPT !.pc = pc]]
    PROVE  /\ \A v \in Workers \ {w} : x'[v] = x[v]
           /\ x'[w].pc = pc /\ x'[w].cancelled = FALSE /\ x'[w].report = NoReport
<1>1. /\ \A v \in Workers \ {w} : x'[v] = x[v]
      /\ x'[w] = [Fresh(n) EXCEPT !.pc = pc]
  BY DEF Shape
<1> QED
  BY <1>1 DEF Fresh

(* ExecuteWithRetry and processJob around it: every step that moves an     *)
(* attempt lowers the bound on the steps it has left, for every number of  *)
(* retries, kind of job, outcome of ffmpeg and interleaving of faults; so  *)
(* no attempt retries for ever.                                            *)
THEOREM RetriesAreBounded == Spec => RetriesRunOut
<1>1. ASSUME ExecInv, [Next]_vars PROVE Nearer
  <2>1. Shape
    BY <1>1 DEF ExecInv
  <2>2. CASE x' = x
    BY <2>2 DEF Nearer
  <2>3. ASSUME NEW w \in Workers, Step(w) \/ Panic(w) PROVE Nearer
    BY <1>1, <2>3, StepAdvances DEF Advances, Nearer
  <2>4. ASSUME NEW w \in Workers, CancelContext(w) \/ ExpireBudget(w) PROVE Nearer
    BY <2>1, <2>4, FlagEffect DEF Nearer
  <2>5. ASSUME NEW w \in Workers, Dispatch(w) PROVE Nearer
    <3>1. ~Working(w) /\ \A v \in Workers \ {w} : x'[v] = x[v]
      BY <2>1, <2>5 DEF Dispatch, Shape
    <3> QED
      BY <3>1 DEF Nearer
  <2>6. ASSUME NEW w \in Workers, Crash(w) PROVE Nearer
    <3>1. Working(w)
      BY <2>6 DEF Crash
    <3>5. x' = [x EXCEPT ![w] = [Fresh(0) EXCEPT !.pc = "crashed"]]
      BY <2>6 DEF Crash
    <3>2. x'[w].pc = "crashed" /\ \A v \in Workers \ {w} : x'[v] = x[v]
      <4>1. x'[w] = [Fresh(0) EXCEPT !.pc = "crashed"] /\ \A v \in Workers \ {w} : x'[v] = x[v]
        BY <2>1, <3>5 DEF Shape
      <4> QED
        BY <4>1 DEF Fresh
    <3>3. Rank(w)' = 0
      BY <3>2 DEF Rank, Working
    <3>4. Rank(w)' < Rank(w)
      BY <2>1, <3>1, <3>3, RankPositive
    <3> QED
      BY <3>2, <3>4 DEF Nearer
  <2> QED
    BY <1>1, <2>2, <2>3, <2>4, <2>5, <2>6 DEF Next, vars, ClientCancels
<1>2. ExecInv /\ [Next]_vars => Nearer
  BY <1>1
<1> QED
  BY <1>2, ExecInvariance, PTL DEF Spec, RetriesRunOut

-----------------------------------------------------------------------------
(* The contract *)

(* The attempts as the contract sees them. *)
StageMap == [w \in Workers |-> StageOf(x[w].pc)]
DoomMap == [w \in Workers |-> x[w].cancelled]
Told(r) == [status |-> r.status, class |-> ClassOf(r.type)]
ReportMap == [w \in Workers |-> Told(x[w].report)]

(* A step that touches one attempt sets one entry of the contract. *)
LEMMA MapsSet ==
    ASSUME Shape, NEW w \in Workers, \A v \in Workers \ {w} : x'[v] = x[v]
    PROVE  /\ StageMap' = [StageMap EXCEPT ![w] = StageOf(x'[w].pc)]
           /\ DoomMap' = [DoomMap EXCEPT ![w] = x'[w].cancelled]
           /\ ReportMap' = [ReportMap EXCEPT ![w] = Told(x'[w].report)]
<1>1. StageMap' = [StageMap EXCEPT ![w] = StageOf(x'[w].pc)]
  BY DEF StageMap
<1>2. DoomMap' = [DoomMap EXCEPT ![w] = x'[w].cancelled]
  BY DEF DoomMap
<1>3. ReportMap' = [ReportMap EXCEPT ![w] = Told(x'[w].report)]
  <2>1. \A v \in Workers \ {w} : Told(x'[v].report) = Told(x[v].report)
    BY DEF Told
  <2> QED
    BY <2>1 DEF ReportMap
<1> QED
  BY <1>1, <1>2, <1>3

(* An advancing attempt takes a step of the contract, or none. *)
LEMMA AdvanceMaps ==
    ASSUME ExecInv, NEW w \in Workers, Advances(w)
    PROVE  [Contract!Next]_Contract!vars
<1>1. Shape /\ x[w] \in Attempts /\ owner' = owner /\ \A v \in Workers \ {w} : x'[v] = x[v]
  BY Fields DEF ExecInv, Advances
<1>2. CASE Concludes(w)
  <2>1. PICK s \in Statuses, t \in Types :
          /\ Contract!MayEnd(StageOf(x[w].pc), x[w].cancelled, s)
          /\ ClassOf(t) \in Contract!Classes(s)
          /\ x'[w].report.status = s /\ x'[w].report.type = t
          /\ verdict' = verdict \/ (owner = w /\ verdict = "none" /\ verdict' = s)
    BY <1>2 DEF Concludes
  <2>2. StageOf(x'[w].pc) = "none" /\ x'[w].cancelled = FALSE
    BY <1>2 DEF Concludes, StageOf
  <2>6. Told(x'[w].report) = [status |-> s, class |-> ClassOf(t)]
    BY <2>1 DEF Told
  <2>7. /\ StageMap' = [StageMap EXCEPT ![w] = "none"]
        /\ DoomMap' = [DoomMap EXCEPT ![w] = FALSE]
        /\ ReportMap' = [ReportMap EXCEPT ![w] = [status |-> s, class |-> ClassOf(t)]]
    BY <1>1, <2>2, <2>6, MapsSet
  <2>3. Contract!Set(w, "none", FALSE, [status |-> s, class |-> ClassOf(t)])
    BY <2>7 DEF Contract!Set, StageMap, DoomMap, ReportMap, Told
  <2>4. Contract!End(w, s, ClassOf(t))
    BY <1>1, <2>1, <2>3 DEF Contract!End
  <2>5. s \in {"completed", "failed", "timeout", "cancelled"}
    BY <2>1 DEF Contract!MayEnd
  <2> QED
    BY <2>1, <2>4, <2>5 DEF Contract!Next
<1>3. CASE GoesOn(w) /\ StageOf(x'[w].pc) = StageOf(x[w].pc)
  <2>1. StageMap' = StageMap /\ DoomMap' = DoomMap /\ ReportMap' = ReportMap
    BY <1>1, <1>3 DEF GoesOn, StageMap, DoomMap, ReportMap, Told
  <2> QED
    BY <1>1, <1>3, <2>1 DEF GoesOn, Contract!vars, StageMap, DoomMap, ReportMap, Told
<1>4. CASE GoesOn(w) /\ StageOf(x'[w].pc) # StageOf(x[w].pc)
  <2>1. /\ StageOf(x[w].pc) = "prep" /\ StageOf(x'[w].pc) = "run"
        /\ owner = w /\ verdict = "none" /\ verdict' = verdict
        /\ x'[w].cancelled = x[w].cancelled /\ x'[w].report = x[w].report
    BY <1>4 DEF GoesOn
  <2>5. DoomMap[w] = x'[w].cancelled /\ ReportMap[w] = Told(x'[w].report)
    BY <2>1 DEF DoomMap, ReportMap, Told
  <2>2. /\ StageMap' = [StageMap EXCEPT ![w] = "run"]
        /\ DoomMap' = [DoomMap EXCEPT ![w] = DoomMap[w]]
        /\ ReportMap' = [ReportMap EXCEPT ![w] = ReportMap[w]]
    BY <1>1, <2>1, <2>5, MapsSet
  <2>3. Contract!Execute(w)
    BY <1>1, <2>1, <2>2 DEF Contract!Execute, Contract!Set, StageMap, DoomMap, ReportMap, Told
  <2> QED
    BY <2>3 DEF Contract!Next
<1> QED
  BY <1>2, <1>3, <1>4 DEF Advances

(* The contract's steps of the server and of the context. *)
LEMMA ServerMaps ==
    ASSUME ExecInv, ClientCancels \/ \E w \in Workers :
             Dispatch(w) \/ CancelContext(w) \/ ExpireBudget(w) \/ Crash(w)
    PROVE  [Contract!Next]_Contract!vars
<1>1. Shape
  BY DEF ExecInv
<1>2. CASE ClientCancels
  <2>1. /\ verdict = "none" /\ verdict' = "cancelled"
        /\ UNCHANGED <<x, owner>>
    BY <1>2 DEF ClientCancels
  <2>2. Contract!Cancel
    BY <2>1 DEF Contract!Cancel
  <2> QED
    BY <2>2 DEF Contract!Next
<1>3. ASSUME NEW w \in Workers, Dispatch(w) PROVE Contract!Next
  <2>1. /\ ~Working(w) /\ verdict = "none" /\ owner' = w /\ verdict' = verdict
        /\ x' = [x EXCEPT ![w] = Fresh(dispatches)]
    BY <1>3 DEF Dispatch
  <2>2. x'[w] = Fresh(dispatches) /\ \A v \in Workers \ {w} : x'[v] = x[v]
    BY <1>1, <2>1 DEF Shape
  <2>3. x'[w].pc = "start" /\ x'[w].cancelled = FALSE /\ x'[w].report = NoReport
    BY <2>2 DEF Fresh
  <2>4. /\ StageOf(x[w].pc) = "none" /\ StageOf(x'[w].pc) = "prep"
        /\ Contract!Silent = Told(x'[w].report)
    BY <2>1, <2>3 DEF Working, StageOf, ClassOf, NoReport, Contract!Silent, Told
  <2>6. /\ StageMap' = [StageMap EXCEPT ![w] = "prep"]
        /\ DoomMap' = [DoomMap EXCEPT ![w] = FALSE]
        /\ ReportMap' = [ReportMap EXCEPT ![w] = Contract!Silent]
    BY <1>1, <2>2, <2>3, <2>4, MapsSet
  <2>5. Contract!Set(w, "prep", FALSE, Contract!Silent)
    BY <2>6 DEF Contract!Set, StageMap, DoomMap, ReportMap, Told
  <2> QED
    BY <2>1, <2>4, <2>5 DEF Contract!Begin, Contract!Next
<1>4. ASSUME NEW w \in Workers, CancelContext(w) \/ ExpireBudget(w)
      PROVE  [Contract!Next]_Contract!vars
  <2>1. /\ Working(w) /\ UNCHANGED <<owner, verdict>>
        /\ \A v \in Workers \ {w} : x'[v] = x[v]
        /\ x'[w].pc = x[w].pc /\ x'[w].report = x[w].report
        /\ \/ ~x[w].cancelled /\ x'[w].cancelled = TRUE
           \/ x'[w].cancelled = x[w].cancelled
    BY <1>1, <1>4, FlagEffect DEF server
  <2>2. CASE ~x[w].cancelled /\ x'[w].cancelled = TRUE
    <3>3. StageMap[w] = StageOf(x'[w].pc) /\ ReportMap[w] = Told(x'[w].report)
      BY <2>1 DEF StageMap, ReportMap, Told
    <3>1. /\ StageMap' = [StageMap EXCEPT ![w] = StageMap[w]]
          /\ DoomMap' = [DoomMap EXCEPT ![w] = TRUE]
          /\ ReportMap' = [ReportMap EXCEPT ![w] = ReportMap[w]]
      BY <1>1, <2>1, <2>2, <3>3, MapsSet
    <3>2. StageOf(x[w].pc) # "none"
      BY <2>1 DEF Working, StageOf
    <3> QED
      BY <2>1, <2>2, <3>1, <3>2
         DEF Contract!Doom, Contract!Set, Contract!Next, StageMap, DoomMap, ReportMap, Told
  <2>3. CASE x'[w].cancelled = x[w].cancelled
    <3>1. StageMap' = StageMap /\ DoomMap' = DoomMap /\ ReportMap' = ReportMap
      BY <2>1, <2>3 DEF StageMap, DoomMap, ReportMap, Told
    <3> QED
      BY <2>1, <3>1 DEF Contract!vars, StageMap, DoomMap, ReportMap, Told
  <2> QED
    BY <2>1, <2>2, <2>3
<1>5. ASSUME NEW w \in Workers, Crash(w) PROVE Contract!Next
  <2>1. /\ Working(w) /\ UNCHANGED <<owner, verdict>>
        /\ x' = [x EXCEPT ![w] = [Fresh(0) EXCEPT !.pc = "crashed"]]
    BY <1>5 DEF Crash, server
  <2>2. /\ \A v \in Workers \ {w} : x'[v] = x[v]
        /\ x'[w].pc = "crashed" /\ x'[w].cancelled = FALSE /\ x'[w].report = NoReport
    BY <1>1, <2>1, FreshEffect
  <2>3. /\ StageOf(x[w].pc) # "none" /\ StageOf(x'[w].pc) = "none"
        /\ Contract!Silent = Told(x'[w].report)
    BY <2>1, <2>2 DEF Working, StageOf, ClassOf, NoReport, Contract!Silent, Told
  <2>5. /\ StageMap' = [StageMap EXCEPT ![w] = "none"]
        /\ DoomMap' = [DoomMap EXCEPT ![w] = FALSE]
        /\ ReportMap' = [ReportMap EXCEPT ![w] = Contract!Silent]
    BY <1>1, <2>2, <2>3, MapsSet
  <2>4. Contract!Set(w, "none", FALSE, Contract!Silent)
    BY <2>5 DEF Contract!Set, StageMap, DoomMap, ReportMap, Told
  <2> QED
    BY <2>1, <2>3, <2>4 DEF Contract!Die, Contract!Next
<1> QED
  BY <1>2, <1>3, <1>4, <1>5

(* processJob does what Cluster takes it to do, for every job, number of   *)
(* workers and retries, and combination of faults: it runs ffmpeg only for *)
(* an open job of its own, reports once and only what its stage allows,    *)
(* and the server's verdict is the owner's report or the client's.         *)
THEOREM ExecutionImplementsContract == Spec => ImplementsContract
<1>1. Init => Contract!Init
  <2> SUFFICES ASSUME Init PROVE Contract!Init
    OBVIOUS
  <2>1. \A w \in Workers : x[w].pc = "idle" /\ x[w].cancelled = FALSE /\ x[w].report = NoReport
    BY DEF Init, Fresh
  <2>2. /\ StageOf("idle") = "none"
        /\ Contract!Silent = [status |-> NoReport.status, class |-> ClassOf(NoReport.type)]
    BY DEF StageOf, ClassOf, NoReport, Contract!Silent
  <2> QED
    BY <2>1, <2>2 DEF Init, Contract!Init
<1>2. ExecInv /\ [Next]_vars => [Contract!Next]_Contract!vars
  <2> SUFFICES ASSUME ExecInv, [Next]_vars PROVE [Contract!Next]_Contract!vars
    OBVIOUS
  <2>1. CASE UNCHANGED vars
    BY <2>1 DEF vars, Contract!vars
  <2>2. ASSUME NEW w \in Workers, Step(w) \/ Panic(w) PROVE [Contract!Next]_Contract!vars
    BY <2>2, StepAdvances, AdvanceMaps
  <2> QED
    BY <2>1, <2>2, ServerMaps DEF Next
<1> QED
  BY <1>1, <1>2, ExecInvariance, PTL DEF Spec, ImplementsContract, Contract!Spec
=============================================================================
