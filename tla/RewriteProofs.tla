---------------------------- MODULE RewriteProofs ----------------------------
(***************************************************************************)
(* Proofs about Rewrite: which encoder a rewrite settles on, for every     *)
(* machine, every command line and every job.  What the walks over the     *)
(* arguments make of the command line is left to the model checker: they   *)
(* are recursive functions.                                                *)
(***************************************************************************)
EXTENDS Rewrite, WellFoundedInduction, TLAPS

(* A set of numbers has a least one. *)
LEMMA LeastNumber ==
    ASSUME NEW T, T \subseteq Nat, T # {}
    PROVE  \E x \in T : \A y \in T : x <= y
<1> DEFINE R == OpToRel(<, Nat)
<1>1. IsWellFoundedOn(R, Nat)
  BY NatLessThanWellFounded
<1>2. \A x, y \in Nat : x < y => <<x, y>> \in R
  BY DEF OpToRel
<1> HIDE DEF R
<1>3. PICK x \in T : \A y \in T : ~ (<<y, x>> \in R)
  BY <1>1, WFMin
<1>4. \A y \in T : ~(y < x) /\ x \in Nat /\ y \in Nat
  BY <1>2, <1>3
<1> QED
  BY <1>4

(* What FirstOf finds belongs to the set. *)
LEMMA FirstOfBelongs ==
    ASSUME NEW seq, DOMAIN seq \subseteq Nat, NEW S, FirstOf(seq, S) # None
    PROVE  FirstOf(seq, S) \in S
<1> DEFINE hits == {i \in DOMAIN seq : seq[i] \in S}
           least == CHOOSE i \in hits : \A j \in hits : i <= j
<1>1. hits # {} /\ FirstOf(seq, S) = seq[least]
  BY DEF FirstOf
<1>2. hits \subseteq Nat
  OBVIOUS
<1>3. \E i \in hits : \A j \in hits : i <= j
  <2> HIDE DEF hits
  <2> QED
    BY <1>1, <1>2, LeastNumber
<1>4. least \in hits
  BY <1>3
<1> QED
  BY <1>1, <1>4

-----------------------------------------------------------------------------
(* The encoders of a worker *)

(* What a worker registers: lists of names, hardware encoders among the     *)
(* available ones.                                                          *)
Sane(hw) ==
    /\ DOMAIN hw.priority \subseteq Nat /\ DOMAIN hw.order \subseteq Nat
    /\ hw.hardware \subseteq hw.available

(* The capabilities of a machine. *)
LEMMA DetectedCaps ==
    ASSUME NEW m \in Machines
    PROVE  /\ Sane(DetectWithConfig(m))
           /\ m.manual = <<>> => DetectWithConfig(m).available \cap m.blacklist = {}
<1>1. DOMAIN m.encoders \subseteq Nat /\ DOMAIN m.manual \subseteq Nat /\ DOMAIN m.priority \subseteq Nat
  <2>1. \A seq \in Seq(STRING) : DOMAIN seq \subseteq Nat
    OBVIOUS
  <2> QED
    BY <2>1, MachinesAssumption
<1>2. DOMAIN DefaultEncoderPriority \subseteq Nat
  BY DEF DefaultEncoderPriority
<1> DEFINE hw == DetectWithConfig(m)
<1>3. DOMAIN hw.priority \subseteq Nat /\ DOMAIN hw.order \subseteq Nat
  BY <1>1, <1>2 DEF DetectWithConfig
<1>4. hw.hardware \subseteq hw.available
  BY DEF DetectWithConfig
<1>5. m.manual = <<>> => hw.available \cap m.blacklist = {}
  BY DEF DetectWithConfig
<1> QED
  BY <1>3, <1>4, <1>5 DEF Sane

(* The hardware encoder for a codec is available and encodes it. *)
LEMMA BestHardware ==
    ASSUME NEW hw, Sane(hw), NEW codec, GetBestHardwareEncoder(hw, codec) # None
    PROVE  /\ HasEncoder(hw, GetBestHardwareEncoder(hw, codec))
           /\ CodecFormat(GetBestHardwareEncoder(hw, codec)) = codec
<1> DEFINE S == {e \in hw.available : CodecFormat(e) = codec /\ IsHardware(e)}
           T == {e \in hw.hardware : CodecFormat(e) = codec}
           p == FirstOf(hw.priority, S)
           o == FirstOf(hw.order, T)
           best == GetBestHardwareEncoder(hw, codec)
<1>1. best = IF p # None THEN p ELSE o
  BY DEF GetBestHardwareEncoder
<1>2. p # None => p \in S
  BY FirstOfBelongs DEF Sane
<1>3. o # None => o \in T
  BY FirstOfBelongs DEF Sane
<1>4. best \in S \cup T
  <2> HIDE DEF p, o, S, T, best
  <2> QED
    BY <1>1, <1>2, <1>3 DEF best
<1> QED
  <2> HIDE DEF best
  <2>1. best \in hw.available /\ CodecFormat(best) = codec
    BY <1>4 DEF Sane
  <2> QED
    BY <2>1 DEF HasEncoder, best

(* So is the software encoder. *)
LEMMA Software ==
    ASSUME NEW hw, Sane(hw), NEW codec, GetSoftwareEncoder(hw, codec) # None
    PROVE  /\ HasEncoder(hw, GetSoftwareEncoder(hw, codec))
           /\ CodecFormat(GetSoftwareEncoder(hw, codec)) = codec
<1> DEFINE S == {e \in hw.available \ hw.hardware : CodecFormat(e) = codec}
<1>1. GetSoftwareEncoder(hw, codec) = FirstOf(hw.order, S)
  BY DEF GetSoftwareEncoder
<1>2. FirstOf(hw.order, S) \in S
  BY <1>1, FirstOfBelongs DEF Sane
<1> QED
  BY <1>1, <1>2 DEF HasEncoder

(* The baseline encoder of a codec encodes it. *)
LEMMA BaselineCodec ==
    ASSUME NEW codec, SoftwareEncoderForCodec(codec) # None
    PROVE  CodecFormat(SoftwareEncoderForCodec(codec)) = codec
BY DEF SoftwareEncoderForCodec, CodecFormat, H264, HEVC, VP9, AV1, None

(* Without a request the software target encodes the codec, present or not. *)
LEMMA SoftwareTargetCodec ==
    ASSUME NEW hw, Sane(hw), NEW codec, softwareTarget(hw, codec) # None
    PROVE  CodecFormat(softwareTarget(hw, codec)) = codec
BY Software, BaselineCodec DEF softwareTarget

-----------------------------------------------------------------------------
(* The engine *)

(* What the target is measured against: the codec of the encoder the        *)
(* arguments name, or of the container.                                     *)
Asked(args, hw) ==
    IF parseEncoderFromArgs(args, hw) = None THEN DefaultVideoCodec(OutputFormat(args))
                                             ELSE CodecFormat(parseEncoderFromArgs(args, hw))

(* SelectTargetEncoder after Classify. *)
LEMMA ClassifiedTarget ==
    ASSUME NEW hw, Sane(hw), NEW enc, NEW codec, NEW auto,
           ~IsError(Classify(hw, enc, codec, auto)),
           SelectTargetEncoder(Classify(hw, enc, codec, auto), hw, enc, codec) # None
    PROVE  LET target == SelectTargetEncoder(Classify(hw, enc, codec, auto), hw, enc, codec)
           IN  IF enc = None THEN CodecFormat(target) = codec
               ELSE HasEncoder(hw, target) /\ CodecFormat(target) = CodecFormat(enc)
<1> DEFINE scenario == Classify(hw, enc, codec, auto)
           target == SelectTargetEncoder(scenario, hw, enc, codec)
<1>1. CASE enc = None
  <2>1. scenario = IF GetBestHardwareEncoder(hw, codec) # None THEN "unspecified_hw" ELSE "unspecified_sw"
    BY <1>1 DEF Classify
  <2>2. target = IF GetBestHardwareEncoder(hw, codec) # None THEN GetBestHardwareEncoder(hw, codec)
                                                            ELSE softwareTarget(hw, codec)
    BY <2>1 DEF SelectTargetEncoder
  <2> QED
    BY <1>1, <2>2, BestHardware, SoftwareTargetCodec
<1>2. CASE enc # None
  <2> DEFINE own == CodecFormat(enc)
  <2>1. /\ scenario \in {"supported", "alternative", "fallback_software"}
        /\ scenario = "supported" => HasEncoder(hw, enc)
    BY <1>2 DEF Classify, StandIn, IsError
  <2>2. /\ scenario = "supported" => target = enc
        /\ scenario = "alternative" => target = GetBestHardwareEncoder(hw, own)
        /\ scenario = "fallback_software" => target = GetSoftwareEncoder(hw, own)
    BY DEF SelectTargetEncoder
  <2> HIDE DEF scenario, own
  <2>3. HasEncoder(hw, target) /\ CodecFormat(target) = own
    BY <2>1, <2>2, BestHardware, Software DEF own, scenario
  <2> QED
    BY <1>2, <2>3 DEF own, scenario
<1> QED
  BY <1>1, <1>2

(* A response with a target. *)
LEMMA EngineTarget ==
    ASSUME NEW hw, Sane(hw), NEW args, NEW auto,
           EngineRewrite(args, hw, auto).target # None
    PROVE  /\ HasEncoder(hw, EngineRewrite(args, hw, auto).target)
           /\ CodecFormat(EngineRewrite(args, hw, auto).target) = Asked(args, hw)
<1> DEFINE enc == parseEncoderFromArgs(args, hw)
           codec == containerTargetCodec(args, hw)
           scenario == Classify(hw, enc, codec, auto)
           target == SelectTargetEncoder(scenario, hw, enc, codec)
           response == EngineRewrite(args, hw, auto)
<1>1. codec \in {DefaultVideoCodec(OutputFormat(args)), None}
  BY DEF containerTargetCodec
<1>2. response = ForEncoder(args, hw, auto, enc, codec)
  BY DEF EngineRewrite
<1>3. Untouched(args).target = None /\ \A a, e, t, s : Response(a, e, t, s).target = t
  BY DEF Untouched, Response
<1> HIDE DEF enc, codec, response
<1>4. ~(enc = None /\ codec = None) /\ response = ForScenario(args, hw, enc, codec, scenario)
  BY <1>2, <1>3 DEF ForEncoder, response
<1> HIDE DEF scenario
<1>5. ~IsError(scenario) /\ response = ForTarget(args, hw, enc, scenario, target)
  BY <1>3, <1>4 DEF ForScenario, response
<1> HIDE DEF target
<1>6. ~(enc = None /\ ~HasEncoder(hw, target)) /\ target # None
  BY <1>3, <1>5 DEF ForTarget, response
<1>7. response.target = target
  BY <1>3, <1>5, <1>6 DEF ForTarget
<1>8. IF enc = None THEN CodecFormat(target) = codec
      ELSE HasEncoder(hw, target) /\ CodecFormat(target) = CodecFormat(enc)
  BY <1>5, <1>6, ClassifiedTarget DEF target, scenario
<1>9. HasEncoder(hw, target) /\ CodecFormat(target) = Asked(args, hw)
  BY <1>1, <1>4, <1>6, <1>8 DEF Asked, enc
<1> QED
  BY <1>7, <1>9 DEF response

(* The adapter keeps the engine's target or has none, and its only error is *)
(* an encoder nobody knows.                                                 *)
LEMMA AdapterTarget ==
    ASSUME NEW hw, Sane(hw), NEW args, NEW auto
    PROVE  /\ RewriteResult(args, hw, auto).error \in {None, "encoder_unsupported"}
           /\ RewriteResult(args, hw, auto).target # None =>
                /\ HasEncoder(hw, RewriteResult(args, hw, auto).target)
                /\ CodecFormat(RewriteResult(args, hw, auto).target) = Asked(args, hw)
<1> DEFINE response == EngineRewrite(args, hw, auto)
           result == RewriteResult(args, hw, auto)
<1>1. Untouched(args).target = None /\ Untouched(args).error = None
  BY DEF Untouched, Response
<1>2. /\ OrSoftware(args, hw, response).error \in {None, "encoder_unsupported"}
      /\ OrSoftware(args, hw, response).target \in {None, response.target}
  <2> HIDE DEF response
  <2> QED
    BY DEF OrSoftware, Response
<1>3. result \in {Untouched(args), OrSoftware(args, hw, response)}
  BY DEF RewriteResult
<1>4. response.target # None => HasEncoder(hw, response.target) /\ CodecFormat(response.target) = Asked(args, hw)
  BY EngineTarget
<1> HIDE DEF response, result
<1> QED
  BY <1>1, <1>2, <1>3, <1>4 DEF result

-----------------------------------------------------------------------------
(* The specification *)

(* The outcome is that of the job being served, on the capabilities the     *)
(* worker registered with.                                                  *)
Served ==
    /\ caps = NoCaps => job = NoJob
    /\ job = NoJob => outcome = Pending
    /\ outcome # Pending => outcome = RewriteResult(BuildArgs(job.args, job.inputs, job.output), caps, job.auto)

RewriteInv == TypeOK /\ Served

(* A job is none, refused or dispatched. *)
LEMMA JobKinds ==
    ASSUME NEW parsed, NEW auto
    PROVE  /\ Dispatched(parsed, auto).kind \in {"refused", "job"}
           /\ Dispatched(parsed, auto) # NoJob
BY DEF Dispatched, Refused, NoJob

(* What the capabilities say, registered or not. *)
LEMMA SaneCaps == TypeOK => Sane(caps)
<1>1. Sane(NoCaps)
  BY DEF NoCaps, Sane
<1> QED
  BY <1>1, DetectedCaps DEF TypeOK

(* Nothing is being served at the start. *)
LEMMA RewriteInit == Init => RewriteInv
BY DEF Init, RewriteInv, TypeOK, Served, NoJob

(* Every step serves the job it has. *)
LEMMA RewriteStep == RewriteInv /\ [Next]_vars => RewriteInv'
<1> SUFFICES ASSUME RewriteInv, [Next]_vars PROVE RewriteInv'
  OBVIOUS
<1>1. TypeOK /\ Served /\ Sane(caps)
  BY SaneCaps DEF RewriteInv
<1>2. ASSUME NEW m \in Machines, Register(m) PROVE RewriteInv'
  BY <1>1, <1>2 DEF Register, RewriteInv, TypeOK, Served
<1>3. ASSUME NEW cmd \in Commands \cup {a.args : a \in APIArgs}, NEW parsed, NEW auto,
             caps # NoCaps, job = NoJob, typed' = cmd, job' = Dispatched(parsed, auto),
             UNCHANGED <<caps, outcome>>
      PROVE  RewriteInv'
  BY <1>1, <1>3, JobKinds DEF RewriteInv, TypeOK, Served
<1>4. ASSUME NEW cmd \in Commands, NEW auto, Submit(cmd, auto) PROVE RewriteInv'
  BY <1>3, <1>4 DEF Submit
<1>5. ASSUME NEW a \in APIArgs, NEW auto, SubmitAPI(a, auto) PROVE RewriteInv'
  BY <1>3, <1>5 DEF SubmitAPI
<1>6. CASE RewriteArgs
  <2>1. /\ outcome' = RewriteResult(BuildArgs(job.args, job.inputs, job.output), caps, job.auto)
        /\ UNCHANGED <<caps, typed, job>> /\ job # NoJob
    BY <1>6 DEF RewriteArgs, NoJob
  <2>2. outcome'.error \in {None, "encoder_unsupported"}
    BY <1>1, <2>1, AdapterTarget
  <2> QED
    BY <1>1, <2>1, <2>2 DEF RewriteInv, TypeOK, Served
<1>7. CASE Finish
  BY <1>1, <1>7 DEF Finish, RewriteInv, TypeOK, Served, NoJob
<1>8. CASE UNCHANGED vars
  BY <1>1, <1>8 DEF vars, RewriteInv, TypeOK, Served
<1> QED
  BY <1>2, <1>4, <1>5, <1>6, <1>7, <1>8 DEF Next

(* The outcome of every reachable state is that of its job. *)
LEMMA RewriteInvariance == Spec => []RewriteInv
BY RewriteInit, RewriteStep, PTL DEF Spec

(* A rewrite fails only for an encoder nobody knows (FallbackToSoftware),   *)
(* for every machine and command line.                                      *)
THEOREM RewriteTypeCorrect == Spec => []TypeOK
BY RewriteInvariance, PTL DEF RewriteInv

(* The target of a rewrite is an encoder this worker has, of the codec the  *)
(* arguments or the container ask for, and not a blacklisted one unless a   *)
(* manual list names it (Classify, SelectTargetEncoder), for every machine  *)
(* and command line.                                                        *)
THEOREM TargetsFit == Spec => []TargetFits
<1>1. RewriteInv => TargetFits
  <2> SUFFICES ASSUME TypeOK, Served, Rewritten, outcome.target # None
               PROVE  LET args == BuildArgs(job.args, job.inputs, job.output)
                          enc == parseEncoderFromArgs(args, caps)
                      IN  /\ HasEncoder(caps, outcome.target)
                          /\ IF enc = None
                             THEN CodecFormat(outcome.target) = DefaultVideoCodec(OutputFormat(args))
                             ELSE CodecFormat(outcome.target) = CodecFormat(enc)
                          /\ \E m \in Machines : /\ caps = DetectWithConfig(m)
                                                /\ m.manual = <<>> => outcome.target \notin m.blacklist
    BY DEF RewriteInv, TargetFits
  <2> DEFINE args == BuildArgs(job.args, job.inputs, job.output)
  <2>1. outcome = RewriteResult(args, caps, job.auto) /\ caps # NoCaps
    BY DEF Served, Rewritten
  <2>2. HasEncoder(caps, outcome.target) /\ CodecFormat(outcome.target) = Asked(args, caps)
    BY <2>1, SaneCaps, AdapterTarget
  <2>3. PICK m \in Machines : caps = DetectWithConfig(m)
    BY <2>1 DEF TypeOK
  <2>4. m.manual = <<>> => outcome.target \notin m.blacklist
    BY <2>2, <2>3, DetectedCaps DEF HasEncoder
  <2> QED
    BY <2>2, <2>3, <2>4 DEF Asked
<1> QED
  BY <1>1, RewriteInvariance, PTL
=============================================================================
