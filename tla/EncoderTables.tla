---------------------------- MODULE EncoderTables ----------------------------
(***************************************************************************)
(* What the worker knows about video encoders (src/pkg/encoder): the codec *)
(* and the GPU vendor of each, the names a parameter has on a hardware     *)
(* encoder, how its value is converted, and the parameters a hardware      *)
(* encoder is given in addition.  Names and values are strings; None is    *)
(* the empty string.  The rules registerParameterTranslations lists for a  *)
(* pair of encoders repeat rows of the target's name table, so one lookup  *)
(* stands for both.                                                        *)
(***************************************************************************)
EXTENDS Integers, TLC

\* The largest number a parameter's value is recognised as.
MaxNumeral == 63

None == ""

H264 == {"libx264", "h264_nvenc", "h264_qsv", "h264_vaapi", "h264_amf", "h264_videotoolbox"}
HEVC == {"libx265", "hevc_nvenc", "hevc_qsv", "hevc_vaapi", "hevc_amf", "hevc_videotoolbox"}
VP9 == {"libvpx-vp9", "vp9_nvenc", "vp9_qsv", "vp9_vaapi"}
AV1 == {"libsvtav1", "libaom-av1", "av1_nvenc", "av1_qsv", "av1_vaapi"}

CodecFormat(enc) ==
    CASE enc \in H264 -> "h264"
      [] enc \in HEVC -> "hevc"
      [] enc \in VP9 -> "vp9"
      [] enc \in AV1 -> "av1"
      [] enc \in {"libvpx", "vp8_vaapi"} -> "vp8"
      [] enc \in {"mpeg2video", "mpeg2_vaapi"} -> "mpeg2video"
      [] enc = "mpeg4" -> "mpeg4"
      [] OTHER -> None

\* The encoders the translator knows.
Registered(enc) == CodecFormat(enc) # None

IsNVENC(enc) == enc \in {"h264_nvenc", "hevc_nvenc", "vp9_nvenc", "av1_nvenc"}
IsQSV(enc) == enc \in {"h264_qsv", "hevc_qsv", "vp9_qsv", "av1_qsv"}
IsVAAPI(enc) == enc \in {"h264_vaapi", "hevc_vaapi", "vp9_vaapi", "av1_vaapi", "vp8_vaapi", "mpeg2_vaapi"}
IsAMF(enc) == enc \in {"h264_amf", "hevc_amf"}
IsVT(enc) == enc \in {"h264_videotoolbox", "hevc_videotoolbox"}

GPUVendor(enc) ==
    CASE IsNVENC(enc) -> "NVIDIA"
      [] IsQSV(enc) -> "Intel"
      [] IsVAAPI(enc) \/ IsAMF(enc) -> "AMD"
      [] IsVT(enc) -> "Apple"
      [] OTHER -> None

IsHardware(enc) == GPUVendor(enc) # None

SoftwareEncoderForCodec(codec) ==
    CASE codec = "h264" -> "libx264"
      [] codec = "hevc" -> "libx265"
      [] codec = "vp9" -> "libvpx-vp9"
      [] codec = "av1" -> "libsvtav1"
      [] codec = "vp8" -> "libvpx"
      [] codec \in {"mpeg2video", "mpeg4"} -> codec
      [] OTHER -> None

DefaultEncoderPriority ==
    <<"h264_nvenc", "h264_qsv", "h264_vaapi", "h264_amf", "h264_videotoolbox", "libx264",
      "hevc_nvenc", "hevc_qsv", "hevc_vaapi", "hevc_amf", "hevc_videotoolbox", "libx265",
      "vp9_nvenc", "vp9_qsv", "vp9_vaapi", "libvpx-vp9",
      "av1_nvenc", "av1_qsv", "av1_vaapi", "libsvtav1", "libaom-av1">>

-----------------------------------------------------------------------------
\* The name tables: a row to None declares the parameter unsupported.

Same(names) == [n \in names |-> n]

RateParams == {"qp", "profile", "b:v", "maxrate", "bufsize", "g"}

H264NameTranslations(enc) ==
    LET common == Same(RateParams \cup {"level", "bf", "refs"})
    IN  CASE enc = "h264_nvenc" -> [crf |-> "cq"] @@ Same({"preset", "tune"}) @@ common
          [] enc = "h264_qsv" -> [crf |-> "global_quality", cq |-> "global_quality", tune |-> None]
                                     @@ Same({"preset", "look_ahead"}) @@ common
          [] enc = "h264_vaapi" -> [crf |-> "quality", cq |-> "quality", preset |-> None, tune |-> None] @@ common
          [] enc = "h264_amf" -> [crf |-> "qp_i", preset |-> "quality", tune |-> None] @@ common
          [] enc = "h264_videotoolbox" -> [crf |-> "q:v", qp |-> "q:v", preset |-> None, tune |-> None] @@ common
          [] OTHER -> <<>>

HEVCNameTranslations(enc) ==
    LET common == Same(RateParams \cup {"level", "bf", "refs"})
    IN  CASE enc = "hevc_nvenc" -> [crf |-> "cq"] @@ Same({"preset", "tune"}) @@ common
          [] enc = "hevc_qsv" -> [crf |-> "global_quality", tune |-> None]
                                     @@ Same({"preset", "look_ahead"}) @@ common
          [] enc = "hevc_vaapi" -> [crf |-> "quality", preset |-> None, tune |-> None] @@ common
          [] enc = "hevc_amf" -> [crf |-> "qp_i", preset |-> "quality", tune |-> None] @@ common
          [] enc = "hevc_videotoolbox" -> [crf |-> "q:v", qp |-> "q:v", preset |-> None, tune |-> None] @@ common
          [] OTHER -> <<>>

VP9NameTranslations(enc) ==
    CASE enc = "vp9_nvenc" -> [crf |-> "cq"] @@ Same(RateParams)
      [] enc = "vp9_qsv" -> [crf |-> "global_quality"] @@ Same(RateParams)
      [] enc = "vp9_vaapi" -> [crf |-> "quality"] @@ Same(RateParams)
      [] OTHER -> <<>>

AV1NameTranslations(enc) ==
    LET common == Same(RateParams \cup {"level"})
    IN  CASE enc = "av1_nvenc" -> [crf |-> "cq", preset |-> "preset", speed |-> "preset"] @@ common
          [] enc = "av1_qsv" -> [crf |-> "global_quality", preset |-> "preset", speed |-> "preset"] @@ common
          [] enc = "av1_vaapi" -> [crf |-> "quality", speed |-> "speed"] @@ common
          [] enc = "libaom-av1" -> [crf |-> "crf", speed |-> "cpu-used"] @@ common
          [] OTHER -> <<>>

\* getCodecSpecificRule: source and target are always of one codec here, for
\* the classifier only ever picks an encoder of the requested family.
NameTranslations(enc) ==
    CASE CodecFormat(enc) = "h264" -> H264NameTranslations(enc)
      [] CodecFormat(enc) = "hevc" -> HEVCNameTranslations(enc)
      [] CodecFormat(enc) = "vp9" -> VP9NameTranslations(enc)
      [] CodecFormat(enc) = "av1" -> AV1NameTranslations(enc)
      [] OTHER -> <<>>

\* shouldPassThrough.
PassThrough == {"b:v", "maxrate", "bufsize", "g", "bf", "refs", "profile", "level", "qp"}

-----------------------------------------------------------------------------
\* The value converters.

Converted(v) == [ok |-> TRUE, value |-> v]
Unconvertible == [ok |-> FALSE, value |-> None]

Numerals == {ToString(n) : n \in 0 .. MaxNumeral}
IsNumber(v) == v \in Numerals
NumberOf(v) == CHOOSE n \in 0 .. MaxNumeral : ToString(n) = v

\* Look a value up in a table, passing an unknown one through.
OrSame(table, v) == Converted(IF v \in DOMAIN table THEN table[v] ELSE v)

x264PresetToNVENC ==
    [ultrafast |-> "p1", superfast |-> "p2", veryfast |-> "p3", faster |-> "p4", fast |-> "p5",
     medium |-> "p6", slow |-> "p7", slower |-> "p7", veryslow |-> "p7", placebo |-> "p7"]

x264PresetToQSV ==
    [ultrafast |-> "7", superfast |-> "7", veryfast |-> "7", faster |-> "6", fast |-> "6",
     medium |-> "4", slow |-> "3", slower |-> "2", veryslow |-> "1", placebo |-> "1"]

x264PresetToAMF ==
    [ultrafast |-> "speed", superfast |-> "speed", veryfast |-> "speed", faster |-> "balanced",
     fast |-> "balanced", medium |-> "balanced", slow |-> "quality", slower |-> "quality",
     veryslow |-> "quality", placebo |-> "quality"]

\* crfToVAAPIQualityConverter and its VP9 and AV1 forms: 0 .. scale is turned
\* into 100 .. 0, and a value that is no number is an error.
crfToVAAPIQuality(v, scale) ==
    IF ~IsNumber(v) THEN Unconvertible
    ELSE LET q == 100 - (NumberOf(v) * 100) \div scale
         IN  Converted(ToString(IF q < 0 THEN 0 ELSE q))

svtav1PresetToNVENC(v) ==
    IF ~IsNumber(v) \/ NumberOf(v) > 13 THEN Unconvertible
    ELSE LET n == NumberOf(v)
         IN  Converted(CASE n \in 0 .. 3 -> "p7" [] n \in 4 .. 5 -> "p6" [] n \in 6 .. 7 -> "p5"
                         [] n \in 8 .. 9 -> "p4" [] n \in 10 .. 11 -> "p3" [] n = 12 -> "p2" [] n = 13 -> "p1")

svtav1SpeedToCPUsed(v) ==
    IF ~IsNumber(v) \/ NumberOf(v) > 13 THEN Unconvertible
    ELSE Converted(IF NumberOf(v) > 8 THEN "8" ELSE v)

av1PresetToNVENC(v) == IF IsNumber(v) THEN svtav1PresetToNVENC(v) ELSE OrSame(x264PresetToNVENC, v)

\* Which parameters of a target have a converter, the identity included
\* (a converter's name in the audit record marks a value as converted).
HasConverter(enc, param) ==
    \/ param = "crf" /\ (IsNVENC(enc) \/ IsQSV(enc) \/ (IsVAAPI(enc) /\ CodecFormat(enc) \notin {"vp8", "mpeg2video"}))
    \/ param = "preset" /\ CodecFormat(enc) \in {"h264", "hevc"} /\ (IsNVENC(enc) \/ IsQSV(enc) \/ IsAMF(enc))
    \/ param \in {"preset", "speed"} /\ enc = "av1_nvenc"
    \/ param = "speed" /\ enc = "libaom-av1"

ConvertH264HEVC(enc, param, v) ==
    CASE param = "crf" /\ IsVAAPI(enc) -> crfToVAAPIQuality(v, 51)
      [] param = "preset" /\ IsNVENC(enc) -> OrSame(x264PresetToNVENC, v)
      [] param = "preset" /\ IsQSV(enc) -> OrSame(x264PresetToQSV, v)
      [] param = "preset" /\ IsAMF(enc) -> OrSame(x264PresetToAMF, v)
      [] OTHER -> Converted(v)

ConvertVP9AV1(enc, param, v) ==
    CASE param = "crf" /\ IsVAAPI(enc) -> crfToVAAPIQuality(v, 63)
      [] param = "preset" /\ enc = "av1_nvenc" -> av1PresetToNVENC(v)
      [] param = "speed" /\ enc = "av1_nvenc" -> svtav1PresetToNVENC(v)
      [] param = "speed" /\ enc = "libaom-av1" -> svtav1SpeedToCPUsed(v)
      [] OTHER -> Converted(v)

Convert(enc, param, v) ==
    IF CodecFormat(enc) \in {"h264", "hevc"} THEN ConvertH264HEVC(enc, param, v)
                                             ELSE ConvertVP9AV1(enc, param, v)

-----------------------------------------------------------------------------
\* translateSingleParam: the fate of one parameter on its way to enc.

Fate(status, name, value, converted) ==
    [status |-> status, name |-> name, value |-> value, converted |-> converted]

translateSingleParam(enc, param, v) ==
    LET table == NameTranslations(enc)
        result == Convert(enc, param, v)
    IN  CASE param \notin DOMAIN table /\ param \in PassThrough -> Fate("success", param, v, FALSE)
          [] param \notin DOMAIN table /\ param \notin PassThrough -> Fate("unknown", None, None, FALSE)
          [] param \in DOMAIN table /\ table[param] = None -> Fate("unsupported", None, None, FALSE)
          [] OTHER -> IF result.ok
                      THEN Fate("success", table[param], result.value, HasConverter(enc, param))
                      ELSE Fate("failed", table[param], None, FALSE)

\* registerHardwareParams, with the parameters each gives way to.
HardwareParams(enc) ==
    CASE IsNVENC(enc) /\ enc # "vp9_nvenc" ->
             [name |-> "rc", value |-> "constqp", conflicts |-> {"cq", "global_quality", "quality"}]
      [] IsQSV(enc) /\ enc # "vp9_qsv" -> [name |-> "async_depth", value |-> "4", conflicts |-> {}]
      [] IsVAAPI(enc) /\ enc \notin {"vp8_vaapi", "mpeg2_vaapi"} ->
             [name |-> "async_depth", value |-> "4", conflicts |-> {}]
      [] IsAMF(enc) -> [name |-> "usage", value |-> "transcoding", conflicts |-> {}]
      [] IsVT(enc) -> [name |-> "allow_sw", value |-> "1", conflicts |-> {}]
      [] OTHER -> [name |-> None, value |-> None, conflicts |-> {}]

\* getHardwareParamsForEncoder: what the injector adds for a device path
\* (None when no device was found).
InjectedParams(enc, path) ==
    LET onDevice(names) == IF path = None THEN <<>> ELSE [n \in names |-> path]
    IN  CASE IsNVENC(enc) -> onDevice({"gpu"}) @@ [delay |-> "0", zerolatency |-> "1"]
          [] IsQSV(enc) -> onDevice({"init_hw_device", "qsv_device"}) @@ [async_depth |-> "1"]
          [] IsVAAPI(enc) -> onDevice({"vaapi_device"}) @@ [pix_fmt |-> "vaapi"]
          [] IsAMF(enc) -> [rc |-> "cqp", quality |-> "balanced"]
          [] OTHER -> <<>>
=============================================================================
