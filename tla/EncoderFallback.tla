--------------------------- MODULE EncoderFallback ---------------------------
(***************************************************************************)
(* The worker's software fallback (src/pkg/worker/encoder_fallback.go):    *)
(* which encoder a failed ffmpeg run may be repeated with.  An encoder is  *)
(* its name; None stands for the empty string and for the nil argument     *)
(* list, both of which mean "no encoder to switch to".                     *)
(***************************************************************************)

None == "none"

\* defaultHardwareToSoftwareMap.
HardwareToSoftware ==
    [h264_nvenc |-> "libx264", h264_qsv |-> "libx264", h264_vaapi |-> "libx264",
     h264_amf |-> "libx264", h264_videotoolbox |-> "libx264",
     hevc_nvenc |-> "libx265", hevc_qsv |-> "libx265", hevc_vaapi |-> "libx265",
     hevc_amf |-> "libx265", hevc_videotoolbox |-> "libx265",
     vp9_vaapi |-> "libvpx-vp9", vp9_qsv |-> "libvpx-vp9", vp9_videotoolbox |-> "libvpx-vp9",
     av1_nvenc |-> "libaom-av1", av1_qsv |-> "libaom-av1", av1_vaapi |-> "libaom-av1",
     av1_amf |-> "libaom-av1", vp8_vaapi |-> "libvpx", mpeg2_vaapi |-> "mpeg2video"]

\* inferSoftwareEncoder on hardware names the table above does not list: the
\* codec is read out of the name, and a codec it does not know gives none.
inferSoftwareEncoder ==
    [h264_vdpau |-> "libx264", hevc_vdpau |-> "libx265", vp9_nvenc |-> "libvpx-vp9",
     av1_videotoolbox |-> "libaom-av1", mjpeg_qsv |-> None]

HardwareEncoders == DOMAIN HardwareToSoftware \cup DOMAIN inferSoftwareEncoder

\* The encoders of defaultFormatEncodersMap and the targets of the table
\* above: what IsKnownSoftwareEncoder recognises.
KnownSoftwareEncoders ==
    {"libx264", "libx264rgb", "libx265", "libvpx-vp9", "libaom-av1", "libsvtav1",
     "libvpx", "mpeg2video", "mpeg4", "mjpeg"}

IsHardwareEncoder(e) == e \in HardwareEncoders

IsKnownSoftwareEncoder(e) == e \in KnownSoftwareEncoders

\* GetEncoderFamily: the codec format, with VP8 and VP9 merged.
EncodersOfFamily ==
    [h264  |-> {"h264_nvenc", "h264_qsv", "h264_vaapi", "h264_amf", "h264_videotoolbox",
                "h264_vdpau", "libx264", "libx264rgb"},
     hevc  |-> {"hevc_nvenc", "hevc_qsv", "hevc_vaapi", "hevc_amf", "hevc_videotoolbox",
                "hevc_vdpau", "libx265"},
     vpx   |-> {"vp9_vaapi", "vp9_qsv", "vp9_videotoolbox", "vp9_nvenc", "vp8_vaapi",
                "libvpx-vp9", "libvpx"},
     av1   |-> {"av1_nvenc", "av1_qsv", "av1_vaapi", "av1_amf", "av1_videotoolbox",
                "libaom-av1", "libsvtav1"},
     mpeg2 |-> {"mpeg2_vaapi", "mpeg2video"},
     mpeg4 |-> {"mpeg4"},
     mjpeg |-> {"mjpeg", "mjpeg_qsv"}]

GetEncoderFamily(e) ==
    IF \E f \in DOMAIN EncodersOfFamily : e \in EncodersOfFamily[f]
      THEN CHOOSE f \in DOMAIN EncodersOfFamily : e \in EncodersOfFamily[f]
      ELSE None

\* GetSoftwareEncoder: a name that is not hardware is its own equivalent.
GetSoftwareEncoder(e) ==
    CASE e \in DOMAIN HardwareToSoftware   -> HardwareToSoftware[e]
      [] e \in DOMAIN inferSoftwareEncoder -> inferSoftwareEncoder[e]
      [] OTHER                             -> e

\* defaultSoftwareFallbackChain.
SoftwareFallbackChain(e) ==
    CASE e = "libaom-av1" -> "libsvtav1"
      [] e = "libx264rgb" -> "libx264"
      [] OTHER            -> None

\* GetAlternativeSoftwareEncoder: the next link, refused when it would change
\* the codec family or when a family is unknown.
GetAlternativeSoftwareEncoder(e) ==
    LET next == SoftwareFallbackChain(e)
    IN  IF next = None \/ GetEncoderFamily(e) = None
             \/ GetEncoderFamily(e) # GetEncoderFamily(next)
          THEN None
          ELSE next

\* inferSoftwareEncoderFromContext: by the container of the output.
inferSoftwareEncoderFromContext(container) ==
    CASE container = "mp4"  -> "libx264"
      [] container = "webm" -> "libvpx-vp9"
      [] OTHER              -> None

\* Mutant: a known software encoder has an alternative whoever chose it.
PrepareFallbackForAll(e, container, isFallback) ==
    LET sw == GetSoftwareEncoder(e)
    IN  IF e \in {None, "copy"} THEN None
        ELSE IF sw = e THEN GetAlternativeSoftwareEncoder(e) ELSE sw

\* prepareFallbackArgsWithSource: the encoder of the fallback command line, or
\* None when there is none.  A software encoder the user chose is never
\* replaced; an encoder the worker itself fell back to may be.
PrepareFallback(e, container, isFallback) ==
    LET sw == GetSoftwareEncoder(e)
    IN  CASE e \in {None, "copy"} -> None
          [] e \notin {None, "copy"} /\ sw \notin {None, e} -> sw
          [] e \notin {None, "copy"} /\ sw \in {None, e} /\ IsKnownSoftwareEncoder(e) ->
               IF isFallback THEN GetAlternativeSoftwareEncoder(e) ELSE None
          [] OTHER ->
               IF inferSoftwareEncoderFromContext(container) # None
                 THEN inferSoftwareEncoderFromContext(container)
                 ELSE "libx264"
=============================================================================
