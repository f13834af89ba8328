------------------------------ MODULE MCRewrite ------------------------------
(* Machines and command lines for Rewrite. *)
EXTENDS Rewrite

Device(type, vendor, accessible, healthy) ==
    [type |-> type, vendor |-> vendor, path |-> type, accessible |-> accessible, healthy |-> healthy]

Machine(encoders, devices) ==
    [encoders |-> encoders, devices |-> devices, manual |-> <<>>, priority |-> <<>>, blacklist |-> {}]

Software == <<"libx264", "libx265", "libvpx-vp9", "libsvtav1", "mpeg4", "libxvid">>
AllNVENC == <<"h264_nvenc", "hevc_nvenc", "av1_nvenc">>
AllQSV == <<"mjpeg_qsv", "h264_qsv", "hevc_qsv", "vp9_qsv", "av1_qsv">>
AllVAAPI == <<"h264_vaapi", "hevc_vaapi", "vp9_vaapi", "av1_vaapi">>

\* Software only; NVENC; QSV; QSV with a broken runtime beside VA-API; VA-API
\* alone without libx264; AMF; NVENC blacklisted; and a manual list.
MCMachines ==
    {Machine(Software \o AllNVENC, <<>>),
     Machine(Software \o AllNVENC, <<Device("nvenc", "NVIDIA", TRUE, TRUE)>>),
     Machine(Software \o AllQSV, <<Device("qsv", "Intel", TRUE, TRUE)>>),
     Machine(Software \o AllQSV \o AllVAAPI, <<Device("qsv", "Intel", TRUE, FALSE), Device("vaapi", "Intel", TRUE, FALSE)>>),
     Machine(AllVAAPI \o <<"libaom-av1">>, <<Device("vaapi", "AMD", TRUE, TRUE)>>),
     Machine(Software \o <<"h264_amf", "hevc_amf">>, <<Device("vaapi", "AMD", FALSE, TRUE), Device("amf", "AMD", TRUE, TRUE)>>),
     [Machine(Software \o AllNVENC \o AllQSV, <<Device("nvenc", "NVIDIA", TRUE, TRUE), Device("qsv", "Intel", TRUE, TRUE)>>)
         EXCEPT !.blacklist = {"h264_nvenc", "libx265"}, !.priority = <<"h264_nvenc", "h264_qsv", "hevc_nvenc">>],
     [Machine(Software, <<>>) EXCEPT !.manual = <<"libx264", "h264_nvenc">>]}

Opt(name, value) == <<Flag(name), Word(value)>>
InputFile == Opt("i", "in.mkv")

Openings == {<<>>, <<Flag("ss"), Flag("5")>>, Opt("hwaccel", "cuda"), <<Flag("y")>>}

Encoders ==
    {<<>>, Opt("c:v", "libx264"), Opt("c", "libx265"), Opt("vcodec", "libx264"),
     Opt("c", "copy") \o Opt("c:v:0", "libx264"), Opt("c:v", "h264_nvenc"), Opt("c:v", "bogus"),
     Opt("c:v", "copy"), <<Inline("c:v", "libx264")>>, Opt("c:v", "libsvtav1"), Opt("c:v", "libxvid"),
     Opt("c:v", "libx264") \o Opt("c:v", "h264_qsv")}

Params ==
    {<<>>, Opt("crf", "23"), <<Inline("crf", "23")>>, Opt("crf", "abc"), Opt("crf:v", "20"),
     Opt("preset", "fast"), <<Inline("preset", "fast")>>, Opt("tune", "film"), Opt("b:v", "2M"), Opt("cq", "20"),
     Opt("quality", "good"), Opt("speed", "5"), Opt("async_depth", "2"), Opt("rc", "vbr"),
     <<Flag("map"), Flag("0:a")>>, Opt("map", "0:a"), <<Flag("vn")>>, <<Flag("an")>>}

Outputs == {<<Word("out.mp4")>>, <<Word("out.webm")>>, <<Word("out.avi")>>, Opt("f", "mp4") \o <<Stdout>>,
            Opt("f", "mp4") \o <<Word("pipe:1")>>, Opt("o", "out.mp4")}

\* Pairs of parameters behind the plain spellings, single ones behind all.
MCCommands ==
    {InputFile \o e \o p \o q \o <<Word("out.mp4")>> :
        e \in {<<>>, Opt("c:v", "libx264")}, p \in Params, q \in Params}
    \cup {InputFile \o Opt("c:v", "libsvtav1") \o p \o q \o <<Word("out.webm")>> :
        p \in {Opt("speed", "5"), Opt("crf", "abc")}, q \in {Opt("preset", "fast"), Opt("preset", "8"), Opt("crf", "63")}}
    \cup {pre \o InputFile \o e \o Opt("crf", "23") \o out :
        pre \in Openings, e \in Encoders, out \in Outputs}
    \cup {InputFile \o e \o p \o <<Word("out.mp4")>> : e \in Encoders, p \in Params}
    \cup {<<Word("out.mp4")>>, InputFile, InputFile \o <<Flag("c:v")>>,
          InputFile \o <<Word("out.mp4"), Word("out.webm")>>, <<Flag("-input"), Word("in.mkv"), Word("out.mp4")>>,
          InputFile \o Opt("i", "in.wav") \o Opt("crf", "23") \o <<Word("out.mp4")>>}

APIJob(args, inputs) == [args |-> args, inputs |-> inputs, output |-> Word("out.mp4")]
Source == <<Flag("i"), Placeholder>>

\* The inputs by placeholder and by name, and one input for two places; the output
\* left to the server, at the end, behind "--", and in front of other flags.
MCAPIArgs ==
    {APIJob(from \o e \o p \o tail, <<Word("in.mkv")>>) :
        from \in {Source, InputFile},
        e \in {<<>>, Opt("c:v", "libx264")},
        p \in {<<>>, Opt("crf", "23"), Opt("preset", "fast")},
        tail \in {<<>>, <<Word("out.mp4")>>, <<Separator>>, <<Separator, Word("out.mp4")>>,
                 <<Word("out.mp4"), Flag("y")>>, <<Word("out.mp4"), Flag("y"), Flag("hide_banner")>>}}
    \cup {APIJob(Source \o Source \o Opt("c:v", "libx264"), inputs) :
        inputs \in {<<Word("in.mkv")>>, <<Word("in.mkv"), Word("in.wav")>>}}
    \cup {APIJob(InputFile \o Source, <<Word("in.wav")>>)}
=============================================================================
