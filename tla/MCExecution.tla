----------------------------- MODULE MCExecution -----------------------------
EXTENDS Execution

Job(mode, policy, encoder, container, exists, timed) ==
    [mode |-> mode, policy |-> policy, encoder |-> encoder, container |-> container,
     exists |-> exists, timed |-> timed]

\* Every kind of output, overwrite policy and encoder at least once.
MCJobs ==
    {Job("upload", "ask", "h264_nvenc", "mp4", FALSE, TRUE),
     Job("upload", "force", "av1_qsv", "mp4", FALSE, FALSE),
     Job("upload", "ask", "libaom-av1", "mp4", FALSE, FALSE),
     Job("upload", "ask", "exotic", "webm", FALSE, FALSE),
     Job("upload", "ask", "copy", "mp4", FALSE, FALSE),
     Job("direct", "force", "h264_vaapi", "mp4", TRUE, FALSE),
     Job("direct", "never", "libx264", "mp4", TRUE, FALSE),
     Job("direct", "ask", "mjpeg_qsv", "other", FALSE, FALSE),
     Job("direct", "conflict", "libx264", "mp4", FALSE, FALSE),
     Job("stream", "ask", "hevc_qsv", "mp4", FALSE, TRUE),
     Job("net", "ask", "h264_vdpau", "other", FALSE, FALSE)}

MCStagedJobs == {Job("direct", "force", "libx264", "mp4", FALSE, FALSE)}

MCUserJobs == {Job("direct", "ask", "libx264", "mp4", TRUE, FALSE)}
=============================================================================
