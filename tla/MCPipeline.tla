----------------------------- MODULE MCPipeline -----------------------------
(* Instances of Pipeline for TLC. *)
EXTENDS Pipeline

Page(mode, format, audioFx, videoFx) ==
    [audioOnly |-> FALSE, videoFormat |-> format, recordingMode |-> mode,
     audioFx |-> audioFx, videoFx |-> videoFx]

\* Every branch of the template's choice and of updateRecordingFiles, and each
\* of them with the effects that change what is written.
MCSetups ==
    {[Page(Absent, Absent, a, FALSE) EXCEPT !.audioOnly = TRUE] : a \in BOOLEAN} \X BOOLEAN
    \union ({Page(m, "VP8", FALSE, FALSE) : m \in {"none", "direct", "bypass", "free", Absent}}
            \union {Page(m, "H264", TRUE, FALSE) : m \in {"forced", "split", "rtpbin_only"}}
            \union {Page(m, "other", FALSE, TRUE) : m \in {"reenc", "split", "other"}}
            \union {Page("split", Absent, TRUE, TRUE)}) \X {FALSE}
    \union {Page(m, "H264", FALSE, TRUE) : m \in {"forced", "split"}} \X {TRUE}

\* A page that leaves everything out.
MCDefault == {<<Page(Absent, Absent, FALSE, FALSE), FALSE>>}
=============================================================================
