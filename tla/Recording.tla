----------------------------- MODULE Recording -----------------------------
(***************************************************************************)
(* From the options of a page to the files of a recording: what the player *)
(* and the websocket make of the peer options (ducksoup.js, ws_conn.go),   *)
(* which template the pipeline is built from and which files that template *)
(* writes (gst/template.go, config/pipelines), and which files the server  *)
(* believes that it writes (gst/pipeline.go).  There is no state here: the *)
(* module Pipeline runs on these definitions.                              *)
(***************************************************************************)
EXTENDS FiniteSets

Absent == "absent"

VideoFormats   == {"VP8", "H264"}
RecordingModes == {"forced", "free", "reenc", "split", "rtpbin_only", "none", "direct", "bypass"}

\* What a page may give: "other" stands for whatever nobody expects.
PeerOptions ==
    [audioOnly     : BOOLEAN,
     videoFormat   : VideoFormats \union {"other", Absent},
     recordingMode : RecordingModes \union {"other", Absent},
     audioFx       : BOOLEAN,
     videoFx       : BOOLEAN]

----------------------------------------------------------------------------
(* The join payload.                                                       *)

parseJoinPayload(o) ==
    [o EXCEPT !.videoFormat = IF @ \in VideoFormats THEN @ ELSE Absent]

defaultVideoFormat   == "H264"
defaultRecordingMode == "muxed"

parseVideoFormat(f) == IF f \in VideoFormats THEN f ELSE defaultVideoFormat

parseRecordingMode(m) == IF m \in RecordingModes THEN m ELSE defaultRecordingMode

readJoin(o) ==
    [o EXCEPT !.videoFormat   = parseVideoFormat(@),
              !.recordingMode = parseRecordingMode(@)]

----------------------------------------------------------------------------
(* The template, and what it writes.                                       *)

\* Without the cases that render "audio_only" templates.
VideoTemplate(jp) ==
    CASE jp.recordingMode = "split"                 -> "split"
      [] jp.recordingMode = "rtpbin_only"           -> "rtpbin_only"
      [] jp.recordingMode = "none"                  -> "no_recording"
      [] jp.recordingMode = "reenc"                 -> "muxed_reenc_dry"
      [] jp.recordingMode = "free"                  -> "muxed_free_framerate"
      [] jp.recordingMode \in {"forced", "direct", "bypass", defaultRecordingMode} ->
            IF jp.videoFormat = "VP8" THEN "muxed_reenc_dry" ELSE "muxed_forced_framerate"

TemplateName(jp, noRecording) ==
    IF jp.audioOnly
    THEN IF noRecording THEN "audio_only_no_recording" ELSE "audio_only"
    ELSE IF noRecording THEN "no_recording" ELSE VideoTemplate(jp)

Where(condition, files) == IF condition THEN files ELSE {}

\* The files of the filesinks of a template, each named after its sink.
SinkFiles(template, jp) ==
    CASE template = "audio_only" ->
            {"audio-dry"} \union Where(jp.audioFx, {"audio-wet"})
      [] template = "split" ->
            {"audio-dry", "video-dry"} \union Where(jp.audioFx, {"audio-wet"})
                                       \union Where(jp.videoFx, {"video-wet"})
      [] template \in {"muxed_forced_framerate", "muxed_free_framerate", "muxed_reenc_dry"} ->
            {"dry"} \union Where(jp.audioFx \/ jp.videoFx, {"wet"})
      [] template \in {"audio_only_no_recording", "no_recording", "rtpbin_only"} -> {}

\* The filesinks of audio_only.gtpl have no name: nobody can find them.
NamedSinks_WetUnnamed(template, jp) == SinkFiles(template, jp) \ {"wet", "audio-dry", "audio-wet"}
NamedSinks(template, jp) == IF template = "audio_only" THEN {} ELSE SinkFiles(template, jp)

FileNames == {"dry", "wet", "audio-dry", "audio-wet", "video-dry", "video-wet"}

----------------------------------------------------------------------------
(* The files that updateRecordingFiles names.                              *)

muxedModes_NoReenc == {"forced", "free"}
muxedModes == {"forced", "free", "reenc"}

NamedFiles(jp) ==
    LET hasWetFiles == jp.audioFx \/ jp.videoFx IN
    CASE jp.audioOnly -> {"audio-dry"} \union Where(hasWetFiles, {"audio-wet"})
      [] ~jp.audioOnly /\ jp.recordingMode \in muxedModes ->
            {"dry"} \union Where(hasWetFiles, {"wet"})
      [] ~jp.audioOnly /\ jp.recordingMode = "split" ->
            {"audio-dry", "video-dry"} \union Where(hasWetFiles, {"audio-wet", "video-wet"})
      [] ~jp.audioOnly /\ jp.recordingMode \notin muxedModes \union {"split"} -> {}
============================================================================
