------------------------------ MODULE Pipeline ------------------------------
(***************************************************************************)
(* The media pipeline of one peerServer: gst/pipeline.go, the pipeline     *)
(* store, the C functions of gst/gst.c that change its life, and the slice *)
(* goroutines of sfu/mixer_slice.go that bind to it, start it, feed it and *)
(* stop it.  The slices of a peer share the pipeline without a mutex until *)
(* Stop.  The bus watch runs in the GLib main loop, in a thread of its own.*)
(*                                                                         *)
(* A track output is a plain Go field: what one slice has written may stay *)
(* in its processor's store buffer while it reads the field of the other.  *)
(* interaction.start, called between Started and the main loop, is taken   *)
(* to return here; the module Interaction is about it.                     *)
(***************************************************************************)
EXTENDS Naturals, Recording

CONSTANTS
    Setups            \* peer options of a page, with DUCKSOUP_NO_RECORDING

ASSUME SetupsAssumption == Setups \subseteq PeerOptions \X BOOLEAN

VARIABLES
    page,             \* the peer options it was given
    noRecording,      \* env.NoRecording
    \* gst.Pipeline
    output,           \* per kind: "nil" | "buffered" | "visible"
    recordingFiles,   \* RecordingFiles, see Files
    startedCh,        \* closed?
    stoppedCount,
    indexed,          \* in the pipeline store
    \* the GstElement behind cPipeline
    state,
    failed,           \* an ERROR message was posted on its bus
    mainLoop,         \* where bus_callback is
    location,         \* per file: the prefix in the location of its filesink
    \* mixerSlice, per kind
    slice,            \* where loop is
    rtcp,             \* where loopReadRTCP is
    \* peerServer and interaction
    done,             \* doneCh of the peerServer is closed
    files,            \* what addFiles gave to the interaction
    \* the process
    panicked,
    misused           \* who used the pipeline after it was released, or "write"

options   == <<page, noRecording>>
goVars    == <<options, output, recordingFiles, startedCh, stoppedCount>>
gstVars   == <<indexed, state, failed, mainLoop, location>>
sliceVars == <<slice, rtcp, done, files>>
flagVars  == <<panicked, misused>>
vars      == <<goVars, gstVars, sliceVars, flagVars>>

AllKinds == {"audio", "video"}

jp       == readJoin(parseJoinPayload(page))
Kinds    == IF jp.audioOnly THEN {"audio"} ELSE AllKinds
template == TemplateName(jp, noRecording)

\* A path is a name with the prefix (filePrefix) of the moment it was made:
\* when the pipeline was parsed, or when a slice ran start.
Prefixes == {"parse"} \union AllKinds
Files    == FileNames \X Prefixes

GstStates ==
    {"parsed",
     "playing",
     "draining",   \* EOS event sent
     "null",       \* set to NULL by stop_pipeline, not unreferenced yet
     "released"}

SliceStates ==
    {"none",       \* loop not entered
     "checking",   \* output written, in updateReady
     "starting", "launching", "announcing",          \* in start
     "waiting",    \* for startedCh
     "looping",    \* main loop
     "stopping",   \* deferred close: before Stop
     "gststop", "forcing",                           \* in gstStopPipeline
     "closing",    \* Stop returned
     "closed"}     \* doneCh of the slice is closed

Init ==
    /\ \E s \in Setups : page = s[1] /\ noRecording = s[2]
    /\ output = [k \in AllKinds |-> "nil"]
    /\ recordingFiles = {}
    /\ startedCh = FALSE
    /\ stoppedCount = 0
    /\ indexed = TRUE
    /\ state = "parsed"
    /\ failed = FALSE
    /\ mainLoop = "idle"
    /\ location = [f \in FileNames |-> "parse"]
    /\ slice = [k \in AllKinds |-> "none"]
    /\ rtcp = [k \in AllKinds |-> "off"]
    /\ done = FALSE
    /\ files = {}
    /\ panicked = FALSE
    /\ misused = {}

MoveSlice(k, from, to) ==
    /\ slice[k] = from
    /\ slice' = [slice EXCEPT ![k] = to]

\* Using a released element is undefined behaviour: it is only recorded here.  What
\* nothing orders with Stop, RTCP and the control of effects, is used by "anyone".
Uses(who) ==
    misused' = IF state = "released" THEN misused \union {who} ELSE misused

----------------------------------------------------------------------------
(* Starting.                                                               *)

BindTrackAutoStart(k) ==
    /\ MoveSlice(k, "none", "checking")
    /\ output' = [output EXCEPT ![k] = "buffered"]
    /\ UNCHANGED <<options, recordingFiles, startedCh, stoppedCount, gstVars,
                   rtcp, done, files, flagVars>>

StoreBufferDrains(k) ==
    /\ output[k] = "buffered"
    /\ output' = [output EXCEPT ![k] = "visible"]
    /\ UNCHANGED <<options, recordingFiles, startedCh, stoppedCount, gstVars,
                   sliceVars, flagVars>>

\* A slice sees its own output, and the other's once it is visible.
SeesAllOutputs_OwnOnly(k) == TRUE
SeesAllOutputs(k) == \A o \in Kinds \ {k} : output[o] = "visible"

UpdateReady(k) ==
    /\ MoveSlice(k, "checking", IF SeesAllOutputs(k) THEN "starting" ELSE "waiting")
    /\ UNCHANGED <<goVars, gstVars, rtcp, done, files, flagVars>>

\* setPropString finds a filesink by its name, if it has one, and the filesink
\* takes no other location once its file is open.  Two slices that start the
\* pipeline both append to the same Go slice.
UpdateRecordingFiles(k) ==
    /\ MoveSlice(k, "starting", "launching")
    /\ LET mine == NamedFiles(jp) \X {k} IN
        recordingFiles' \in IF recordingFiles = {}
                             THEN {mine}
                             ELSE {recordingFiles, mine, recordingFiles \union mine}
    /\ location' = [f \in FileNames |->
                        IF state = "parsed" /\ f \in NamedFiles(jp) \intersect NamedSinks(template, jp)
                        THEN k ELSE location[f]]
    /\ Uses("start")
    /\ UNCHANGED <<options, output, startedCh, stoppedCount, indexed, state, failed, mainLoop,
                   rtcp, done, files, panicked>>

\* The cgo call also drains the caller's store buffer.
GstStartPipeline(k) ==
    /\ MoveSlice(k, "launching", "announcing")
    /\ output' = [output EXCEPT ![k] = "visible"]
    /\ state' = IF state = "released" THEN state ELSE "playing"
    /\ Uses("start")
    /\ UNCHANGED <<options, recordingFiles, startedCh, stoppedCount, indexed, failed,
                   mainLoop, location, rtcp, done, files, panicked>>

CloseStarted(k) ==
    /\ MoveSlice(k, "announcing", "waiting")
    /\ startedCh' = TRUE
    /\ panicked' = (panicked \/ startedCh)
    /\ UNCHANGED <<options, output, recordingFiles, stoppedCount, gstVars,
                   rtcp, done, files, misused>>

\* The slice passes Started(); the audio slice hands the files over.
EnterLoop(k) ==
    /\ startedCh
    /\ MoveSlice(k, "waiting", "looping")
    /\ files' = IF k = "audio" THEN files \union recordingFiles ELSE files
    /\ rtcp' = [rtcp EXCEPT ![k] = "on"]
    /\ UNCHANGED <<goVars, gstVars, done, flagVars>>

----------------------------------------------------------------------------
(* Feeding it, and what comes out.                                         *)

PushRTP(k) ==
    /\ slice[k] = "looping"
    /\ Uses("rtp")
    /\ UNCHANGED <<goVars, gstVars, sliceVars, panicked>>

\* loopReadRTCP tests the slice's doneCh, then blocks in ReadRTCP; the loops that
\* control the encoder and plot the buffers use the pipeline in the same way.
ReadRTCP(k) ==
    /\ rtcp[k] = "on"
    /\ rtcp' = [rtcp EXCEPT ![k] = IF slice[k] = "closed" THEN "off" ELSE "reading"]
    /\ UNCHANGED <<goVars, gstVars, slice, done, files, flagVars>>

PushRTCP(k) ==
    /\ rtcp[k] = "reading"
    /\ rtcp' = [rtcp EXCEPT ![k] = "on"]
    /\ Uses("anyone")
    /\ UNCHANGED <<goVars, gstVars, slice, done, files, panicked>>

ReadRTCPFails(k) ==
    /\ rtcp[k] = "reading"
    /\ rtcp' = [rtcp EXCEPT ![k] = "off"]
    /\ UNCHANGED <<goVars, gstVars, slice, done, files, flagVars>>

\* controlFx, of this user or another, and polycontrol: each in a goroutine of its
\* own, which looks neither at the pipeline nor, at first, at doneCh.
SetFxProp ==
    /\ Uses("anyone")
    /\ UNCHANGED <<goVars, gstVars, sliceVars, panicked>>

\* A sample of an appsink: the callback needs the pipeline and its output.
WriteTo(k) ==
    /\ state \in {"playing", "draining"}
    /\ misused' = IF indexed /\ output[k] # "nil" THEN misused ELSE misused \union {"write"}
    /\ UNCHANGED <<goVars, gstVars, sliceVars, panicked>>

----------------------------------------------------------------------------
(* Stopping.                                                               *)

PeerDone ==
    /\ ~done
    /\ done' = TRUE
    /\ UNCHANGED <<goVars, gstVars, slice, rtcp, files, flagVars>>

\* The main loop sees doneCh closed, or its track cannot be read any more.
LeaveLoop(k) ==
    /\ MoveSlice(k, "looping", "stopping")
    /\ UNCHANGED <<goVars, gstVars, rtcp, done, files, flagVars>>

\* nb_buff
AllStopped_FirstOne(n) == n = 1
AllStopped_EveryOne(n) == n >= 1
AllStopped_Never(n) == n > Cardinality(Kinds)
AllStopped(n) == n = Cardinality(Kinds)

Stop(k) ==
    /\ MoveSlice(k, "stopping", IF AllStopped(stoppedCount + 1) THEN "gststop" ELSE "closing")
    /\ stoppedCount' = stoppedCount + 1
    /\ UNCHANGED <<options, output, recordingFiles, startedCh, gstVars,
                   rtcp, done, files, flagVars>>

\* gst_element_get_state did not answer ASYNC: an EOS event is sent.
SendEOS_WhenPlaying(k) ==
    /\ state = "playing"
    /\ MoveSlice(k, "gststop", "closing")
    /\ state' = "draining"
    /\ UNCHANGED <<goVars, indexed, failed, mainLoop, location, rtcp, done, files, flagVars>>
SendEOS(k) ==
    /\ MoveSlice(k, "gststop", "closing")
    /\ state' = IF state = "playing" THEN "draining" ELSE state
    /\ Uses("stop")
    /\ UNCHANGED <<goVars, indexed, failed, mainLoop, location, rtcp, done, files, panicked>>

\* ... it did: stop_pipeline is called from the slice's goroutine.
ForceStop(k) ==
    /\ state \in {"playing", "null"}
    /\ MoveSlice(k, "gststop", "forcing")
    /\ state' = "null"
    /\ UNCHANGED <<goVars, indexed, failed, mainLoop, location, rtcp, done, files, flagVars>>

\* The second half of stop_pipeline: gst_object_unref and goDeletePipeline.
Release(who) ==
    /\ state' = "released"
    /\ indexed' = FALSE
    /\ Uses(who)

EndForceStop(k) ==
    /\ MoveSlice(k, "forcing", "closing")
    /\ Release("unref")
    /\ UNCHANGED <<goVars, failed, mainLoop, location, rtcp, done, files, panicked>>

CloseSlice(k) ==
    /\ MoveSlice(k, "closing", "closed")
    /\ UNCHANGED <<goVars, gstVars, rtcp, done, files, flagVars>>

\* GStreamer meets an error.
PostError ==
    /\ state \in {"playing", "draining"}
    /\ ~failed
    /\ failed' = TRUE
    /\ UNCHANGED <<goVars, indexed, state, mainLoop, location, sliceVars, flagVars>>

\* bus_callback gets EOS or ERROR; going to NULL flushes the bus.
BusCallback ==
    /\ mainLoop = "idle"
    /\ state = "draining" \/ (state = "playing" /\ failed)
    /\ mainLoop' = "stopping"
    /\ state' = "null"
    /\ UNCHANGED <<goVars, indexed, failed, location, sliceVars, flagVars>>

EndBusCallback ==
    /\ mainLoop = "stopping"
    /\ mainLoop' = "idle"
    /\ Release("unref")
    /\ UNCHANGED <<goVars, failed, location, sliceVars, panicked>>

----------------------------------------------------------------------------
SliceStep(k) ==
    \/ UpdateReady(k) \/ UpdateRecordingFiles(k) \/ GstStartPipeline(k) \/ CloseStarted(k)
    \/ EnterLoop(k)
    \/ Stop(k) \/ SendEOS(k) \/ ForceStop(k) \/ EndForceStop(k) \/ CloseSlice(k)

MainLoopStep == BusCallback \/ EndBusCallback

Next ==
    \/ \E k \in Kinds :
        \/ BindTrackAutoStart(k) \/ StoreBufferDrains(k)
        \/ SliceStep(k) \/ LeaveLoop(k)
        \/ PushRTP(k) \/ ReadRTCP(k) \/ PushRTCP(k) \/ ReadRTCPFails(k)
        \/ WriteTo(k)
    \/ SetFxProp
    \/ MainLoopStep
    \/ PostError
    \/ PeerDone

Spec == Init /\ [][Next]_vars

(***************************************************************************)
(* Goroutines that can run do run, a reader whose peer is done returns     *)
(* (its peer connection is closed), and GStreamer takes an EOS event to    *)
(* the bus.  Nothing says that a second track ever comes.                  *)
(***************************************************************************)
Fairness ==
    /\ \A k \in AllKinds :
        /\ WF_vars(k \in Kinds /\ SliceStep(k))
        /\ WF_vars(k \in Kinds /\ done /\ LeaveLoop(k))
    /\ WF_vars(MainLoopStep)

FairSpec == Spec /\ Fairness

----------------------------------------------------------------------------
Users == {"start", "rtp", "stop", "unref", "anyone"}

(* Type invariant (gst/pipeline.go:27-50, gst/gst.c:11-19).                *)
TypeOK ==
    /\ <<page, noRecording>> \in Setups
    /\ output \in [AllKinds -> {"nil", "buffered", "visible"}]
    /\ recordingFiles \subseteq Files /\ files \subseteq Files
    /\ startedCh \in BOOLEAN
    /\ stoppedCount \in Nat
    /\ indexed \in BOOLEAN
    /\ state \in GstStates
    /\ failed \in BOOLEAN
    /\ mainLoop \in {"idle", "stopping"}
    /\ location \in [FileNames -> Prefixes]
    /\ slice \in [AllKinds -> SliceStates]
    /\ rtcp \in [AllKinds -> {"off", "on", "reading"}]
    /\ done \in BOOLEAN
    /\ panicked \in BOOLEAN
    /\ misused \subseteq Users \union {"write"}

(* The rest of the inductive invariant: who has stopped, what a slice has  *)
(* seen before it starts the pipeline, and how the GstElement follows from *)
(* that as long as GStreamer does not fail.                                *)
Past     == {"gststop", "forcing", "closing", "closed"}
Stopping == {"gststop", "forcing"}

StopInv ==
    /\ stoppedCount = Cardinality({k \in Kinds : slice[k] \in Past})
    /\ \A k \in Kinds : slice[k] \in Stopping =>
            \A o \in Kinds : slice[o] \in Past /\ (slice[o] \in Stopping => o = k)

OutputInv ==
    /\ indexed <=> state # "released"
    /\ \A k \in Kinds : slice[k] # "none" => output[k] # "nil"
    /\ state # "parsed" \/ (\E k \in Kinds : slice[k] \in {"starting", "launching"}) =>
            \A k \in Kinds : output[k] # "nil"

StateInv ==
    /\ \A k \in Kinds : slice[k] \in {"looping", "stopping"} \union Past => startedCh
    /\ startedCh \/ mainLoop = "stopping" \/ (\E k \in Kinds : slice[k] = "announcing") =>
            state # "parsed"
    /\ \/ failed
       \/ /\ state \in {"draining", "null", "released"} =>
                \A k \in Kinds : slice[k] \in Past \ {"gststop"}
          /\ \A k \in Kinds : slice[k] = "forcing" => state = "null" /\ mainLoop = "idle"
          /\ mainLoop = "stopping" => state = "null"

(* The slices that have named the files and not yet announced the start.   *)
(* One such passage names the recording files and the sinks alike; with a  *)
(* second one, what is named is left open until startedCh is closed twice, *)
(* which panics.                                                           *)
Naming == {k \in Kinds : slice[k] \in {"launching", "announcing"}}

NamedBy(k) ==
    /\ recordingFiles = NamedFiles(jp) \X {k}
    /\ location = [f \in FileNames |->
                      IF f \in NamedFiles(jp) \intersect NamedSinks(template, jp)
                      THEN k ELSE "parse"]

NamedOnce == startedCh /\ Naming = {} /\ ~panicked

FilesInv ==
    /\ ~startedCh /\ Naming = {} =>
            /\ recordingFiles = {}
            /\ location = [f \in FileNames |-> "parse"]
            /\ state = "parsed"
    /\ \A k \in Kinds : ~startedCh /\ Naming = {k} => NamedBy(k)
    /\ NamedOnce => \E k \in Kinds : NamedBy(k)
    /\ IF slice["audio"] \in {"looping", "stopping"} \union Past
       THEN NamedOnce => files = recordingFiles
       ELSE files = {}

(* pipeline.go:215 "buffers will be pushed to appsrc and this should not   *)
(* happen before starting the pipeline", nor after stopping it: while a    *)
(* slice reads its track the pipeline plays, whatever the other slice does,*)
(* unless GStreamer failed.                                                *)
MediaMeetsAPlayingPipeline ==
    \A k \in Kinds : slice[k] = "looping" => state = "playing" \/ failed

(* A sample that leaves GStreamer always finds its pipeline in the store   *)
(* and an output to write to: writeTo (go_called_from_c.go:41-66) would    *)
(* dereference nil otherwise.                                              *)
CallbacksAreServed == "write" \notin misused

\* What start_pipeline opens stays on the disk under that name.
OnDisk ==
    IF state = "parsed" THEN {} ELSE {<<f, location[f]>> : f \in SinkFiles(template, jp)}

\* The audio slice has passed addFiles, and nobody starts the pipeline again.
Announced ==
    /\ slice["audio"] \in {"looping", "stopping", "gststop", "forcing", "closing", "closed"}
    /\ \A k \in Kinds : slice[k] \notin {"launching", "announcing"}
    /\ ~panicked

\* audio_only.gtpl gives its filesinks no name, NoRecording is not looked at, and
\* one effect makes wet files of both kinds.
NeverWritten ==
    IF jp.audioOnly \/ noRecording THEN FileNames
    ELSE {f \in {"audio-wet", "video-wet"} : f \notin SinkFiles(template, jp)}

(* README.md:55 '"files" with a list of recording files for this peer'.    *)
(* The audio slice hands over what start has named, possibly in the other  *)
(* slice's goroutine (mixer_slice.go:214-219): these files are on the disk *)
(* under these names, with the exceptions above.                           *)
AnnouncedFilesExist == Announced => \A f \in files \ OnDisk : f[1] \in NeverWritten

(* ... and everything that is written is announced, but for the files that *)
(* keep the prefix they were parsed with: those of an audio-only pipeline, *)
(* and of the modes that updateRecordingFiles does not know although       *)
(* newPipelineDef records them, "muxed" among them, the default            *)
(* (defaults.go:6, pipeline.go:256-287, template.go:69-74).                *)
RecordedFilesAreAnnounced ==
    Announced => \/ OnDisk \subseteq files
                 \/ jp.audioOnly
                 \/ jp.recordingMode \in {"muxed", "direct", "bypass"}

(* README.md:86 "`forced` (default if none)": a page that asks for no mode *)
(* has the recordings of one that asks for "forced".                       *)
ForcedByDefault ==
    Announced /\ page.recordingMode = Absent =>
        {f[1] : f \in files} = NamedFiles([jp EXCEPT !.recordingMode = "forced"])

(* Unless GStreamer fails, the pipeline is unreferenced once, and only a   *)
(* late RTCP packet or control request can still use it afterwards         *)
(* (pipeline.go:221, 365, gst.c:11, mixer_slice.go:325,                    *)
(* peer_server.go:399-410).                                                *)
ReleasedOnlyWhenUnused == misused \subseteq {"anyone"} \/ failed

(* Unless GStreamer fails, no slice that is late starts a pipeline again   *)
(* that the other has stopped: its element only goes forward               *)
(* (pipeline.go:198-225, gst.c:11, 62).                                    *)
Age == [parsed |-> 0, playing |-> 1, draining |-> 2, null |-> 3, released |-> 4]

ElementGoesForward == [][failed' \/ Age[state] <= Age[state']]_vars

PipelineInv ==
    /\ TypeOK /\ StopInv /\ OutputInv /\ StateInv /\ FilesInv
    /\ CallbacksAreServed /\ ReleasedOnlyWhenUnused

(* A pipeline that was started leaves the store once its peer is done.     *)
PipelineIsDeleted == (startedCh /\ done) ~> (~indexed \/ panicked)

(* The slices of a peer that is done end, except where the pipeline never  *)
(* starts: Started() is awaited without watching isDone                    *)
(* (mixer_slice.go:214).                                                   *)
SlicesEnd ==
    \A k \in AllKinds :
        (k \in Kinds /\ slice[k] # "none" /\ done) ~>
            (slice[k] = "closed" \/ panicked \/ []~startedCh)
============================================================================
