--------------------------- MODULE PipelineProofs ---------------------------
(***************************************************************************)
(* Theorems about Pipeline: for every page, template and interleaving of   *)
(* the two slices, the GStreamer threads and the main loop, media meets a  *)
(* playing pipeline, callbacks find what they need, the pipeline is used   *)
(* only while it exists, and the files announced are those written.        *)
(***************************************************************************)
EXTENDS Pipeline, FiniteSetTheorems, TLAPS

LEMMA KindsAre ==
    /\ Kinds \subseteq AllKinds
    /\ "audio" \in Kinds
    /\ IsFiniteSet(Kinds)
<1>1. IsFiniteSet({"audio"}) /\ IsFiniteSet({"audio", "video"})
  BY FS_Singleton, FS_AddElement
<1> QED
  BY <1>1 DEF Kinds, AllKinds

LEMMA KindsStay == UNCHANGED page => Kinds' = Kinds
BY DEF Kinds, jp

LEMMA NamedFilesAreNames == ASSUME NEW j PROVE NamedFiles(j) \subseteq FileNames
BY DEF NamedFiles, Where, FileNames

LEMMA UsesType ==
    ASSUME TypeOK, NEW who \in Users, Uses(who)
    PROVE  misused' \subseteq Users \union {"write"}
BY DEF Uses, TypeOK

LEMMA MoveSliceType ==
    ASSUME TypeOK, NEW k \in AllKinds, NEW from, NEW to \in SliceStates, MoveSlice(k, from, to)
    PROVE  /\ slice' \in [AllKinds -> SliceStates]
           /\ \A o \in AllKinds : slice'[o] = IF o = k THEN to ELSE slice[o]
           /\ slice[k] = from
BY DEF MoveSlice, TypeOK

\* What a step of a slice does to the slices, by name.
LEMMA MovesAre ==
    ASSUME TypeOK, NEW k \in AllKinds, NEW from \in SliceStates, NEW to \in SliceStates,
           MoveSlice(k, from, to)
    PROVE  /\ slice[k] = from /\ slice'[k] = to
           /\ \A o \in AllKinds : o # k => slice'[o] = slice[o]
           /\ slice' \in [AllKinds -> SliceStates]
BY MoveSliceType

LEMMA TypeInit == Init => TypeOK
<1> SUFFICES ASSUME Init PROVE TypeOK
  OBVIOUS
<1>1. <<page, noRecording>> \in Setups
  <2>1. PICK s \in Setups : page = s[1] /\ noRecording = s[2]
    BY DEF Init
  <2>2. PICK o \in PeerOptions, b \in BOOLEAN : s = <<o, b>>
    BY SetupsAssumption
  <2> QED
    BY <2>1, <2>2
<1>2. location \in [FileNames -> Prefixes]
  BY DEF Init, Prefixes
<1>3. /\ output \in [AllKinds -> {"nil", "buffered", "visible"}]
      /\ slice \in [AllKinds -> SliceStates]
      /\ rtcp \in [AllKinds -> {"off", "on", "reading"}]
  BY DEF Init, SliceStates
<1> QED
  BY <1>1, <1>2, <1>3 DEF Init, TypeOK, GstStates

LEMMA TypeStep == TypeOK /\ [Next]_vars => TypeOK'
<1> SUFFICES ASSUME TypeOK, [Next]_vars PROVE TypeOK'
  OBVIOUS
<1> USE DEF options, goVars, gstVars, sliceVars, flagVars
<1>1. ASSUME NEW k \in Kinds PROVE k \in AllKinds
  BY <1>1, KindsAre
<1>2. ASSUME NEW k \in AllKinds, BindTrackAutoStart(k) \/ StoreBufferDrains(k) PROVE TypeOK'
  <2>1. output' \in [AllKinds -> {"nil", "buffered", "visible"}]
    BY <1>2 DEF BindTrackAutoStart, StoreBufferDrains, TypeOK
  <2>2. slice' \in [AllKinds -> SliceStates]
    BY <1>2 DEF BindTrackAutoStart, StoreBufferDrains, MoveSlice, TypeOK, SliceStates
  <2> QED
    BY <1>2, <2>1, <2>2 DEF BindTrackAutoStart, StoreBufferDrains, TypeOK
<1>3. ASSUME NEW k \in AllKinds, UpdateRecordingFiles(k) PROVE TypeOK'
  <2>1. slice' \in [AllKinds -> SliceStates]
    BY <1>3 DEF UpdateRecordingFiles, MoveSlice, TypeOK, SliceStates
  <2>2. recordingFiles' \subseteq Files
    <3>1. NamedFiles(jp) \X {k} \subseteq Files
      BY NamedFilesAreNames DEF Files, Prefixes
    <3> QED
      BY <1>3, <3>1 DEF UpdateRecordingFiles, TypeOK
  <2>3. location' \in [FileNames -> Prefixes]
    BY <1>3 DEF UpdateRecordingFiles, TypeOK, Prefixes
  <2>4. misused' \subseteq Users \union {"write"}
    BY <1>3, UsesType DEF UpdateRecordingFiles, Users
  <2> QED
    BY <1>3, <2>1, <2>2, <2>3, <2>4 DEF UpdateRecordingFiles, TypeOK
<1>4. ASSUME NEW k \in AllKinds, GstStartPipeline(k) PROVE TypeOK'
  <2>1. slice' \in [AllKinds -> SliceStates]
    BY <1>4 DEF GstStartPipeline, MoveSlice, TypeOK, SliceStates
  <2>2. output' \in [AllKinds -> {"nil", "buffered", "visible"}] /\ state' \in GstStates
    BY <1>4 DEF GstStartPipeline, TypeOK, GstStates
  <2>3. misused' \subseteq Users \union {"write"}
    BY <1>4, UsesType DEF GstStartPipeline, Users
  <2> QED
    BY <1>4, <2>1, <2>2, <2>3 DEF GstStartPipeline, TypeOK
<1>5. ASSUME NEW k \in AllKinds,
             UpdateReady(k) \/ CloseStarted(k) \/ EnterLoop(k) \/ LeaveLoop(k) \/ Stop(k)
                 \/ CloseSlice(k)
      PROVE  TypeOK'
  <2>1. slice' \in [AllKinds -> SliceStates]
    BY <1>5 DEF UpdateReady, CloseStarted, EnterLoop, LeaveLoop, Stop, CloseSlice, MoveSlice,
                TypeOK, SliceStates
  <2>2. rtcp' \in [AllKinds -> {"off", "on", "reading"}] /\ files' \subseteq Files
    BY <1>5 DEF UpdateReady, CloseStarted, EnterLoop, LeaveLoop, Stop, CloseSlice, TypeOK
  <2>3. startedCh' \in BOOLEAN /\ panicked' \in BOOLEAN
    BY <1>5 DEF UpdateReady, CloseStarted, EnterLoop, LeaveLoop, Stop, CloseSlice, TypeOK
  <2>4. stoppedCount' \in Nat
    BY <1>5 DEF UpdateReady, CloseStarted, EnterLoop, LeaveLoop, Stop, CloseSlice, TypeOK
  <2>5. UNCHANGED <<options, output, recordingFiles, gstVars, done, misused>>
    BY <1>5 DEF UpdateReady, CloseStarted, EnterLoop, LeaveLoop, Stop, CloseSlice
  <2> QED
    BY <2>1, <2>2, <2>3, <2>4, <2>5 DEF TypeOK
<1>6. ASSUME NEW k \in AllKinds, SendEOS(k) \/ ForceStop(k) \/ EndForceStop(k) PROVE TypeOK'
  <2>1. slice' \in [AllKinds -> SliceStates]
    BY <1>6 DEF SendEOS, ForceStop, EndForceStop, MoveSlice, TypeOK, SliceStates
  <2>2. state' \in GstStates
    BY <1>6 DEF SendEOS, ForceStop, EndForceStop, Release, TypeOK, GstStates
  <2>3. misused' \subseteq Users \union {"write"}
    BY <1>6, UsesType DEF SendEOS, ForceStop, EndForceStop, Release, TypeOK, Users
  <2> QED
    BY <1>6, <2>1, <2>2, <2>3 DEF SendEOS, ForceStop, EndForceStop, Release, TypeOK
<1>7. ASSUME NEW k \in AllKinds,
             PushRTP(k) \/ ReadRTCP(k) \/ PushRTCP(k) \/ ReadRTCPFails(k) \/ WriteTo(k)
      PROVE  TypeOK'
  <2>1. rtcp' \in [AllKinds -> {"off", "on", "reading"}]
    BY <1>7 DEF PushRTP, ReadRTCP, PushRTCP, ReadRTCPFails, WriteTo, TypeOK
  <2>2. misused' \subseteq Users \union {"write"}
    BY <1>7, UsesType DEF PushRTP, ReadRTCP, PushRTCP, ReadRTCPFails, WriteTo, TypeOK, Users
  <2> QED
    BY <1>7, <2>1, <2>2 DEF PushRTP, ReadRTCP, PushRTCP, ReadRTCPFails, WriteTo, TypeOK
<1>8. ASSUME MainLoopStep \/ PostError \/ SetFxProp \/ PeerDone PROVE TypeOK'
  <2>1. misused' \subseteq Users \union {"write"}
    BY <1>8, UsesType DEF MainLoopStep, BusCallback, EndBusCallback, PostError, SetFxProp,
                          PeerDone, Release, TypeOK, Users
  <2> QED
    BY <1>8, <2>1 DEF MainLoopStep, BusCallback, EndBusCallback, PostError, SetFxProp, PeerDone,
                      Release, TypeOK, GstStates
<1>9. CASE UNCHANGED vars
  BY <1>9 DEF vars, TypeOK
<1> QED
  BY <1>1, <1>2, <1>3, <1>4, <1>5, <1>6, <1>7, <1>8, <1>9 DEF Next, SliceStep

LEMMA KindsStep == [Next]_vars => Kinds' = Kinds
<1>1. [Next]_vars => UNCHANGED page
  BY DEF Next, SliceStep, MainLoopStep, vars, options, goVars, gstVars, sliceVars, flagVars,
     BindTrackAutoStart, StoreBufferDrains, UpdateReady, UpdateRecordingFiles, GstStartPipeline,
     CloseStarted, EnterLoop, LeaveLoop, Stop, SendEOS, ForceStop, EndForceStop, CloseSlice,
     PushRTP, ReadRTCP, PushRTCP, ReadRTCPFails, WriteTo, BusCallback, EndBusCallback, PostError,
     SetFxProp, PeerDone
<1> QED
  BY <1>1, KindsStay

----------------------------------------------------------------------------
(***************************************************************************)
(* Who has stopped.                                                        *)
(***************************************************************************)
PastKinds == {k \in Kinds : slice[k] \in Past}

LEMMA StopFrame ==
    ASSUME StopInv, Kinds' = Kinds, UNCHANGED stoppedCount,
           \A k \in Kinds : /\ slice'[k] \in Past <=> slice[k] \in Past
                            /\ slice'[k] \in Stopping => slice[k] \in Stopping
    PROVE  StopInv'
<1>1. {k \in Kinds' : slice'[k] \in Past} = {k \in Kinds : slice[k] \in Past}
  OBVIOUS
<1> QED
  BY <1>1 DEF StopInv

LEMMA StopMoves ==
    ASSUME TypeOK, StopInv, Kinds' = Kinds, UNCHANGED stoppedCount, NEW k \in Kinds,
           NEW from \in SliceStates, NEW to \in SliceStates, MoveSlice(k, from, to),
           from \in Past <=> to \in Past, to \in Stopping => from \in Stopping
    PROVE  StopInv'
BY KindsAre, MovesAre, StopFrame

\* The last slice to stop finds all the others past their stop.
LEMMA StopStops ==
    ASSUME TypeOK, StopInv, Kinds' = Kinds, NEW k \in Kinds, Stop(k)
    PROVE  StopInv'
<1> DEFINE last == AllStopped(stoppedCount + 1)
<1>1. /\ slice[k] = "stopping" /\ slice'[k] = IF last THEN "gststop" ELSE "closing"
      /\ \A o \in Kinds : o # k => slice'[o] = slice[o]
  BY KindsAre, MovesAre DEF Stop, SliceStates
<1>2. PastKinds' = PastKinds \union {k} /\ k \notin PastKinds
  BY <1>1 DEF PastKinds, Past
<1>3. IsFiniteSet(PastKinds) /\ PastKinds \subseteq Kinds
  BY KindsAre, FS_Subset DEF PastKinds
<1>4. Cardinality(PastKinds') = stoppedCount + 1
  BY <1>2, <1>3, FS_AddElement DEF StopInv, PastKinds
<1>5. \A o \in Kinds : slice[o] \notin Stopping
  BY <1>1 DEF StopInv, Past
<1>6. ASSUME last PROVE \A o \in Kinds : slice'[o] \in Past
  <2>1. PastKinds' \subseteq Kinds /\ Cardinality(PastKinds') = Cardinality(Kinds)
    BY <1>2, <1>3, <1>4, <1>6 DEF AllStopped
  <2>2. PastKinds' = Kinds
    BY <2>1, KindsAre, FS_Subset
  <2> QED
    BY <2>2 DEF PastKinds
<1>7. stoppedCount' = Cardinality(PastKinds')
  BY <1>4 DEF Stop
<1>8. \A o \in Kinds : slice'[o] \in Stopping => o = k /\ last
  BY <1>1, <1>5 DEF Stopping
<1> QED
  BY <1>6, <1>7, <1>8 DEF StopInv, PastKinds

LEMMA StopStep == TypeOK /\ StopInv /\ [Next]_vars => StopInv'
<1> SUFFICES ASSUME TypeOK, StopInv, [Next]_vars PROVE StopInv'
  OBVIOUS
<1>0. Kinds' = Kinds
  BY KindsStep
<1> USE DEF options, goVars, gstVars, sliceVars, flagVars
<1>1. ASSUME NEW k \in Kinds,
             \/ BindTrackAutoStart(k) \/ UpdateReady(k) \/ UpdateRecordingFiles(k)
             \/ GstStartPipeline(k) \/ CloseStarted(k) \/ EnterLoop(k) \/ LeaveLoop(k)
             \/ SendEOS(k) \/ ForceStop(k) \/ EndForceStop(k) \/ CloseSlice(k)
      PROVE  StopInv'
  <2>1. PICK from \in SliceStates, to \in SliceStates :
          /\ MoveSlice(k, from, to)
          /\ from \in Past <=> to \in Past
          /\ to \in Stopping => from \in Stopping
    BY <1>1 DEF BindTrackAutoStart, UpdateReady, UpdateRecordingFiles, GstStartPipeline,
                CloseStarted, EnterLoop, LeaveLoop, SendEOS, ForceStop, EndForceStop, CloseSlice,
                SliceStates, Past, Stopping
  <2>2. UNCHANGED stoppedCount
    BY <1>1 DEF BindTrackAutoStart, UpdateReady, UpdateRecordingFiles, GstStartPipeline,
                CloseStarted, EnterLoop, LeaveLoop, SendEOS, ForceStop, EndForceStop, CloseSlice
  <2> QED
    BY <1>0, <2>1, <2>2, StopMoves
<1>2. ASSUME NEW k \in Kinds, Stop(k) PROVE StopInv'
  BY <1>0, <1>2, StopStops
<1>3. ASSUME UNCHANGED <<slice, stoppedCount>> PROVE StopInv'
  BY <1>0, <1>3, StopFrame
<1>4. ASSUME NEW k \in Kinds,
             \/ StoreBufferDrains(k) \/ PushRTP(k) \/ ReadRTCP(k) \/ PushRTCP(k)
             \/ ReadRTCPFails(k) \/ WriteTo(k) \/ MainLoopStep \/ PostError \/ SetFxProp \/ PeerDone
      PROVE  StopInv'
  BY <1>3, <1>4 DEF StoreBufferDrains, PushRTP, ReadRTCP, PushRTCP, ReadRTCPFails, WriteTo,
                    MainLoopStep, BusCallback, EndBusCallback, PostError, SetFxProp, PeerDone
<1>5. CASE MainLoopStep \/ PostError \/ SetFxProp \/ PeerDone
  BY <1>4, <1>5, KindsAre
<1>6. CASE UNCHANGED vars
  BY <1>3, <1>6 DEF vars
<1> QED
  BY <1>1, <1>2, <1>4, <1>5, <1>6 DEF Next, SliceStep

----------------------------------------------------------------------------
(***************************************************************************)
(* Outputs: they are written before the slice looks at the other's, and    *)
(* never taken away.                                                       *)
(***************************************************************************)
LEMMA OutputsStay ==
    ASSUME TypeOK, [Next]_vars, NEW k \in AllKinds, output[k] # "nil"
    PROVE  output'[k] # "nil"
<1> USE DEF options, goVars, gstVars, sliceVars, flagVars
<1>1. ASSUME NEW o \in AllKinds,
             BindTrackAutoStart(o) \/ StoreBufferDrains(o) \/ GstStartPipeline(o)
      PROVE  output'[k] # "nil"
  BY <1>1 DEF BindTrackAutoStart, StoreBufferDrains, GstStartPipeline, TypeOK
<1>2. ASSUME UNCHANGED output PROVE output'[k] # "nil"
  BY <1>2
<1>3. ASSUME NEW o \in Kinds,
             \/ UpdateReady(o) \/ UpdateRecordingFiles(o) \/ CloseStarted(o) \/ EnterLoop(o)
             \/ LeaveLoop(o) \/ Stop(o) \/ SendEOS(o) \/ ForceStop(o) \/ EndForceStop(o)
             \/ CloseSlice(o) \/ PushRTP(o) \/ ReadRTCP(o) \/ PushRTCP(o) \/ ReadRTCPFails(o)
             \/ WriteTo(o)
      PROVE  UNCHANGED output
  BY <1>3 DEF UpdateReady, UpdateRecordingFiles, CloseStarted, EnterLoop, LeaveLoop, Stop,
              SendEOS, ForceStop, EndForceStop, CloseSlice, PushRTP, ReadRTCP, PushRTCP,
              ReadRTCPFails, WriteTo
<1>4. ASSUME MainLoopStep \/ PostError \/ SetFxProp \/ PeerDone PROVE UNCHANGED output
  BY <1>4 DEF MainLoopStep, BusCallback, EndBusCallback, PostError, SetFxProp, PeerDone
<1>5. CASE UNCHANGED vars
  BY <1>2, <1>5 DEF vars
<1> QED
  BY <1>1, <1>2, <1>3, <1>4, <1>5, KindsAre DEF Next, SliceStep

LEMMA OutputFrame ==
    ASSUME OutputInv, Kinds' = Kinds,
           \A k \in Kinds : output[k] # "nil" => output'[k] # "nil",
           indexed' <=> state' # "released",
           state' # "parsed" => state # "parsed",
           \A k \in Kinds : slice'[k] # "none" => slice[k] # "none",
           \A k \in Kinds : slice'[k] \in {"starting", "launching"} =>
               slice[k] \in {"starting", "launching"}
    PROVE  OutputInv'
BY DEF OutputInv

LEMMA OutputStep == TypeOK /\ OutputInv /\ StateInv /\ [Next]_vars => OutputInv'
<1> SUFFICES ASSUME TypeOK, OutputInv, StateInv, [Next]_vars PROVE OutputInv'
  OBVIOUS
<1>0. /\ Kinds' = Kinds /\ Kinds \subseteq AllKinds
      /\ \A k \in Kinds : output[k] # "nil" => output'[k] # "nil"
  BY KindsStep, KindsAre, OutputsStay
<1> USE DEF options, goVars, gstVars, sliceVars, flagVars
\* A slice that goes on, with the element as it was.
<1>1. ASSUME NEW k \in Kinds, NEW from \in SliceStates, NEW to \in SliceStates,
             MoveSlice(k, from, to), UNCHANGED <<indexed, state>>,
             from # "none",
             to \in {"starting", "launching"} => from \in {"starting", "launching"}
      PROVE  OutputInv'
  <2>1. \A o \in Kinds : slice'[o] = slice[o] \/ (slice[o] = from /\ slice'[o] = to)
    BY <1>0, <1>1, MovesAre
  <2> QED
    BY <1>0, <1>1, <2>1, OutputFrame DEF OutputInv
<1>2. ASSUME NEW k \in Kinds,
             \/ UpdateRecordingFiles(k) \/ CloseStarted(k) \/ EnterLoop(k) \/ LeaveLoop(k)
             \/ Stop(k) \/ CloseSlice(k)
      PROVE  OutputInv'
  <2>1. UNCHANGED <<indexed, state>>
    BY <1>2 DEF UpdateRecordingFiles, CloseStarted, EnterLoop, LeaveLoop, Stop, CloseSlice
  <2>2. PICK from \in SliceStates, to \in SliceStates :
          /\ MoveSlice(k, from, to) /\ from # "none"
          /\ to \in {"starting", "launching"} => from \in {"starting", "launching"}
    BY <1>2 DEF UpdateRecordingFiles, CloseStarted, EnterLoop, LeaveLoop, Stop, CloseSlice,
                SliceStates
  <2> QED
    BY <1>1, <2>1, <2>2
<1>3. ASSUME NEW k \in Kinds, BindTrackAutoStart(k) PROVE OutputInv'
  <2>1. /\ slice[k] = "none" /\ slice'[k] = "checking" /\ output'[k] # "nil"
        /\ \A o \in Kinds : o # k => slice'[o] = slice[o]
        /\ UNCHANGED <<indexed, state>>
    BY <1>0, <1>3, MovesAre DEF BindTrackAutoStart, SliceStates, TypeOK
  <2> QED
    BY <1>0, <2>1 DEF OutputInv
<1>4. ASSUME NEW k \in Kinds, UpdateReady(k), SeesAllOutputs(k) PROVE OutputInv'
  <2>1. /\ slice[k] = "checking" /\ slice'[k] = "starting"
        /\ \A o \in Kinds : o # k => slice'[o] = slice[o]
        /\ UNCHANGED <<indexed, state, output>>
    BY <1>0, <1>4, MovesAre DEF UpdateReady, SliceStates
  <2>2. \A o \in Kinds : output[o] # "nil"
    BY <1>4, <2>1 DEF OutputInv, SeesAllOutputs
  <2> QED
    BY <1>0, <2>1, <2>2 DEF OutputInv
<1>4a. ASSUME NEW k \in Kinds, UpdateReady(k), ~SeesAllOutputs(k) PROVE OutputInv'
  BY <1>1, <1>4a DEF UpdateReady, SliceStates
<1>5. ASSUME NEW k \in Kinds, GstStartPipeline(k) PROVE OutputInv'
  <2>1. /\ slice[k] = "launching" /\ slice'[k] = "announcing"
        /\ \A o \in Kinds : o # k => slice'[o] = slice[o]
        /\ UNCHANGED indexed
        /\ state' = IF state = "released" THEN state ELSE "playing"
    BY <1>0, <1>5, MovesAre DEF GstStartPipeline, SliceStates
  <2>2. \A o \in Kinds : output'[o] # "nil"
    BY <1>0, <2>1 DEF OutputInv
  <2> QED
    BY <1>0, <2>1, <2>2 DEF OutputInv
<1>6. ASSUME NEW k \in Kinds, SendEOS(k) \/ ForceStop(k) \/ EndForceStop(k) PROVE OutputInv'
  <2>1. PICK from \in {"gststop", "forcing"}, to \in {"forcing", "closing"} :
            MoveSlice(k, from, to)
    BY <1>6 DEF SendEOS, ForceStop, EndForceStop
  <2>2. \A o \in Kinds : slice'[o] = slice[o] \/ (slice[o] = from /\ slice'[o] = to)
    BY <1>0, <2>1, MovesAre DEF SliceStates
  <2>3. slice[k] = from
    BY <1>0, <2>1, MovesAre DEF SliceStates
  <2>4. state # "parsed"
    BY <2>1, <2>3 DEF StateInv, Past
  <2>5. indexed' <=> state' # "released"
    BY <1>6 DEF SendEOS, ForceStop, EndForceStop, Release, OutputInv
  <2> QED
    BY <1>0, <2>1, <2>2, <2>4, <2>5, OutputFrame
<1>7. ASSUME MainLoopStep PROVE OutputInv'
  <2>1. state # "parsed"
    BY <1>7 DEF MainLoopStep, BusCallback, EndBusCallback, StateInv
  <2>2. (indexed' <=> state' # "released") /\ UNCHANGED slice
    BY <1>7 DEF MainLoopStep, BusCallback, EndBusCallback, Release, OutputInv
  <2> QED
    BY <1>0, <2>1, <2>2, OutputFrame
<1>8. ASSUME UNCHANGED <<slice, indexed, state>> PROVE OutputInv'
  BY <1>0, <1>8, OutputFrame DEF OutputInv
<1>9. ASSUME NEW k \in Kinds,
             \/ StoreBufferDrains(k) \/ PushRTP(k) \/ ReadRTCP(k) \/ PushRTCP(k)
             \/ ReadRTCPFails(k) \/ WriteTo(k)
      PROVE  OutputInv'
  BY <1>8, <1>9 DEF StoreBufferDrains, PushRTP, ReadRTCP, PushRTCP, ReadRTCPFails, WriteTo
<1>10. CASE PostError \/ SetFxProp \/ PeerDone
  BY <1>8, <1>10 DEF PostError, SetFxProp, PeerDone
<1>11. CASE UNCHANGED vars
  BY <1>8, <1>11 DEF vars
<1>12. ASSUME NEW k \in Kinds, SliceStep(k) PROVE OutputInv'
  <2>1. CASE UpdateReady(k)
    BY <1>4, <1>4a, <2>1
  <2>2. CASE GstStartPipeline(k)
    BY <1>5, <2>2
  <2>3. CASE UpdateRecordingFiles(k) \/ CloseStarted(k) \/ EnterLoop(k) \/ Stop(k) \/ CloseSlice(k)
    BY <1>2, <2>3
  <2>4. CASE SendEOS(k) \/ ForceStop(k) \/ EndForceStop(k)
    BY <1>6, <2>4
  <2> QED
    BY <1>12, <2>1, <2>2, <2>3, <2>4 DEF SliceStep
<1> QED
  BY <1>2, <1>3, <1>7, <1>9, <1>10, <1>11, <1>12 DEF Next

----------------------------------------------------------------------------
(***************************************************************************)
(* The element: unless GStreamer fails it plays from the start up to the   *)
(* moment when every slice has stopped, and it is released by one of the   *)
(* last slice and the main loop.                                           *)
(***************************************************************************)
StartedInv ==
    /\ \A k \in Kinds : slice[k] \in {"looping", "stopping"} \union Past => startedCh
    /\ startedCh \/ mainLoop = "stopping" \/ (\E k \in Kinds : slice[k] = "announcing") =>
            state # "parsed"

ElementInv ==
    /\ state \in {"draining", "null", "released"} =>
            \A k \in Kinds : slice[k] \in Past \ {"gststop"}
    /\ \A k \in Kinds : slice[k] = "forcing" => state = "null" /\ mainLoop = "idle"
    /\ mainLoop = "stopping" => state = "null"

LEMMA StateInvIs == StateInv <=> StartedInv /\ (failed \/ ElementInv)
BY DEF StateInv, StartedInv, ElementInv

LEMMA StateInvIsPrime == StateInv' <=> StartedInv' /\ (failed' \/ ElementInv')
BY DEF StateInv, StartedInv, ElementInv

LEMMA StartedStep == TypeOK /\ StartedInv /\ [Next]_vars => StartedInv'
<1> SUFFICES ASSUME TypeOK, StartedInv, [Next]_vars PROVE StartedInv'
  OBVIOUS
<1>0. Kinds' = Kinds /\ Kinds \subseteq AllKinds
  BY KindsStep, KindsAre
<1> USE DEF options, goVars, gstVars, sliceVars, flagVars
<1> DEFINE After == {"looping", "stopping"} \union Past
<1>1. ASSUME NEW k \in Kinds, NEW from \in SliceStates, NEW to \in SliceStates,
             MoveSlice(k, from, to),
             to \in After => startedCh',
             startedCh => startedCh',
             startedCh' \/ mainLoop' = "stopping" \/ to = "announcing" => state' # "parsed",
             state # "parsed" => state' # "parsed"
      PROVE  StartedInv'
  <2>1. \A o \in Kinds : slice'[o] = slice[o] \/ slice'[o] = to
    BY <1>0, <1>1, MovesAre
  <2> QED
    BY <1>0, <1>1, <2>1 DEF StartedInv
<1>2. ASSUME NEW k \in Kinds, BindTrackAutoStart(k) \/ UpdateReady(k) \/ UpdateRecordingFiles(k)
      PROVE  StartedInv'
  <2>1. PICK from \in SliceStates, to \in {"checking", "starting", "waiting", "launching"} :
            MoveSlice(k, from, to)
    BY <1>2 DEF BindTrackAutoStart, UpdateReady, UpdateRecordingFiles, SliceStates
  <2>2. to \in SliceStates /\ to \notin After /\ to # "announcing"
    BY <2>1 DEF SliceStates, Past
  <2>3. UNCHANGED <<startedCh, mainLoop, state>>
    BY <1>2 DEF BindTrackAutoStart, UpdateReady, UpdateRecordingFiles
  <2> QED
    BY <1>1, <2>1, <2>2, <2>3 DEF StartedInv
<1>3. ASSUME NEW k \in Kinds, GstStartPipeline(k) PROVE StartedInv'
  <2>1. state' # "parsed" /\ UNCHANGED startedCh
    BY <1>3 DEF GstStartPipeline
  <2>2. MoveSlice(k, "launching", "announcing") /\ "launching" \in SliceStates
            /\ "announcing" \in SliceStates /\ "announcing" \notin After
    BY <1>3 DEF GstStartPipeline, SliceStates, Past
  <2> QED
    BY <1>1, <2>1, <2>2
<1>4. ASSUME NEW k \in Kinds, CloseStarted(k) PROVE StartedInv'
  <2>1. startedCh' /\ UNCHANGED <<state, mainLoop>>
    BY <1>4 DEF CloseStarted
  <2>2. MoveSlice(k, "announcing", "waiting") /\ "waiting" \in SliceStates
            /\ "announcing" \in SliceStates
    BY <1>4 DEF CloseStarted, SliceStates
  <2>3. state # "parsed"
    BY <1>0, <2>2, MovesAre DEF StartedInv
  <2> QED
    BY <1>1, <2>1, <2>2, <2>3
<1>5. ASSUME NEW k \in Kinds,
             EnterLoop(k) \/ LeaveLoop(k) \/ Stop(k) \/ CloseSlice(k) \/ SendEOS(k)
                 \/ ForceStop(k) \/ EndForceStop(k)
      PROVE  StartedInv'
  <2>1. PICK from \in SliceStates, to \in After : MoveSlice(k, from, to)
                 /\ (from \in After \/ startedCh)
    BY <1>5 DEF EnterLoop, LeaveLoop, Stop, CloseSlice, SendEOS, ForceStop, EndForceStop,
                SliceStates, Past
  <2>2. to \in SliceStates /\ to # "announcing"
    BY <2>1 DEF SliceStates, Past
  <2>3. startedCh
    BY <1>0, <2>1, <2>2, MovesAre DEF StartedInv
  <2>4. UNCHANGED <<startedCh, mainLoop>>
    BY <1>5 DEF EnterLoop, LeaveLoop, Stop, CloseSlice, SendEOS, ForceStop, EndForceStop
  <2>5. state # "parsed" => state' # "parsed"
    BY <1>5 DEF EnterLoop, LeaveLoop, Stop, CloseSlice, SendEOS, ForceStop, EndForceStop, Release
  <2> QED
    BY <1>1, <2>1, <2>2, <2>3, <2>4, <2>5 DEF StartedInv
<1>6. ASSUME UNCHANGED <<slice, startedCh>>, state # "parsed" => state' # "parsed",
             mainLoop' = "stopping" => mainLoop = "stopping" \/ state' # "parsed"
      PROVE  StartedInv'
  BY <1>0, <1>6 DEF StartedInv
<1>7. CASE MainLoopStep
  BY <1>6, <1>7 DEF MainLoopStep, BusCallback, EndBusCallback, Release
<1>8. ASSUME NEW k \in Kinds,
             \/ StoreBufferDrains(k) \/ PushRTP(k) \/ ReadRTCP(k) \/ PushRTCP(k)
             \/ ReadRTCPFails(k) \/ WriteTo(k)
      PROVE  StartedInv'
  BY <1>6, <1>8 DEF StoreBufferDrains, PushRTP, ReadRTCP, PushRTCP, ReadRTCPFails, WriteTo
<1>9. CASE PostError \/ SetFxProp \/ PeerDone
  BY <1>6, <1>9 DEF PostError, SetFxProp, PeerDone
<1>10. CASE UNCHANGED vars
  BY <1>6, <1>10 DEF vars
<1>11. ASSUME NEW k \in Kinds, SliceStep(k) PROVE StartedInv'
  BY <1>2, <1>3, <1>4, <1>5, <1>11 DEF SliceStep
<1> QED
  BY <1>2, <1>5, <1>7, <1>8, <1>9, <1>10, <1>11 DEF Next

LEMMA ElementStep ==
    TypeOK /\ StopInv /\ StartedInv /\ ElementInv /\ ~failed' /\ [Next]_vars => ElementInv'
<1> SUFFICES ASSUME TypeOK, StopInv, StartedInv, ElementInv, ~failed', [Next]_vars
             PROVE  ElementInv'
  OBVIOUS
<1>0. Kinds' = Kinds /\ Kinds \subseteq AllKinds
  BY KindsStep, KindsAre
<1> USE DEF options, goVars, gstVars, sliceVars, flagVars
<1> DEFINE Gone == {"draining", "null", "released"}
\* A slice that is not past its stop: the element is neither drained nor gone.
<1>1. ASSUME NEW k \in Kinds, NEW from \in SliceStates, NEW to \in SliceStates,
             MoveSlice(k, from, to), UNCHANGED mainLoop,
             from \notin Past, to # "forcing", to # "gststop" \/ state' = state,
             state' = state \/ state' = "playing"
      PROVE  ElementInv'
  <2>1. /\ slice[k] = from /\ slice'[k] = to
        /\ \A o \in Kinds : o # k => slice'[o] = slice[o]
    BY <1>0, <1>1, MovesAre
  <2>2. state \notin Gone
    BY <1>1, <2>1 DEF ElementInv
  <2>3. \A o \in Kinds : slice[o] # "forcing"
    BY <2>2 DEF ElementInv
  <2>4. mainLoop # "stopping"
    BY <2>2 DEF ElementInv
  <2> QED
    BY <1>0, <1>1, <2>1, <2>2, <2>3, <2>4 DEF ElementInv
<1>2. ASSUME NEW k \in Kinds,
             \/ BindTrackAutoStart(k) \/ UpdateReady(k) \/ UpdateRecordingFiles(k)
             \/ CloseStarted(k) \/ EnterLoop(k) \/ LeaveLoop(k) \/ Stop(k)
      PROVE  ElementInv'
  <2>1. PICK from \in SliceStates, to \in SliceStates :
            MoveSlice(k, from, to) /\ from \notin Past /\ to # "forcing"
    BY <1>2 DEF BindTrackAutoStart, UpdateReady, UpdateRecordingFiles, CloseStarted, EnterLoop,
                LeaveLoop, Stop, SliceStates, Past
  <2>2. UNCHANGED <<mainLoop, state>>
    BY <1>2 DEF BindTrackAutoStart, UpdateReady, UpdateRecordingFiles, CloseStarted, EnterLoop,
                LeaveLoop, Stop
  <2> QED
    BY <1>1, <2>1, <2>2
<1>3. ASSUME NEW k \in Kinds, GstStartPipeline(k) PROVE ElementInv'
  <2>1. /\ MoveSlice(k, "launching", "announcing")
        /\ "launching" \in SliceStates /\ "announcing" \in SliceStates
        /\ UNCHANGED mainLoop /\ (state' = state \/ state' = "playing")
    BY <1>3 DEF GstStartPipeline, SliceStates
  <2> QED
    BY <1>1, <2>1 DEF Past
<1>4. ASSUME NEW k \in Kinds, CloseSlice(k) PROVE ElementInv'
  <2>1. /\ slice[k] = "closing" /\ slice'[k] = "closed"
        /\ \A o \in Kinds : o # k => slice'[o] = slice[o]
        /\ UNCHANGED <<state, mainLoop>>
    BY <1>0, <1>4, MovesAre DEF CloseSlice, SliceStates
  <2> QED
    BY <1>0, <2>1 DEF ElementInv, Past
\* The slice in gststop is the only one, and finds the element playing.
<1>5. ASSUME NEW k \in Kinds, slice[k] = "gststop"
      PROVE  /\ state = "playing" /\ mainLoop # "stopping"
             /\ \A o \in Kinds : slice[o] \in Past /\ (o # k => slice[o] \notin Stopping)
  <2>1. state \notin Gone
    BY <1>5 DEF ElementInv
  <2>2. state # "parsed"
    BY <1>5 DEF StartedInv, Past
  <2>3. \A o \in Kinds : slice[o] \in Past /\ (o # k => slice[o] \notin Stopping)
    BY <1>5 DEF StopInv, Stopping
  <2> QED
    BY <2>1, <2>2, <2>3 DEF ElementInv, TypeOK, GstStates
<1>6. ASSUME NEW k \in Kinds, SendEOS(k) \/ ForceStop(k) PROVE ElementInv'
  <2>1. PICK to \in {"closing", "forcing"} :
          /\ MoveSlice(k, "gststop", to)
          /\ to = "closing" => (state = "playing" => state' = "draining")
          /\ to = "forcing" => state' = "null"
    BY <1>6 DEF SendEOS, ForceStop
  <2>2. /\ slice[k] = "gststop" /\ slice'[k] = to
        /\ \A o \in Kinds : o # k => slice'[o] = slice[o]
    BY <1>0, <2>1, MovesAre DEF SliceStates
  <2>3. UNCHANGED mainLoop
    BY <1>6 DEF SendEOS, ForceStop
  <2>4. \A o \in Kinds : slice'[o] \in Past \ {"gststop"} /\ (o # k => slice'[o] # "forcing")
    BY <1>5, <2>1, <2>2 DEF Past, Stopping
  <2> QED
    BY <1>0, <1>5, <2>1, <2>2, <2>3, <2>4 DEF ElementInv, TypeOK
<1>7. ASSUME NEW k \in Kinds, EndForceStop(k) PROVE ElementInv'
  <2>1. /\ slice[k] = "forcing" /\ slice'[k] = "closing"
        /\ \A o \in Kinds : o # k => slice'[o] = slice[o]
        /\ UNCHANGED mainLoop /\ state' = "released"
    BY <1>0, <1>7, MovesAre DEF EndForceStop, SliceStates, Release
  <2>2. state = "null" /\ mainLoop = "idle"
    BY <2>1 DEF ElementInv
  <2>3. \A o \in Kinds : o # k => slice[o] \notin Stopping
    BY <2>1 DEF StopInv, Stopping
  <2> QED
    BY <1>0, <2>1, <2>2, <2>3 DEF ElementInv, Past, Stopping
<1>8. ASSUME BusCallback PROVE ElementInv'
  <2>1. UNCHANGED <<slice, failed>> /\ state' = "null" /\ mainLoop' = "stopping"
            /\ (state = "draining" \/ failed)
    BY <1>8 DEF BusCallback
  <2>2. state = "draining"
    BY <2>1
  <2> QED
    BY <1>0, <2>1, <2>2 DEF ElementInv
<1>9. ASSUME EndBusCallback PROVE ElementInv'
  <2>1. UNCHANGED slice /\ state' = "released" /\ mainLoop' = "idle" /\ mainLoop = "stopping"
    BY <1>9 DEF EndBusCallback, Release
  <2>2. state = "null"
    BY <2>1 DEF ElementInv
  <2>3. \A o \in Kinds : slice[o] # "forcing"
    BY <2>1 DEF ElementInv
  <2> QED
    BY <1>0, <2>1, <2>2, <2>3 DEF ElementInv
<1>10. ASSUME UNCHANGED <<slice, state, mainLoop>> PROVE ElementInv'
  BY <1>0, <1>10 DEF ElementInv
<1>11. ASSUME NEW k \in Kinds,
             \/ StoreBufferDrains(k) \/ PushRTP(k) \/ ReadRTCP(k) \/ PushRTCP(k)
             \/ ReadRTCPFails(k) \/ WriteTo(k)
      PROVE  ElementInv'
  BY <1>10, <1>11 DEF StoreBufferDrains, PushRTP, ReadRTCP, PushRTCP, ReadRTCPFails, WriteTo
<1>12. CASE PostError \/ SetFxProp \/ PeerDone
  BY <1>10, <1>12 DEF PostError, SetFxProp, PeerDone
<1>13. CASE UNCHANGED vars
  BY <1>10, <1>13 DEF vars
<1>14. ASSUME NEW k \in Kinds, SliceStep(k) PROVE ElementInv'
  BY <1>2, <1>3, <1>4, <1>6, <1>7, <1>14 DEF SliceStep
<1> QED
  BY <1>2, <1>8, <1>9, <1>11, <1>12, <1>13, <1>14 DEF Next, MainLoopStep

----------------------------------------------------------------------------
(***************************************************************************)
(* Uses of the element.                                                    *)
(***************************************************************************)
LEMMA CallbacksStep ==
    TypeOK /\ OutputInv /\ CallbacksAreServed /\ [Next]_vars => CallbacksAreServed'
<1> SUFFICES ASSUME TypeOK, OutputInv, CallbacksAreServed, [Next]_vars PROVE CallbacksAreServed'
  OBVIOUS
<1> USE DEF options, goVars, gstVars, sliceVars, flagVars
<1>1. ASSUME NEW who \in Users, Uses(who) PROVE CallbacksAreServed'
  BY <1>1 DEF Uses, Users, CallbacksAreServed
<1>2. ASSUME UNCHANGED misused PROVE CallbacksAreServed'
  BY <1>2 DEF CallbacksAreServed
<1>3. ASSUME NEW k \in Kinds, WriteTo(k) PROVE CallbacksAreServed'
  <2>1. indexed /\ output[k] # "nil"
    BY <1>3 DEF WriteTo, OutputInv
  <2> QED
    BY <1>2, <1>3, <2>1 DEF WriteTo
<1>4. ASSUME NEW k \in Kinds,
             \/ UpdateRecordingFiles(k) \/ GstStartPipeline(k) \/ SendEOS(k) \/ EndForceStop(k)
             \/ PushRTP(k) \/ PushRTCP(k) \/ EndBusCallback
      PROVE  \E who \in Users : Uses(who)
  BY <1>4 DEF UpdateRecordingFiles, GstStartPipeline, SendEOS, EndForceStop, PushRTP, PushRTCP,
              EndBusCallback, Release, Users
<1>5. ASSUME NEW k \in Kinds,
             \/ BindTrackAutoStart(k) \/ StoreBufferDrains(k) \/ UpdateReady(k)
             \/ CloseStarted(k) \/ EnterLoop(k) \/ LeaveLoop(k) \/ Stop(k) \/ ForceStop(k)
             \/ CloseSlice(k) \/ ReadRTCP(k) \/ ReadRTCPFails(k)
      PROVE  UNCHANGED misused
  BY <1>5 DEF BindTrackAutoStart, StoreBufferDrains, UpdateReady, CloseStarted, EnterLoop,
              LeaveLoop, Stop, ForceStop, CloseSlice, ReadRTCP, ReadRTCPFails
<1>6. CASE MainLoopStep
  BY <1>1, <1>2, <1>4, <1>6, KindsAre DEF MainLoopStep, BusCallback
<1>7. CASE SetFxProp
  BY <1>1, <1>7 DEF SetFxProp, Users
<1>8. CASE PostError \/ PeerDone \/ UNCHANGED vars
  BY <1>2, <1>8 DEF PostError, PeerDone, vars
<1>9. ASSUME NEW k \in Kinds, SliceStep(k) PROVE CallbacksAreServed'
  BY <1>1, <1>2, <1>4, <1>5, <1>9 DEF SliceStep
<1> QED
  BY <1>1, <1>2, <1>3, <1>4, <1>5, <1>6, <1>7, <1>8, <1>9 DEF Next

LEMMA ReleaseStep ==
    /\ TypeOK /\ StopInv /\ OutputInv /\ StartedInv /\ (failed \/ ElementInv)
    /\ ReleasedOnlyWhenUnused /\ [Next]_vars
    => ReleasedOnlyWhenUnused'
<1> SUFFICES ASSUME TypeOK, StopInv, OutputInv, StartedInv, failed \/ ElementInv,
                    ReleasedOnlyWhenUnused, [Next]_vars, ~failed'
             PROVE  misused' \subseteq {"anyone"}
  BY DEF ReleasedOnlyWhenUnused
<1> USE DEF options, goVars, gstVars, sliceVars, flagVars
<1>1. Kinds \subseteq AllKinds
  BY KindsAre
<1>2. ~failed
  BY DEF Next, SliceStep, MainLoopStep, vars,
     BindTrackAutoStart, StoreBufferDrains, UpdateReady, UpdateRecordingFiles, GstStartPipeline,
     CloseStarted, EnterLoop, LeaveLoop, Stop, SendEOS, ForceStop, EndForceStop, CloseSlice,
     PushRTP, ReadRTCP, PushRTCP, ReadRTCPFails, WriteTo, BusCallback, EndBusCallback, PostError,
     SetFxProp, PeerDone
<1>3. ElementInv /\ misused \subseteq {"anyone"}
  BY <1>2 DEF ReleasedOnlyWhenUnused
<1>4. ASSUME NEW who, Uses(who), state # "released" \/ who = "anyone"
      PROVE  misused' \subseteq {"anyone"}
  BY <1>3, <1>4 DEF Uses
<1>5. ASSUME NEW k \in Kinds, slice[k] \notin Past PROVE state # "released"
  BY <1>3, <1>5 DEF ElementInv
<1>6. ASSUME NEW k \in Kinds, UpdateRecordingFiles(k) \/ GstStartPipeline(k) \/ PushRTP(k)
      PROVE  misused' \subseteq {"anyone"}
  <2>1. slice[k] \in {"starting", "launching", "looping"}
    BY <1>6 DEF UpdateRecordingFiles, GstStartPipeline, PushRTP, MoveSlice
  <2>2. state # "released"
    BY <1>5, <2>1 DEF Past
  <2> QED
    BY <1>4, <1>6, <2>2 DEF UpdateRecordingFiles, GstStartPipeline, PushRTP
<1>7. ASSUME NEW k \in Kinds, SendEOS(k) \/ EndForceStop(k) PROVE misused' \subseteq {"anyone"}
  <2>1. slice[k] \in {"gststop", "forcing"}
    BY <1>7 DEF SendEOS, EndForceStop, MoveSlice
  <2>2. state # "released"
    BY <1>3, <2>1 DEF ElementInv
  <2> QED
    BY <1>4, <1>7, <2>2 DEF SendEOS, EndForceStop, Release
<1>8. ASSUME EndBusCallback PROVE misused' \subseteq {"anyone"}
  BY <1>3, <1>4, <1>8 DEF EndBusCallback, Release, ElementInv
<1>9. ASSUME NEW k \in Kinds, PushRTCP(k) PROVE misused' \subseteq {"anyone"}
  BY <1>4, <1>9 DEF PushRTCP
<1>10. ASSUME NEW k \in Kinds, WriteTo(k) PROVE misused' \subseteq {"anyone"}
  <2>1. indexed /\ output[k] # "nil"
    BY <1>10 DEF WriteTo, OutputInv
  <2> QED
    BY <1>3, <1>10, <2>1 DEF WriteTo
<1>11. ASSUME UNCHANGED misused PROVE misused' \subseteq {"anyone"}
  BY <1>3, <1>11
<1>12. ASSUME NEW k \in Kinds,
              \/ BindTrackAutoStart(k) \/ StoreBufferDrains(k) \/ UpdateReady(k)
              \/ CloseStarted(k) \/ EnterLoop(k) \/ LeaveLoop(k) \/ Stop(k) \/ ForceStop(k)
              \/ CloseSlice(k) \/ ReadRTCP(k) \/ ReadRTCPFails(k)
       PROVE  UNCHANGED misused
  BY <1>12 DEF BindTrackAutoStart, StoreBufferDrains, UpdateReady, CloseStarted, EnterLoop,
               LeaveLoop, Stop, ForceStop, CloseSlice, ReadRTCP, ReadRTCPFails
<1>13. CASE BusCallback \/ PostError \/ PeerDone \/ UNCHANGED vars
  BY <1>11, <1>13 DEF BusCallback, PostError, PeerDone, vars
<1>14. CASE SetFxProp
  BY <1>4, <1>14 DEF SetFxProp
<1>15. ASSUME NEW k \in Kinds, SliceStep(k) PROVE misused' \subseteq {"anyone"}
  BY <1>6, <1>7, <1>11, <1>12, <1>15 DEF SliceStep
<1> QED
  BY <1>6, <1>8, <1>9, <1>10, <1>11, <1>12, <1>13, <1>14, <1>15 DEF Next, MainLoopStep

----------------------------------------------------------------------------
(***************************************************************************)
(* The recording files: as long as a single slice passes through start, it *)
(* names the sinks and the files alike, and the audio slice hands over     *)
(* what it named.                                                          *)
(***************************************************************************)
Handed == {"looping", "stopping"} \union Past

LEMMA OptionsStay == [Next]_vars => UNCHANGED options
BY DEF Next, SliceStep, MainLoopStep, vars, goVars, gstVars, sliceVars, flagVars,
   BindTrackAutoStart, StoreBufferDrains, UpdateReady, UpdateRecordingFiles, GstStartPipeline,
   CloseStarted, EnterLoop, LeaveLoop, Stop, SendEOS, ForceStop, EndForceStop, CloseSlice,
   PushRTP, ReadRTCP, PushRTCP, ReadRTCPFails, WriteTo, BusCallback, EndBusCallback, PostError,
   SetFxProp, PeerDone

LEMMA NamedByStays ==
    ASSUME UNCHANGED <<options, recordingFiles, location>>, NEW k, NamedBy(k)
    PROVE  NamedBy(k)'
BY DEF options, NamedBy, jp, template

\* What is neither start nor the handing over of files.
LEMMA FilesFrame ==
    ASSUME FilesInv, Kinds' = Kinds, Naming' = Naming,
           UNCHANGED <<options, recordingFiles, location, startedCh, panicked, files>>,
           state = "parsed" => state' = "parsed",
           slice'["audio"] \in Handed <=> slice["audio"] \in Handed
    PROVE  FilesInv'
<1>1. \A k \in Kinds : NamedBy(k) => NamedBy(k)'
  BY NamedByStays
<1>2. NamedOnce' <=> NamedOnce
  BY DEF NamedOnce
<1> QED
  BY <1>1, <1>2 DEF FilesInv, Handed

\* Only the steps of start enter or leave Naming.
LEMMA FilesMoves ==
    ASSUME TypeOK, FilesInv, Kinds' = Kinds, NEW k \in Kinds,
           NEW from \in SliceStates, NEW to \in SliceStates, MoveSlice(k, from, to),
           UNCHANGED <<options, recordingFiles, location, startedCh, panicked, files>>,
           state = "parsed" => state' = "parsed",
           from \in {"launching", "announcing"} <=> to \in {"launching", "announcing"},
           from \in Handed <=> to \in Handed
    PROVE  FilesInv'
<1>1. /\ slice[k] = from /\ slice'[k] = to
      /\ \A o \in AllKinds : o # k => slice'[o] = slice[o]
  BY KindsAre, MovesAre
<1>2. Naming' = Naming
  BY <1>1, KindsAre DEF Naming
<1>3. slice'["audio"] \in Handed <=> slice["audio"] \in Handed
  BY <1>1, KindsAre
<1> QED
  BY <1>2, <1>3, FilesFrame

LEMMA FilesNaming ==
    ASSUME TypeOK, FilesInv, StartedInv, Kinds' = Kinds, UNCHANGED options,
           NEW k \in Kinds, UpdateRecordingFiles(k)
    PROVE  FilesInv'
<1>1. /\ slice[k] = "starting" /\ slice'[k] = "launching"
      /\ \A o \in AllKinds : o # k => slice'[o] = slice[o]
  BY KindsAre, MovesAre DEF UpdateRecordingFiles, SliceStates
<1>2. Naming' = Naming \union {k} /\ k \notin Naming
  BY <1>1, KindsAre DEF Naming
<1>3. UNCHANGED <<startedCh, files>>
  BY DEF UpdateRecordingFiles
<1>4. ~NamedOnce' /\ Naming' # {}
  BY <1>2 DEF NamedOnce
<1>5. ASSUME NEW o \in Kinds, ~startedCh, Naming' = {o} PROVE NamedBy(o)'
  <2>1. o = k /\ Naming = {}
    BY <1>2, <1>5
  <2>2. /\ recordingFiles = {} /\ state = "parsed"
        /\ location = [f \in FileNames |-> "parse"]
    BY <1>5, <2>1 DEF FilesInv
  <2>3. recordingFiles' = NamedFiles(jp) \X {k}
    BY <2>2 DEF UpdateRecordingFiles
  <2>4. location' = [f \in FileNames |->
                        IF f \in NamedFiles(jp) \intersect NamedSinks(template, jp)
                        THEN k ELSE "parse"]
    BY <2>2 DEF UpdateRecordingFiles
  <2> QED
    BY <2>1, <2>3, <2>4 DEF options, NamedBy, jp, template
<1>6. slice["audio"] \in Handed <=> slice'["audio"] \in Handed
  BY <1>1, KindsAre DEF Handed, Past
<1> QED
  BY <1>3, <1>4, <1>5, <1>6 DEF FilesInv, Handed

LEMMA FilesLaunching ==
    ASSUME TypeOK, FilesInv, Kinds' = Kinds, UNCHANGED options, NEW k \in Kinds,
           GstStartPipeline(k)
    PROVE  FilesInv'
<1>1. /\ slice[k] = "launching" /\ slice'[k] = "announcing"
      /\ \A o \in AllKinds : o # k => slice'[o] = slice[o]
  BY KindsAre, MovesAre DEF GstStartPipeline, SliceStates
<1>2. Naming' = Naming /\ Naming # {}
  BY <1>1, KindsAre DEF Naming
<1>3. UNCHANGED <<recordingFiles, location, startedCh, panicked, files>>
  BY DEF GstStartPipeline
<1>4. \A o \in Kinds : NamedBy(o) => NamedBy(o)'
  BY <1>3, NamedByStays
<1>5. ~NamedOnce' /\ ~NamedOnce
  BY <1>2 DEF NamedOnce
<1>6. slice["audio"] \in Handed <=> slice'["audio"] \in Handed
  BY <1>1, KindsAre DEF Handed, Past
<1> QED
  BY <1>2, <1>3, <1>4, <1>5, <1>6 DEF FilesInv, Handed

\* The first to announce leaves the files named once, or another one naming them.
LEMMA FilesAnnouncing ==
    ASSUME TypeOK, FilesInv, StartedInv, Kinds' = Kinds, UNCHANGED options, NEW k \in Kinds,
           CloseStarted(k)
    PROVE  FilesInv'
<1>1. /\ slice[k] = "announcing" /\ slice'[k] = "waiting"
      /\ \A o \in AllKinds : o # k => slice'[o] = slice[o]
  BY KindsAre, MovesAre DEF CloseStarted, SliceStates
<1>2. Naming' = Naming \ {k} /\ k \in Naming
  BY <1>1, KindsAre DEF Naming
<1>3. /\ UNCHANGED <<recordingFiles, location, files>>
      /\ startedCh' /\ (panicked' <=> panicked \/ startedCh)
  BY DEF CloseStarted, gstVars
<1>4. ASSUME NamedOnce' PROVE ~startedCh /\ NamedBy(k)'
  <2>1. Naming = {k} /\ ~startedCh
    BY <1>2, <1>3, <1>4 DEF NamedOnce
  <2> QED
    BY <1>3, <2>1, NamedByStays DEF FilesInv
<1>5. slice["audio"] \in Handed => startedCh
  BY KindsAre DEF StartedInv, Handed
<1>6. slice["audio"] \in Handed <=> slice'["audio"] \in Handed
  BY <1>1, KindsAre DEF Handed, Past
<1> QED
  BY <1>3, <1>4, <1>5, <1>6 DEF FilesInv, Handed

LEMMA FilesHanding ==
    ASSUME TypeOK, FilesInv, Kinds' = Kinds, UNCHANGED options, NEW k \in Kinds, EnterLoop(k)
    PROVE  FilesInv'
<1>1. /\ slice[k] = "waiting" /\ slice'[k] = "looping"
      /\ \A o \in AllKinds : o # k => slice'[o] = slice[o]
  BY KindsAre, MovesAre DEF EnterLoop, SliceStates
<1>2. Naming' = Naming
  BY <1>1, KindsAre DEF Naming
<1>3. UNCHANGED <<recordingFiles, location, startedCh, panicked>> /\ startedCh
  BY DEF EnterLoop, goVars, gstVars, flagVars
<1>4. \A o \in Kinds : NamedBy(o) => NamedBy(o)'
  BY <1>3, NamedByStays
<1>5. NamedOnce' <=> NamedOnce
  BY <1>2, <1>3 DEF NamedOnce
<1>6. CASE k = "audio"
  <2>1. files = {} /\ files' = files \union recordingFiles
    BY <1>1, <1>6 DEF FilesInv, EnterLoop, Past
  <2>2. slice'["audio"] \in Handed
    BY <1>1, <1>6 DEF Handed
  <2> QED
    BY <1>2, <1>3, <1>4, <1>5, <2>1, <2>2 DEF FilesInv, Handed
<1>7. CASE k # "audio"
  <2>1. files' = files /\ slice'["audio"] = slice["audio"]
    BY <1>1, <1>7, KindsAre DEF EnterLoop
  <2> QED
    BY <1>2, <1>3, <1>4, <1>5, <2>1 DEF FilesInv, Handed
<1> QED
  BY <1>6, <1>7

LEMMA FilesStep == TypeOK /\ StartedInv /\ FilesInv /\ [Next]_vars => FilesInv'
<1> SUFFICES ASSUME TypeOK, StartedInv, FilesInv, [Next]_vars PROVE FilesInv'
  OBVIOUS
<1>0. Kinds' = Kinds /\ UNCHANGED options
  BY KindsStep, OptionsStay
<1> USE DEF goVars, gstVars, sliceVars, flagVars
<1>1. ASSUME NEW k \in Kinds,
             \/ BindTrackAutoStart(k) \/ UpdateReady(k) \/ LeaveLoop(k) \/ Stop(k)
             \/ SendEOS(k) \/ ForceStop(k) \/ EndForceStop(k) \/ CloseSlice(k)
      PROVE  FilesInv'
  <2>1. PICK from \in SliceStates, to \in SliceStates :
          /\ MoveSlice(k, from, to)
          /\ from \in {"launching", "announcing"} <=> to \in {"launching", "announcing"}
          /\ from \in Handed <=> to \in Handed
          /\ from \in Handed \/ UNCHANGED state
    BY <1>1 DEF BindTrackAutoStart, UpdateReady, LeaveLoop, Stop, SendEOS, ForceStop,
                EndForceStop, CloseSlice, SliceStates, Handed, Past
  <2>2. UNCHANGED <<recordingFiles, location, startedCh, panicked, files>>
    BY <1>1 DEF BindTrackAutoStart, UpdateReady, LeaveLoop, Stop, SendEOS, ForceStop,
                EndForceStop, CloseSlice, Release
  <2>3. state = "parsed" => state' = "parsed"
    <3>1. slice[k] = from
      BY <2>1, KindsAre, MovesAre
    <3> QED
      BY <2>1, <3>1 DEF StartedInv, Handed
  <2> QED
    BY <1>0, <2>1, <2>2, <2>3, FilesMoves
<1>2. ASSUME UNCHANGED <<recordingFiles, location, startedCh, panicked, files, slice>>,
             state = "parsed" => state' = "parsed"
      PROVE  FilesInv'
  BY <1>0, <1>2, FilesFrame DEF Naming
<1>3. CASE MainLoopStep
  <2>1. state # "parsed"
    BY <1>3 DEF MainLoopStep, BusCallback, EndBusCallback, StartedInv
  <2> QED
    BY <1>2, <1>3, <2>1 DEF MainLoopStep, BusCallback, EndBusCallback, Release
<1>4. ASSUME NEW k \in Kinds,
             \/ StoreBufferDrains(k) \/ PushRTP(k) \/ ReadRTCP(k) \/ PushRTCP(k)
             \/ ReadRTCPFails(k) \/ WriteTo(k)
      PROVE  FilesInv'
  BY <1>2, <1>4 DEF StoreBufferDrains, PushRTP, ReadRTCP, PushRTCP, ReadRTCPFails, WriteTo
<1>5. CASE PostError \/ SetFxProp \/ PeerDone
  BY <1>2, <1>5 DEF PostError, SetFxProp, PeerDone
<1>6. CASE UNCHANGED vars
  BY <1>2, <1>6 DEF vars
<1>7. ASSUME NEW k \in Kinds, SliceStep(k) PROVE FilesInv'
  BY <1>0, <1>1, <1>7, FilesNaming, FilesLaunching, FilesAnnouncing, FilesHanding DEF SliceStep
<1> QED
  BY <1>1, <1>3, <1>4, <1>5, <1>6, <1>7 DEF Next

----------------------------------------------------------------------------
LEMMA PipelineInit == Init => PipelineInv
<1> SUFFICES ASSUME Init PROVE PipelineInv
  OBVIOUS
<1>1. \A k \in Kinds : slice[k] = "none"
  BY KindsAre DEF Init
<1>2. {k \in Kinds : slice[k] \in Past} = {}
  BY <1>1 DEF Past
<1>3. StopInv
  BY <1>1, <1>2, FS_EmptySet DEF Init, StopInv, Stopping
<1>4. OutputInv /\ StateInv
  BY <1>1 DEF Init, OutputInv, StateInv, Past
<1>5. FilesInv
  <2>1. Naming = {}
    BY <1>1 DEF Naming
  <2>2. slice["audio"] = "none"
    BY KindsAre DEF Init
  <2> QED
    BY <2>1, <2>2 DEF Init, FilesInv, NamedOnce, Past
<1> QED
  BY <1>3, <1>4, <1>5, TypeInit DEF PipelineInv, Init, CallbacksAreServed, ReleasedOnlyWhenUnused

(* Whatever page, template and order of the slices: who has stopped, what  *)
(* they saw before they started the pipeline, how the element follows and  *)
(* who named the files.                                                    *)
THEOREM PipelineInvariance == Spec => []PipelineInv
<1>1. PipelineInv /\ [Next]_vars => PipelineInv'
  <2> SUFFICES ASSUME PipelineInv, [Next]_vars PROVE PipelineInv'
    OBVIOUS
  <2>1. /\ TypeOK /\ StopInv /\ OutputInv /\ StateInv /\ FilesInv
        /\ CallbacksAreServed /\ ReleasedOnlyWhenUnused
    BY DEF PipelineInv
  <2>2. StartedInv /\ (failed \/ ElementInv)
    BY <2>1, StateInvIs
  <2>3. failed => failed'
    BY DEF Next, SliceStep, MainLoopStep, vars, gstVars,
       BindTrackAutoStart, StoreBufferDrains, UpdateReady, UpdateRecordingFiles, GstStartPipeline,
       CloseStarted, EnterLoop, LeaveLoop, Stop, SendEOS, ForceStop, EndForceStop, CloseSlice,
       PushRTP, ReadRTCP, PushRTCP, ReadRTCPFails, WriteTo, BusCallback, EndBusCallback,
       PostError, SetFxProp, PeerDone
  <2>4. StateInv'
    BY <2>1, <2>2, <2>3, StartedStep, ElementStep, StateInvIsPrime
  <2> QED
    BY <2>1, <2>2, <2>4, TypeStep, StopStep, OutputStep, FilesStep, CallbacksStep,
       ReleaseStep
    DEF PipelineInv
<1> QED
  BY <1>1, PipelineInit, PTL DEF Spec

(* Every variable keeps its type, the counter of stopped tracks included.  *)
THEOREM PipelineTypes == Spec => []TypeOK
<1>1. PipelineInv => TypeOK
  BY DEF PipelineInv
<1> QED
  BY <1>1, PipelineInvariance, PTL

(* Media is pushed only while the pipeline plays (pipeline.go:215), unless *)
(* GStreamer failed.                                                       *)
THEOREM MediaIsPlayed == Spec => []MediaMeetsAPlayingPipeline
<1>1. PipelineInv => MediaMeetsAPlayingPipeline
  <2> SUFFICES ASSUME PipelineInv, NEW k \in Kinds, slice[k] = "looping", ~failed
               PROVE  state = "playing"
    BY DEF MediaMeetsAPlayingPipeline
  <2>1. state # "parsed"
    BY DEF PipelineInv, StateInv
  <2>2. state \notin {"draining", "null", "released"}
    BY DEF PipelineInv, StateInv, Past
  <2> QED
    BY <2>1, <2>2 DEF PipelineInv, TypeOK, GstStates
<1> QED
  BY <1>1, PipelineInvariance, PTL

(* A sample finds its pipeline in the store and an output to write to      *)
(* (go_called_from_c.go:41-66).                                            *)
THEOREM CallbacksFindTheirs == Spec => []CallbacksAreServed
<1>1. PipelineInv => CallbacksAreServed
  BY DEF PipelineInv
<1> QED
  BY <1>1, PipelineInvariance, PTL

(* Unless GStreamer fails only RTCP may reach a released pipeline, which   *)
(* is unreferenced once (gst.c:11-19).                                     *)
THEOREM ReleasedOnce == Spec => []ReleasedOnlyWhenUnused
<1>1. PipelineInv => ReleasedOnlyWhenUnused
  BY DEF PipelineInv
<1> QED
  BY <1>1, PipelineInvariance, PTL

(* A pipeline is not started again once a slice or the main loop has begun *)
(* to stop it, even though both slices may run start (pipeline.go:198,     *)
(* gst.c:11, 62): the one that starts it late has not stopped it, and the  *)
(* element waits for both.                                                 *)
THEOREM NeverPlaysAgain == Spec => ElementGoesForward
<1>1. ASSUME PipelineInv, [Next]_vars, ~failed' PROVE Age[state] <= Age[state']
  <2> USE DEF options, goVars, gstVars, sliceVars, flagVars
  <2>1. state \in GstStates /\ (failed \/ ElementInv)
    BY <1>1, StateInvIs DEF PipelineInv, TypeOK
  <2>2. Age["parsed"] = 0 /\ Age["playing"] = 1 /\ Age["draining"] = 2
            /\ Age["null"] = 3 /\ Age["released"] = 4
    BY DEF Age
  <2>3. \A x \in GstStates : Age[x] \in 0..4
    BY <2>2 DEF GstStates
  <2>4. CASE UNCHANGED state
    BY <2>1, <2>3, <2>4
  <2>5. CASE state' = "released"
    BY <2>1, <2>2, <2>3, <2>5
  <2>6. ASSUME NEW k \in Kinds, GstStartPipeline(k), ~failed PROVE Age[state] <= Age[state']
    <3>1. slice[k] = "launching" /\ state' \in {state, "playing"}
      BY <2>6 DEF GstStartPipeline, MoveSlice
    <3>2. state \in {"parsed", "playing"}
      BY <2>1, <2>6, <3>1 DEF ElementInv, Past, GstStates
    <3> QED
      BY <2>2, <2>4, <3>1, <3>2
  <2>7. ASSUME NEW k \in Kinds, SendEOS(k) \/ ForceStop(k) PROVE Age[state] <= Age[state']
    <3>1. \/ UNCHANGED state
          \/ state = "playing" /\ state' = "draining"
          \/ state \in {"playing", "null"} /\ state' = "null"
      BY <2>7 DEF SendEOS, ForceStop
    <3> QED
      BY <2>2, <2>4, <3>1
  <2>8. CASE MainLoopStep
    <3>1. \/ state' = "released"
          \/ state \in {"draining", "playing"} /\ state' = "null"
      BY <2>8 DEF MainLoopStep, BusCallback, EndBusCallback, Release
    <3> QED
      BY <2>2, <2>5, <3>1
  <2>9. ASSUME NEW k \in Kinds, SliceStep(k), ~failed PROVE Age[state] <= Age[state']
    BY <2>4, <2>5, <2>6, <2>7, <2>9
    DEF SliceStep, UpdateReady, UpdateRecordingFiles, CloseStarted, EnterLoop, Stop,
        EndForceStop, CloseSlice, Release
  <2>10. ASSUME ~MainLoopStep, \A k \in Kinds : ~SliceStep(k) PROVE UNCHANGED state
    BY <1>1, <2>10
    DEF Next, vars, BindTrackAutoStart, StoreBufferDrains, LeaveLoop, PushRTP, ReadRTCP, PushRTCP,
        ReadRTCPFails, WriteTo, SetFxProp, PostError, PeerDone
  <2>11. (\E k \in Kinds : SliceStep(k)) => ~failed
    BY <1>1
    DEF SliceStep, UpdateReady, UpdateRecordingFiles, GstStartPipeline, CloseStarted, EnterLoop,
        Stop, SendEOS, ForceStop, EndForceStop, CloseSlice, Release
  <2> QED
    BY <2>4, <2>8, <2>9, <2>10, <2>11
<1>2. PipelineInv /\ [Next]_vars => [failed' \/ Age[state] <= Age[state']]_vars
  BY <1>1
<1> QED
  BY <1>2, PipelineInvariance, PTL DEF Spec, ElementGoesForward

----------------------------------------------------------------------------
(***************************************************************************)
(* What a template writes, against what updateRecordingFiles names.        *)
(***************************************************************************)
Modes == RecordingModes \union {defaultRecordingMode}

LEMMA JoinType ==
    TypeOK => /\ page \in PeerOptions /\ noRecording \in BOOLEAN
              /\ jp.audioOnly \in BOOLEAN /\ jp.audioFx \in BOOLEAN /\ jp.videoFx \in BOOLEAN
              /\ jp.recordingMode \in Modes /\ jp.videoFormat \in VideoFormats
<1> SUFFICES ASSUME TypeOK
             PROVE  /\ page \in PeerOptions /\ noRecording \in BOOLEAN
                    /\ jp.audioOnly \in BOOLEAN /\ jp.audioFx \in BOOLEAN /\ jp.videoFx \in BOOLEAN
                    /\ jp.recordingMode \in Modes /\ jp.videoFormat \in VideoFormats
  OBVIOUS
<1>1. page \in PeerOptions /\ noRecording \in BOOLEAN
  BY SetupsAssumption DEF TypeOK
<1>2. /\ jp.audioOnly = page.audioOnly /\ jp.audioFx = page.audioFx /\ jp.videoFx = page.videoFx
      /\ jp.recordingMode = parseRecordingMode(page.recordingMode)
      /\ \E f : jp.videoFormat = parseVideoFormat(f)
  BY <1>1 DEF jp, readJoin, parseJoinPayload, PeerOptions
<1> QED
  BY <1>1, <1>2 DEF PeerOptions, Modes, parseRecordingMode, parseVideoFormat, defaultVideoFormat,
                    VideoFormats

\* No page falls through the choice of a template.
LEMMA TemplateIsKnown ==
    ASSUME TypeOK
    PROVE  template \in {"audio_only", "audio_only_no_recording", "no_recording", "rtpbin_only",
                         "split", "muxed_reenc_dry", "muxed_free_framerate",
                         "muxed_forced_framerate"}
<1>1. jp.recordingMode \in Modes
  BY JoinType
<1>2. VideoTemplate(jp) \in {"split", "rtpbin_only", "no_recording", "muxed_reenc_dry",
                             "muxed_free_framerate", "muxed_forced_framerate"}
  BY <1>1 DEF VideoTemplate, Modes, RecordingModes, defaultRecordingMode
<1> QED
  BY <1>2 DEF template, TemplateName

LEMMA SinksAreNames == ASSUME TypeOK PROVE SinkFiles(template, jp) \subseteq FileNames
BY TemplateIsKnown DEF SinkFiles, Where, FileNames

\* Every file that is named is written under that name, or never.
LEMMA NamedAreWritten ==
    ASSUME TypeOK, NEW f \in NamedFiles(jp), f \notin NeverWritten
    PROVE  f \in SinkFiles(template, jp) /\ f \in NamedSinks(template, jp)
<1>1. ~jp.audioOnly /\ ~noRecording /\ f \in FileNames
  BY NamedFilesAreNames DEF NeverWritten
<1>2. template = VideoTemplate(jp) /\ template # "audio_only"
  BY <1>1, JoinType DEF template, TemplateName, VideoTemplate, Modes, RecordingModes,
     defaultRecordingMode
<1>3. NamedSinks(template, jp) = SinkFiles(template, jp)
  BY <1>2 DEF NamedSinks
<1>4. CASE jp.recordingMode \in muxedModes
  <2>1. NamedFiles(jp) = {"dry"} \union Where(jp.audioFx \/ jp.videoFx, {"wet"})
    BY <1>1, <1>4 DEF NamedFiles, muxedModes
  <2>2. template \in {"muxed_forced_framerate", "muxed_free_framerate", "muxed_reenc_dry"}
    BY <1>2, <1>4 DEF VideoTemplate, muxedModes
  <2>3. SinkFiles(template, jp) = {"dry"} \union Where(jp.audioFx \/ jp.videoFx, {"wet"})
    BY <2>2 DEF SinkFiles
  <2> QED
    BY <1>3, <2>1, <2>3
<1>5. CASE jp.recordingMode = "split"
  <2>1. f \in {"audio-dry", "video-dry", "audio-wet", "video-wet"}
    BY <1>1, <1>5 DEF NamedFiles, Where, muxedModes
  <2>2. template = "split"
    BY <1>2, <1>5 DEF VideoTemplate, defaultRecordingMode
  <2>3. {"audio-dry", "video-dry"} \subseteq SinkFiles(template, jp)
    BY <2>2 DEF SinkFiles
  <2> QED
    BY <1>1, <1>3, <2>1, <2>3 DEF NeverWritten
<1>6. CASE jp.recordingMode \notin muxedModes \union {"split"}
  BY <1>1, <1>6 DEF NamedFiles
<1> QED
  BY <1>4, <1>5, <1>6

\* Every file that is written is named, in the modes that updateRecordingFiles knows.
LEMMA WrittenAreNamed ==
    ASSUME TypeOK, ~jp.audioOnly, jp.recordingMode \notin {"muxed", "direct", "bypass"},
           NEW f \in SinkFiles(template, jp)
    PROVE  f \in NamedFiles(jp) /\ f \in NamedSinks(template, jp)
<1>1. ~noRecording /\ template = VideoTemplate(jp)
  BY DEF template, TemplateName, SinkFiles
<1>2. jp.recordingMode \in muxedModes \union {"split", "rtpbin_only", "none"}
  BY JoinType DEF Modes, RecordingModes, defaultRecordingMode, muxedModes
<1>3. jp.recordingMode \notin {"rtpbin_only", "none"}
  BY <1>1 DEF VideoTemplate, SinkFiles, defaultRecordingMode
<1>4. CASE jp.recordingMode \in muxedModes
  <2>1. template \in {"muxed_forced_framerate", "muxed_free_framerate", "muxed_reenc_dry"}
    BY <1>1, <1>4 DEF VideoTemplate, muxedModes
  <2>2. SinkFiles(template, jp) = {"dry"} \union Where(jp.audioFx \/ jp.videoFx, {"wet"})
    BY <2>1 DEF SinkFiles
  <2>3. NamedFiles(jp) = {"dry"} \union Where(jp.audioFx \/ jp.videoFx, {"wet"})
    BY <1>4 DEF NamedFiles, muxedModes
  <2> QED
    BY <2>1, <2>2, <2>3 DEF NamedSinks
<1>5. CASE jp.recordingMode = "split"
  <2>1. template = "split"
    BY <1>1, <1>5 DEF VideoTemplate, defaultRecordingMode
  <2>2. SinkFiles(template, jp) = {"audio-dry", "video-dry"} \union Where(jp.audioFx, {"audio-wet"})
                                       \union Where(jp.videoFx, {"video-wet"})
    BY <2>1 DEF SinkFiles
  <2>3. NamedFiles(jp) = {"audio-dry", "video-dry"}
                            \union Where(jp.audioFx \/ jp.videoFx, {"audio-wet", "video-wet"})
    BY <1>5 DEF NamedFiles, muxedModes
  <2> QED
    BY <2>1, <2>2, <2>3 DEF NamedSinks, Where
<1> QED
  BY <1>2, <1>3, <1>4, <1>5

LEMMA AnnouncedMeans ==
    ASSUME PipelineInv, Announced
    PROVE  /\ state # "parsed"
           /\ \E k \in Kinds : NamedBy(k)
           /\ files = recordingFiles
<1>1. slice["audio"] \in Handed
  BY DEF Announced, Handed, Past
<1>2. startedCh
  BY <1>1, KindsAre DEF PipelineInv, StateInv, Handed
<1>3. NamedOnce
  BY <1>2 DEF NamedOnce, Naming, Announced
<1> QED
  BY <1>1, <1>2, <1>3 DEF PipelineInv, StateInv, FilesInv, Handed

(* The files that a peer is told of (README.md:55) are on the disk under   *)
(* these names, but for those of NeverWritten: whatever the page asks for, *)
(* and whichever slice ran updateRecordingFiles (pipeline.go:256-287).     *)
THEOREM AnnouncedFilesAreThere == Spec => []AnnouncedFilesExist
<1>1. PipelineInv => AnnouncedFilesExist
  <2> SUFFICES ASSUME PipelineInv, Announced, NEW f \in files, f[1] \notin NeverWritten
               PROVE  f \in OnDisk
    BY DEF AnnouncedFilesExist
  <2>1. PICK k \in Kinds : NamedBy(k)
    BY AnnouncedMeans
  <2>2. PICK n \in NamedFiles(jp) : f = <<n, k>>
    BY <2>1, AnnouncedMeans DEF NamedBy
  <2>3. n \in SinkFiles(template, jp) /\ n \in NamedSinks(template, jp) /\ n \in FileNames
    BY <2>2, NamedAreWritten, NamedFilesAreNames DEF PipelineInv
  <2>4. location[n] = k
    BY <2>1, <2>2, <2>3 DEF NamedBy
  <2> QED
    BY <2>2, <2>3, <2>4, AnnouncedMeans DEF OnDisk
<1> QED
  BY <1>1, PipelineInvariance, PTL

(* A file that is written is announced under the name it has, for every    *)
(* page but an audio-only one or one of the modes that                     *)
(* updateRecordingFiles does not know (pipeline.go:256-287).               *)
THEOREM RecordingsAreAnnounced == Spec => []RecordedFilesAreAnnounced
<1>1. PipelineInv => RecordedFilesAreAnnounced
  <2> SUFFICES ASSUME PipelineInv, Announced, ~jp.audioOnly,
                      jp.recordingMode \notin {"muxed", "direct", "bypass"},
                      NEW n \in SinkFiles(template, jp)
               PROVE  <<n, location[n]>> \in files
    BY AnnouncedMeans DEF RecordedFilesAreAnnounced, OnDisk
  <2>1. PICK k \in Kinds : NamedBy(k)
    BY AnnouncedMeans
  <2>2. n \in NamedFiles(jp) /\ n \in NamedSinks(template, jp) /\ n \in FileNames
    BY WrittenAreNamed, SinksAreNames DEF PipelineInv
  <2>3. location[n] = k
    BY <2>1, <2>2 DEF NamedBy
  <2> QED
    BY <2>1, <2>2, <2>3, AnnouncedMeans DEF NamedBy
<1> QED
  BY <1>1, PipelineInvariance, PTL
============================================================================
