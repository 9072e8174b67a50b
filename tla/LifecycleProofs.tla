-------------------------- MODULE LifecycleProofs --------------------------
(***************************************************************************)
(* Interaction implements RoomLifecycle, for every set of users, every     *)
(* size and every bound on rooms, sessions and repeated closes.            *)
(***************************************************************************)
EXTENDS InteractionLifecycle, InteractionProofs

(* What a step that leaves the fate of rooms alone preserves.              *)
LEMMA EndingFrame ==
    ASSUME EndingInv, UNCHANGED <<created, ready, closed, deleted, mutex>>,
           index' \in {None, index}
    PROVE  EndingInv'
BY Domains DEF EndingInv, HasEnded

LEMMA PlacesFrame ==
    ASSUME PlacesInv, UNCHANGED <<created, user, room, session>>
    PROVE  PlacesInv'
BY DEF PlacesInv

(* A session that moves on in the room where it is.                        *)
LEMMA PlacesMoves ==
    ASSUME TypeOK, PlacesInv, NEW s \in Sessions, NEW to,
           session' = [session EXCEPT ![s] = to],
           session[s] # "idle",
           to \in {"idle", "joining", "refused"} \/ session[s] \notin {"idle", "joining", "refused"},
           UNCHANGED <<created, user, room>>
    PROVE  PlacesInv'
BY DEF PlacesInv, TypeOK

LEMMA LifecycleInit == Init => LifecycleInv
<1> SUFFICES ASSUME Init PROVE LifecycleInv
  OBVIOUS
<1>1. PlacesInv /\ index \in {None, created}
  BY DEF Init, PlacesInv
<1>2. \A g \in Rooms : closed[g] = {} /\ ~ready[g] /\ ~deleted[g]
  BY DEF Init
<1> QED
  BY <1>1, <1>2 DEF LifecycleInv, EndingInv

LEMMA LifecycleStep == IInv /\ LifecycleInv /\ [Next]_vars => LifecycleInv'
<1> SUFFICES ASSUME IInv, LifecycleInv, [Next]_vars PROVE LifecycleInv'
  OBVIOUS
<1>0. /\ TypeOK /\ CountdownInv /\ CountInv /\ SessionInv
      /\ PlacesInv /\ EndingInv /\ index \in {None, created}
  BY DEF IInv, LifecycleInv
<1> USE DEF storeVars, roomVars, userVars, trackVars, sessionVars
<1>1. ASSUME NEW s \in Sessions, NEW u \in Users, Arrive(s, u) PROVE LifecycleInv'
  <2>1. PlacesInv'
    BY <1>0, <1>1 DEF Arrive, PlacesInv, TypeOK
  <2> QED
    BY <1>0, <1>1, <2>1, EndingFrame DEF Arrive, LifecycleInv
<1>2. ASSUME NEW s \in Sessions, JoinNew(s) PROVE LifecycleInv'
  <2>1. created' = created + 1 /\ index' = created' /\ created \in Nat
    BY <1>0, <1>2 DEF JoinNew, TypeOK
  <2>2. PlacesInv'
    <3>1. ASSUME NEW t \in Sessions PROVE room[t] \in Nat
      <4>1. room[t] \in Rooms \/ room[t] = 0
        BY <1>0 DEF TypeOK, None
      <4> QED
        BY <4>1, Domains
    <3>2. \A t \in Sessions :
            /\ room'[t] = IF t = s THEN created' ELSE room[t]
            /\ session'[t] = IF t = s THEN "joined" ELSE session[t]
            /\ user'[t] = user[t]
      BY <1>0, <1>2, <2>1 DEF JoinNew, TypeOK
    <3>3. session[s] # "idle"
      BY <1>2 DEF JoinNew
    <3> QED
      BY <1>0, <2>1, <3>1, <3>2, <3>3 DEF PlacesInv
  <2>3. EndingInv'
    BY <1>0, <1>2, <2>1 DEF JoinNew, EndingInv, HasEnded, Rooms
  <2> QED
    BY <2>1, <2>2, <2>3 DEF LifecycleInv
<1>3. ASSUME NEW s \in Sessions, JoinExisting(s) PROVE LifecycleInv'
  <2>1. PlacesInv'
    BY <1>0, <1>3 DEF JoinExisting, PlacesInv, TypeOK, None
  <2> QED
    BY <1>0, <1>3, <2>1, EndingFrame DEF JoinExisting, LifecycleInv
<1>4. ASSUME NEW s \in Sessions,
             \/ JoinRefused(s) \/ PeerConnectionFails(s) \/ ConnectPeerServer(s)
             \/ ClosePeerServer(s) \/ DisconnectNobody(s)
             \/ \E from \in {"closing", "over"} : DisconnectUser(s, from)
      PROVE LifecycleInv'
  <2>1. UNCHANGED <<index, created, ready, closed, deleted, mutex, user, room>>
    BY <1>4
    DEF JoinRefused, PeerConnectionFails, ConnectPeerServer, ClosePeerServer, DisconnectNobody,
        DisconnectUser
  <2>2. PlacesInv'
    BY <1>0, <1>4, <2>1, PlacesMoves
    DEF JoinRefused, PeerConnectionFails, ConnectPeerServer, ClosePeerServer, DisconnectNobody,
        DisconnectUser, CallsDisconnect
  <2> QED
    BY <1>0, <2>1, <2>2, EndingFrame DEF LifecycleInv
<1>5. ASSUME NEW s \in Sessions, NEW from \in {"closing", "over"}, DisconnectLastUser(s, from)
      PROVE LifecycleInv'
  <2>1. room[s] \in Rooms /\ room[s] <= created
    BY <1>0, <1>5 DEF DisconnectLastUser, CallsDisconnect, SessionInv, PlacesInv
  <2>2. PlacesInv'
    BY <1>0, <1>5, PlacesMoves DEF DisconnectLastUser, CallsDisconnect
  <2>3. \A g \in Rooms :
          /\ deleted'[g] = IF g = room[s] THEN TRUE ELSE deleted[g]
          /\ mutex'[g] = IF g = room[s] THEN s ELSE mutex[g]
    BY <1>0, <1>5 DEF DisconnectLastUser, TypeOK
  <2>4. EndingInv'
    <3> SUFFICES ASSUME NEW g \in Rooms
                 PROVE  /\ ready'[g] => "ready" \in closed'[g]
                        /\ "ready" \in closed'[g] => ready'[g] \/ HasEnded(g)'
                        /\ g > created' => closed'[g] = {} /\ ~deleted'[g]
                        /\ index' = g /\ deleted'[g] => HasEnded(g)' \/ mutex'[g] # None
      BY DEF EndingInv
    <3>1. UNCHANGED <<index, created, ready, closed>>
      BY <1>5 DEF DisconnectLastUser
    <3>2. CASE g = room[s]
      <4>1. mutex'[g] # None
        BY <2>3, <3>2, Domains
      <4>2. ~(g > created')
        BY <1>0, <2>1, <3>1, <3>2, Domains DEF TypeOK
      <4> QED
        BY <1>0, <3>1, <4>1, <4>2 DEF EndingInv, HasEnded
    <3>3. CASE g # room[s]
      BY <1>0, <2>3, <3>1, <3>3 DEF EndingInv, HasEnded
    <3> QED
      BY <3>2, <3>3
  <2> QED
    BY <1>0, <1>5, <2>2, <2>4 DEF DisconnectLastUser, LifecycleInv
<1>6. ASSUME NEW s \in Sessions, UnindexEmptyRoom(s) PROVE LifecycleInv'
  <2>1. PlacesInv'
    BY <1>0, <1>6, PlacesMoves DEF UnindexEmptyRoom
  <2>2. EndingInv'
    BY <1>0, <1>6, Domains DEF UnindexEmptyRoom, EndingInv, HasEnded
  <2> QED
    BY <1>6, <2>1, <2>2 DEF UnindexEmptyRoom, LifecycleInv
<1>7. ASSUME NEW s \in Sessions, NEW k \in Kinds, CountInTrack(s, k) PROVE LifecycleInv'
  <2>1. HasPeerServer(s) /\ room[s] \in Rooms /\ room[s] <= created
    BY <1>0, <1>7
    DEF CountInTrack, MoveSlice, SessionInv, PlacesInv, HasPeerServer
  <2>2. UNCHANGED <<index, created, deleted, mutex, user, room, session>>
    BY <1>7 DEF CountInTrack
  <2>3. \/ UNCHANGED <<ready, closed>>
        \/ /\ ready' = [ready EXCEPT ![room[s]] = TRUE]
           /\ Close(room[s], "ready")
    BY <1>7 DEF CountInTrack
  <2>4. EndingInv'
    <3>1. CASE UNCHANGED <<ready, closed>>
      BY <1>0, <2>2, <3>1, EndingFrame
    <3>2. CASE ready' = [ready EXCEPT ![room[s]] = TRUE] /\ Close(room[s], "ready")
      <4> SUFFICES ASSUME NEW g \in Rooms
                   PROVE  /\ ready'[g] => "ready" \in closed'[g]
                          /\ "ready" \in closed'[g] => ready'[g] \/ HasEnded(g)'
                          /\ g > created' => closed'[g] = {} /\ ~deleted'[g]
                          /\ index' = g /\ deleted'[g] => HasEnded(g)' \/ mutex'[g] # None
        BY DEF EndingInv
      <4>1. \A d : d \in closed'[g] <=> (d \in closed[g] \/ (g = room[s] /\ d = "ready"))
        BY <1>0, <3>2, CloseAt
      <4>2. ready'[g] = IF g = room[s] THEN TRUE ELSE ready[g]
        BY <1>0, <3>2 DEF TypeOK
      <4>3. HasEnded(g)' <=> HasEnded(g)
        BY <4>1 DEF HasEnded
      <4>4. g > created' => g # room[s] /\ closed'[g] = closed[g]
        BY <1>0, <2>1, <2>2, <3>2 DEF Rooms, TypeOK, Close
      <4> QED
        BY <1>0, <2>2, <4>1, <4>2, <4>3, <4>4 DEF EndingInv
    <3> QED
      BY <2>3, <3>1, <3>2
  <2> QED
    BY <1>0, <2>2, <2>4, PlacesFrame DEF LifecycleInv
<1>8. ASSUME NEW s \in Sessions, NEW k \in Kinds, Start(s, k) PROVE LifecycleInv'
  <2>1. /\ HasPeerServer(s) /\ room[s] \in Rooms /\ room[s] <= created
        /\ "ready" \in closed[room[s]]
    BY <1>0, <1>8 DEF Start, MoveSlice, SessionInv, PlacesInv, HasPeerServer
  <2>2. UNCHANGED <<index, created, ready, deleted, mutex, user, room, session>>
    BY <1>8 DEF Start
  <2>3. closed' = closed \/ Close(room[s], "started")
    BY <1>8 DEF Start
  <2>4. EndingInv'
    <3>1. CASE closed' = closed
      BY <1>0, <2>2, <3>1, EndingFrame
    <3>2. CASE Close(room[s], "started")
      <4>1. ASSUME NEW g \in Rooms
            PROVE  /\ \A d : d # "started" => (d \in closed'[g] <=> d \in closed[g])
                   /\ g # room[s] => closed'[g] = closed[g]
        BY <1>0, <3>2, CloseAt DEF Close, TypeOK
      <4>2. \A g \in Rooms : HasEnded(g)' <=> HasEnded(g)
        BY <4>1 DEF HasEnded
      <4>3. \A g \in Rooms : g > created => g # room[s]
        BY <1>0, <2>1 DEF Rooms, TypeOK
      <4> QED
        BY <1>0, <2>2, <4>1, <4>2, <4>3 DEF EndingInv
    <3> QED
      BY <2>3, <3>1, <3>2
  <2> QED
    BY <1>0, <2>2, <2>4, PlacesFrame DEF LifecycleInv
<1>9. ASSUME NEW s \in Sessions, NEW k \in Kinds,
             OnTrack(s, k) \/ WaitTillAllReady(s, k) \/ BindTrack(s, k) \/ SliceEnds(s, k)
      PROVE LifecycleInv'
  <2>1. UNCHANGED <<index, created, ready, closed, deleted, mutex, user, room, session>>
    BY <1>9 DEF OnTrack, WaitTillAllReady, BindTrack, SliceEnds
  <2> QED
    BY <1>0, <2>1, EndingFrame, PlacesFrame DEF LifecycleInv
<1>10. ASSUME NEW g \in Rooms, AbortStep(g) PROVE LifecycleInv'
  <2>1. UNCHANGED <<index, created, ready, closed, deleted, mutex, user, room, session>>
    BY <1>10 DEF AbortStep, AbortTimerFires, CheckReady
  <2> QED
    BY <1>0, <2>1, EndingFrame, PlacesFrame DEF LifecycleInv
<1>11. ASSUME NEW g \in Rooms, NEW b \in Stoppers, StopStep(g, b) PROVE LifecycleInv'
  <2>1. UNCHANGED <<created, user, room, session, mutex>> /\ index' \in {None, index}
    BY <1>11
    DEF StopStep, StopCloses, StopClearsReady, StopTestsDeleted, StopMarksDeleted, StopUnindexes
  <2>2. PlacesInv'
    BY <1>0, <2>1, PlacesFrame
  <2>3. CASE StopCloses(g, b)
    <3>1. UNCHANGED <<ready, deleted, index>> /\ Close(g, StopChannel(b))
      BY <2>3 DEF StopCloses
    <3>2. stopper[g][b] \in {"waiting", "stopping"}
      BY <2>3 DEF StopCloses, MoveStopper
    <3>3. ~(g > created)
      BY <1>0, <3>2 DEF CountInv, CountdownInv, EndingInv, Stoppers
    <3>4. ASSUME NEW h \in Rooms
          PROVE  /\ "ready" \in closed'[h] <=> "ready" \in closed[h]
                 /\ HasEnded(h) => HasEnded(h)'
                 /\ h # g => closed'[h] = closed[h]
      BY <1>0, <3>1, CloseAt DEF Close, TypeOK, HasEnded, StopChannel
    <3>5. EndingInv'
      BY <1>0, <2>1, <3>1, <3>3, <3>4 DEF EndingInv
    <3> QED
      BY <1>0, <2>1, <2>2, <3>1, <3>5 DEF LifecycleInv
  <2>4. CASE ~StopCloses(g, b)
    <3>1. closed' = closed /\ stopper[g][b] \in HasClosed
      BY <1>11, <2>4
      DEF StopStep, StopClearsReady, StopTestsDeleted, StopMarksDeleted, StopUnindexes, HasClosed,
          MoveStopper
    <3>2. HasEnded(g)
      BY <1>0, <3>1 DEF CountdownInv, HasEnded, Stoppers
    <3>3. \A h \in Rooms : h # g => ready'[h] = ready[h] /\ deleted'[h] = deleted[h]
      BY <1>0, <1>11, <2>4
      DEF StopStep, StopClearsReady, StopTestsDeleted, StopMarksDeleted, StopUnindexes, TypeOK
    <3>4. ready'[g] => ready[g]
      BY <1>0, <1>11, <2>4
      DEF StopStep, StopClearsReady, StopTestsDeleted, StopMarksDeleted, StopUnindexes, TypeOK
    <3>5. \A h \in Rooms : HasEnded(h)' <=> HasEnded(h)
      BY <3>1 DEF HasEnded
    <3>6. ~(g > created)
      BY <1>0, <3>2 DEF EndingInv, HasEnded
    <3>7. EndingInv'
      <4> SUFFICES ASSUME NEW h \in Rooms
                   PROVE  /\ ready'[h] => "ready" \in closed'[h]
                          /\ "ready" \in closed'[h] => ready'[h] \/ HasEnded(h)'
                          /\ h > created' => closed'[h] = {} /\ ~deleted'[h]
                          /\ index' = h /\ deleted'[h] => HasEnded(h)' \/ mutex'[h] # None
        BY DEF EndingInv
      <4>1. CASE h = g
        BY <1>0, <2>1, <3>1, <3>2, <3>4, <3>5, <3>6, <4>1 DEF EndingInv
      <4>2. CASE h # g
        BY <1>0, <2>1, <3>1, <3>3, <3>5, <4>2, Domains DEF EndingInv
      <4> QED
        BY <4>1, <4>2
    <3> QED
      BY <1>0, <2>1, <2>2, <3>7 DEF LifecycleInv
  <2> QED
    BY <2>3, <2>4
<1>12. CASE UNCHANGED vars
  <2>1. UNCHANGED <<index, created, ready, closed, deleted, mutex, user, room, session>>
    BY <1>12 DEF vars
  <2> QED
    BY <1>0, <2>1, EndingFrame, PlacesFrame DEF LifecycleInv
<1>13. ASSUME NEW s \in Sessions, SignalingHangs(s) PROVE LifecycleInv'
  <2>1. /\ UNCHANGED <<index, created, ready, closed, deleted, mutex, user, room>>
        /\ HasPeerServer(s)
    BY <1>13 DEF SignalingHangs
  <2>2. PlacesInv'
    BY <1>0, <1>13, <2>1 DEF SignalingHangs, HasPeerServer, PlacesInv, TypeOK
  <2> QED
    BY <1>0, <2>1, <2>2, EndingFrame DEF LifecycleInv
<1> QED
  BY <1>1, <1>2, <1>3, <1>4, <1>5, <1>6, <1>7, <1>8, <1>9, <1>10, <1>11, <1>12, <1>13
  DEF Next, ClientStep, ClientLeaves, SessionStep, LeaveEndedRoom, SliceStep

THEOREM LifecycleInvariance == Spec => []LifecycleInv
BY LifecycleInit, LifecycleStep, Invariance, PTL DEF Spec

----------------------------------------------------------------------------
(***************************************************************************)
(* What a freeze keeps (the lemmas on locks are in InteractionProofs).     *)
(***************************************************************************)
LEMMA RequestedStep == IInv /\ LifecycleInv /\ RequestedInv /\ [Next]_vars => RequestedInv'
<1> SUFFICES ASSUME IInv, LifecycleInv, RequestedInv, [Next]_vars PROVE RequestedInv'
  OBVIOUS
<1> USE DEF storeVars, roomVars, userVars, sessionVars
<1>0. TypeOK /\ SessionInv /\ PlacesInv /\ created \in Nat
  BY DEF IInv, LifecycleInv, TypeOK
<1>1. ASSUME signaling' = signaling, created' \in {created, created + 1} PROVE RequestedInv'
  BY <1>0, <1>1 DEF RequestedInv, Rooms
<1>2. ASSUME NEW s \in Sessions, room[s] \in Rooms, room[s] <= created, created' = created,
             \A g \in Rooms : g # room[s] => signaling'[g] = signaling[g]
      PROVE  RequestedInv'
  BY <1>0, <1>2 DEF RequestedInv, Rooms
<1>3. ASSUME NEW s \in Sessions, SignalingHangs(s) PROVE RequestedInv'
  BY <1>0, <1>2, <1>3 DEF SignalingHangs, HasPeerServer, SessionInv, PlacesInv, TypeOK
<1>4. ASSUME NEW s \in Sessions, NEW k \in Kinds, BindTrack(s, k) PROVE RequestedInv'
  <2>1. room[s] \in Rooms /\ room[s] <= created
    BY <1>0, <1>4 DEF BindTrack, MoveSlice, SessionInv, PlacesInv, HasPeerServer
  <2>2. created' = created /\ \A g \in Rooms : g # room[s] => signaling'[g] = signaling[g]
    BY <1>0, <1>4 DEF BindTrack, RequestSignaling, TypeOK
  <2> QED
    BY <1>2, <2>1, <2>2
<1>5. ASSUME NEW s \in Sessions, ClientStep(s) \/ SessionStep(s) \/ LeaveEndedRoom(s)
      PROVE  RequestedInv'
  BY <1>1, <1>3, <1>5
  DEF ClientStep, SessionStep, LeaveEndedRoom, ClientLeaves, Arrive, PeerConnectionFails,
      ClosePeerServer, OnTrack, JoinNew, JoinExisting, JoinRefused, ConnectPeerServer,
      DisconnectNobody, DisconnectUser, DisconnectLastUser, UnindexEmptyRoom
<1>6. ASSUME NEW s \in Sessions, NEW k \in Kinds, SliceStep(s, k) \/ SliceEnds(s, k)
      PROVE  RequestedInv'
  BY <1>1, <1>4, <1>6 DEF SliceStep, CountInTrack, WaitTillAllReady, Start, SliceEnds
<1>7. ASSUME NEW h \in Rooms, AbortStep(h) \/ \E b \in Stoppers : StopStep(h, b)
      PROVE  RequestedInv'
  BY <1>1, <1>7
  DEF AbortStep, AbortTimerFires, CheckReady, StopStep, StopCloses, StopClearsReady,
      StopTestsDeleted, StopMarksDeleted, StopUnindexes
<1>8. CASE UNCHANGED vars
  BY <1>1, <1>8 DEF vars
<1> QED
  BY <1>5, <1>6, <1>7, <1>8 DEF Next

(* A deadlock of join with disconnectUser keeps the store, and a stuck     *)
(* room its users, its tracks and whether it has started, for good: no     *)
(* countdown, late close or other session ever undoes it                   *)
(* (interaction_store.go:28-45, interaction.go:305-315, 425-453,           *)
(* mixer.go:50-61).                                                        *)
THEOREM FreezeIsForGood == Spec => FrozenForever
<1>1. ASSUME IInv, RequestedInv, [Next]_vars, NEW g \in Rooms, Stuck(g)
      PROVE  Stuck(g)' /\ UNCHANGED Guarded(g)
  <2>0. TypeOK
    BY <1>1 DEF IInv
  <2>1. CASE LockCycle /\ index = g
    <3>1. Stuck(g)'
      BY <1>1, <2>0, <2>1, LockCycleStays DEF Stuck, storeVars
    <3>2. ~Unlocked(g) /\ index # None
      BY <2>1 DEF LockCycle, Unlocked, ReadUnlocked
    <3> QED
      BY <1>1, <3>1, <3>2, LockedRoomStays
  <2>2. CASE stopper[g]["abort"] = "holding"
    <3>1. Stuck(g)'
      BY <1>1, <2>2, HoldingStays DEF Stuck, ReaderStays
    <3>2. ~Unlocked(g) /\ ~(g > created)
      BY <1>1, <2>2 DEF Unlocked, IInv, CountInv
    <3> QED
      BY <1>1, <3>1, <3>2, LockedRoomStays
  <2>3. CASE signaling[g] = "hanging"
    <3>1. Stuck(g)'
      BY <1>1, <2>0, <2>3, HangingStays DEF Stuck, ReaderStays
    <3>2. ~Unlocked(g) /\ ~(g > created)
      BY <1>1, <2>3 DEF Unlocked, ReadUnlocked, RequestedInv
    <3> QED
      BY <1>1, <3>1, <3>2, LockedRoomStays
  <2> QED
    BY <1>1, <2>1, <2>2, <2>3 DEF Stuck, ReaderStays
<1>2. IInv /\ RequestedInv /\ [Next]_vars =>
        [/\ LockCycle => LockCycle' /\ UNCHANGED storeVars
         /\ \A g \in Rooms : Stuck(g) =>
             /\ Stuck(g)'
             /\ UNCHANGED <<connectedIndex[g], peerServerIndex[g], started[g]>>
             /\ UNCHANGED <<pipelineStartCount[g], inTracksReadyCount[g], outTracksReadyCount[g]>>
        ]_vars
  BY <1>1, LockCycleStays DEF IInv, Guarded
<1>3. Init => RequestedInv
  BY DEF Init, RequestedInv
<1> QED
  BY <1>2, <1>3, RequestedStep, Invariance, LifecycleInvariance, PTL DEF Spec, FrozenForever

----------------------------------------------------------------------------
(***************************************************************************)
(* The refinement.  First how the mapped variables follow the real ones.   *)
(***************************************************************************)
(* The phase depends on three of the channels, giving up on the fourth and *)
(* on where abortCountdown is.                                             *)
LEMMA PhaseFrame ==
    ASSUME NEW g,
           \A c \in {"ready", "started", "done"} : c \in closed'[g] <=> c \in closed[g]
    PROVE  PhaseOf(g)' = PhaseOf(g)
<1>1. /\ "ready" \in closed'[g] <=> "ready" \in closed[g]
      /\ "started" \in closed'[g] <=> "started" \in closed[g]
      /\ "done" \in closed'[g] <=> "done" \in closed[g]
  OBVIOUS
<1>2. /\ closed'[g] \intersect {"started", "done"} = {} <=>
            closed[g] \intersect {"started", "done"} = {}
      /\ closed'[g] \intersect {"ready", "started", "done"} = {} <=>
            closed[g] \intersect {"ready", "started", "done"} = {}
  BY <1>1
<1> QED
  BY <1>1, <1>2 DEF PhaseOf

LEMMA GiveUpFrame ==
    ASSUME NEW g,
           "aborted" \in closed'[g] <=> "aborted" \in closed[g],
           \/ "aborted" \in closed[g]
           \/ stopper'[g]["abort"] = "stopping" <=> stopper[g]["abort"] = "stopping"
    PROVE  GiveUpOf(g)' = GiveUpOf(g)
BY DEF GiveUpOf

(* What each value of the mapped phase says of the channels.               *)
LEMMA PhaseIs ==
    ASSUME CountdownInv, NEW g \in Rooms
    PROVE  /\ "ready" \notin closed[g] => PhaseOf(g) = "forming"
           /\ "ready" \in closed[g] /\ "started" \notin closed[g] => PhaseOf(g) = "ready"
           /\ "started" \in closed[g] /\ "done" \notin closed[g] => PhaseOf(g) = "running"
           /\ "done" \in closed[g] => PhaseOf(g) = "over"
           /\ PhaseOf(g) = "forming" => "ready" \notin closed[g]
<1>1. /\ "done" \in closed[g] => "started" \in closed[g]
      /\ "started" \in closed[g] => "ready" \in closed[g]
  BY DEF CountdownInv, HasClosed
<1>2. CASE "ready" \notin closed[g]
  BY <1>1, <1>2 DEF PhaseOf
<1>3. CASE "ready" \in closed[g] /\ "started" \notin closed[g]
  BY <1>1, <1>3 DEF PhaseOf
<1>4. CASE "started" \in closed[g] /\ "done" \notin closed[g]
  BY <1>1, <1>4 DEF PhaseOf
<1>5. CASE "done" \in closed[g]
  BY <1>1, <1>5 DEF PhaseOf
<1> QED
  BY <1>1, <1>2, <1>3, <1>4, <1>5

LEMMA EndedIs ==
    ASSUME NEW g \in Rooms, HasEnded(g)
    PROVE  PhaseOf(g) = "over" \/ GiveUpOf(g) = "done"
BY DEF HasEnded, PhaseOf, GiveUpOf

LEMMA UsersFrame ==
    ASSUME UNCHANGED connectedIndex
    PROVE  /\ [g \in Rooms |-> KnownUsers(g)]' = [g \in Rooms |-> KnownUsers(g)]
           /\ [g \in Rooms |-> ConnectedUsers(g)]' = [g \in Rooms |-> ConnectedUsers(g)]
BY DEF KnownUsers, ConnectedUsers

(* Marking one user connected, or disconnected, in one room.               *)
LEMMA UsersJoin ==
    ASSUME TypeOK, NEW g \in Rooms, NEW u \in Users,
           connectedIndex' = [connectedIndex EXCEPT ![g][u] = "yes"]
    PROVE  /\ [h \in Rooms |-> KnownUsers(h)]' =
                 [[h \in Rooms |-> KnownUsers(h)] EXCEPT ![g] = KnownUsers(g) \union {u}]
           /\ [h \in Rooms |-> ConnectedUsers(h)]' =
                 [[h \in Rooms |-> ConnectedUsers(h)] EXCEPT ![g] = ConnectedUsers(g) \union {u}]
<1>1. \A h \in Rooms, v \in Users :
        connectedIndex'[h][v] = IF h = g /\ v = u THEN "yes" ELSE connectedIndex[h][v]
  BY DEF TypeOK
<1>2. \A h \in Rooms :
        /\ KnownUsers(h)' = IF h = g THEN KnownUsers(g) \union {u} ELSE KnownUsers(h)
        /\ ConnectedUsers(h)' = IF h = g THEN ConnectedUsers(g) \union {u} ELSE ConnectedUsers(h)
  BY <1>1 DEF KnownUsers, ConnectedUsers
<1> QED
  BY <1>2

LEMMA UsersLeave ==
    ASSUME TypeOK, NEW g \in Rooms, NEW u \in Users, connectedIndex[g][u] = "yes",
           connectedIndex' = [connectedIndex EXCEPT ![g][u] = "no"]
    PROVE  /\ [h \in Rooms |-> KnownUsers(h)]' = [h \in Rooms |-> KnownUsers(h)]
           /\ [h \in Rooms |-> ConnectedUsers(h)]' =
                 [[h \in Rooms |-> ConnectedUsers(h)] EXCEPT ![g] = ConnectedUsers(g) \ {u}]
<1>1. \A h \in Rooms, v \in Users :
        connectedIndex'[h][v] = IF h = g /\ v = u THEN "no" ELSE connectedIndex[h][v]
  BY DEF TypeOK
<1>2. \A h \in Rooms :
        /\ KnownUsers(h)' = KnownUsers(h)
        /\ ConnectedUsers(h)' = IF h = g THEN ConnectedUsers(g) \ {u} ELSE ConnectedUsers(h)
  BY <1>1 DEF KnownUsers, ConnectedUsers
<1> QED
  BY <1>2

LEMMA FateFrame ==
    ASSUME \A g \in Rooms : PhaseOf(g)' = PhaseOf(g) /\ GiveUpOf(g)' = GiveUpOf(g)
    PROVE  /\ [g \in Rooms |-> PhaseOf(g)]' = [g \in Rooms |-> PhaseOf(g)]
           /\ [g \in Rooms |-> GiveUpOf(g)]' = [g \in Rooms |-> GiveUpOf(g)]
OBVIOUS

(* A step that closes no channel and keeps abortCountdown away from its    *)
(* decision does not change the fate of a room.                            *)
LEMMA FateUnchanged ==
    ASSUME UNCHANGED closed,
           \A g \in Rooms :
              \/ "aborted" \in closed[g]
              \/ stopper'[g]["abort"] = "stopping" <=> stopper[g]["abort"] = "stopping"
    PROVE  /\ [g \in Rooms |-> PhaseOf(g)]' = [g \in Rooms |-> PhaseOf(g)]
           /\ [g \in Rooms |-> GiveUpOf(g)]' = [g \in Rooms |-> GiveUpOf(g)]
<1>1. \A g \in Rooms : PhaseOf(g)' = PhaseOf(g)
  BY PhaseFrame
<1>2. \A g \in Rooms : GiveUpOf(g)' = GiveUpOf(g)
  BY GiveUpFrame
<1> QED
  BY <1>1, <1>2, FateFrame

LEMMA AdvancePhase ==
    ASSUME NEW g \in Rooms, NEW to, PhaseOf(g)' = to,
           \A h \in Rooms : h # g => PhaseOf(h)' = PhaseOf(h)
    PROVE  [h \in Rooms |-> PhaseOf(h)]' = [[h \in Rooms |-> PhaseOf(h)] EXCEPT ![g] = to]
OBVIOUS

LEMMA AdvanceGiveUp ==
    ASSUME NEW g \in Rooms, NEW to, GiveUpOf(g)' = to,
           \A h \in Rooms : h # g => GiveUpOf(h)' = GiveUpOf(h)
    PROVE  [h \in Rooms |-> GiveUpOf(h)]' = [[h \in Rooms |-> GiveUpOf(h)] EXCEPT ![g] = to]
OBVIOUS

----------------------------------------------------------------------------
(* The initial state, and then each kind of step, in RoomLifecycle's terms. *)
LEMMA RefinesInit == Init => Lifecycle!Init
<1> SUFFICES ASSUME Init PROVE Lifecycle!Init
  OBVIOUS
<1>1. \A g \in Rooms : PhaseOf(g) = "forming" /\ GiveUpOf(g) = "no"
  BY DEF Init, PhaseOf, GiveUpOf, Stoppers
<1>2. \A g \in Rooms : KnownUsers(g) = {} /\ ConnectedUsers(g) = {}
  BY DEF Init, KnownUsers, ConnectedUsers
<1> QED
  BY <1>1, <1>2 DEF Init, Lifecycle!Init

LEMMA RefinesStutter ==
    ASSUME UNCHANGED <<created, connectedIndex, deleted, closed>>,
           \A g \in Rooms :
              \/ "aborted" \in closed[g]
              \/ stopper'[g]["abort"] = "stopping" <=> stopper[g]["abort"] = "stopping"
    PROVE  UNCHANGED Lifecycle!vars
BY FateUnchanged, UsersFrame DEF Lifecycle!vars

(* interactionStore.join makes a room: it opens with its first user.       *)
LEMMA RefinesJoinNew ==
    ASSUME IInv, CapacityInv, LifecycleInv, NEW s \in Sessions, JoinNew(s)
    PROVE  Lifecycle!Next
<1>0. TypeOK /\ CountInv /\ PlacesInv
  BY DEF IInv, LifecycleInv
<1>1. created + 1 \in Rooms /\ created \in Nat
  BY <1>0, BoundsAssumption DEF JoinNew, TypeOK, Rooms
<1> PICK g \in Rooms : g = created + 1
  BY <1>1
<1>2. user[s] \in Users
  BY <1>0 DEF JoinNew, PlacesInv
<1> PICK u \in Users : u = user[s]
  BY <1>2
<1>3. /\ created' = g /\ UNCHANGED <<deleted, closed>>
      /\ connectedIndex' = [connectedIndex EXCEPT ![g][u] = "yes"]
      /\ stopper' = [stopper EXCEPT ![g]["abort"] = "waiting"]
  BY DEF JoinNew, StartAbortCountdown
<1>4. KnownUsers(g) = {}
  BY <1>1 DEF CapacityInv
<1>5. ConnectedUsers(g) = {}
  BY <1>4 DEF KnownUsers, ConnectedUsers
<1>6. \A h \in Rooms : stopper'[h]["abort"] = "stopping" <=> stopper[h]["abort"] = "stopping"
  <2>1. stopper[g]["abort"] = "none"
    BY <1>0, <1>1 DEF CountInv
  <2>2. \A h \in Rooms : stopper'[h]["abort"] = IF h = g THEN "waiting" ELSE stopper[h]["abort"]
    BY <1>0, <1>3 DEF TypeOK, Stoppers
  <2> QED
    BY <2>1, <2>2
<1>7. /\ [h \in Rooms |-> PhaseOf(h)]' = [h \in Rooms |-> PhaseOf(h)]
      /\ [h \in Rooms |-> GiveUpOf(h)]' = [h \in Rooms |-> GiveUpOf(h)]
  BY <1>3, <1>6, FateUnchanged
<1>8. /\ [h \in Rooms |-> KnownUsers(h)]' = [[h \in Rooms |-> KnownUsers(h)] EXCEPT ![g] = {u}]
      /\ [h \in Rooms |-> ConnectedUsers(h)]' =
            [[h \in Rooms |-> ConnectedUsers(h)] EXCEPT ![g] = {u}]
  <2>1. KnownUsers(g) \union {u} = {u} /\ ConnectedUsers(g) \union {u} = {u}
    BY <1>4, <1>5
  <2>2. /\ [h \in Rooms |-> KnownUsers(h)]' =
              [[h \in Rooms |-> KnownUsers(h)] EXCEPT ![g] = KnownUsers(g) \union {u}]
        /\ [h \in Rooms |-> ConnectedUsers(h)]' =
              [[h \in Rooms |-> ConnectedUsers(h)] EXCEPT ![g] = ConnectedUsers(g) \union {u}]
    BY <1>0, <1>3, UsersJoin
  <2> QED
    BY <2>1, <2>2
<1>9. Lifecycle!Open(g, u)
  BY <1>3, <1>7, <1>8 DEF Lifecycle!Open
<1> QED
  BY <1>9 DEF Lifecycle!Next

(* FiniteSets as RoomLifecycle instantiates it and as Interaction does.    *)
LEMMA SameCardinality == ASSUME NEW S PROVE Lifecycle!Cardinality(S) = Cardinality(S)
BY DEF Lifecycle!Cardinality, Cardinality

(* interaction.join accepts: the user enters the newest room.              *)
LEMMA RefinesJoinExisting ==
    ASSUME IInv, CapacityInv, LifecycleInv, NEW s \in Sessions, JoinExisting(s)
    PROVE  Lifecycle!Next
<1>0. TypeOK /\ PlacesInv /\ EndingInv
  BY DEF IInv, LifecycleInv
<1>1. index \in Rooms /\ index = created
  BY <1>0 DEF JoinExisting, LifecycleInv, TypeOK
<1> PICK g \in Rooms : g = index
  BY <1>1
<1>2. user[s] \in Users
  BY <1>0 DEF JoinExisting, PlacesInv
<1> PICK u \in Users : u = user[s]
  BY <1>2
<1>3. /\ UNCHANGED <<created, deleted, closed, stopper>>
      /\ connectedIndex' = [connectedIndex EXCEPT ![g][u] = "yes"]
      /\ mutex[g] = None /\ Admits(g, u)
  BY DEF JoinExisting, Unlocked, ReadUnlocked
<1>4. deleted[g] => PhaseOf(g) = "over" \/ GiveUpOf(g) = "done"
  BY <1>0, <1>3, EndedIs DEF EndingInv
<1>5. u \notin ConnectedUsers(g)
  BY <1>3 DEF Admits, ConnectedUsers
<1>6. u \in KnownUsers(g) \/ Cardinality(KnownUsers(g)) < Size
  <2>1. Cardinality(KnownUsers(g)) <= Size /\ Cardinality(KnownUsers(g)) \in Nat
    BY KnownUsersFinite DEF CapacityInv, Capacity
  <2>2. u \in KnownUsers(g) \/ Cardinality(KnownUsers(g)) # Size
    BY <1>3 DEF Admits, KnownUsers
  <2> QED
    BY <2>1, <2>2, SizeAssumption
<1>7. /\ [h \in Rooms |-> PhaseOf(h)]' = [h \in Rooms |-> PhaseOf(h)]
      /\ [h \in Rooms |-> GiveUpOf(h)]' = [h \in Rooms |-> GiveUpOf(h)]
  BY <1>3, FateUnchanged
<1>8. /\ [h \in Rooms |-> KnownUsers(h)]' =
            [[h \in Rooms |-> KnownUsers(h)] EXCEPT ![g] = KnownUsers(g) \union {u}]
      /\ [h \in Rooms |-> ConnectedUsers(h)]' =
            [[h \in Rooms |-> ConnectedUsers(h)] EXCEPT ![g] = ConnectedUsers(g) \union {u}]
  BY <1>0, <1>3, UsersJoin
<1>9. Lifecycle!Enter(g, u)
  <2>1. /\ [h \in Rooms |-> KnownUsers(h)][g] = KnownUsers(g)
        /\ [h \in Rooms |-> ConnectedUsers(h)][g] = ConnectedUsers(g)
        /\ [h \in Rooms |-> PhaseOf(h)][g] = PhaseOf(g)
        /\ [h \in Rooms |-> GiveUpOf(h)][g] = GiveUpOf(g)
    OBVIOUS
  <2> QED
    BY <1>1, <1>3, <1>4, <1>5, <1>6, <1>7, <1>8, <2>1, SameCardinality
    DEF Lifecycle!Enter, Lifecycle!Ended
<1> QED
  BY <1>9 DEF Lifecycle!Next

(* disconnectUser: the user leaves, and takes the room with her when it is *)
(* left empty and is not ready.                                            *)
LEMMA RefinesLeave ==
    ASSUME IInv, LifecycleInv, NEW s \in Sessions, NEW from \in {"closing", "over"},
           DisconnectUser(s, from) \/ DisconnectLastUser(s, from)
    PROVE  Lifecycle!Next
<1>0. TypeOK /\ CountdownInv /\ SessionInv /\ PlacesInv /\ EndingInv
  BY DEF IInv, LifecycleInv
<1>1. /\ CallsDisconnect(s, from) /\ MarkDisconnected(s, from)
      /\ UNCHANGED <<created, closed>>
  BY DEF DisconnectUser, DisconnectLastUser, storeVars
<1>2. room[s] \in Rooms /\ user[s] \in Users
  BY <1>0, <1>1 DEF CallsDisconnect, SessionInv, PlacesInv
<1> PICK g \in Rooms : g = room[s]
  BY <1>2
<1> PICK u \in Users : u = user[s]
  BY <1>2
<1>3. connectedIndex[g][u] = "yes" /\ connectedIndex' = [connectedIndex EXCEPT ![g][u] = "no"]
  BY <1>1 DEF MarkDisconnected
<1>4. \A h \in Rooms : stopper'[h]["abort"] = "stopping" <=> stopper[h]["abort"] = "stopping"
  <2>1. UNCHANGED stopper \/ StopAbortTimer(g)
    BY DEF DisconnectUser, DisconnectLastUser
  <2> QED
    BY <1>0, <2>1, StopAbortTimerMoves DEF Stoppers
<1>5. /\ [h \in Rooms |-> PhaseOf(h)]' = [h \in Rooms |-> PhaseOf(h)]
      /\ [h \in Rooms |-> GiveUpOf(h)]' = [h \in Rooms |-> GiveUpOf(h)]
  BY <1>1, <1>4, FateUnchanged
<1>6. /\ [h \in Rooms |-> KnownUsers(h)]' = [h \in Rooms |-> KnownUsers(h)]
      /\ [h \in Rooms |-> ConnectedUsers(h)]' =
            [[h \in Rooms |-> ConnectedUsers(h)] EXCEPT ![g] = ConnectedUsers(g) \ {u}]
  BY <1>0, <1>3, UsersLeave
<1>7. /\ u \in [h \in Rooms |-> ConnectedUsers(h)][g]
      /\ [h \in Rooms |-> ConnectedUsers(h)][g] = ConnectedUsers(g)
      /\ [h \in Rooms |-> ConnectedUsers(h)]'[g] = ConnectedUsers(g) \ {u}
      /\ [h \in Rooms |-> PhaseOf(h)][g] = PhaseOf(g)
      /\ [h \in Rooms |-> GiveUpOf(h)][g] = GiveUpOf(g)
  BY <1>3, <1>6 DEF ConnectedUsers
<1>8. \/ /\ UNCHANGED deleted
         /\ ConnectedUsers(g) \ {u} = {} /\ PhaseOf(g) = "forming" => deleted[g]
      \/ /\ ConnectedUsers(g) \ {u} = {}
         /\ PhaseOf(g) = "forming" \/ PhaseOf(g) = "over" \/ GiveUpOf(g) = "done"
         /\ deleted' = [deleted EXCEPT ![g] = TRUE]
  <2>1. CASE DisconnectUser(s, from)
    <3>1. UNCHANGED deleted
      BY <2>1 DEF DisconnectUser
    <3>2. \/ ~(ConnectedUsers(g) \subseteq {u})
          \/ ready[g] \/ deleted[g]
      BY <2>1 DEF DisconnectUser, LeavesItEmpty
    <3>3. ready[g] => PhaseOf(g) # "forming"
      BY <1>0, PhaseIs DEF EndingInv
    <3> QED
      BY <3>1, <3>2, <3>3
  <2>2. CASE DisconnectLastUser(s, from)
    <3>1. ConnectedUsers(g) \ {u} = {} /\ ~ready[g] /\ deleted' = [deleted EXCEPT ![g] = TRUE]
      BY <2>2 DEF DisconnectLastUser, LeavesItEmpty
    <3>2. "ready" \notin closed[g] \/ HasEnded(g)
      BY <1>0, <3>1 DEF EndingInv
    <3> QED
      BY <1>0, <3>1, <3>2, PhaseIs, EndedIs
  <2> QED
    BY <2>1, <2>2
<1>9. Lifecycle!Leave(g, u)
  BY <1>1, <1>5, <1>6, <1>7, <1>8 DEF Lifecycle!Leave, Lifecycle!Ended
<1> QED
  BY <1>9 DEF Lifecycle!Next

(* The last track that was missing makes the room ready; the others count. *)
LEMMA RefinesCountInTrack ==
    ASSUME IInv, LifecycleInv, NEW s \in Sessions, NEW k \in Kinds, CountInTrack(s, k)
    PROVE  Lifecycle!Next \/ UNCHANGED Lifecycle!vars
<1>0. TypeOK /\ CountdownInv /\ CountInv /\ SessionInv /\ PlacesInv
  BY DEF IInv, LifecycleInv
<1>1. room[s] \in Rooms /\ room[s] <= created
  BY <1>0 DEF CountInTrack, MoveSlice, SessionInv, PlacesInv, HasPeerServer
<1> PICK g \in Rooms : g = room[s]
  BY <1>1
<1>2. UNCHANGED <<created, connectedIndex, deleted>>
  BY DEF CountInTrack, storeVars, userVars
<1>3. CASE inTracksReadyCount[g] + 1 = neededTracks
  <2>1. StopAbortTimer(g) /\ Close(g, "ready")
    BY <1>3 DEF CountInTrack
  <2>2. "ready" \notin closed[g]
    BY <1>0, <1>3, Domains DEF CountInv, TypeOK
  <2>3. "started" \notin closed[g] /\ "done" \notin closed[g]
    BY <1>0, <2>2 DEF CountdownInv, HasClosed
  <2>4. \A h \in Rooms, d \in Channels :
          d \in closed'[h] <=> d \in closed[h] \/ (h = g /\ d = "ready")
    BY <1>0, <2>1, CloseAt
  <2>5. PhaseOf(g) = "forming" /\ PhaseOf(g)' = "ready"
    <3>1. "ready" \in closed'[g] /\ "started" \notin closed'[g] /\ "done" \notin closed'[g]
      BY <2>3, <2>4 DEF Channels
    <3> QED
      BY <1>0, <2>2, <3>1, PhaseIs DEF PhaseOf
  <2>6. \A h \in Rooms : h # g => PhaseOf(h)' = PhaseOf(h)
    BY <2>4, PhaseFrame DEF Channels
  <2>7. \A h \in Rooms : stopper'[h]["abort"] = "stopping" <=> stopper[h]["abort"] = "stopping"
    BY <1>0, <2>1, StopAbortTimerMoves DEF Stoppers
  <2>8. \A h \in Rooms : GiveUpOf(h)' = GiveUpOf(h)
    BY <2>4, <2>7, GiveUpFrame DEF Channels
  <2>9. Lifecycle!Advance(g, "forming", "ready")
    BY <1>1, <1>2, <2>5, <2>6, <2>8, AdvancePhase, UsersFrame DEF Lifecycle!Advance
  <2> QED
    BY <2>9 DEF Lifecycle!Next
<1>4. CASE inTracksReadyCount[g] + 1 # neededTracks
  <2>1. UNCHANGED <<stopper, closed>>
    BY <1>4 DEF CountInTrack
  <2> QED
    BY <1>2, <2>1, RefinesStutter
<1> QED
  BY <1>3, <1>4

(* interaction.start: the call that counts is the one that finds the room  *)
(* ready and not started.                                                  *)
LEMMA RefinesStart ==
    ASSUME IInv, LifecycleInv, NEW s \in Sessions, NEW k \in Kinds, Start(s, k)
    PROVE  Lifecycle!Next \/ UNCHANGED Lifecycle!vars
<1>0. TypeOK /\ CountdownInv /\ SessionInv /\ PlacesInv
  BY DEF IInv, LifecycleInv
<1>1. room[s] \in Rooms /\ room[s] <= created /\ "ready" \in closed[room[s]]
  BY <1>0 DEF Start, MoveSlice, SessionInv, PlacesInv, HasPeerServer
<1> PICK g \in Rooms : g = room[s]
  BY <1>1
<1>2. UNCHANGED <<created, connectedIndex, deleted>>
  BY DEF Start, storeVars, userVars
<1>3. CASE Starts(g)
  <2>1. Close(g, "started") /\ stopper' = [stopper EXCEPT ![g]["graceful"] = "waiting"]
    BY <1>3 DEF Start
  <2>2. "started" \notin closed[g] /\ "done" \notin closed[g]
    BY <1>0, <1>3 DEF Starts, CountdownInv, HasClosed
  <2>3. \A h \in Rooms, d \in Channels :
          d \in closed'[h] <=> d \in closed[h] \/ (h = g /\ d = "started")
    BY <1>0, <2>1, CloseAt
  <2>4. PhaseOf(g) = "ready" /\ PhaseOf(g)' = "running"
    <3>1. "started" \in closed'[g] /\ "done" \notin closed'[g]
      BY <2>2, <2>3 DEF Channels
    <3> QED
      BY <1>0, <1>1, <2>2, <3>1, PhaseIs DEF PhaseOf
  <2>5. \A h \in Rooms : h # g => PhaseOf(h)' = PhaseOf(h)
    BY <2>3, PhaseFrame DEF Channels
  <2>6. \A h \in Rooms : stopper'[h]["abort"] = stopper[h]["abort"]
    BY <1>0, <2>1 DEF TypeOK, Stoppers
  <2>7. \A h \in Rooms : GiveUpOf(h)' = GiveUpOf(h)
    BY <2>3, <2>6, GiveUpFrame DEF Channels
  <2>8. Lifecycle!Advance(g, "ready", "running")
    BY <1>1, <1>2, <2>4, <2>5, <2>7, AdvancePhase, UsersFrame DEF Lifecycle!Advance
  <2> QED
    BY <2>8 DEF Lifecycle!Next
<1>4. CASE ~Starts(g)
  <2>1. UNCHANGED <<stopper, closed>>
    BY <1>4 DEF Start
  <2> QED
    BY <1>2, <2>1, RefinesStutter
<1> QED
  BY <1>3, <1>4

(* abortCountdown decides to give the room up only if it is not ready: it  *)
(* forms, or it has run and stop() has reset the flag.                     *)
LEMMA RefinesAbort ==
    ASSUME IInv, LifecycleInv, NEW g \in Rooms, AbortStep(g)
    PROVE  Lifecycle!Next \/ UNCHANGED Lifecycle!vars
<1>0. TypeOK /\ CountdownInv /\ CountInv /\ EndingInv
  BY DEF IInv, LifecycleInv
<1>1. UNCHANGED <<created, connectedIndex, deleted, closed>>
  BY DEF AbortStep, AbortTimerFires, CheckReady, storeVars, userVars
<1>2. stopper[g]["abort"] \in {"waiting", "fired"} /\ "aborted" \notin closed[g]
  BY <1>0 DEF AbortStep, AbortTimerFires, CheckReady, MoveStopper, CountdownInv, HasClosed
<1>3. \A h \in Rooms : h # g => stopper'[h]["abort"] = stopper[h]["abort"]
  BY <1>0 DEF AbortStep, AbortTimerFires, CheckReady, MoveStopper, TypeOK, Stoppers
<1>4. CASE stopper'[g]["abort"] # "stopping"
  BY <1>1, <1>2, <1>3, <1>4, RefinesStutter
<1>5. CASE stopper'[g]["abort"] = "stopping"
  <2>1. ~ready[g]
    BY <1>0, <1>5
    DEF AbortStep, AbortTimerFires, CheckReady, MoveStopper, TypeOK, Stoppers
  <2>2. PhaseOf(g) \in {"forming", "over"}
    <3>1. "ready" \notin closed[g] \/ "done" \in closed[g]
      BY <1>0, <1>2, <2>1 DEF EndingInv, HasEnded
    <3> QED
      BY <1>0, <3>1, PhaseIs
  <2>3. GiveUpOf(g) = "no" /\ GiveUpOf(g)' = "decided"
    BY <1>1, <1>2, <1>5 DEF GiveUpOf
  <2>4. \A h \in Rooms : h # g => GiveUpOf(h)' = GiveUpOf(h)
    BY <1>1, <1>3, GiveUpFrame
  <2>5. \A h \in Rooms : PhaseOf(h)' = PhaseOf(h)
    BY <1>1, PhaseFrame
  <2>6. g <= created
    BY <1>0, <1>2 DEF CountInv, TypeOK, Rooms
  <2>7. Lifecycle!DecideToGiveUp(g)
    BY <1>1, <2>2, <2>3, <2>4, <2>5, <2>6, AdvanceGiveUp, UsersFrame DEF Lifecycle!DecideToGiveUp
  <2> QED
    BY <2>7 DEF Lifecycle!Next
<1> QED
  BY <1>4, <1>5

(* stop(): the close of the channel ends the room, or gives it up, for all *)
(* to see; what it does afterwards it does to a room that has ended.       *)
LEMMA RefinesStopCloses ==
    ASSUME IInv, LifecycleInv, NEW g \in Rooms, NEW b \in Stoppers, StopCloses(g, b)
    PROVE  Lifecycle!Next
<1>0. TypeOK /\ CountdownInv /\ CountInv /\ EndingInv
  BY DEF IInv, LifecycleInv
<1>1. UNCHANGED <<created, connectedIndex, deleted>> /\ Close(g, StopChannel(b))
  BY DEF StopCloses, storeVars, userVars
<1>2. \A h \in Rooms, d \in Channels :
        d \in closed'[h] <=> d \in closed[h] \/ (h = g /\ d = StopChannel(b))
  BY <1>0, <1>1, CloseAt
<1>3. \A h \in Rooms, d \in Stoppers :
        stopper'[h][d] = IF h = g /\ d = b THEN "clearing" ELSE stopper[h][d]
  BY <1>0 DEF StopCloses, MoveStopper, TypeOK
<1>4. CASE b = "graceful"
  <2>1. stopper[g]["graceful"] = "waiting" /\ StopChannel(b) = "done"
    BY <1>4 DEF StopCloses, MoveStopper, StopChannel
  <2>2. "done" \notin closed[g] /\ "started" \in closed[g]
    BY <1>0, <2>1 DEF CountdownInv, HasClosed
  <2>3. PhaseOf(g) = "running" /\ PhaseOf(g)' = "over"
    <3>1. "done" \in closed'[g]
      BY <1>2, <2>1 DEF Channels
    <3>2. "started" \in closed'[g] /\ "ready" \in closed'[g]
      BY <1>0, <1>2, <2>2 DEF Channels, CountdownInv
    <3> QED
      BY <1>0, <2>2, <3>1, <3>2, PhaseIs DEF PhaseOf
  <2>4. \A h \in Rooms : h # g => PhaseOf(h)' = PhaseOf(h)
    BY <1>2, PhaseFrame DEF Channels
  <2>5. \A h \in Rooms : GiveUpOf(h)' = GiveUpOf(h)
    BY <1>2, <1>3, <1>4, <2>1, GiveUpFrame DEF Channels, Stoppers
  <2>6. g <= created
    BY <1>0, <2>2 DEF EndingInv, TypeOK, Rooms
  <2>7. Lifecycle!Advance(g, "running", "over")
    BY <1>1, <2>3, <2>4, <2>5, <2>6, AdvancePhase, UsersFrame DEF Lifecycle!Advance
  <2> QED
    BY <2>7 DEF Lifecycle!Next
<1>5. CASE b = "abort"
  <2>1. stopper[g]["abort"] = "stopping" /\ StopChannel(b) = "aborted"
    BY <1>5 DEF StopCloses, MoveStopper, StopChannel
  <2>2. "aborted" \notin closed[g] /\ "aborted" \in closed'[g]
    BY <1>0, <1>2, <2>1 DEF CountdownInv, HasClosed, Channels
  <2>3. GiveUpOf(g) = "decided" /\ GiveUpOf(g)' = "done"
    BY <2>1, <2>2 DEF GiveUpOf
  <2>4. \A h \in Rooms : h # g => GiveUpOf(h)' = GiveUpOf(h)
    BY <1>2, <1>3, GiveUpFrame DEF Channels, Stoppers
  <2>5. \A h \in Rooms : PhaseOf(h)' = PhaseOf(h)
    BY <1>2, <2>1, PhaseFrame DEF Channels
  <2>6. Lifecycle!GiveUp(g)
    BY <1>1, <2>3, <2>4, <2>5, AdvanceGiveUp, UsersFrame DEF Lifecycle!GiveUp
  <2> QED
    BY <2>6 DEF Lifecycle!Next
<1> QED
  BY <1>4, <1>5 DEF Stoppers

LEMMA RefinesStop ==
    ASSUME IInv, NEW g \in Rooms, NEW b \in Stoppers, StopStep(g, b), ~StopCloses(g, b)
    PROVE  Lifecycle!Next \/ UNCHANGED Lifecycle!vars
<1>0. TypeOK /\ CountdownInv
  BY DEF IInv
<1>1. UNCHANGED <<created, connectedIndex, closed>>
  BY DEF StopStep, StopClearsReady, StopTestsDeleted, StopMarksDeleted, StopUnindexes,
         storeVars, userVars
<1>2. stopper[g][b] \in HasClosed
  BY DEF StopStep, StopClearsReady, StopTestsDeleted, StopMarksDeleted, StopUnindexes,
         MoveStopper, HasClosed
<1>3. \A h \in Rooms :
        \/ "aborted" \in closed[h]
        \/ stopper'[h]["abort"] = stopper[h]["abort"]
  <2>1. b = "abort" => "aborted" \in closed[g]
    BY <1>0, <1>2 DEF CountdownInv
  <2>2. \A h \in Rooms : h # g \/ b # "abort" => stopper'[h]["abort"] = stopper[h]["abort"]
    BY <1>0
    DEF StopStep, StopClearsReady, StopTestsDeleted, StopMarksDeleted, StopUnindexes,
        MoveStopper, TypeOK, Stoppers
  <2> QED
    BY <2>1, <2>2
<1>4. /\ [h \in Rooms |-> PhaseOf(h)]' = [h \in Rooms |-> PhaseOf(h)]
      /\ [h \in Rooms |-> GiveUpOf(h)]' = [h \in Rooms |-> GiveUpOf(h)]
  BY <1>1, <1>3, FateUnchanged
<1>5. CASE StopMarksDeleted(g, b)
  <2>1. HasEnded(g)
    BY <1>0, <1>2 DEF CountdownInv, HasEnded, Stoppers
  <2>2. deleted' = [deleted EXCEPT ![g] = TRUE]
    BY <1>5 DEF StopMarksDeleted
  <2>3. Lifecycle!Delete(g)
    BY <1>1, <1>4, <2>1, <2>2, EndedIs, UsersFrame DEF Lifecycle!Delete, Lifecycle!Ended
  <2> QED
    BY <2>3 DEF Lifecycle!Next
<1>6. CASE ~StopMarksDeleted(g, b)
  <2>1. UNCHANGED deleted
    BY <1>6 DEF StopStep, StopClearsReady, StopTestsDeleted, StopUnindexes
  <2> QED
    BY <1>1, <1>3, <2>1, RefinesStutter
<1> QED
  BY <1>5, <1>6

LEMMA RefinesNext ==
    ASSUME IInv, CapacityInv, LifecycleInv, [Next]_vars
    PROVE  Lifecycle!Next \/ UNCHANGED Lifecycle!vars
<1>1. ASSUME NEW s \in Sessions,
             \/ \E u \in Users : Arrive(s, u)
             \/ JoinRefused(s) \/ PeerConnectionFails(s) \/ ConnectPeerServer(s)
             \/ ClosePeerServer(s) \/ DisconnectNobody(s) \/ UnindexEmptyRoom(s)
             \/ SignalingHangs(s)
             \/ \E k \in Kinds :
                  OnTrack(s, k) \/ WaitTillAllReady(s, k) \/ BindTrack(s, k) \/ SliceEnds(s, k)
      PROVE  UNCHANGED Lifecycle!vars
  <2>1. UNCHANGED <<created, connectedIndex, deleted, closed, stopper>>
    BY <1>1
    DEF Arrive, JoinRefused, PeerConnectionFails, ConnectPeerServer, ClosePeerServer,
        DisconnectNobody, UnindexEmptyRoom, SignalingHangs, OnTrack, WaitTillAllReady,
        BindTrack, SliceEnds, storeVars, roomVars, userVars
  <2> QED
    BY <2>1, RefinesStutter
<1>2. CASE UNCHANGED vars
  BY <1>2, RefinesStutter DEF vars, storeVars, roomVars, userVars
<1>3. CASE \E s \in Sessions : ClientStep(s) \/ SessionStep(s) \/ LeaveEndedRoom(s)
  BY <1>1, <1>3, RefinesJoinNew, RefinesJoinExisting, RefinesLeave
  DEF ClientStep, ClientLeaves, SessionStep, LeaveEndedRoom
<1>4. CASE \E s \in Sessions, k \in Kinds : SliceStep(s, k) \/ SliceEnds(s, k)
  BY <1>1, <1>4, RefinesCountInTrack, RefinesStart DEF SliceStep
<1>5. CASE \E g \in Rooms : AbortStep(g) \/ \E b \in Stoppers : StopStep(g, b)
  BY <1>5, RefinesAbort, RefinesStopCloses, RefinesStop
<1> QED
  BY <1>2, <1>3, <1>4, <1>5 DEF Next

(* The interaction store and its interactions implement the life of rooms: *)
(* every step of every goroutine opens, enters, leaves, advances, gives up *)
(* or deletes a room as RoomLifecycle allows, or is not seen there.        *)
THEOREM Refinement == Spec => ImplementsLifecycle
<1>1. IInv /\ CapacityInv /\ LifecycleInv /\ [Next]_vars => [Lifecycle!Next]_(Lifecycle!vars)
  BY RefinesNext
<1> QED
  BY <1>1, RefinesInit, Invariance, CapacityInvariance, LifecycleInvariance, PTL
  DEF Spec, ImplementsLifecycle, Lifecycle!Spec

============================================================================
