------------------------- MODULE InteractionProofs -------------------------
(***************************************************************************)
(* Theorems about Interaction, for every set of users, every size and      *)
(* every bound on rooms, sessions and repeated closes.                     *)
(***************************************************************************)
EXTENDS Interaction, FiniteSetTheorems, TLAPS

(* The domains are what the constants' assumptions make them: sessions and *)
(* rooms are positive, so that None is neither.                            *)
LEMMA Domains ==
    /\ \A s \in Sessions : s \in Nat /\ s # None
    /\ \A g \in Rooms : g \in Nat /\ g # None
    /\ neededTracks \in Nat
BY BoundsAssumption, SizeAssumption, AudioOnlyAssumption
   DEF Sessions, Rooms, None, neededTracks

(* Updating a function at one point, wherever that point is, keeps its     *)
(* type: the maps of the program are updated at a key or not at all.       *)
LEMMA UpdateOne ==
    ASSUME NEW A, NEW B, NEW f \in [A -> B], NEW a, NEW v, a \in A => v \in B
    PROVE  [f EXCEPT ![a] = v] \in [A -> B]
OBVIOUS

LEMMA UpdateTwo ==
    ASSUME NEW A, NEW B, NEW C, NEW f \in [A -> [B -> C]], NEW a, NEW b, NEW v,
           a \in A /\ b \in B => v \in C
    PROVE  [f EXCEPT ![a][b] = v] \in [A -> [B -> C]]
OBVIOUS

LEMMA MoveSliceType ==
    ASSUME TypeOK, NEW s, NEW k, NEW from, NEW to \in SliceStates, MoveSlice(s, k, from, to)
    PROVE  slice' \in [Sessions -> [Kinds -> SliceStates]]
<1>1. slice \in [Sessions -> [Kinds -> SliceStates]]
  BY DEF TypeOK
<1> QED
  BY <1>1, UpdateTwo DEF MoveSlice

LEMMA StopperType ==
    ASSUME TypeOK, NEW g, NEW b, NEW to \in StopperStates,
           stopper' = [stopper EXCEPT ![g][b] = to]
    PROVE  stopper' \in [Rooms -> [Stoppers -> StopperStates]]
<1>1. stopper \in [Rooms -> [Stoppers -> StopperStates]]
  BY DEF TypeOK
<1> QED
  BY <1>1, UpdateTwo

LEMMA MoveStopperType ==
    ASSUME TypeOK, NEW g, NEW b, NEW from, NEW to \in StopperStates, MoveStopper(g, b, from, to)
    PROVE  stopper' \in [Rooms -> [Stoppers -> StopperStates]]
BY StopperType DEF MoveStopper

LEMMA ConnectedIndexType ==
    ASSUME TypeOK, NEW g, NEW u, NEW v \in {"never", "yes", "no"},
           connectedIndex' = [connectedIndex EXCEPT ![g][u] = v]
    PROVE  connectedIndex' \in [Rooms -> [Users -> {"never", "yes", "no"}]]
<1>1. connectedIndex \in [Rooms -> [Users -> {"never", "yes", "no"}]]
  BY DEF TypeOK
<1> QED
  BY <1>1, UpdateTwo

LEMMA CountUp ==
    ASSUME NEW f \in [Rooms -> Nat], NEW g
    PROVE  [f EXCEPT ![g] = f[g] + 1] \in [Rooms -> Nat]
<1>1. g \in Rooms => f[g] + 1 \in Nat
  OBVIOUS
<1> QED
  BY <1>1, UpdateOne

LEMMA StopAbortTimerType ==
    ASSUME TypeOK, NEW g, StopAbortTimer(g)
    PROVE  stopper' \in [Rooms -> [Stoppers -> StopperStates]]
<1>1. stopper \in [Rooms -> [Stoppers -> StopperStates]]
  BY DEF TypeOK
<1> DEFINE new == IF stopper[g]["abort"] = "waiting" THEN "cancelled" ELSE stopper[g]["abort"]
<1>2. g \in Rooms /\ "abort" \in Stoppers => new \in StopperStates
  BY <1>1 DEF StopperStates
<1>3. stopper' = [stopper EXCEPT ![g]["abort"] = new]
  BY DEF StopAbortTimer
<1> HIDE DEF new
<1> QED
  BY <1>1, <1>2, <1>3, UpdateTwo

LEMMA CloseType ==
    ASSUME TypeOK, NEW g, NEW c \in Channels, Close(g, c)
    PROVE  closed' \in [Rooms -> SUBSET Channels] /\ panicked' \in BOOLEAN
<1>1. closed \in [Rooms -> SUBSET Channels]
  BY DEF TypeOK
<1> QED
  BY <1>1 DEF Close

LEMMA TypeInit == Init => TypeOK
<1> SUFFICES ASSUME Init PROVE TypeOK
  OBVIOUS
<1>1. /\ connectedIndex \in [Rooms -> [Users -> {"never", "yes", "no"}]]
      /\ peerServerIndex \in [Rooms -> [Users -> Sessions \union {None}]]
      /\ stopper \in [Rooms -> [Stoppers -> StopperStates]]
      /\ slice \in [Sessions -> [Kinds -> SliceStates]]
  BY DEF Init, StopperStates, SliceStates
<1>2. /\ created \in 0..MaxRooms
      /\ lateCloses \in [Sessions -> 0..MaxLateCloses]
      /\ starts \in [Sessions -> Nat]
  BY BoundsAssumption DEF Init
<1>3. /\ pipelineStartCount \in [Rooms -> Nat]
      /\ inTracksReadyCount \in [Rooms -> Nat]
      /\ outTracksReadyCount \in [Rooms -> Int]
  BY DEF Init
<1>4. /\ closed \in [Rooms -> SUBSET Channels]
      /\ session \in [Sessions -> SessionStates]
      /\ user \in [Sessions -> Users \union {None}]
      /\ room \in [Sessions -> Rooms \union {None}]
      /\ mutex \in [Rooms -> Sessions \union {None}]
  BY DEF Init, SessionStates
<1>5. /\ ready \in [Rooms -> BOOLEAN]
      /\ started \in [Rooms -> BOOLEAN]
      /\ deleted \in [Rooms -> BOOLEAN]
      /\ panicked \in BOOLEAN
      /\ signaling \in [Rooms -> SignalingStates]
      /\ storeMutex = None /\ index = None
  BY DEF Init, SignalingStates
<1> QED
  BY <1>1, <1>2, <1>3, <1>4, <1>5 DEF TypeOK

LEMMA TypeStep == TypeOK /\ [Next]_vars => TypeOK'
<1> SUFFICES ASSUME TypeOK, [Next]_vars PROVE TypeOK'
  OBVIOUS
<1> USE DEF TypeOK, storeVars, roomVars, userVars, trackVars, sessionVars
<1>1. ASSUME NEW s \in Sessions, NEW u \in Users, Arrive(s, u) PROVE TypeOK'
  BY <1>1 DEF Arrive, SessionStates
<1>2. ASSUME NEW s \in Sessions, JoinNew(s) PROVE TypeOK'
  <2>1. created' \in Rooms /\ created' \in 0..MaxRooms
    BY <1>2, BoundsAssumption DEF JoinNew, Rooms
  <2>2. connectedIndex' \in [Rooms -> [Users -> {"never", "yes", "no"}]]
    <3>1. connectedIndex' = [connectedIndex EXCEPT ![created'][user[s]] = "yes"]
      BY <1>2 DEF JoinNew
    <3> QED
      BY <3>1, ConnectedIndexType
  <2>3. stopper' \in [Rooms -> [Stoppers -> StopperStates]]
    BY <1>2, UpdateTwo DEF JoinNew, StartAbortCountdown, StopperStates
  <2> QED
    BY <1>2, <2>1, <2>2, <2>3 DEF JoinNew, SessionStates
<1>3. ASSUME NEW s \in Sessions, JoinExisting(s) PROVE TypeOK'
  BY <1>3 DEF JoinExisting, SessionStates
<1>4. ASSUME NEW s \in Sessions, JoinRefused(s) PROVE TypeOK'
  BY <1>4 DEF JoinRefused, SessionStates
<1>5. ASSUME NEW s \in Sessions, PeerConnectionFails(s) PROVE TypeOK'
  BY <1>5 DEF PeerConnectionFails, SessionStates
<1>6. ASSUME NEW s \in Sessions, ConnectPeerServer(s) PROVE TypeOK'
  BY <1>6 DEF ConnectPeerServer, SessionStates
<1>7. ASSUME NEW s \in Sessions, ClosePeerServer(s) PROVE TypeOK'
  BY <1>7 DEF ClosePeerServer, SessionStates
<1>8. ASSUME NEW s \in Sessions, DisconnectNobody(s) PROVE TypeOK'
  BY <1>8 DEF DisconnectNobody, SessionStates
<1>9. ASSUME NEW s \in Sessions, NEW from \in {"closing", "over"},
             CallsDisconnect(s, from), MarkDisconnected(s, from)
      PROVE  /\ connectedIndex' \in [Rooms -> [Users -> {"never", "yes", "no"}]]
             /\ peerServerIndex' \in [Rooms -> [Users -> Sessions \union {None}]]
             /\ lateCloses' \in [Sessions -> 0..MaxLateCloses]
  <2>1. /\ connectedIndex' \in [Rooms -> [Users -> {"never", "yes", "no"}]]
        /\ peerServerIndex' \in [Rooms -> [Users -> Sessions \union {None}]]
    <3>1. connectedIndex' = [connectedIndex EXCEPT ![room[s]][user[s]] = "no"]
      BY <1>9 DEF MarkDisconnected
    <3>2. peerServerIndex' = [peerServerIndex EXCEPT ![room[s]][user[s]] = None]
      BY <1>9 DEF MarkDisconnected
    <3>3. peerServerIndex \in [Rooms -> [Users -> Sessions \union {None}]]
      OBVIOUS
    <3>4. connectedIndex' \in [Rooms -> [Users -> {"never", "yes", "no"}]]
      BY <3>1, ConnectedIndexType
    <3>5. peerServerIndex' \in [Rooms -> [Users -> Sessions \union {None}]]
      BY <3>2, <3>3, UpdateTwo
    <3> QED
      BY <3>4, <3>5
  <2>2. CASE from = "over"
    <3>1. lateCloses[s] + 1 \in 0..MaxLateCloses
      BY <1>9, <2>2, BoundsAssumption DEF CallsDisconnect
    <3> QED
      BY <1>9, <2>1, <2>2, <3>1 DEF MarkDisconnected
  <2>3. CASE from = "closing"
    BY <1>9, <2>1, <2>3 DEF MarkDisconnected
  <2> QED
    BY <2>2, <2>3
<1>10. ASSUME NEW s \in Sessions, NEW from \in {"closing", "over"}, DisconnectUser(s, from)
       PROVE TypeOK'
  BY <1>9, <1>10 DEF DisconnectUser, SessionStates
<1>11. ASSUME NEW s \in Sessions, NEW from \in {"closing", "over"}, DisconnectLastUser(s, from)
       PROVE TypeOK'
  <2>1. stopper' \in [Rooms -> [Stoppers -> StopperStates]]
    BY <1>11, StopAbortTimerType DEF DisconnectLastUser
  <2> QED
    BY <1>9, <1>11, <2>1 DEF DisconnectLastUser, SessionStates
<1>12. ASSUME NEW s \in Sessions, UnindexEmptyRoom(s) PROVE TypeOK'
  BY <1>12 DEF UnindexEmptyRoom, SessionStates
<1>13. ASSUME NEW s \in Sessions, NEW k \in Kinds, OnTrack(s, k) PROVE TypeOK'
  <2>1. slice' \in [Sessions -> [Kinds -> SliceStates]]
    BY <1>13, MoveSliceType DEF OnTrack, SliceStates
  <2>2. starts' \in [Sessions -> Nat]
    BY <1>13 DEF OnTrack
  <2> QED
    BY <1>13, <2>1, <2>2 DEF OnTrack
<1>14. ASSUME NEW s \in Sessions, NEW k \in Kinds, CountInTrack(s, k) PROVE TypeOK'
  <2>1. slice' \in [Sessions -> [Kinds -> SliceStates]]
    BY <1>14, MoveSliceType DEF CountInTrack, SliceStates
  <2>2. inTracksReadyCount' \in [Rooms -> Nat]
    BY <1>14, CountUp DEF CountInTrack
  <2>3. /\ ready' \in [Rooms -> BOOLEAN]
        /\ stopper' \in [Rooms -> [Stoppers -> StopperStates]]
        /\ closed' \in [Rooms -> SUBSET Channels] /\ panicked' \in BOOLEAN
    BY <1>14, StopAbortTimerType, CloseType DEF CountInTrack, Channels
  <2> QED
    BY <1>14, <2>1, <2>2, <2>3 DEF CountInTrack
<1>15. ASSUME NEW s \in Sessions, NEW k \in Kinds, WaitTillAllReady(s, k) PROVE TypeOK'
  <2>1. slice' \in [Sessions -> [Kinds -> SliceStates]]
    BY <1>15, MoveSliceType DEF WaitTillAllReady, SliceStates
  <2> QED
    BY <1>15, <2>1 DEF WaitTillAllReady
<1>16. ASSUME NEW s \in Sessions, NEW k \in Kinds, BindTrack(s, k) PROVE TypeOK'
  <2>1. slice' \in [Sessions -> [Kinds -> SliceStates]]
    BY <1>16, MoveSliceType DEF BindTrack, SliceStates
  <2>2. outTracksReadyCount' \in [Rooms -> Int]
    <3>1. outTracksReadyCount' = [outTracksReadyCount EXCEPT ![room[s]] = outTracksReadyCount[room[s]] + 1]
      BY <1>16 DEF BindTrack
    <3>2. room[s] \in Rooms => outTracksReadyCount[room[s]] + 1 \in Int
      OBVIOUS
    <3> QED
      BY <3>1, <3>2, UpdateOne
  <2>3. signaling' \in [Rooms -> SignalingStates]
    BY <1>16 DEF BindTrack, RequestSignaling, SignalingStates
  <2> QED
    BY <1>16, <2>1, <2>2, <2>3 DEF BindTrack
<1>17. ASSUME NEW s \in Sessions, NEW k \in Kinds, Start(s, k) PROVE TypeOK'
  <2>1. slice' \in [Sessions -> [Kinds -> SliceStates]]
    BY <1>17, MoveSliceType DEF Start, SliceStates
  <2>2. starts' \in [Sessions -> Nat]
    <3>1. \/ starts' = starts
          \/ \E present : starts' = [t \in Sessions |->
                IF t \in present THEN starts[t] + 1 ELSE starts[t]]
      BY <1>17 DEF Start
    <3>2. \A t \in Sessions : starts[t] \in Nat /\ starts[t] + 1 \in Nat
      OBVIOUS
    <3>3. CASE starts' = starts
      BY <3>3
    <3>4. CASE starts' # starts
      <4>1. PICK present : starts' = [t \in Sessions |->
                IF t \in present THEN starts[t] + 1 ELSE starts[t]]
        BY <3>1, <3>4
      <4> QED
        BY <4>1, <3>2
    <3> QED
      BY <3>3, <3>4
  <2>3. /\ started' \in [Rooms -> BOOLEAN]
        /\ pipelineStartCount' \in [Rooms -> Nat]
    <3>1. \/ started' = started
          \/ started' = [started EXCEPT ![room[s]] = TRUE]
      BY <1>17 DEF Start
    <3>2. pipelineStartCount' =
            [pipelineStartCount EXCEPT ![room[s]] = pipelineStartCount[room[s]] + 1]
      BY <1>17 DEF Start
    <3> QED
      BY <3>1, <3>2, CountUp
  <2>4. stopper' \in [Rooms -> [Stoppers -> StopperStates]]
    <3>1. \/ stopper' = stopper
          \/ stopper' = [stopper EXCEPT ![room[s]]["graceful"] = "waiting"]
      BY <1>17 DEF Start
    <3> QED
      BY <3>1, StopperType DEF StopperStates
  <2>5. closed' \in [Rooms -> SUBSET Channels] /\ panicked' \in BOOLEAN
    BY <1>17, CloseType DEF Start, Channels
  <2> QED
    BY <1>17, <2>1, <2>2, <2>3, <2>4, <2>5 DEF Start
<1>18. ASSUME NEW s \in Sessions, NEW k \in Kinds, SliceEnds(s, k) PROVE TypeOK'
  <2>1. slice' \in [Sessions -> [Kinds -> SliceStates]]
    BY <1>18, MoveSliceType DEF SliceEnds, SliceStates
  <2>2. outTracksReadyCount' \in [Rooms -> Int]
    BY <1>18, UpdateOne DEF SliceEnds
  <2> QED
    BY <1>18, <2>1, <2>2 DEF SliceEnds
<1>19. ASSUME NEW g \in Rooms, AbortStep(g) PROVE TypeOK'
  <2>1. stopper' \in [Rooms -> [Stoppers -> StopperStates]]
    BY <1>19, MoveStopperType DEF AbortStep, AbortTimerFires, CheckReady, StopperStates
  <2> QED
    BY <1>19, <2>1 DEF AbortStep, AbortTimerFires, CheckReady
<1>20. ASSUME NEW g \in Rooms, NEW b \in Stoppers, StopStep(g, b) PROVE TypeOK'
  <2>1. stopper' \in [Rooms -> [Stoppers -> StopperStates]]
    BY <1>20, MoveStopperType
    DEF StopStep, StopCloses, StopClearsReady, StopTestsDeleted, StopMarksDeleted,
        StopUnindexes, StopperStates
  <2>2. CASE StopCloses(g, b)
    BY <2>1, <2>2, CloseType DEF StopCloses, StopChannel, Channels
  <2>3. CASE ~StopCloses(g, b)
    BY <1>20, <2>1, <2>3
    DEF StopStep, StopClearsReady, StopTestsDeleted, StopMarksDeleted, StopUnindexes
  <2> QED
    BY <2>2, <2>3
<1>21. CASE UNCHANGED vars
  BY <1>21 DEF vars
<1>22. ASSUME NEW s \in Sessions, SignalingHangs(s) PROVE TypeOK'
  BY <1>22 DEF SignalingHangs, SessionStates, SignalingStates
<1> QED
  BY <1>1, <1>2, <1>3, <1>4, <1>5, <1>6, <1>7, <1>8, <1>10, <1>11, <1>12, <1>13,
     <1>14, <1>15, <1>16, <1>17, <1>18, <1>19, <1>20, <1>21, <1>22
  DEF Next, ClientStep, ClientLeaves, SessionStep, LeaveEndedRoom, SliceStep

(* Every reachable state has the types of the Go declarations.             *)
THEOREM TypeCorrect == Spec => []TypeOK
BY TypeInit, TypeStep, PTL DEF Spec

----------------------------------------------------------------------------
(***************************************************************************)
(* The inductive invariant.  First what a step that does not touch, or     *)
(* hardly touches, a part of it leaves alone.                              *)
(***************************************************************************)
LEMMA CountdownFrame ==
    ASSUME CountdownInv, UNCHANGED <<started, closed, stopper>>
    PROVE  CountdownInv'
BY DEF CountdownInv

LEMMA CountFrame ==
    ASSUME CountInv, UNCHANGED <<created, stopper, closed, inTracksReadyCount>>
    PROVE  CountInv'
BY DEF CountInv

(* Stopping the abort timer, or any step of a countdown goroutine that     *)
(* does not close its channel: no goroutine passes its close or returns    *)
(* from it, and none comes to life.                                        *)
LEMMA CountdownMoves ==
    ASSUME CountdownInv, UNCHANGED <<started, closed>>,
           \A g \in Rooms, b \in Stoppers :
              /\ stopper'[g][b] \in HasClosed <=> stopper[g][b] \in HasClosed
              /\ stopper'[g][b] = "none" <=> stopper[g][b] = "none"
    PROVE  CountdownInv' 
BY DEF CountdownInv, Stoppers

LEMMA CountMoves ==
    ASSUME CountInv, UNCHANGED <<created, closed, inTracksReadyCount>>,
           \A g \in Rooms, b \in Stoppers :
              stopper[g][b] = "none" => stopper'[g][b] = "none"
    PROVE  CountInv'
BY DEF CountInv, Stoppers

(* What stopping the timer does to each goroutine.                         *)
LEMMA StopAbortTimerMoves ==
    ASSUME TypeOK, NEW g, StopAbortTimer(g), NEW h \in Rooms, NEW b \in Stoppers
    PROVE  \/ stopper'[h][b] = stopper[h][b]
           \/ stopper[h][b] = "waiting" /\ stopper'[h][b] = "cancelled"
BY DEF StopAbortTimer, TypeOK, Stoppers

LEMMA MoveStopperMoves ==
    ASSUME TypeOK, NEW g, NEW c, NEW from, NEW to, MoveStopper(g, c, from, to),
           NEW h \in Rooms, NEW b \in Stoppers
    PROVE  \/ stopper'[h][b] = stopper[h][b]
           \/ stopper[h][b] = from /\ stopper'[h][b] = to
BY DEF MoveStopper, TypeOK, Stoppers

(* close(ch), seen from each room.                                         *)
LEMMA CloseAt ==
    ASSUME TypeOK, NEW g, NEW c, Close(g, c), NEW h \in Rooms
    PROVE  \A d : d \in closed'[h] <=> (d \in closed[h] \/ (h = g /\ d = c))
BY DEF Close, TypeOK

LEMMA SessionFrame ==
    ASSUME SessionInv, UNCHANGED <<session, room, slice, closed>>
    PROVE  SessionInv'
BY DEF SessionInv, HasPeerServer

(* A session that moves on, in the room it has or without one.             *)
LEMMA SessionMoves ==
    ASSUME TypeOK, SessionInv, NEW s \in Sessions, NEW to,
           session' = [session EXCEPT ![s] = to],
           UNCHANGED <<room, slice, closed>>,
           to \in {"idle", "joining", "refused"} \/ room[s] \in Rooms,
           HasPeerServer(s) => HasPeerServer(s)'
    PROVE  SessionInv'
BY DEF SessionInv, HasPeerServer, TypeOK

(* A slice that moves on, while channels are closed and never reopened.    *)
LEMMA SliceMoves ==
    ASSUME TypeOK, SessionInv, NEW s \in Sessions, NEW k \in Kinds, NEW from, NEW to,
           MoveSlice(s, k, from, to), HasPeerServer(s),
           UNCHANGED <<session, room>>,
           \A g \in Rooms : closed[g] \subseteq closed'[g],
           to \in {"outcounting", "bound", "running", "ended"} =>
               "ready" \in closed'[room[s]]
    PROVE  SessionInv'
<1>1. ASSUME NEW r \in Sessions, NEW q \in Kinds
      PROVE  slice'[r][q] = IF r = s /\ q = k THEN to ELSE slice[r][q]
  BY DEF MoveSlice, TypeOK
<1>2. ASSUME NEW r \in Sessions, HasPeerServer(r)
      PROVE  room[r] \in Rooms /\ HasPeerServer(r)'
  BY <1>2 DEF SessionInv, HasPeerServer
<1> QED
  BY <1>1, <1>2 DEF SessionInv

LEMMA InvInit == Init => IInv
<1> SUFFICES ASSUME Init PROVE IInv
  OBVIOUS
<1>1. TypeOK
  BY TypeInit
<1>2. CountdownInv
  BY DEF Init, CountdownInv, Stoppers, HasClosed
<1>3. CountInv
  <2>1. \A g \in Rooms : closed[g] = {} /\ stopper[g]["abort"] = "none"
    BY DEF Init, Stoppers
  <2> QED
    BY <2>1 DEF CountInv
<1>4. SessionInv
  BY DEF Init, SessionInv
<1>5. NoDoubleClose
  BY DEF Init, NoDoubleClose
<1> QED
  BY <1>1, <1>2, <1>3, <1>4, <1>5 DEF IInv

LEMMA InvStep == IInv /\ [Next]_vars => IInv'
<1> SUFFICES ASSUME IInv, [Next]_vars PROVE IInv'
  OBVIOUS
<1>0. TypeOK /\ CountdownInv /\ CountInv /\ SessionInv /\ NoDoubleClose
  BY DEF IInv
<1>t. TypeOK'
  BY <1>0, TypeStep
<1> DEFINE Rest == CountdownInv' /\ CountInv' /\ SessionInv' /\ NoDoubleClose'
<1> USE DEF storeVars, roomVars, userVars, trackVars, sessionVars
<1>1. ASSUME NEW s \in Sessions, NEW u \in Users, Arrive(s, u) PROVE Rest
  <2>1. SessionInv'
    BY <1>0, <1>1, SessionMoves DEF Arrive, HasPeerServer
  <2> QED
    BY <1>0, <1>1, <2>1, CountdownFrame, CountFrame DEF Arrive, NoDoubleClose
<1>2. ASSUME NEW s \in Sessions, JoinNew(s) PROVE Rest
  <2>1. created' = created + 1 /\ created' \in Rooms /\ created \in Nat
    BY <1>0, <1>2, BoundsAssumption DEF JoinNew, TypeOK, Rooms
  <2>2. ASSUME NEW h \in Rooms, NEW b \in Stoppers
        PROVE  stopper'[h][b] = IF h = created' /\ b = "abort" THEN "waiting" ELSE stopper[h][b]
    BY <1>0, <1>2 DEF JoinNew, StartAbortCountdown, TypeOK, Stoppers
  <2>3. stopper[created']["abort"] = "none"
    BY <1>0, <2>1 DEF CountInv, Rooms
  <2>4. CountInv'
    BY <1>0, <1>2, <2>1, <2>2, Domains DEF JoinNew, CountInv, Stoppers
  <2>5. CountdownInv'
    <3>1. ASSUME NEW h \in Rooms, NEW b \in Stoppers
          PROVE  /\ stopper'[h][b] \in HasClosed <=> stopper[h][b] \in HasClosed
                 /\ b = "graceful" => stopper'[h][b] = stopper[h][b]
      BY <2>2, <2>3 DEF HasClosed
    <3>2. UNCHANGED <<started, closed>>
      BY <1>2 DEF JoinNew
    <3> QED
      BY <1>0, <3>1, <3>2 DEF CountdownInv, Stoppers
  <2>6. SessionInv'
    BY <1>0, <1>2, <2>1 DEF JoinNew, SessionInv, HasPeerServer, TypeOK
  <2> QED
    BY <1>0, <1>2, <2>4, <2>5, <2>6 DEF JoinNew, NoDoubleClose
<1>3. ASSUME NEW s \in Sessions, JoinExisting(s) PROVE Rest
  <2>1. SessionInv'
    BY <1>0, <1>3 DEF JoinExisting, SessionInv, HasPeerServer, TypeOK
  <2> QED
    BY <1>0, <1>3, <2>1, CountdownFrame, CountFrame DEF JoinExisting, NoDoubleClose
<1>4. ASSUME NEW s \in Sessions, JoinRefused(s) PROVE Rest
  <2>1. SessionInv'
    BY <1>0, <1>4, SessionMoves DEF JoinRefused, HasPeerServer
  <2> QED
    BY <1>0, <1>4, <2>1, CountdownFrame, CountFrame DEF JoinRefused, NoDoubleClose
<1>5. ASSUME NEW s \in Sessions, PeerConnectionFails(s) PROVE Rest
  <2>1. SessionInv'
    BY <1>0, <1>5, SessionMoves DEF PeerConnectionFails, HasPeerServer, SessionInv
  <2> QED
    BY <1>0, <1>5, <2>1, CountdownFrame, CountFrame DEF PeerConnectionFails, NoDoubleClose
<1>6. ASSUME NEW s \in Sessions, ConnectPeerServer(s) PROVE Rest
  <2>1. SessionInv'
    BY <1>0, <1>6, SessionMoves DEF ConnectPeerServer, HasPeerServer, SessionInv, TypeOK
  <2> QED
    BY <1>0, <1>6, <2>1, CountdownFrame, CountFrame DEF ConnectPeerServer, NoDoubleClose
<1>7. ASSUME NEW s \in Sessions, ClosePeerServer(s) PROVE Rest
  <2>1. SessionInv'
    BY <1>0, <1>7, SessionMoves DEF ClosePeerServer, HasPeerServer, SessionInv, TypeOK
  <2> QED
    BY <1>0, <1>7, <2>1, CountdownFrame, CountFrame DEF ClosePeerServer, NoDoubleClose
<1>8. ASSUME NEW s \in Sessions, DisconnectNobody(s) PROVE Rest
  <2>1. SessionInv'
    BY <1>0, <1>8, SessionMoves
    DEF DisconnectNobody, CallsDisconnect, HasPeerServer, SessionInv, TypeOK
  <2> QED
    BY <1>0, <1>8, <2>1, CountdownFrame, CountFrame DEF DisconnectNobody, NoDoubleClose
<1>9. ASSUME NEW s \in Sessions, NEW from \in {"closing", "over"}, DisconnectUser(s, from)
      PROVE Rest
  <2>1. SessionInv'
    BY <1>0, <1>9, SessionMoves
    DEF DisconnectUser, CallsDisconnect, HasPeerServer, SessionInv, TypeOK
  <2> QED
    BY <1>0, <1>9, <2>1, CountdownFrame, CountFrame DEF DisconnectUser, NoDoubleClose
<1>10. ASSUME NEW s \in Sessions, NEW from \in {"closing", "over"}, DisconnectLastUser(s, from)
       PROVE Rest
  <2>1. SessionInv'
    BY <1>0, <1>10, SessionMoves
    DEF DisconnectLastUser, CallsDisconnect, HasPeerServer, SessionInv, TypeOK
  <2>2. ASSUME NEW h \in Rooms, NEW b \in Stoppers
        PROVE  /\ stopper'[h][b] \in HasClosed <=> stopper[h][b] \in HasClosed
               /\ stopper'[h][b] = "none" <=> stopper[h][b] = "none"
    BY <1>0, <1>10, StopAbortTimerMoves DEF DisconnectLastUser, HasClosed
  <2>3. CountdownInv'
    BY <1>0, <1>10, <2>2, CountdownMoves DEF DisconnectLastUser
  <2>4. CountInv'
    BY <1>0, <1>10, <2>2, CountMoves DEF DisconnectLastUser
  <2> QED
    BY <1>0, <1>10, <2>1, <2>3, <2>4 DEF DisconnectLastUser, NoDoubleClose
<1>11. ASSUME NEW s \in Sessions, UnindexEmptyRoom(s) PROVE Rest
  <2>1. SessionInv'
    BY <1>0, <1>11, SessionMoves DEF UnindexEmptyRoom, HasPeerServer, SessionInv, TypeOK
  <2> QED
    BY <1>0, <1>11, <2>1, CountdownFrame, CountFrame DEF UnindexEmptyRoom, NoDoubleClose
<1>12. ASSUME NEW s \in Sessions, NEW k \in Kinds, OnTrack(s, k) PROVE Rest
  <2>1. SessionInv'
    BY <1>0, <1>12, SliceMoves DEF OnTrack
  <2> QED
    BY <1>0, <1>12, <2>1, CountdownFrame, CountFrame DEF OnTrack, NoDoubleClose
<1>13. ASSUME NEW s \in Sessions, NEW k \in Kinds, CountInTrack(s, k) PROVE Rest
  <2> DEFINE g == room[s]
             n == inTracksReadyCount[g]
  <2>1. HasPeerServer(s) /\ g \in Rooms
    BY <1>0, <1>13 DEF CountInTrack, MoveSlice, SessionInv, HasPeerServer
  <2>2. n \in Nat /\ neededTracks \in Nat
    BY <1>0, <2>1, Domains DEF TypeOK
  <2>3. \A h \in Rooms : inTracksReadyCount'[h] = IF h = g THEN n + 1 ELSE inTracksReadyCount[h]
    BY <1>0, <1>13, <2>1 DEF CountInTrack, TypeOK
  <2>4. CASE n + 1 = neededTracks
    <3>1. "ready" \notin closed[g]
      BY <1>0, <2>1, <2>2, <2>4 DEF CountInv
    <3>2. \A h \in Rooms : \A d : d \in closed'[h] <=> (d \in closed[h] \/ (h = g /\ d = "ready"))
      BY <1>0, <1>13, <2>4, CloseAt DEF CountInTrack
    <3>3. NoDoubleClose'
      BY <1>0, <1>13, <2>4, <3>1 DEF CountInTrack, Close, NoDoubleClose
    <3>4. SessionInv'
      BY <1>0, <1>13, <2>1, <3>2, SliceMoves DEF CountInTrack
    <3>5. ASSUME NEW h \in Rooms, NEW b \in Stoppers
          PROVE  /\ stopper'[h][b] \in HasClosed <=> stopper[h][b] \in HasClosed
                 /\ stopper'[h][b] = "none" <=> stopper[h][b] = "none"
      BY <1>0, <1>13, <2>4, StopAbortTimerMoves DEF CountInTrack, HasClosed
    <3>6. UNCHANGED <<created, started>>
      BY <1>13 DEF CountInTrack
    <3>7. CountdownInv'
      <4>1. \A h \in Rooms :
              /\ \A c \in {"aborted", "done", "started"} : c \in closed'[h] <=> c \in closed[h]
              /\ "ready" \in closed[h] => "ready" \in closed'[h]
        BY <3>2
      <4> QED
        BY <1>0, <3>5, <3>6, <4>1 DEF CountdownInv, Stoppers
    <3>8. CountInv'
      <4> SUFFICES ASSUME NEW h \in Rooms
                   PROVE  /\ "ready" \in closed'[h] => inTracksReadyCount'[h] >= neededTracks
                          /\ h > created => stopper'[h]["abort"] = "none"
        BY <3>6 DEF CountInv
      <4>1. "ready" \in closed'[h] => inTracksReadyCount'[h] >= neededTracks
        <5>1. CASE h = g
          BY <2>2, <2>3, <2>4, <5>1
        <5>2. CASE h # g
          <6>1. /\ inTracksReadyCount'[h] = inTracksReadyCount[h]
                /\ "ready" \in closed'[h] => "ready" \in closed[h]
            BY <2>3, <3>2, <5>2
          <6>2. "ready" \in closed[h] => inTracksReadyCount[h] >= neededTracks
            BY <1>0 DEF CountInv
          <6> QED
            BY <6>1, <6>2
        <5> QED
          BY <5>1, <5>2
      <4>2. h > created => stopper'[h]["abort"] = "none"
        BY <1>0, <3>5 DEF CountInv, Stoppers
      <4> QED
        BY <4>1, <4>2
    <3> QED
      BY <3>3, <3>4, <3>7, <3>8
  <2>5. CASE n + 1 # neededTracks
    <3>1. UNCHANGED <<created, started, closed, stopper, panicked, session, room>>
      BY <1>13, <2>5 DEF CountInTrack
    <3>2. CountdownInv' /\ NoDoubleClose'
      BY <1>0, <3>1, CountdownFrame DEF NoDoubleClose
    <3>3. CountInv'
      <4>1. \A h \in Rooms : inTracksReadyCount[h] \in Nat
        BY <1>0 DEF TypeOK
      <4>2. \A h \in Rooms : /\ inTracksReadyCount'[h] \in Nat
                             /\ inTracksReadyCount'[h] >= inTracksReadyCount[h]
        BY <2>2, <2>3, <4>1
      <4> QED
        BY <1>0, <2>2, <3>1, <4>1, <4>2 DEF CountInv
    <3>4. SessionInv'
      BY <1>0, <1>13, <2>1, <3>1, SliceMoves DEF CountInTrack
    <3> QED
      BY <3>2, <3>3, <3>4
  <2> QED
    BY <2>4, <2>5
<1>14. ASSUME NEW s \in Sessions, NEW k \in Kinds, WaitTillAllReady(s, k) PROVE Rest
  <2>1. HasPeerServer(s)
    BY <1>0, <1>14 DEF WaitTillAllReady, MoveSlice, SessionInv
  <2>2. SessionInv'
    BY <1>0, <1>14, <2>1, SliceMoves DEF WaitTillAllReady
  <2> QED
    BY <1>0, <1>14, <2>2, CountdownFrame, CountFrame DEF WaitTillAllReady, NoDoubleClose
<1>15. ASSUME NEW s \in Sessions, NEW k \in Kinds, BindTrack(s, k) PROVE Rest
  <2>1. HasPeerServer(s) /\ "ready" \in closed[room[s]]
    BY <1>0, <1>15 DEF BindTrack, MoveSlice, SessionInv
  <2>2. SessionInv'
    BY <1>0, <1>15, <2>1, SliceMoves DEF BindTrack
  <2> QED
    BY <1>0, <1>15, <2>2, CountdownFrame, CountFrame DEF BindTrack, NoDoubleClose
<1>16. ASSUME NEW s \in Sessions, NEW k \in Kinds, Start(s, k) PROVE Rest
  <2> DEFINE g == room[s]
             starting == Starts(g)
  <2>1. HasPeerServer(s) /\ "ready" \in closed[g] /\ g \in Rooms
    BY <1>0, <1>16 DEF Start, MoveSlice, SessionInv, HasPeerServer
  <2>2. UNCHANGED <<created, inTracksReadyCount, session, room>>
    BY <1>16 DEF Start
  <2>3. CASE starting
    <3>1. /\ ~started[g] /\ "started" \notin closed[g]
          /\ stopper[g]["graceful"] = "none"
      BY <1>0, <2>1, <2>3 DEF CountdownInv, Starts
    <3>2. \A h \in Rooms : \A d : d \in closed'[h] <=> (d \in closed[h] \/ (h = g /\ d = "started"))
      BY <1>0, <1>16, <2>3, CloseAt DEF Start
    <3>3. \A h \in Rooms : started'[h] <=> (h = g \/ started[h])
      BY <1>0, <1>16, <2>1, <2>3 DEF Start, TypeOK
    <3>4. stopper' = [stopper EXCEPT ![g]["graceful"] = "waiting"]
      BY <1>16, <2>3 DEF Start
    <3>5. \A h \in Rooms, b \in Stoppers :
            stopper'[h][b] = IF h = g /\ b = "graceful" THEN "waiting" ELSE stopper[h][b]
      BY <1>0, <3>4 DEF TypeOK
    <3>6. NoDoubleClose'
      BY <1>0, <1>16, <2>3, <3>1 DEF Start, Close, NoDoubleClose
    <3>7. CountInv'
      <4> SUFFICES ASSUME NEW h \in Rooms
                   PROVE  /\ "ready" \in closed'[h] => inTracksReadyCount[h] >= neededTracks
                          /\ h > created => stopper'[h]["abort"] = "none"
        BY <2>2 DEF CountInv
      <4>1. "ready" \in closed'[h] => inTracksReadyCount[h] >= neededTracks
        <5>1. "ready" \in closed'[h] => "ready" \in closed[h]
          BY <3>2
        <5>2. "ready" \in closed[h] => inTracksReadyCount[h] >= neededTracks
          BY <1>0 DEF CountInv
        <5> QED
          BY <5>1, <5>2
      <4>2. h > created => stopper'[h]["abort"] = "none"
        BY <1>0, <3>5 DEF CountInv, Stoppers
      <4> QED
        BY <4>1, <4>2
    <3>8. SessionInv'
      BY <1>0, <1>16, <2>1, <2>2, <3>2, SliceMoves DEF Start
    <3>9. CountdownInv'
      <4> SUFFICES ASSUME NEW h \in Rooms
                   PROVE  /\ stopper'[h]["abort"] \in HasClosed <=> "aborted" \in closed'[h]
                          /\ stopper'[h]["graceful"] \in HasClosed <=> "done" \in closed'[h]
                          /\ stopper'[h]["graceful"] # "none" <=> started'[h]
                          /\ started'[h] <=> "started" \in closed'[h]
                          /\ started'[h] => "ready" \in closed'[h]
        BY DEF CountdownInv
      <4>1. CASE h = g
        <5>1. /\ stopper'[h]["abort"] = stopper[h]["abort"]
              /\ stopper'[h]["graceful"] = "waiting"
          BY <3>5, <4>1 DEF Stoppers
        <5>2. /\ "aborted" \in closed'[h] <=> "aborted" \in closed[h]
              /\ "done" \in closed'[h] <=> "done" \in closed[h]
              /\ "started" \in closed'[h] /\ "ready" \in closed'[h]
          BY <2>1, <3>2, <4>1
        <5>3. /\ stopper[h]["abort"] \in HasClosed <=> "aborted" \in closed[h]
              /\ "done" \notin closed[h]
          BY <1>0, <3>1, <4>1 DEF CountdownInv, HasClosed
        <5>4. "waiting" \notin HasClosed
          BY DEF HasClosed
        <5>5. started'[h]
          BY <3>3, <4>1
        <5> QED
          BY <5>1, <5>2, <5>3, <5>4, <5>5
      <4>2. CASE h # g
        BY <1>0, <3>2, <3>3, <3>5, <4>2 DEF CountdownInv, HasClosed, Stoppers
      <4> QED
        BY <4>1, <4>2
    <3> QED
      BY <3>6, <3>7, <3>8, <3>9
  <2>4. CASE ~starting
    <3>1. UNCHANGED <<started, stopper, closed, panicked>>
      BY <1>16, <2>4 DEF Start
    <3>2. SessionInv'
      BY <1>0, <1>16, <2>1, <2>2, <3>1, SliceMoves DEF Start
    <3> QED
      BY <1>0, <2>2, <3>1, <3>2, CountdownFrame, CountFrame DEF NoDoubleClose
  <2> QED
    BY <2>3, <2>4
<1>17. ASSUME NEW s \in Sessions, NEW k \in Kinds, SliceEnds(s, k) PROVE Rest
  <2>1. HasPeerServer(s) /\ "ready" \in closed[room[s]]
    BY <1>0, <1>17 DEF SliceEnds, MoveSlice, SessionInv
  <2>2. SessionInv'
    BY <1>0, <1>17, <2>1, SliceMoves DEF SliceEnds
  <2> QED
    BY <1>0, <1>17, <2>2, CountdownFrame, CountFrame DEF SliceEnds, NoDoubleClose
<1>18. ASSUME NEW g \in Rooms, AbortStep(g) PROVE Rest
  <2>1. UNCHANGED <<created, started, closed, inTracksReadyCount, session, room, slice, panicked>>
    BY <1>18 DEF AbortStep, AbortTimerFires, CheckReady
  <2>2. ASSUME NEW h \in Rooms, NEW b \in Stoppers
        PROVE  /\ stopper'[h][b] \in HasClosed <=> stopper[h][b] \in HasClosed
               /\ stopper'[h][b] = "none" <=> stopper[h][b] = "none"
    BY <1>0, <1>18, MoveStopperMoves DEF AbortStep, AbortTimerFires, CheckReady, HasClosed
  <2>3. CountdownInv' /\ CountInv'
    BY <1>0, <2>1, <2>2, CountdownMoves, CountMoves
  <2> QED
    BY <1>0, <2>1, <2>3, SessionFrame DEF NoDoubleClose
<1>19. ASSUME NEW g \in Rooms, NEW b \in Stoppers, StopStep(g, b) PROVE Rest
  <2>1. UNCHANGED <<created, started, inTracksReadyCount, session, room, slice>>
    BY <1>19
    DEF StopStep, StopCloses, StopClearsReady, StopTestsDeleted, StopMarksDeleted, StopUnindexes
  <2>2. CASE StopCloses(g, b)
    <3> DEFINE c == StopChannel(b)
    <3>1. c \notin closed[g]
      BY <1>0, <2>2 DEF StopCloses, StopChannel, MoveStopper, CountdownInv, HasClosed, Stoppers
    <3>2. \A h \in Rooms : \A d : d \in closed'[h] <=> (d \in closed[h] \/ (h = g /\ d = c))
      BY <1>0, <2>2, CloseAt DEF StopCloses
    <3>3. \A h \in Rooms, d \in Stoppers :
            stopper'[h][d] = IF h = g /\ d = b THEN "clearing" ELSE stopper[h][d]
      BY <1>0, <2>2 DEF StopCloses, MoveStopper, TypeOK
    <3>4. stopper[g][b] = IF b = "graceful" THEN "waiting" ELSE "stopping"
      BY <2>2 DEF StopCloses, MoveStopper
    <3>5. NoDoubleClose'
      BY <1>0, <2>2, <3>1 DEF StopCloses, Close, NoDoubleClose
    <3>6. CountInv'
      <4> SUFFICES ASSUME NEW h \in Rooms
                   PROVE  /\ "ready" \in closed'[h] => inTracksReadyCount[h] >= neededTracks
                          /\ h > created => stopper'[h]["abort"] = "none"
        BY <2>1 DEF CountInv
      <4>1. "ready" \in closed'[h] => inTracksReadyCount[h] >= neededTracks
        <5>1. "ready" \in closed'[h] => "ready" \in closed[h]
          BY <3>2 DEF StopChannel
        <5>2. "ready" \in closed[h] => inTracksReadyCount[h] >= neededTracks
          BY <1>0 DEF CountInv
        <5> QED
          BY <5>1, <5>2
      <4>2. h > created => stopper'[h]["abort"] = "none"
        BY <1>0, <3>3, <3>4 DEF CountInv, Stoppers
      <4> QED
        BY <4>1, <4>2
    <3>7. SessionInv'
      BY <1>0, <2>1, <3>2 DEF SessionInv, HasPeerServer
    <3>8. CountdownInv'
      <4> SUFFICES ASSUME NEW h \in Rooms
                   PROVE  /\ stopper'[h]["abort"] \in HasClosed <=> "aborted" \in closed'[h]
                          /\ stopper'[h]["graceful"] \in HasClosed <=> "done" \in closed'[h]
                          /\ stopper'[h]["graceful"] # "none" <=> started'[h]
                          /\ started'[h] <=> "started" \in closed'[h]
                          /\ started'[h] => "ready" \in closed'[h]
        BY DEF CountdownInv
      <4>1. CASE h = g /\ b = "graceful"
        BY <1>0, <2>1, <3>2, <3>3, <3>4, <4>1 DEF StopChannel, CountdownInv, HasClosed, Stoppers
      <4>2. CASE h = g /\ b = "abort"
        BY <1>0, <2>1, <3>2, <3>3, <3>4, <4>2 DEF StopChannel, CountdownInv, HasClosed, Stoppers
      <4>3. CASE h # g
        BY <1>0, <2>1, <3>2, <3>3, <4>3 DEF CountdownInv, HasClosed, Stoppers
      <4> QED
        BY <4>1, <4>2, <4>3 DEF Stoppers
    <3> QED
      BY <3>5, <3>6, <3>7, <3>8
  <2>3. CASE ~StopCloses(g, b)
    <3>1. UNCHANGED <<closed, panicked>>
      BY <1>19, <2>3
      DEF StopStep, StopClearsReady, StopTestsDeleted, StopMarksDeleted, StopUnindexes
    <3>2. \E from \in HasClosed, to \in HasClosed : MoveStopper(g, b, from, to)
      BY <1>19, <2>3
      DEF StopStep, StopClearsReady, StopTestsDeleted, StopMarksDeleted, StopUnindexes, HasClosed
    <3>3. ASSUME NEW h \in Rooms, NEW d \in Stoppers
          PROVE  /\ stopper'[h][d] \in HasClosed <=> stopper[h][d] \in HasClosed
                 /\ stopper'[h][d] = "none" <=> stopper[h][d] = "none"
      BY <1>0, <3>2, MoveStopperMoves DEF HasClosed
    <3>4. CountdownInv' /\ CountInv'
      BY <1>0, <2>1, <3>1, <3>3, CountdownMoves, CountMoves
    <3> QED
      BY <1>0, <2>1, <3>1, <3>4, SessionFrame DEF NoDoubleClose
  <2> QED
    BY <2>2, <2>3
<1>20. ASSUME UNCHANGED vars PROVE Rest
  <2>1. UNCHANGED <<created, started, closed, inTracksReadyCount, stopper, session, room, slice,
                    panicked>>
    BY <1>20 DEF vars
  <2> QED
    BY <1>0, <2>1, CountdownFrame, CountFrame, SessionFrame DEF NoDoubleClose
<1>22. ASSUME NEW s \in Sessions, SignalingHangs(s) PROVE Rest
  <2>1. room[s] \in Rooms
    BY <1>0, <1>22 DEF SignalingHangs, HasPeerServer, SessionInv
  <2>2. session' = [session EXCEPT ![s] = IF session[s] = "connected" THEN "closing" ELSE session[s]]
    BY <1>22 DEF SignalingHangs
  <2>3. HasPeerServer(s)'
    BY <1>0, <1>22, <2>2 DEF SignalingHangs, HasPeerServer, TypeOK
  <2>4. SessionInv'
    BY <1>0, <1>22, <2>1, <2>2, <2>3, SessionMoves DEF SignalingHangs
  <2> QED
    BY <1>0, <1>22, <2>4, CountdownFrame, CountFrame DEF SignalingHangs, NoDoubleClose
<1> HIDE DEF Rest
<1>21. Rest
  BY <1>1, <1>2, <1>3, <1>4, <1>5, <1>6, <1>7, <1>8, <1>9, <1>10, <1>11, <1>12, <1>13, <1>14,
     <1>15, <1>16, <1>17, <1>18, <1>19, <1>20, <1>22
  DEF Next, ClientStep, ClientLeaves, SessionStep, LeaveEndedRoom, SliceStep
<1> QED
  BY <1>t, <1>21 DEF IInv, Rest

THEOREM Invariance == Spec => []IInv
BY InvInit, InvStep, PTL DEF Spec

(* No channel of an interaction is ever closed twice, for every number of  *)
(* users, sessions and incarnations: stop, start and incInTracksReadyCount *)
(* cannot panic.                                                           *)
THEOREM NeverPanics == Spec => []NoDoubleClose
<1>1. IInv => NoDoubleClose
  BY DEF IInv
<1> QED
  BY <1>1, Invariance, PTL

----------------------------------------------------------------------------
(***************************************************************************)
(* Deletion: stop() tests and marks without the mutex, so that only where  *)
(* it stands in its goroutine says that the room has ended.                *)
(***************************************************************************)
LEMMA DeletionStep ==
    ASSUME IInv, [Next]_vars, NEW g \in Rooms, deleted'[g], ~deleted[g]
    PROVE  HasEnded(g) \/ (~ready[g] /\ ConnectedUsers(g)' = {})
<1>0. TypeOK /\ CountdownInv
  BY DEF IInv
<1> USE DEF storeVars, roomVars, userVars, trackVars, sessionVars
<1>1. ASSUME NEW s \in Sessions, NEW from, DisconnectLastUser(s, from)
      PROVE  ~ready[g] /\ ConnectedUsers(g)' = {}
  <2>1. room[s] = g
    BY <1>0, <1>1 DEF DisconnectLastUser, TypeOK
  <2>2. ~ready[g] /\ ConnectedUsers(g) \subseteq {user[s]}
    BY <1>1, <2>1 DEF DisconnectLastUser, LeavesItEmpty
  <2>3. \A u \in Users : connectedIndex'[g][u] = IF u = user[s] THEN "no" ELSE connectedIndex[g][u]
    BY <1>0, <1>1, <2>1 DEF DisconnectLastUser, MarkDisconnected, TypeOK
  <2> QED
    BY <2>2, <2>3 DEF ConnectedUsers
<1>2. ASSUME NEW h \in Rooms, NEW b \in Stoppers, StopMarksDeleted(h, b)
      PROVE  HasEnded(g)
  <2>1. h = g /\ stopper[g][b] \in HasClosed
    BY <1>0, <1>2 DEF StopMarksDeleted, MoveStopper, HasClosed, TypeOK
  <2> QED
    BY <1>0, <2>1 DEF CountdownInv, HasEnded, Stoppers
<1>3. CASE \E s \in Sessions : ClientStep(s) \/ SessionStep(s) \/ LeaveEndedRoom(s)
  BY <1>1, <1>3
  DEF ClientStep, SessionStep, LeaveEndedRoom, ClientLeaves, Arrive, PeerConnectionFails,
      ClosePeerServer, SignalingHangs, OnTrack, JoinNew, JoinExisting, JoinRefused, ConnectPeerServer,
      DisconnectNobody, DisconnectUser, UnindexEmptyRoom
<1>4. CASE \E s \in Sessions, k \in Kinds : SliceStep(s, k) \/ SliceEnds(s, k)
  BY <1>4 DEF SliceStep, CountInTrack, WaitTillAllReady, BindTrack, Start, SliceEnds
<1>5. CASE \E h \in Rooms : AbortStep(h) \/ \E b \in Stoppers : StopStep(h, b)
  BY <1>2, <1>5
  DEF AbortStep, AbortTimerFires, CheckReady, StopStep, StopCloses, StopClearsReady,
      StopTestsDeleted, StopUnindexes
<1>6. CASE UNCHANGED vars
  BY <1>6 DEF vars
<1> QED
  BY <1>3, <1>4, <1>5, <1>6 DEF Next

(* A room is marked deleted only after a countdown ended it, or by the     *)
(* disconnection that empties it before it is ready (disconnectUser, stop  *)
(* and unguardedDelete).                                                   *)
THEOREM DeletionIsJustified == Spec => DeletionJustified
<1>1. IInv /\ [Next]_vars =>
        [\A g \in Rooms : deleted'[g] /\ ~deleted[g] =>
            \/ HasEnded(g)
            \/ ~ready[g] /\ ConnectedUsers(g)' = {}]_vars
  BY DeletionStep
<1> QED
  BY <1>1, Invariance, PTL DEF Spec, DeletionJustified

----------------------------------------------------------------------------
(***************************************************************************)
(* The locks that freeze.                                                  *)
(***************************************************************************)
(* The store mutex and the mutex of the indexed room have holders that     *)
(* wait for each other: no other goroutine gets either.                    *)
LEMMA LockCycleStays ==
    ASSUME TypeOK, [Next]_vars, LockCycle
    PROVE  LockCycle' /\ UNCHANGED storeVars
<1> USE DEF storeVars, roomVars, userVars, sessionVars
<1>0. /\ storeMutex # None /\ index # None /\ index \in Rooms /\ mutex[index] # None
      /\ mutex \in [Rooms -> Sessions \union {None}]
      /\ ~Unlocked(index)
  BY DEF LockCycle, Unlocked, ReadUnlocked, TypeOK
<1>1. ASSUME UNCHANGED <<storeMutex, index, created, mutex>>
      PROVE  LockCycle' /\ UNCHANGED storeVars
  BY <1>0, <1>1 DEF LockCycle
<1>2. ASSUME NEW s \in Sessions, NEW from, DisconnectLastUser(s, from)
      PROVE  LockCycle' /\ UNCHANGED storeVars
  <2>1. /\ room[s] # index /\ mutex' = [mutex EXCEPT ![room[s]] = s]
        /\ UNCHANGED <<storeMutex, index, created>>
    BY <1>0, <1>2 DEF DisconnectLastUser, CallsDisconnect
  <2>2. mutex'[index] = mutex[index]
    BY <1>0, <2>1
  <2> QED
    BY <1>0, <2>1, <2>2 DEF LockCycle
<1>3. ASSUME NEW s \in Sessions, ClientStep(s) \/ SessionStep(s) \/ LeaveEndedRoom(s)
      PROVE  LockCycle' /\ UNCHANGED storeVars
  BY <1>0, <1>1, <1>2, <1>3
  DEF ClientStep, SessionStep, LeaveEndedRoom, ClientLeaves, Arrive, PeerConnectionFails,
      ClosePeerServer, SignalingHangs, OnTrack, JoinNew, JoinExisting, JoinRefused, ConnectPeerServer,
      DisconnectNobody, DisconnectUser, UnindexEmptyRoom
<1>4. ASSUME NEW s \in Sessions, NEW k \in Kinds, SliceStep(s, k) \/ SliceEnds(s, k)
      PROVE  LockCycle' /\ UNCHANGED storeVars
  BY <1>1, <1>4 DEF SliceStep, CountInTrack, WaitTillAllReady, BindTrack, Start, SliceEnds
<1>5. ASSUME NEW h \in Rooms, AbortStep(h) \/ \E b \in Stoppers : StopStep(h, b)
      PROVE  LockCycle' /\ UNCHANGED storeVars
  BY <1>0, <1>1, <1>5
  DEF AbortStep, AbortTimerFires, CheckReady, StopStep, StopCloses, StopClearsReady,
      StopTestsDeleted, StopMarksDeleted, StopUnindexes
<1>6. CASE UNCHANGED vars
  BY <1>1, <1>6 DEF vars
<1> QED
  BY <1>3, <1>4, <1>5, <1>6 DEF Next

(* An abort goroutine that has returned without RUnlock takes no step.     *)
LEMMA HoldingStays ==
    ASSUME IInv, [Next]_vars, NEW g \in Rooms, stopper[g]["abort"] = "holding"
    PROVE  stopper'[g]["abort"] = "holding"
<1> USE DEF storeVars, roomVars, userVars, sessionVars
<1>0. /\ stopper \in [Rooms -> [Stoppers -> StopperStates]]
      /\ "abort" \in Stoppers /\ "graceful" \in Stoppers
      /\ ~(g > created)
  BY DEF IInv, TypeOK, CountInv, Stoppers
<1>1. ASSUME UNCHANGED stopper PROVE stopper'[g]["abort"] = "holding"
  BY <1>1
<1>2. ASSUME NEW h, StopAbortTimer(h) PROVE stopper'[g]["abort"] = "holding"
  BY <1>0, <1>2 DEF StopAbortTimer
<1>3. ASSUME NEW h, NEW b, NEW from, NEW to, MoveStopper(h, b, from, to), from # "holding"
      PROVE  stopper'[g]["abort"] = "holding"
  BY <1>0, <1>3 DEF MoveStopper
<1>4. ASSUME NEW s \in Sessions, JoinNew(s) PROVE stopper'[g]["abort"] = "holding"
  <2>1. g # created + 1
    BY <1>0, BoundsAssumption DEF IInv, TypeOK, Rooms
  <2>2. stopper' = [stopper EXCEPT ![created + 1]["abort"] = "waiting"]
    BY <1>4 DEF JoinNew, StartAbortCountdown
  <2> QED
    BY <1>0, <2>1, <2>2
<1>5. ASSUME NEW s \in Sessions, ClientStep(s) \/ SessionStep(s) \/ LeaveEndedRoom(s)
      PROVE  stopper'[g]["abort"] = "holding"
  BY <1>1, <1>2, <1>4, <1>5
  DEF ClientStep, SessionStep, LeaveEndedRoom, ClientLeaves, Arrive, PeerConnectionFails,
      ClosePeerServer, SignalingHangs, OnTrack, JoinExisting, JoinRefused, ConnectPeerServer,
      DisconnectNobody, DisconnectUser, DisconnectLastUser, UnindexEmptyRoom
<1>6. ASSUME NEW s \in Sessions, NEW k \in Kinds, Start(s, k)
      PROVE  stopper'[g]["abort"] = "holding"
  <2>1. \/ UNCHANGED stopper
        \/ stopper' = [stopper EXCEPT ![room[s]]["graceful"] = "waiting"]
    BY <1>6 DEF Start
  <2> QED
    BY <1>0, <2>1
<1>7. ASSUME NEW s \in Sessions, NEW k \in Kinds, SliceStep(s, k) \/ SliceEnds(s, k)
      PROVE  stopper'[g]["abort"] = "holding"
  BY <1>1, <1>2, <1>6, <1>7 DEF SliceStep, CountInTrack, WaitTillAllReady, BindTrack, SliceEnds
<1>8. ASSUME NEW h \in Rooms, AbortStep(h) \/ \E b \in Stoppers : StopStep(h, b)
      PROVE  stopper'[g]["abort"] = "holding"
  BY <1>3, <1>8
  DEF AbortStep, AbortTimerFires, CheckReady, StopStep, StopCloses, StopClearsReady,
      StopTestsDeleted, StopMarksDeleted, StopUnindexes
<1>9. CASE UNCHANGED vars
  BY <1>1, <1>9 DEF vars
<1> QED
  BY <1>5, <1>7, <1>8, <1>9 DEF Next

(* A signaling that hangs takes no step, and nobody resets it.             *)
LEMMA HangingStays ==
    ASSUME TypeOK, [Next]_vars, NEW g \in Rooms, signaling[g] = "hanging"
    PROVE  signaling'[g] = "hanging"
<1> USE DEF storeVars, roomVars, userVars, sessionVars
<1>1. ASSUME UNCHANGED signaling PROVE signaling'[g] = "hanging"
  BY <1>1
<1>2. ASSUME NEW s \in Sessions, SignalingHangs(s) PROVE signaling'[g] = "hanging"
  BY <1>2 DEF SignalingHangs, TypeOK
<1>3. ASSUME NEW s \in Sessions, NEW k \in Kinds, BindTrack(s, k)
      PROVE  signaling'[g] = "hanging"
  BY <1>3 DEF BindTrack, RequestSignaling, TypeOK
<1>4. ASSUME NEW s \in Sessions, ClientStep(s) \/ SessionStep(s) \/ LeaveEndedRoom(s)
      PROVE  signaling'[g] = "hanging"
  BY <1>1, <1>2, <1>4
  DEF ClientStep, SessionStep, LeaveEndedRoom, ClientLeaves, Arrive, PeerConnectionFails,
      ClosePeerServer, OnTrack, JoinNew, JoinExisting, JoinRefused, ConnectPeerServer,
      DisconnectNobody, DisconnectUser, DisconnectLastUser, UnindexEmptyRoom
<1>5. ASSUME NEW s \in Sessions, NEW k \in Kinds, SliceStep(s, k) \/ SliceEnds(s, k)
      PROVE  signaling'[g] = "hanging"
  BY <1>1, <1>3, <1>5 DEF SliceStep, CountInTrack, WaitTillAllReady, Start, SliceEnds
<1>6. ASSUME NEW h \in Rooms, AbortStep(h) \/ \E b \in Stoppers : StopStep(h, b)
      PROVE  signaling'[g] = "hanging"
  BY <1>1, <1>6
  DEF AbortStep, AbortTimerFires, CheckReady, StopStep, StopCloses, StopClearsReady,
      StopTestsDeleted, StopMarksDeleted, StopUnindexes
<1>7. CASE UNCHANGED vars
  BY <1>1, <1>7 DEF vars
<1> QED
  BY <1>4, <1>5, <1>6, <1>7 DEF Next

(* What only a goroutine that has the mutex of the room for writing does.  *)
Guarded(g) ==
    <<connectedIndex[g], peerServerIndex[g], started[g],
      pipelineStartCount[g], inTracksReadyCount[g], outTracksReadyCount[g]>>

LEMMA LockedRoomStays ==
    ASSUME IInv, [Next]_vars, NEW g \in Rooms, ~Unlocked(g), index # None \/ ~(g > created)
    PROVE  UNCHANGED Guarded(g)
<1> USE DEF storeVars, roomVars, userVars, trackVars, sessionVars
<1>0. TypeOK
  BY DEF IInv
<1>1. ASSUME UNCHANGED <<userVars, started, trackVars>> PROVE UNCHANGED Guarded(g)
  BY <1>1 DEF Guarded
<1>2. ASSUME NEW s \in Sessions, JoinNew(s) PROVE UNCHANGED Guarded(g)
  <2>1. g # created + 1
    BY <1>2, BoundsAssumption DEF IInv, TypeOK, Rooms, JoinNew
  <2>2. /\ connectedIndex' = [connectedIndex EXCEPT ![created + 1][user[s]] = "yes"]
        /\ UNCHANGED <<peerServerIndex, started, trackVars>>
    BY <1>2 DEF JoinNew
  <2> QED
    BY <1>0, <2>1, <2>2 DEF Guarded, TypeOK
<1>3. ASSUME NEW s \in Sessions, JoinExisting(s) PROVE UNCHANGED Guarded(g)
  BY <1>0, <1>3 DEF JoinExisting, Guarded, TypeOK
<1>4. ASSUME NEW s \in Sessions, ConnectPeerServer(s) PROVE UNCHANGED Guarded(g)
  BY <1>0, <1>4 DEF ConnectPeerServer, Guarded, TypeOK
<1>5. ASSUME NEW s \in Sessions, NEW from, DisconnectUser(s, from) \/ DisconnectLastUser(s, from)
      PROVE  UNCHANGED Guarded(g)
  BY <1>0, <1>5
  DEF DisconnectUser, DisconnectLastUser, CallsDisconnect, MarkDisconnected, Guarded, TypeOK
<1>6. ASSUME NEW s \in Sessions, NEW k \in Kinds, CountInTrack(s, k) PROVE UNCHANGED Guarded(g)
  BY <1>0, <1>6 DEF CountInTrack, Guarded, TypeOK
<1>7. ASSUME NEW s \in Sessions, NEW k \in Kinds, BindTrack(s, k) \/ SliceEnds(s, k)
      PROVE  UNCHANGED Guarded(g)
  BY <1>0, <1>7 DEF BindTrack, SliceEnds, Guarded, TypeOK
<1>8. ASSUME NEW s \in Sessions, NEW k \in Kinds, Start(s, k) PROVE UNCHANGED Guarded(g)
  BY <1>0, <1>8 DEF Start, Guarded, TypeOK
<1>9. ASSUME NEW s \in Sessions, ClientStep(s) \/ SessionStep(s) \/ LeaveEndedRoom(s)
      PROVE  UNCHANGED Guarded(g)
  BY <1>1, <1>2, <1>3, <1>4, <1>5, <1>9
  DEF ClientStep, SessionStep, LeaveEndedRoom, ClientLeaves, Arrive, PeerConnectionFails,
      ClosePeerServer, SignalingHangs, OnTrack, JoinRefused, DisconnectNobody, UnindexEmptyRoom
<1>10. ASSUME NEW s \in Sessions, NEW k \in Kinds, WaitTillAllReady(s, k)
       PROVE  UNCHANGED Guarded(g)
  BY <1>1, <1>10 DEF WaitTillAllReady
<1>11. ASSUME NEW h \in Rooms, AbortStep(h) \/ \E b \in Stoppers : StopStep(h, b)
       PROVE  UNCHANGED Guarded(g)
  BY <1>1, <1>11
  DEF AbortStep, AbortTimerFires, CheckReady, StopStep, StopCloses, StopClearsReady,
      StopTestsDeleted, StopMarksDeleted, StopUnindexes
<1>12. CASE UNCHANGED vars
  BY <1>1, <1>12 DEF vars
<1> QED
  BY <1>6, <1>7, <1>8, <1>9, <1>10, <1>11, <1>12 DEF Next, SliceStep

----------------------------------------------------------------------------
(***************************************************************************)
(* ... and what else can keep their holders: nothing.                      *)
(***************************************************************************)
LEMMA HolderStep == IInv /\ HolderInv /\ [Next]_vars => HolderInv'
<1> SUFFICES ASSUME IInv, HolderInv, [Next]_vars PROVE HolderInv'
  OBVIOUS
<1> USE DEF storeVars, roomVars, userVars, sessionVars
<1>0. /\ \A s \in Sessions : s # None
      /\ mutex \in [Rooms -> Sessions \union {None}]
      /\ session \in [Sessions -> SessionStates]
      /\ room \in [Sessions -> Rooms \union {None}]
      /\ storeMutex \in Sessions \union {None}
      /\ created \in Nat /\ MaxRooms \in Nat
  BY Domains, BoundsAssumption DEF IInv, TypeOK
<1>1. ASSUME UNCHANGED <<storeVars, mutex, session, room>> PROVE HolderInv'
  BY <1>1 DEF HolderInv
<1>2. ASSUME NEW s \in Sessions, UNCHANGED <<storeVars, mutex, room>>,
             session[s] \notin {"joining", "unindexing"}, session'[s] \notin {"joining", "unindexing"},
             session' = [session EXCEPT ![s] = session'[s]]
      PROVE  HolderInv'
  BY <1>0, <1>2 DEF HolderInv
<1>3. ASSUME NEW s \in Sessions, NEW u \in Users, Arrive(s, u) PROVE HolderInv'
  BY <1>0, <1>3 DEF Arrive, HolderInv
<1>4. ASSUME NEW s \in Sessions, JoinNew(s) \/ JoinExisting(s) \/ JoinRefused(s) PROVE HolderInv'
  <2>1. /\ session[s] = "joining" /\ storeMutex = s /\ storeMutex' = None
        /\ session' = [session EXCEPT ![s] = session'[s]]
        /\ session'[s] \notin {"joining", "unindexing"}
        /\ \A t \in Sessions : t # s => room'[t] = room[t]
        /\ mutex' = mutex
    BY <1>0, <1>4 DEF JoinNew, JoinExisting, JoinRefused, HolderInv
  <2>2. \A t \in Sessions : session'[t] = "unindexing" => t # s /\ session[t] = "unindexing"
    BY <1>0, <2>1
  <2>3. \A t \in Sessions : session'[t] # "joining"
    BY <1>0, <2>1 DEF HolderInv
  <2>4. \A t \in Sessions : session[t] = "unindexing" => t # s /\ session'[t] = "unindexing"
    BY <1>0, <2>1
  <2> QED
    BY <1>0, <2>1, <2>2, <2>3, <2>4 DEF HolderInv
<1>5. ASSUME NEW s \in Sessions,
             PeerConnectionFails(s) \/ ConnectPeerServer(s) \/ ClientLeaves(s) \/ LeaveEndedRoom(s)
      PROVE  HolderInv'
  BY <1>0, <1>2, <1>5 DEF PeerConnectionFails, ConnectPeerServer, ClientLeaves, LeaveEndedRoom,
                          ClosePeerServer
<1>6. ASSUME NEW s \in Sessions, NEW from \in {"closing", "over"},
             DisconnectUser(s, from) \/ (DisconnectNobody(s) /\ from = "closing")
      PROVE  HolderInv'
  BY <1>0, <1>2, <1>6 DEF DisconnectUser, DisconnectNobody, CallsDisconnect
<1>7. ASSUME NEW s \in Sessions, NEW from \in {"closing", "over"}, DisconnectLastUser(s, from)
      PROVE  HolderInv'
  <2>1. /\ session[s] \in {"closing", "over"} /\ session' = [session EXCEPT ![s] = "unindexing"]
        /\ mutex[room[s]] = None /\ mutex' = [mutex EXCEPT ![room[s]] = s]
        /\ UNCHANGED <<storeVars, room>>
    BY <1>7 DEF DisconnectLastUser, CallsDisconnect, Unlocked, ReadUnlocked
  <2>2. room[s] \in Rooms
    BY <2>1 DEF IInv, SessionInv
  <2>3. \A t \in Sessions : session[t] = "unindexing" => room[t] # room[s]
    BY <1>0, <2>1 DEF HolderInv
  <2> QED
    BY <1>0, <1>7, <2>1, <2>2, <2>3 DEF HolderInv
<1>8. ASSUME NEW s \in Sessions, UnindexEmptyRoom(s) PROVE HolderInv'
  <2>1. /\ session[s] = "unindexing" /\ session' = [session EXCEPT ![s] = "over"]
        /\ mutex[room[s]] = s /\ mutex' = [mutex EXCEPT ![room[s]] = None]
        /\ storeMutex = None /\ UNCHANGED <<storeMutex, room>>
    BY <1>8 DEF UnindexEmptyRoom, HolderInv
  <2>2. room[s] \in Rooms
    BY <2>1 DEF IInv, SessionInv
  <2>3. \A t \in Sessions : t # s /\ session[t] = "unindexing" => room[t] # room[s]
    BY <1>0, <2>1 DEF HolderInv
  <2> QED
    BY <1>0, <1>8, <2>1, <2>2, <2>3 DEF HolderInv
<1>9. ASSUME NEW s \in Sessions, NEW k \in Kinds, OnTrack(s, k) \/ SliceStep(s, k) \/ SliceEnds(s, k)
      PROVE  HolderInv'
  BY <1>1, <1>9
  DEF OnTrack, SliceStep, CountInTrack, WaitTillAllReady, BindTrack, Start, SliceEnds
<1>10. ASSUME NEW h \in Rooms, AbortStep(h) PROVE HolderInv'
  BY <1>1, <1>10 DEF AbortStep, AbortTimerFires, CheckReady
<1>11. ASSUME NEW h \in Rooms, NEW b \in Stoppers, StopStep(h, b) PROVE HolderInv'
  <2>1. CASE UNCHANGED <<storeVars, mutex, session, room>>
    BY <1>1, <2>1
  <2>2. CASE StopUnindexes(h, b)
    BY <2>2 DEF StopUnindexes, HolderInv
  <2> QED
    BY <1>11, <2>1, <2>2
    DEF StopStep, StopCloses, StopClearsReady, StopTestsDeleted, StopMarksDeleted
<1>12. CASE UNCHANGED vars
  BY <1>1, <1>12 DEF vars
<1>13. ASSUME NEW s \in Sessions, SignalingHangs(s) PROVE HolderInv'
  <2>1. UNCHANGED <<storeVars, mutex, room>> /\ session[s] # "joining"
    BY <1>13 DEF SignalingHangs, HasPeerServer
  <2>2. CASE session[s] = "connected"
    BY <1>0, <1>2, <1>13, <2>1, <2>2 DEF SignalingHangs
  <2>3. CASE session[s] # "connected"
    <3>1. session' = session
      BY <1>0, <1>13, <2>3 DEF SignalingHangs
    <3> QED
      BY <1>1, <2>1, <3>1
  <2> QED
    BY <2>2, <2>3
<1> QED
  BY <1>3, <1>4, <1>5, <1>6, <1>7, <1>8, <1>9, <1>10, <1>11, <1>12, <1>13
     DEF Next, ClientStep, SessionStep

(* While the store's mutex or a room's is held by join or disconnectUser,  *)
(* a goroutine that holds one can give it back, unless the locks are       *)
(* frozen.  These two wait for each other, for the read lock that          *)
(* abortCountdown leaks or for that of a signaling that hangs, and for     *)
(* nothing else (interaction_store.go:28-52, interaction.go:212-239,       *)
(* 305-315, 425-453, mixer.go:50-61).                                      *)
THEOREM OnlyThisFreezes == Spec => []LocksMove
<1>1. Init => HolderInv
  BY DEF Init, HolderInv
<1>2. Spec => []HolderInv
  BY <1>1, HolderStep, Invariance, PTL DEF Spec
<1>3. IInv /\ HolderInv => LocksMove
  <2> SUFFICES ASSUME IInv, HolderInv, ~Frozen,
                      storeMutex # None \/ (\E g \in Rooms : mutex[g] # None)
               PROVE  \E s \in Sessions : JoinCanReturn(s) \/ UnindexCanReturn(s)
    BY DEF LocksMove
  <2>1. /\ storeMutex \in Sessions \union {None}
        /\ \A g \in Rooms : mutex[g] \in Sessions \union {None}
        /\ index \in Rooms \union {None}
    BY DEF IInv, TypeOK
  <2>2. CASE storeMutex # None
    <3>1. JoinCanReturn(storeMutex)
      BY <2>1, <2>2 DEF JoinCanReturn, HolderInv, Frozen, LockCycle, ReaderStays,
         ReadUnlocked, Unlocked
    <3> QED
      BY <2>1, <2>2, <3>1
  <2>3. CASE storeMutex = None
    <3>1. PICK g \in Rooms : mutex[g] # None
      BY <2>3
    <3>2. UnindexCanReturn(mutex[g])
      BY <2>3, <3>1 DEF UnindexCanReturn, HolderInv
    <3> QED
      BY <2>1, <3>1, <3>2
  <2> QED
    BY <2>2, <2>3
<1> QED
  BY <1>2, <1>3, Invariance, PTL

----------------------------------------------------------------------------
(***************************************************************************)
(* Capacity.  Users only become known in join; disconnectUser keeps them   *)
(* known, so that they may come back.                                      *)
(***************************************************************************)
LEMMA KnownUsersFrame ==
    ASSUME CapacityInv, created' = created, index' = index \/ index' = None, created \in Nat,
           \A g \in Rooms : KnownUsers(g)' = KnownUsers(g)
    PROVE  CapacityInv'
BY DEF CapacityInv, Capacity, None

(* One more user becomes known in one room, at most.                       *)
LEMMA OneMoreUser ==
    ASSUME TypeOK, NEW g, NEW u, connectedIndex' = [connectedIndex EXCEPT ![g][u] = "yes"],
           NEW h \in Rooms
    PROVE  /\ h # g => KnownUsers(h)' = KnownUsers(h)
           /\ KnownUsers(h)' \subseteq KnownUsers(h) \union {u}
BY DEF KnownUsers, TypeOK

LEMMA KnownUsersFinite ==
    ASSUME NEW g
    PROVE  IsFiniteSet(KnownUsers(g)) /\ Cardinality(KnownUsers(g)) \in Nat
<1>1. KnownUsers(g) \subseteq Users
  BY DEF KnownUsers
<1> QED
  BY <1>1, UsersAssumption, FS_Subset, FS_CardinalityType

LEMMA CapacityStep == TypeOK /\ CapacityInv /\ [Next]_vars => CapacityInv'
<1> SUFFICES ASSUME TypeOK, CapacityInv, [Next]_vars PROVE CapacityInv'
  OBVIOUS
<1> USE DEF storeVars, roomVars, userVars, trackVars, sessionVars
<1>1. ASSUME NEW s \in Sessions, JoinNew(s) PROVE CapacityInv'
  <2>0. created + 1 \in Rooms /\ created \in Nat
    BY <1>1, BoundsAssumption DEF JoinNew, TypeOK, Rooms
  <2> PICK n \in Rooms : n = created + 1
    BY <2>0
  <2>1. created' = n /\ created \in Nat
    BY <1>1, <2>0 DEF JoinNew
  <2>2. connectedIndex' = [connectedIndex EXCEPT ![n][user[s]] = "yes"]
    BY <1>1 DEF JoinNew
  <2>3. KnownUsers(n) = {}
    BY <2>1 DEF CapacityInv, Rooms
  <2>4. KnownUsers(n)' \subseteq {user[s]}
    BY <2>1, <2>2, <2>3, OneMoreUser
  <2>5. Cardinality(KnownUsers(n)') <= Size
    <3>1. Cardinality({user[s]}) = 1 /\ IsFiniteSet({user[s]})
      BY FS_Singleton
    <3>2. Cardinality(KnownUsers(n)') \in Nat /\ Cardinality(KnownUsers(n)') <= 1
      BY <2>4, <3>1, FS_Subset, FS_CardinalityType
    <3> QED
      BY <3>2, SizeAssumption
  <2>6. \A h \in Rooms : h # n => KnownUsers(h)' = KnownUsers(h)
    BY <2>2, OneMoreUser
  <2>7. Capacity'
    BY <2>5, <2>6 DEF CapacityInv, Capacity
  <2>8. ASSUME NEW h \in Rooms, h > created' PROVE KnownUsers(h)' = {}
    <3>1. h > created /\ h # n
      BY <2>1, <2>8 DEF Rooms
    <3> QED
      BY <2>6, <3>1 DEF CapacityInv
  <2>9. index' <= created'
    BY <1>1, <2>1 DEF JoinNew
  <2> QED
    BY <2>7, <2>8, <2>9 DEF CapacityInv
<1>2. ASSUME NEW s \in Sessions, JoinExisting(s) PROVE CapacityInv'
  <2> PICK g \in Rooms : g = index
    BY <1>2 DEF JoinExisting, TypeOK
  <2>1. connectedIndex' = [connectedIndex EXCEPT ![g][user[s]] = "yes"] /\ created' = created
    BY <1>2 DEF JoinExisting
  <2>3. CASE connectedIndex[g][user[s]] = "never" /\ Cardinality(KnownUsers(g)) # Size
    <3>1. Cardinality(KnownUsers(g)') <= Size
      <4>1. KnownUsers(g)' \subseteq KnownUsers(g) \union {user[s]}
        BY <2>1, OneMoreUser
      <4>2. /\ IsFiniteSet(KnownUsers(g) \union {user[s]})
            /\ Cardinality(KnownUsers(g) \union {user[s]}) <= Cardinality(KnownUsers(g)) + 1
        BY KnownUsersFinite, FS_AddElement
      <4>3. Cardinality(KnownUsers(g)') <= Cardinality(KnownUsers(g) \union {user[s]})
        BY <4>1, <4>2, FS_Subset
      <4>4. Cardinality(KnownUsers(g)) <= Size
        BY DEF CapacityInv, Capacity
      <4>5. /\ Cardinality(KnownUsers(g)) \in Nat
            /\ Cardinality(KnownUsers(g)') \in Nat
            /\ Cardinality(KnownUsers(g) \union {user[s]}) \in Nat
        BY KnownUsersFinite, <4>1, <4>2, FS_Subset, FS_CardinalityType
      <4> QED
        BY <2>3, <4>2, <4>3, <4>4, <4>5, SizeAssumption
    <3>2. \A h \in Rooms : h # g => KnownUsers(h)' = KnownUsers(h)
      BY <2>1, OneMoreUser
    <3>3. index <= created /\ index' = index
      BY <1>2 DEF JoinExisting, CapacityInv
    <3>4. \A h \in Rooms : h > created => h # g
      BY <3>3 DEF Rooms, TypeOK
    <3> QED
      BY <2>1, <3>1, <3>2, <3>3, <3>4 DEF CapacityInv, Capacity
  <2>4. CASE connectedIndex[g][user[s]] = "no"
    <3>1. \A h \in Rooms : KnownUsers(h)' = KnownUsers(h)
      BY <2>1, <2>4 DEF KnownUsers, TypeOK
    <3> QED
      BY <1>2, <2>1, <3>1, KnownUsersFrame DEF JoinExisting, TypeOK
  <2> QED
    BY <1>2, <2>3, <2>4 DEF JoinExisting, Admits
<1>3. ASSUME UNCHANGED connectedIndex, created' = created, index' = index \/ index' = None
      PROVE  CapacityInv'
  <2>1. \A h \in Rooms : KnownUsers(h)' = KnownUsers(h)
    BY <1>3 DEF KnownUsers
  <2> QED
    BY <1>3, <2>1, KnownUsersFrame DEF TypeOK
<1>4. ASSUME NEW s \in Sessions, NEW from, MarkDisconnected(s, from),
             UNCHANGED <<created, index>>
      PROVE  CapacityInv'
  <2>1. \A h \in Rooms : KnownUsers(h)' = KnownUsers(h)
    BY <1>4 DEF MarkDisconnected, KnownUsers, TypeOK
  <2> QED
    BY <1>4, <2>1, KnownUsersFrame DEF TypeOK
<1>5. ASSUME NEW s \in Sessions, ClientStep(s) \/ SessionStep(s) \/ LeaveEndedRoom(s)
      PROVE  CapacityInv'
  <2>1. ASSUME NEW from, DisconnectUser(s, from) \/ DisconnectLastUser(s, from)
        PROVE  CapacityInv'
    BY <1>4, <2>1 DEF DisconnectUser, DisconnectLastUser
  <2>2. ASSUME NEW u \in Users, Arrive(s, u) PROVE CapacityInv'
    BY <1>3, <2>2 DEF Arrive
  <2>3. ASSUME NEW k \in Kinds, OnTrack(s, k) PROVE CapacityInv'
    BY <1>3, <2>3 DEF OnTrack
  <2>4. CASE \/ PeerConnectionFails(s) \/ ClientLeaves(s) \/ LeaveEndedRoom(s)
             \/ JoinRefused(s) \/ ConnectPeerServer(s) \/ DisconnectNobody(s)
             \/ UnindexEmptyRoom(s) \/ SignalingHangs(s)
    BY <1>3, <2>4
    DEF PeerConnectionFails, SignalingHangs, ClientLeaves, LeaveEndedRoom, ClosePeerServer, JoinRefused,
        ConnectPeerServer, DisconnectNobody, UnindexEmptyRoom
  <2> QED
    BY <1>1, <1>2, <1>5, <2>1, <2>2, <2>3, <2>4 DEF ClientStep, SessionStep
<1>6. ASSUME NEW s \in Sessions, NEW k \in Kinds, SliceStep(s, k) \/ SliceEnds(s, k)
      PROVE  CapacityInv'
  BY <1>3, <1>6 DEF SliceStep, CountInTrack, WaitTillAllReady, BindTrack, Start, SliceEnds
<1>7. ASSUME NEW g \in Rooms, AbortStep(g) \/ \E b \in Stoppers : StopStep(g, b)
      PROVE  CapacityInv'
  BY <1>3, <1>7
  DEF AbortStep, AbortTimerFires, CheckReady, StopStep, StopCloses, StopClearsReady,
      StopTestsDeleted, StopMarksDeleted, StopUnindexes
<1>8. CASE UNCHANGED vars
  BY <1>3, <1>8 DEF vars
<1> QED
  BY <1>5, <1>6, <1>7, <1>8 DEF Next

LEMMA CapacityInit == Init => CapacityInv
<1> SUFFICES ASSUME Init PROVE CapacityInv
  OBVIOUS
<1>1. \A g \in Rooms : KnownUsers(g) = {}
  BY DEF Init, KnownUsers
<1>2. Capacity
  BY <1>1, FS_EmptySet, SizeAssumption DEF Capacity
<1> QED
  BY <1>1, <1>2 DEF CapacityInv, Init, None

LEMMA CapacityInvariance == Spec => []CapacityInv
BY CapacityInit, TypeCorrect, CapacityStep, PTL DEF Spec

(* However users join, leave and come back, and whatever the number of     *)
(* them, a room never knows more than its size (interaction.join).         *)
THEOREM CapacityIsRespected == Spec => []Capacity
<1>1. CapacityInv => Capacity
  BY DEF CapacityInv
<1> QED
  BY <1>1, CapacityInvariance, PTL

============================================================================
