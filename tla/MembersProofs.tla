--------------------------- MODULE MembersProofs ---------------------------
(***************************************************************************)
(* More theorems about Interaction: who is connected and on whose behalf,  *)
(* and what the counter of outgoing tracks counts.                         *)
(***************************************************************************)
EXTENDS LifecycleProofs

MemberStates == {"joined", "abandoned", "connected", "closing"}

LEMMA MemberIs ==
    ASSUME NEW g, NEW u, NEW s \in Sessions
    PROVE  s \in Members(g, u) <=> room[s] = g /\ user[s] = u /\ session[s] \in MemberStates
BY DEF Members, MemberStates

LEMMA MemberIsPrime ==
    ASSUME NEW g, NEW u, NEW s \in Sessions
    PROVE  s \in Members(g, u)' <=> room'[s] = g /\ user'[s] = u /\ session'[s] \in MemberStates
BY DEF Members, MemberStates

(* The invariant, said of one user of one room at a time.                  *)
MembersAt(g, u) ==
    /\ connectedIndex[g][u] = "yes" => Members(g, u) # {}
    /\ \/ ClosedLate(g, u)
       \/ /\ \A s, t \in Members(g, u) : s = t
          /\ Members(g, u) # {} => connectedIndex[g][u] = "yes"

FreshInv == \A s \in Sessions : session[s] \in {"idle", "joining"} => lateCloses[s] = 0

LEMMA MembersPointwise ==
    MembersInv <=> FreshInv /\ \A g \in Rooms, u \in Users : MembersAt(g, u)
BY DEF MembersInv, NoGhostUser, ConnectedUsers, FreshInv, MembersAt

LEMMA MembersPointwisePrime ==
    MembersInv' <=> FreshInv' /\ \A g \in Rooms, u \in Users : MembersAt(g, u)'
BY DEF MembersInv, NoGhostUser, ConnectedUsers, FreshInv, MembersAt

(* A user of a room of whom a step changes nothing, or only where a member *)
(* is.                                                                     *)
LEMMA MembersKept ==
    ASSUME NEW g, NEW u, MembersAt(g, u),
           Members(g, u)' = Members(g, u),
           connectedIndex'[g][u] = connectedIndex[g][u],
           ClosedLate(g, u) => ClosedLate(g, u)'
    PROVE  MembersAt(g, u)'
BY DEF MembersAt

LEMMA MembersFrame ==
    ASSUME MembersInv, UNCHANGED <<connectedIndex, session, user, room, lateCloses>>
    PROVE  MembersInv'
<1>1. \A g \in Rooms, u \in Users : Members(g, u)' = Members(g, u)
  BY DEF Members
<1> QED
  BY <1>1 DEF MembersInv, NoGhostUser, ConnectedUsers, ClosedLate

(* A session that stays a member, or stays none.                           *)
LEMMA MembersMove ==
    ASSUME TypeOK, MembersInv, NEW s \in Sessions, NEW to,
           session' = [session EXCEPT ![s] = to],
           session[s] \in MemberStates <=> to \in MemberStates,
           to \notin {"idle", "joining"},
           UNCHANGED <<connectedIndex, user, room, lateCloses>>
    PROVE  MembersInv'
<1>1. \A t \in Sessions : session'[t] = IF t = s THEN to ELSE session[t]
  BY DEF TypeOK
<1>2. \A g \in Rooms, u \in Users : Members(g, u)' = Members(g, u)
  BY <1>1 DEF Members, MemberStates
<1>3. FreshInv'
  BY <1>1, MembersPointwise DEF FreshInv
<1> QED
  BY <1>2, <1>3, MembersPointwise, MembersPointwisePrime DEF MembersAt, ClosedLate

LEMMA MembersInit == Init => MembersInv
<1> SUFFICES ASSUME Init PROVE MembersInv
  OBVIOUS
<1>1. \A s \in Sessions : session[s] = "idle" /\ lateCloses[s] = 0
  BY DEF Init
<1>2. \A g \in Rooms, u \in Users : connectedIndex[g][u] = "never"
  BY DEF Init
<1> QED
  BY <1>1, <1>2 DEF MembersInv, NoGhostUser, ConnectedUsers, Members

(* A user who is admitted has the session that joined, and it alone: she   *)
(* was not marked connected.                                               *)
LEMMA MembersJoin ==
    ASSUME TypeOK, MembersInv, NEW s \in Sessions, NEW r \in Rooms, session[s] = "joining",
           \/ connectedIndex[r][user[s]] # "yes"
           \/ \A t \in Sessions : session[t] \in MemberStates => room[t] # r,
           user[s] \in Users,
           connectedIndex' = [connectedIndex EXCEPT ![r][user[s]] = "yes"],
           room' = [room EXCEPT ![s] = r],
           session' = [session EXCEPT ![s] = "joined"],
           UNCHANGED <<user, lateCloses>>
    PROVE  MembersInv'
<1>1. \A t \in Sessions :
        /\ room'[t] = IF t = s THEN r ELSE room[t]
        /\ session'[t] = IF t = s THEN "joined" ELSE session[t]
        /\ user'[t] = user[t] /\ lateCloses'[t] = lateCloses[t]
  BY DEF TypeOK
<1>2. FreshInv'
  BY <1>1, MembersPointwise DEF FreshInv
<1>3. ASSUME NEW g \in Rooms, NEW u \in Users PROVE MembersAt(g, u)'
  <2>1. MembersAt(g, u)
    BY MembersPointwise
  <2>2. connectedIndex'[g][u] = IF g = r /\ u = user[s] THEN "yes" ELSE connectedIndex[g][u]
    BY DEF TypeOK
  <2>3. lateCloses[s] = 0
    BY MembersPointwise DEF FreshInv
  <2>4. ClosedLate(g, u) => ClosedLate(g, u)'
    <3>1. ASSUME NEW t \in Sessions, room[t] = g, user[t] = u, lateCloses[t] > 0
          PROVE  room'[t] = g /\ user'[t] = u /\ lateCloses'[t] > 0
      BY <1>1, <2>3, <3>1
    <3> QED
      BY <3>1 DEF ClosedLate
  <2>5. CASE g = r /\ u = user[s]
    <3>1. s \in Members(g, u)'
      BY <1>1, <2>5, MemberIsPrime DEF MemberStates
    <3>2. ASSUME ~ClosedLate(g, u), NEW t \in Members(g, u)' PROVE t = s
      <4>1. t \in Sessions
        BY DEF Members
      <4>2. SUFFICES ASSUME t # s PROVE FALSE
        OBVIOUS
      <4>3. t \in Members(g, u)
        BY <1>1, <4>1, <4>2, MemberIs, MemberIsPrime
      <4>4. room[t] = r /\ session[t] \in MemberStates
        BY <2>5, <4>1, <4>3, MemberIs
      <4> QED
        BY <2>1, <2>5, <3>2, <4>1, <4>3, <4>4 DEF MembersAt
    <3>3. connectedIndex'[g][u] = "yes"
      BY <2>2, <2>5
    <3> QED
      BY <2>4, <3>1, <3>2, <3>3 DEF MembersAt
  <2>6. CASE ~(g = r /\ u = user[s])
    <3>1. Members(g, u)' = Members(g, u)
      BY <1>1, <2>6 DEF Members
    <3> QED
      BY <2>1, <2>2, <2>4, <2>6, <3>1, MembersKept
  <2> QED
    BY <2>5, <2>6
<1> QED
  BY <1>2, <1>3, MembersPointwisePrime

(* A user who is disconnected, by her session or by a late close: nobody   *)
(* answers for her any more, or a late close is to blame.                  *)
LEMMA MembersLeave ==
    ASSUME TypeOK, MembersInv, NEW s \in Sessions, NEW from \in {"closing", "over"},
           NEW to \in {"over", "unindexing"},
           CallsDisconnect(s, from), MarkDisconnected(s, from),
           room[s] \in Rooms, user[s] \in Users,
           session' = [session EXCEPT ![s] = to],
           UNCHANGED <<user, room>>
    PROVE  MembersInv'
<1>1. /\ \A t \in Sessions : session'[t] = IF t = s THEN to ELSE session[t]
      /\ session[s] = from
  BY DEF TypeOK, CallsDisconnect
<1>2. \A t \in Sessions : lateCloses'[t] = IF t = s /\ from = "over" THEN lateCloses[t] + 1
                                                                     ELSE lateCloses[t]
  BY DEF TypeOK, MarkDisconnected
<1>3. \A t \in Sessions : lateCloses[t] \in Nat
  BY BoundsAssumption DEF TypeOK
<1>4. FreshInv'
  BY <1>1, <1>2, MembersPointwise DEF FreshInv
<1>5. ASSUME NEW g \in Rooms, NEW u \in Users PROVE MembersAt(g, u)'
  <2>1. MembersAt(g, u)
    BY MembersPointwise
  <2>2. connectedIndex'[g][u] = IF g = room[s] /\ u = user[s] THEN "no"
                                                             ELSE connectedIndex[g][u]
    BY DEF TypeOK, MarkDisconnected
  <2>3. ClosedLate(g, u) => ClosedLate(g, u)'
    BY <1>2, <1>3 DEF ClosedLate
  <2>4. CASE g = room[s] /\ u = user[s] /\ from = "over"
    <3>1. lateCloses'[s] > 0
      BY <1>2, <1>3, <2>4
    <3> QED
      BY <2>2, <2>4, <3>1 DEF MembersAt, ClosedLate
  <2>5. CASE g = room[s] /\ u = user[s] /\ from = "closing"
    <3>1. s \in Members(g, u) /\ s \notin Members(g, u)'
      BY <1>1, <2>5, MemberIs, MemberIsPrime DEF MemberStates
    <3>2. ASSUME ~ClosedLate(g, u) PROVE Members(g, u)' = {}
      <4> SUFFICES ASSUME NEW t \in Members(g, u)' PROVE FALSE
        OBVIOUS
      <4>1. t \in Sessions /\ t # s
        BY <3>1 DEF Members
      <4>2. t \in Members(g, u)
        BY <1>1, <4>1, MemberIs, MemberIsPrime
      <4> QED
        BY <2>1, <3>1, <3>2, <4>1, <4>2 DEF MembersAt
    <3>3. connectedIndex'[g][u] = "no"
      BY <2>2, <2>5
    <3> QED
      BY <2>3, <3>2, <3>3 DEF MembersAt
  <2>6. CASE ~(g = room[s] /\ u = user[s])
    <3>1. Members(g, u)' = Members(g, u)
      BY <1>1, <2>6 DEF Members
    <3> QED
      BY <2>1, <2>2, <2>3, <2>6, <3>1, MembersKept
  <2> QED
    BY <2>4, <2>5, <2>6
<1> QED
  BY <1>4, <1>5, MembersPointwisePrime

(* A session that closes for a user who is not marked connected: a late    *)
(* close has been there before.                                            *)
LEMMA MembersGone ==
    ASSUME TypeOK, MembersInv, NEW s \in Sessions, DisconnectNobody(s),
           room[s] \in Rooms, user[s] \in Users
    PROVE  MembersInv'
<1>1. /\ \A t \in Sessions : session'[t] = IF t = s THEN "over" ELSE session[t]
      /\ session[s] = "closing"
      /\ UNCHANGED <<connectedIndex, user, room, lateCloses>>
  BY DEF TypeOK, DisconnectNobody, CallsDisconnect, roomVars, userVars
<1>2. FreshInv'
  BY <1>1, MembersPointwise DEF FreshInv
<1>3. ASSUME NEW g \in Rooms, NEW u \in Users PROVE MembersAt(g, u)'
  <2>1. MembersAt(g, u)
    BY MembersPointwise
  <2>2. ClosedLate(g, u) => ClosedLate(g, u)'
    BY <1>1 DEF ClosedLate
  <2>3. CASE g = room[s] /\ u = user[s]
    <3>1. s \in Members(g, u) /\ connectedIndex[g][u] # "yes"
      BY <1>1, <2>3, MemberIs DEF MemberStates, DisconnectNobody
    <3> QED
      BY <1>1, <2>1, <2>2, <3>1 DEF MembersAt
  <2>4. CASE ~(g = room[s] /\ u = user[s])
    <3>1. Members(g, u)' = Members(g, u)
      BY <1>1, <2>4 DEF Members
    <3> QED
      BY <1>1, <2>1, <2>2, <3>1, MembersKept
  <2> QED
    BY <2>3, <2>4
<1> QED
  BY <1>2, <1>3, MembersPointwisePrime

LEMMA MembersStep == IInv /\ LifecycleInv /\ MembersInv /\ [Next]_vars => MembersInv'
<1> SUFFICES ASSUME IInv, LifecycleInv, MembersInv, [Next]_vars PROVE MembersInv'
  OBVIOUS
<1>0. TypeOK /\ SessionInv /\ PlacesInv /\ index \in {None, created}
  BY DEF IInv, LifecycleInv
<1> USE DEF storeVars, roomVars, userVars, trackVars, sessionVars
<1>1. ASSUME NEW s \in Sessions, NEW u \in Users, Arrive(s, u) PROVE MembersInv'
  <2>1. /\ \A t \in Sessions : session'[t] = IF t = s THEN "joining" ELSE session[t]
        /\ \A t \in Sessions : user'[t] = IF t = s THEN u ELSE user[t]
        /\ session[s] = "idle" /\ lateCloses[s] = 0
        /\ UNCHANGED <<connectedIndex, room, lateCloses>>
    BY <1>0, <1>1 DEF Arrive, TypeOK, MembersInv
  <2>2. \A g \in Rooms, v \in Users : Members(g, v)' = Members(g, v)
    BY <2>1 DEF Members
  <2>3. \A g \in Rooms, v \in Users : ClosedLate(g, v) => ClosedLate(g, v)'
    BY <2>1 DEF ClosedLate
  <2>4. FreshInv'
    BY <2>1, MembersPointwise DEF FreshInv
  <2> QED
    BY <2>1, <2>2, <2>3, <2>4, MembersPointwise, MembersPointwisePrime, MembersKept
<1>2. ASSUME NEW s \in Sessions, JoinNew(s) PROVE MembersInv'
  <2>1. created + 1 \in Rooms
    BY <1>0, <1>2, BoundsAssumption DEF JoinNew, TypeOK, Rooms
  <2>2. \A t \in Sessions : session[t] \in MemberStates => room[t] # created + 1
    <3> SUFFICES ASSUME NEW t \in Sessions, session[t] \in MemberStates
                 PROVE  room[t] # created + 1
      OBVIOUS
    <3>1. room[t] \in Rooms /\ room[t] <= created
      BY <1>0 DEF SessionInv, PlacesInv, MemberStates
    <3>2. \A r \in Nat, n \in Nat : r <= n => r # n + 1
      OBVIOUS
    <3> QED
      BY <1>0, <3>1, <3>2, BoundsAssumption DEF TypeOK, Rooms
  <2> QED
    BY <1>0, <1>2, <2>1, <2>2, MembersJoin DEF JoinNew, PlacesInv
<1>3. ASSUME NEW s \in Sessions, JoinExisting(s) PROVE MembersInv'
  <2>1. index \in Rooms
    BY <1>0, <1>3 DEF JoinExisting, TypeOK
  <2> QED
    BY <1>0, <1>3, <2>1, MembersJoin DEF JoinExisting, PlacesInv, Admits
<1>4. ASSUME NEW s \in Sessions,
             \/ JoinRefused(s) \/ PeerConnectionFails(s) \/ ConnectPeerServer(s)
             \/ ClosePeerServer(s) \/ UnindexEmptyRoom(s)
      PROVE MembersInv'
  BY <1>0, <1>4, MembersMove
  DEF JoinRefused, PeerConnectionFails, ConnectPeerServer, ClosePeerServer, UnindexEmptyRoom,
      MemberStates
<1>5. ASSUME NEW s \in Sessions, session[s] \in {"closing", "over"}
      PROVE  room[s] \in Rooms /\ user[s] \in Users
  BY <1>0, <1>5 DEF SessionInv, PlacesInv
<1>6. ASSUME NEW s \in Sessions, DisconnectNobody(s) PROVE MembersInv'
  BY <1>0, <1>5, <1>6, MembersGone DEF DisconnectNobody, CallsDisconnect
<1>7. ASSUME NEW s \in Sessions, NEW from \in {"closing", "over"},
             DisconnectUser(s, from) \/ DisconnectLastUser(s, from)
      PROVE MembersInv'
  <2>1. room[s] \in Rooms /\ user[s] \in Users
    BY <1>5, <1>7 DEF DisconnectUser, DisconnectLastUser, CallsDisconnect
  <2> QED
    BY <1>0, <1>7, <2>1, MembersLeave DEF DisconnectUser, DisconnectLastUser
<1>8. ASSUME NEW s \in Sessions, NEW k \in Kinds,
             OnTrack(s, k) \/ SliceStep(s, k) \/ SliceEnds(s, k)
      PROVE MembersInv'
  BY <1>8, MembersFrame
  DEF OnTrack, SliceStep, SliceEnds, CountInTrack, WaitTillAllReady, BindTrack, Start
<1>9. ASSUME NEW g \in Rooms, AbortStep(g) \/ \E b \in Stoppers : StopStep(g, b)
      PROVE MembersInv'
  BY <1>9, MembersFrame
  DEF AbortStep, AbortTimerFires, CheckReady, StopStep, StopCloses, StopClearsReady,
      StopTestsDeleted, StopMarksDeleted, StopUnindexes
<1>10. CASE UNCHANGED vars
  BY <1>10, MembersFrame DEF vars
<1>11. ASSUME NEW s \in Sessions, SignalingHangs(s) PROVE MembersInv'
  <2>1. UNCHANGED <<connectedIndex, user, room, lateCloses>> /\ HasPeerServer(s)
    BY <1>11 DEF SignalingHangs
  <2>2. CASE session[s] = "connected"
    <3>1. session' = [session EXCEPT ![s] = "closing"]
      BY <1>11, <2>2 DEF SignalingHangs
    <3> QED
      BY <1>0, <2>1, <2>2, <3>1, MembersMove DEF MemberStates
  <2>3. CASE session[s] # "connected"
    <3>1. session' = session
      BY <1>0, <1>11, <2>3 DEF SignalingHangs, TypeOK
    <3> QED
      BY <2>1, <3>1, MembersFrame
  <2> QED
    BY <2>2, <2>3
<1> QED
  BY <1>1, <1>2, <1>3, <1>4, <1>6, <1>7, <1>8, <1>9, <1>10, <1>11
  DEF Next, ClientStep, ClientLeaves, SessionStep, LeaveEndedRoom

LEMMA MembersInvariance == Spec => []MembersInv
<1>1. Init /\ [][Next]_vars => []MembersInv
  BY Invariance, LifecycleInvariance, MembersInit, MembersStep, PTL DEF Spec
<1> QED
  BY <1>1 DEF Spec

(* A user marked connected can always be released (interaction.go:225).    *)
THEOREM NobodyIsAGhost == Spec => []NoGhostUser
<1>1. MembersInv => NoGhostUser
  BY DEF MembersInv
<1> QED
  BY <1>1, MembersInvariance, PTL

(* Without a late close nobody has two live sessions in a room             *)
(* (interaction.go:216-231, peer_server.go:260-261).                       *)
THEOREM DuplicatesAreLate == Spec => []DuplicatesNeedLateClose
<1>1. TypeOK /\ MembersInv => DuplicatesNeedLateClose
  <2> SUFFICES ASSUME MembersInv, NEW g \in Rooms, NEW u \in Users, ~ClosedLate(g, u)
               PROVE  Cardinality(LiveSessions(g, u)) <= 1
    BY DEF DuplicatesNeedLateClose
  <2>1. \A s, t \in LiveSessions(g, u) : s = t
    BY DEF MembersInv, LiveSessions
  <2>2. CASE LiveSessions(g, u) = {}
    BY <2>2, FS_EmptySet
  <2>3. CASE LiveSessions(g, u) # {}
    <3>1. PICK s \in LiveSessions(g, u) : TRUE
      BY <2>3
    <3>2. LiveSessions(g, u) = {s}
      BY <2>1, <3>1
    <3>3. Cardinality(LiveSessions(g, u)) = 1
      BY <3>2, FS_Singleton
    <3> QED
      BY <3>3
  <2> QED
    BY <2>2, <2>3
<1> QED
  BY <1>1, TypeCorrect, MembersInvariance, PTL

----------------------------------------------------------------------------
LEMMA CarryingIsFinite == ASSUME NEW g PROVE IsFiniteSet(Carrying(g))
<1>1. IsFiniteSet(Sessions)
  BY BoundsAssumption, FS_Interval DEF Sessions
<1>2. IsFiniteSet({"audio"}) /\ IsFiniteSet({"audio", "video"})
  BY FS_Singleton, FS_AddElement
<1>3. IsFiniteSet(Sessions \X Kinds)
  BY <1>1, <1>2, FS_Product DEF Kinds
<1> QED
  BY <1>3, FS_Subset DEF Carrying

(* A step after which the same slices carry media for the same rooms.      *)
LEMMA CarryingFrame ==
    ASSUME OutTracksBalanced, UNCHANGED outTracksReadyCount,
           \A s \in Sessions, k \in Kinds :
               /\ slice'[s][k] \in {"bound", "running"} <=> slice[s][k] \in {"bound", "running"}
               /\ slice[s][k] \in {"bound", "running"} => room'[s] = room[s]
    PROVE  OutTracksBalanced'
<1>1. \A g \in Rooms : Carrying(g)' = Carrying(g)
  BY DEF Carrying
<1> QED
  BY <1>1 DEF OutTracksBalanced

LEMMA CarryingMoves ==
    ASSUME TypeOK, OutTracksBalanced, UNCHANGED <<outTracksReadyCount, room>>,
           NEW s \in Sessions, NEW k \in Kinds, NEW from, NEW to,
           MoveSlice(s, k, from, to),
           from \in {"bound", "running"} <=> to \in {"bound", "running"}
    PROVE  OutTracksBalanced'
<1>1. slice[s][k] = from
  BY DEF MoveSlice
<1>2. \A t \in Sessions, l \in Kinds :
        slice'[t][l] = IF t = s /\ l = k THEN to ELSE slice[t][l]
  BY DEF MoveSlice, TypeOK
<1> QED
  BY <1>1, <1>2, CarryingFrame

(* A session that joins has no slice yet.                                  *)
LEMMA CarryingJoins ==
    ASSUME TypeOK, SessionInv, OutTracksBalanced, UNCHANGED <<outTracksReadyCount, slice>>,
           NEW s \in Sessions, session[s] = "joining", NEW r,
           room' = [room EXCEPT ![s] = r]
    PROVE  OutTracksBalanced'
<1>1. \A k \in Kinds : slice[s][k] = "none"
  BY DEF SessionInv, HasPeerServer
<1>2. \A t \in Sessions : t # s => room'[t] = room[t]
  BY DEF TypeOK
<1> QED
  BY <1>1, <1>2, CarryingFrame

LEMMA CarryingBinds ==
    ASSUME TypeOK, SessionInv, OutTracksBalanced, NEW s \in Sessions, NEW k \in Kinds,
           BindTrack(s, k)
    PROVE  OutTracksBalanced'
<1>1. /\ room[s] \in Rooms /\ UNCHANGED room
      /\ slice[s][k] = "outcounting"
      /\ \A t \in Sessions, l \in Kinds :
            slice'[t][l] = IF t = s /\ l = k THEN "bound" ELSE slice[t][l]
  BY DEF BindTrack, MoveSlice, TypeOK, SessionInv, HasPeerServer, sessionVars
<1>2. \A g \in Rooms :
        outTracksReadyCount'[g] = IF g = room[s] THEN outTracksReadyCount[g] + 1
                                                 ELSE outTracksReadyCount[g]
  BY <1>1 DEF BindTrack, TypeOK
<1>3. ASSUME NEW g \in Rooms PROVE outTracksReadyCount'[g] = Cardinality(Carrying(g)')
  <2>1. outTracksReadyCount[g] = Cardinality(Carrying(g))
    BY DEF OutTracksBalanced
  <2>2. CASE g = room[s]
    <3>1. Carrying(g)' = Carrying(g) \union {<<s, k>>} /\ <<s, k>> \notin Carrying(g)
      BY <1>1, <2>2 DEF Carrying
    <3>2. Cardinality(Carrying(g)') = Cardinality(Carrying(g)) + 1
      BY <3>1, CarryingIsFinite, FS_AddElement
    <3> QED
      BY <1>2, <2>1, <2>2, <3>2
  <2>3. CASE g # room[s]
    <3>1. Carrying(g)' = Carrying(g)
      BY <1>1, <2>3 DEF Carrying
    <3> QED
      BY <1>2, <2>1, <2>3, <3>1
  <2> QED
    BY <2>2, <2>3
<1> QED
  BY <1>3 DEF OutTracksBalanced

LEMMA CarryingEnds ==
    ASSUME TypeOK, SessionInv, OutTracksBalanced, NEW s \in Sessions, NEW k \in Kinds,
           SliceEnds(s, k)
    PROVE  OutTracksBalanced'
<1>1. /\ room[s] \in Rooms /\ UNCHANGED room
      /\ slice[s][k] = "running"
      /\ \A t \in Sessions, l \in Kinds :
            slice'[t][l] = IF t = s /\ l = k THEN "ended" ELSE slice[t][l]
  BY DEF SliceEnds, MoveSlice, TypeOK, SessionInv, HasPeerServer, sessionVars
<1>2. \A g \in Rooms :
        outTracksReadyCount'[g] = IF g = room[s] THEN outTracksReadyCount[g] - 1
                                                 ELSE outTracksReadyCount[g]
  BY <1>1 DEF SliceEnds, TypeOK
<1>3. ASSUME NEW g \in Rooms PROVE outTracksReadyCount'[g] = Cardinality(Carrying(g)')
  <2>1. outTracksReadyCount[g] = Cardinality(Carrying(g))
    BY DEF OutTracksBalanced
  <2>2. CASE g = room[s]
    <3>1. Carrying(g)' = Carrying(g) \ {<<s, k>>} /\ <<s, k>> \in Carrying(g)
      BY <1>1, <2>2 DEF Carrying
    <3>2. Cardinality(Carrying(g)') = Cardinality(Carrying(g)) - 1
      BY <3>1, CarryingIsFinite, FS_RemoveElement
    <3> QED
      BY <1>2, <2>1, <2>2, <3>2
  <2>3. CASE g # room[s]
    <3>1. Carrying(g)' = Carrying(g)
      BY <1>1, <2>3 DEF Carrying
    <3> QED
      BY <1>2, <2>1, <2>3, <3>1
  <2> QED
    BY <2>2, <2>3
<1> QED
  BY <1>3 DEF OutTracksBalanced

LEMMA CarryingInit == Init => OutTracksBalanced
<1> SUFFICES ASSUME Init, NEW g \in Rooms
             PROVE  outTracksReadyCount[g] = Cardinality(Carrying(g))
  BY DEF OutTracksBalanced
<1>1. Carrying(g) = {}
  BY DEF Init, Carrying
<1> QED
  BY <1>1, FS_EmptySet DEF Init

LEMMA CarryingStep == IInv /\ OutTracksBalanced /\ [Next]_vars => OutTracksBalanced'
<1> SUFFICES ASSUME TypeOK, SessionInv, OutTracksBalanced, [Next]_vars
             PROVE  OutTracksBalanced'
  BY DEF IInv
<1> USE DEF storeVars, roomVars, userVars, trackVars, sessionVars
<1>1. ASSUME NEW s \in Sessions, JoinNew(s) \/ JoinExisting(s) PROVE OutTracksBalanced'
  BY <1>1, CarryingJoins DEF JoinNew, JoinExisting
<1>2. ASSUME NEW s \in Sessions, NEW from \in {"closing", "over"},
             \/ \E u \in Users : Arrive(s, u)
             \/ JoinRefused(s) \/ PeerConnectionFails(s) \/ ConnectPeerServer(s)
             \/ ClosePeerServer(s) \/ DisconnectNobody(s) \/ UnindexEmptyRoom(s)
             \/ DisconnectUser(s, from) \/ DisconnectLastUser(s, from) \/ SignalingHangs(s)
      PROVE OutTracksBalanced'
  <2>1. UNCHANGED <<outTracksReadyCount, room, slice>>
    BY <1>2 DEF Arrive, SignalingHangs, JoinRefused, PeerConnectionFails, ConnectPeerServer, ClosePeerServer,
                DisconnectNobody, UnindexEmptyRoom, DisconnectUser, DisconnectLastUser
  <2> QED
    BY <2>1, CarryingFrame
<1>3. ASSUME NEW s \in Sessions, NEW k \in Kinds,
             OnTrack(s, k) \/ CountInTrack(s, k) \/ WaitTillAllReady(s, k) \/ Start(s, k)
      PROVE OutTracksBalanced'
  <2>1. UNCHANGED <<outTracksReadyCount, room>>
    BY <1>3 DEF OnTrack, CountInTrack, WaitTillAllReady, Start
  <2>2. PICK from \in SliceStates, to \in SliceStates :
          /\ MoveSlice(s, k, from, to)
          /\ from \in {"bound", "running"} <=> to \in {"bound", "running"}
    BY <1>3 DEF OnTrack, CountInTrack, WaitTillAllReady, Start, SliceStates
  <2> QED
    BY <2>1, <2>2, CarryingMoves
<1>4. ASSUME NEW s \in Sessions, NEW k \in Kinds, BindTrack(s, k) PROVE OutTracksBalanced'
  BY <1>4, CarryingBinds
<1>5. ASSUME NEW s \in Sessions, NEW k \in Kinds, SliceEnds(s, k) PROVE OutTracksBalanced'
  BY <1>5, CarryingEnds
<1>6. ASSUME NEW g \in Rooms, AbortStep(g) \/ \E b \in Stoppers : StopStep(g, b)
      PROVE OutTracksBalanced'
  <2>1. UNCHANGED <<outTracksReadyCount, room, slice>>
    BY <1>6 DEF AbortStep, AbortTimerFires, CheckReady, StopStep, StopCloses, StopClearsReady,
                StopTestsDeleted, StopMarksDeleted, StopUnindexes
  <2> QED
    BY <2>1, CarryingFrame
<1>7. CASE UNCHANGED vars
  BY <1>7, CarryingFrame DEF vars
<1> QED
  BY <1>1, <1>2, <1>3, <1>4, <1>5, <1>6, <1>7
  DEF Next, ClientStep, ClientLeaves, SessionStep, SliceStep, LeaveEndedRoom

(* The counter of outgoing tracks is the number of slices that carry media *)
(* for the room, over every exit (interaction.go:365-389).                 *)
THEOREM TracksAreBalanced == Spec => []OutTracksBalanced
<1>1. Init /\ [][Next]_vars => []OutTracksBalanced
  BY Invariance, CarryingInit, CarryingStep, PTL DEF Spec
<1> QED
  BY <1>1 DEF Spec

----------------------------------------------------------------------------
(***************************************************************************)
(* The announcement of the start: a session that is connected is the one   *)
(* that peerServerIndex gives for its user, unless a late close removed it.*)
(***************************************************************************)
IndexedAt(s) ==
    session[s] = "connected" =>
        peerServerIndex[room[s]][user[s]] = s \/ ClosedLate(room[s], user[s])

AnnouncedAt(s) ==
    session[s] = "connected" /\ started[room[s]] /\ slice[s]["audio"] # "none" =>
        \/ starts[s] > 0
        \/ inTracksReadyCount[room[s]] > neededTracks
        \/ slice[s]["audio"] = "counting"
        \/ ClosedLate(room[s], user[s])

AnnounceInv == \A s \in Sessions : IndexedAt(s) /\ AnnouncedAt(s)

LEMMA AnnounceInit == Init => AnnounceInv
BY DEF Init, AnnounceInv, IndexedAt, AnnouncedAt

LEMMA AudioIsAKind == "audio" \in Kinds
BY DEF Kinds

\* Once late, always late: a session that arrives or joins was not closed yet.
LEMMA LateStays ==
    ASSUME TypeOK, MembersInv, [Next]_vars, NEW g, NEW u, ClosedLate(g, u)
    PROVE  ClosedLate(g, u)'
<1> USE DEF storeVars, roomVars, userVars, trackVars, sessionVars
<1>1. PICK t \in Sessions : room[t] = g /\ user[t] = u /\ lateCloses[t] > 0
  BY DEF ClosedLate
<1>2. session[t] \notin {"idle", "joining"} /\ lateCloses[t] \in Nat
  BY <1>1, MembersPointwise, BoundsAssumption DEF FreshInv, TypeOK
<1>3. ASSUME NEW s \in Sessions, session[s] \in {"idle", "joining"},
             NEW r, NEW v,
             room' = room \/ room' = [room EXCEPT ![s] = r],
             user' = user \/ user' = [user EXCEPT ![s] = v],
             UNCHANGED lateCloses
      PROVE  ClosedLate(g, u)'
  <2>1. room'[t] = room[t] /\ user'[t] = user[t]
    BY <1>2, <1>3 DEF TypeOK
  <2> QED
    BY <1>1, <1>3, <2>1 DEF ClosedLate
<1>4. ASSUME NEW s \in Sessions,
             (\E u1 \in Users : Arrive(s, u1)) \/ JoinNew(s) \/ JoinExisting(s)
      PROVE  ClosedLate(g, u)'
  BY <1>3, <1>4 DEF Arrive, JoinNew, JoinExisting
<1>5. ASSUME NEW s \in Sessions, NEW from \in {"closing", "over"},
             DisconnectUser(s, from) \/ DisconnectLastUser(s, from)
      PROVE  ClosedLate(g, u)'
  <2>1. UNCHANGED <<room, user>>
    BY <1>5 DEF DisconnectUser, DisconnectLastUser
  <2>2. lateCloses'[t] = lateCloses[t] \/ lateCloses'[t] = lateCloses[t] + 1
    BY <1>5 DEF DisconnectUser, DisconnectLastUser, MarkDisconnected, TypeOK
  <2> QED
    BY <1>1, <1>2, <2>1, <2>2 DEF ClosedLate
<1>6. ASSUME UNCHANGED <<room, user, lateCloses>> PROVE ClosedLate(g, u)'
  BY <1>6 DEF ClosedLate
<1>7. ASSUME NEW s \in Sessions,
             \/ JoinRefused(s) \/ PeerConnectionFails(s) \/ ConnectPeerServer(s)
             \/ ClosePeerServer(s) \/ DisconnectNobody(s) \/ UnindexEmptyRoom(s)
             \/ SignalingHangs(s)
      PROVE  ClosedLate(g, u)'
  BY <1>6, <1>7 DEF SignalingHangs, JoinRefused, PeerConnectionFails, ConnectPeerServer, ClosePeerServer,
                    DisconnectNobody, UnindexEmptyRoom
<1>8. ASSUME NEW s \in Sessions, NEW k \in Kinds,
             OnTrack(s, k) \/ SliceStep(s, k) \/ SliceEnds(s, k)
      PROVE  ClosedLate(g, u)'
  BY <1>6, <1>8
  DEF OnTrack, SliceStep, SliceEnds, CountInTrack, WaitTillAllReady, BindTrack, Start
<1>9. ASSUME NEW r \in Rooms, AbortStep(r) \/ \E b \in Stoppers : StopStep(r, b)
      PROVE  ClosedLate(g, u)'
  BY <1>6, <1>9
  DEF AbortStep, AbortTimerFires, CheckReady, StopStep, StopCloses, StopClearsReady,
      StopTestsDeleted, StopMarksDeleted, StopUnindexes
<1>10. CASE UNCHANGED vars
  BY <1>6, <1>10 DEF vars
<1> QED
  BY <1>4, <1>5, <1>7, <1>8, <1>9, <1>10
  DEF Next, ClientStep, ClientLeaves, SessionStep, LeaveEndedRoom

\* A step that leaves all this to a session as it was, if it is connected after it.
LEMMA AnnounceFrame ==
    ASSUME AnnounceInv, NEW s \in Sessions,
           \A g, u : ClosedLate(g, u) => ClosedLate(g, u)',
           session'[s] = "connected" =>
               /\ session[s] = "connected"
               /\ room'[s] = room[s] /\ user'[s] = user[s]
               /\ \/ peerServerIndex'[room[s]][user[s]] = peerServerIndex[room[s]][user[s]]
                  \/ ClosedLate(room[s], user[s])'
               /\ started'[room[s]] = started[room[s]]
               /\ starts'[s] = starts[s]
               /\ \/ inTracksReadyCount[room[s]] > neededTracks =>
                       inTracksReadyCount'[room[s]] > neededTracks
                  \/ ~started[room[s]]
               /\ \/ slice'[s]["audio"] = slice[s]["audio"]
                  \/ slice[s]["audio"] \notin {"none", "counting"}
    PROVE  (IndexedAt(s) /\ AnnouncedAt(s))'
BY DEF AnnounceInv, IndexedAt, AnnouncedAt

LEMMA AnnounceStep ==
    IInv /\ LifecycleInv /\ MembersInv /\ AnnounceInv /\ [Next]_vars => AnnounceInv'
<1> SUFFICES ASSUME IInv, LifecycleInv, MembersInv, AnnounceInv, [Next]_vars
             PROVE  AnnounceInv'
  OBVIOUS
<1>0. TypeOK /\ SessionInv /\ PlacesInv /\ CountdownInv /\ CountInv
  BY DEF IInv, LifecycleInv
<1>a. \A g, u : ClosedLate(g, u) => ClosedLate(g, u)'
  BY <1>0, LateStays
<1>b. neededTracks \in Int /\ \A g \in Rooms : inTracksReadyCount[g] \in Nat
  BY <1>0, SizeAssumption DEF neededTracks, TypeOK
<1> USE DEF storeVars, roomVars, userVars, trackVars, sessionVars
<1>2. ASSUME NEW s \in Sessions,
             \/ \E u \in Users : Arrive(s, u)
             \/ JoinNew(s) \/ JoinExisting(s) \/ JoinRefused(s) \/ PeerConnectionFails(s)
             \/ ClosePeerServer(s) \/ DisconnectNobody(s) \/ UnindexEmptyRoom(s)
             \/ SignalingHangs(s)
      PROVE  AnnounceInv'
  <2> SUFFICES ASSUME NEW t \in Sessions PROVE (IndexedAt(t) /\ AnnouncedAt(t))'
    BY DEF AnnounceInv
  <2>1. PICK to \in SessionStates \ {"connected"} : session' = [session EXCEPT ![s] = to]
    BY <1>2 DEF Arrive, JoinNew, JoinExisting, JoinRefused, PeerConnectionFails,
                ClosePeerServer, DisconnectNobody, UnindexEmptyRoom, SignalingHangs,
                HasPeerServer, SessionStates
  <2>2. /\ t # s => room'[t] = room[t] /\ user'[t] = user[t]
        /\ UNCHANGED <<peerServerIndex, started, starts, inTracksReadyCount, slice>>
    BY <1>0, <1>2 DEF Arrive, JoinNew, JoinExisting, JoinRefused, PeerConnectionFails,
                ClosePeerServer, DisconnectNobody, UnindexEmptyRoom, SignalingHangs, TypeOK
  <2>3. session'[t] = "connected" => t # s /\ session[t] = "connected"
    BY <1>0, <2>1 DEF TypeOK
  <2> QED
    BY <1>a, <2>2, <2>3, AnnounceFrame
<1>3. ASSUME NEW s \in Sessions, NEW t \in Sessions, t # s,
             session[s] \in MemberStates, session[t] = "connected",
             room[t] = room[s], user[t] = user[s]
      PROVE  ClosedLate(room[t], user[t])
  <2>1. room[t] \in Rooms /\ user[t] \in Users
    BY <1>0, <1>3 DEF SessionInv, PlacesInv
  <2>2. s \in Members(room[t], user[t]) /\ t \in Members(room[t], user[t])
    BY <1>3, MemberIs DEF MemberStates
  <2> QED
    BY <1>3, <2>1, <2>2 DEF MembersInv
<1>4. ASSUME NEW s \in Sessions, ConnectPeerServer(s) PROVE AnnounceInv'
  <2> SUFFICES ASSUME NEW t \in Sessions PROVE (IndexedAt(t) /\ AnnouncedAt(t))'
    BY DEF AnnounceInv
  <2>1. /\ session[s] = "joined"
        /\ session'[t] = IF t = s THEN "connected" ELSE session[t]
        /\ UNCHANGED <<room, user, started, starts, inTracksReadyCount, slice>>
    BY <1>0, <1>4 DEF ConnectPeerServer, TypeOK
  <2>2. room[s] \in Rooms /\ user[s] \in Users
    BY <1>0, <2>1 DEF SessionInv, PlacesInv
  <2>3. CASE t = s
    <3>1. peerServerIndex'[room[s]][user[s]] = s
      BY <1>0, <1>4, <2>2 DEF ConnectPeerServer, TypeOK
    <3>2. slice[s]["audio"] = "none"
      BY <1>0, <2>1, AudioIsAKind DEF SessionInv, HasPeerServer
    <3> QED
      BY <2>1, <2>3, <3>1, <3>2 DEF IndexedAt, AnnouncedAt
  <2>4. CASE t # s
    <3>1. session[t] = "connected" =>
            \/ peerServerIndex'[room[t]][user[t]] = peerServerIndex[room[t]][user[t]]
            \/ ClosedLate(room[t], user[t])'
      <4> SUFFICES ASSUME session[t] = "connected", room[t] = room[s] => user[t] # user[s]
                   PROVE  peerServerIndex'[room[t]][user[t]] = peerServerIndex[room[t]][user[t]]
        BY <1>3, <1>a, <2>1, <2>4 DEF MemberStates
      <4>1. room[t] \in Rooms /\ user[t] \in Users
        BY <1>0 DEF SessionInv, PlacesInv
      <4> QED
        BY <1>0, <1>4, <2>2, <4>1 DEF ConnectPeerServer, TypeOK
    <3> QED
      BY <1>a, <2>1, <2>4, <3>1, AnnounceFrame
  <2> QED
    BY <2>3, <2>4
<1>5. ASSUME NEW s \in Sessions, NEW from \in {"closing", "over"},
             DisconnectUser(s, from) \/ DisconnectLastUser(s, from)
      PROVE  AnnounceInv'
  <2> SUFFICES ASSUME NEW t \in Sessions PROVE (IndexedAt(t) /\ AnnouncedAt(t))'
    BY DEF AnnounceInv
  <2>1. /\ session[s] = from /\ MarkDisconnected(s, from)
        /\ session'[t] = "connected" => t # s /\ session[t] = "connected"
        /\ UNCHANGED <<room, user, started, starts, inTracksReadyCount, slice>>
    BY <1>0, <1>5 DEF DisconnectUser, DisconnectLastUser, CallsDisconnect, TypeOK
  <2>2. room[s] \in Rooms /\ user[s] \in Users
    BY <1>0, <2>1 DEF SessionInv, PlacesInv
  <2>3. ASSUME session'[t] = "connected"
        PROVE  \/ peerServerIndex'[room[t]][user[t]] = peerServerIndex[room[t]][user[t]]
               \/ ClosedLate(room[t], user[t])'
    <3>1. room[t] \in Rooms /\ user[t] \in Users
      BY <1>0, <2>1, <2>3 DEF SessionInv, PlacesInv
    <3>2. CASE room[t] # room[s] \/ user[t] # user[s]
      BY <1>0, <2>1, <2>2, <3>1, <3>2 DEF MarkDisconnected, TypeOK
    <3>3. CASE room[t] = room[s] /\ user[t] = user[s] /\ from = "closing"
      BY <1>3, <1>a, <2>1, <2>3, <3>3 DEF MemberStates
    <3>4. CASE room[t] = room[s] /\ user[t] = user[s] /\ from = "over"
      <4>1. lateCloses'[s] = lateCloses[s] + 1 /\ lateCloses[s] \in Nat
        BY <1>0, <2>1, <3>4, BoundsAssumption DEF MarkDisconnected, TypeOK
      <4> QED
        BY <2>1, <3>4, <4>1 DEF ClosedLate
    <3> QED
      BY <3>2, <3>3, <3>4
  <2> QED
    BY <1>a, <2>1, <2>3, AnnounceFrame
<1>6. ASSUME NEW s \in Sessions, NEW k \in Kinds, slice[s][k] # "none"
      PROVE  room[s] \in Rooms
  BY <1>0, <1>6 DEF SessionInv, HasPeerServer
<1>7. ASSUME NEW s \in Sessions, NEW k \in Kinds, OnTrack(s, k) PROVE AnnounceInv'
  <2> SUFFICES ASSUME NEW t \in Sessions PROVE (IndexedAt(t) /\ AnnouncedAt(t))'
    BY DEF AnnounceInv
  <2>1. UNCHANGED <<session, room, user, peerServerIndex, started, inTracksReadyCount>>
    BY <1>7 DEF OnTrack
  <2>2. CASE ~(t = s /\ k = "audio")
    <3>1. slice'[t]["audio"] = slice[t]["audio"] /\ starts'[t] = starts[t]
      BY <1>0, <1>7, <2>2, AudioIsAKind DEF OnTrack, MoveSlice, AnnouncesStart, TypeOK
    <3> QED
      BY <1>a, <2>1, <3>1, AnnounceFrame
  <2>3. CASE t = s /\ k = "audio"
    <3>1. slice'[s]["audio"] = "counting" \/ starts'[s] > 0
      BY <1>0, <1>7, <2>3, AudioIsAKind DEF OnTrack, MoveSlice, AnnouncesStart, TypeOK
    <3>2. IndexedAt(s)'
      BY <1>a, <2>1 DEF AnnounceInv, IndexedAt
    <3> QED
      BY <2>3, <3>1, <3>2 DEF AnnouncedAt
  <2> QED
    BY <2>2, <2>3
<1>8. ASSUME NEW s \in Sessions, NEW k \in Kinds, CountInTrack(s, k) PROVE AnnounceInv'
  <2> SUFFICES ASSUME NEW t \in Sessions PROVE (IndexedAt(t) /\ AnnouncedAt(t))'
    BY DEF AnnounceInv
  <2>1. /\ UNCHANGED <<session, room, user, peerServerIndex, started, starts>>
        /\ slice[s][k] = "counting" /\ room[s] \in Rooms
    BY <1>6, <1>8 DEF CountInTrack, MoveSlice
  <2>2. /\ \A g \in Rooms : inTracksReadyCount'[g] = IF g = room[s]
                            THEN inTracksReadyCount[g] + 1 ELSE inTracksReadyCount[g]
        /\ slice'[t]["audio"] = IF t = s /\ k = "audio" THEN "waiting" ELSE slice[t]["audio"]
    BY <1>0, <1>8, <2>1, AudioIsAKind DEF CountInTrack, MoveSlice, TypeOK
  <2>3. CASE ~(t = s /\ k = "audio")
    <3>1. session'[t] = "connected" =>
              (inTracksReadyCount[room[t]] > neededTracks =>
                  inTracksReadyCount'[room[t]] > neededTracks)
      <4> SUFFICES ASSUME session[t] = "connected", inTracksReadyCount[room[t]] > neededTracks
                   PROVE  inTracksReadyCount'[room[t]] > neededTracks
        BY <2>1
      <4>1. room[t] \in Rooms
        BY <1>0 DEF SessionInv
      <4> QED
        BY <1>b, <2>2, <4>1
    <3> QED
      BY <1>a, <2>1, <2>2, <2>3, <3>1, AnnounceFrame
  <2>4. CASE t = s /\ k = "audio"
    <3>1. started[room[s]] => inTracksReadyCount[room[s]] >= neededTracks
      BY <1>0, <2>1 DEF CountdownInv, CountInv
    <3>2. started'[room'[s]] => inTracksReadyCount'[room'[s]] > neededTracks
      BY <1>b, <2>1, <2>2, <3>1
    <3>3. IndexedAt(s)'
      BY <1>a, <2>1 DEF AnnounceInv, IndexedAt
    <3> QED
      BY <2>4, <3>2, <3>3 DEF AnnouncedAt
  <2> QED
    BY <2>3, <2>4
<1>9. ASSUME NEW s \in Sessions, NEW k \in Kinds, NEW from, NEW to,
             MoveSlice(s, k, from, to), from \notin {"none", "counting"},
             UNCHANGED <<session, room, user, peerServerIndex, started, starts,
                         inTracksReadyCount>>
      PROVE  AnnounceInv'
  <2> SUFFICES ASSUME NEW t \in Sessions PROVE (IndexedAt(t) /\ AnnouncedAt(t))'
    BY DEF AnnounceInv
  <2>1. slice'[t]["audio"] = slice[t]["audio"] \/ slice[t]["audio"] \notin {"none", "counting"}
    BY <1>0, <1>9, AudioIsAKind DEF MoveSlice, TypeOK
  <2> QED
    BY <1>9, <1>a, <2>1, AnnounceFrame
<1>10. ASSUME NEW s \in Sessions, NEW k \in Kinds,
              WaitTillAllReady(s, k) \/ BindTrack(s, k) \/ SliceEnds(s, k)
                  \/ (Start(s, k) /\ ~Starts(room[s]))
       PROVE  AnnounceInv'
  <2>1. /\ UNCHANGED <<session, room, user, peerServerIndex, started, starts, inTracksReadyCount>>
        /\ \/ MoveSlice(s, k, "waiting", "outcounting") \/ MoveSlice(s, k, "waiting", "discarded")
           \/ MoveSlice(s, k, "outcounting", "bound") \/ MoveSlice(s, k, "running", "ended")
           \/ MoveSlice(s, k, "bound", "running")
    BY <1>10 DEF WaitTillAllReady, BindTrack, SliceEnds, Start
  <2> QED
    BY <1>9, <2>1
<1>11. ASSUME NEW s \in Sessions, NEW k \in Kinds, Start(s, k), Starts(room[s])
       PROVE  AnnounceInv'
  <2> SUFFICES ASSUME NEW t \in Sessions PROVE (IndexedAt(t) /\ AnnouncedAt(t))'
    BY DEF AnnounceInv
  <2> DEFINE present == {peerServerIndex[room[s]][u] : u \in Users} \ {None}
  <2>1. /\ UNCHANGED <<session, room, user, peerServerIndex, inTracksReadyCount>>
        /\ MoveSlice(s, k, "bound", "running")
        /\ started' = [started EXCEPT ![room[s]] = TRUE]
        /\ starts'[t] = IF t \in present THEN starts[t] + 1 ELSE starts[t]
    BY <1>11 DEF Start
  <2>2. IndexedAt(t)'
    BY <1>a, <2>1 DEF AnnounceInv, IndexedAt
  <2>3. slice'[t]["audio"] = slice[t]["audio"] \/ slice[t]["audio"] \notin {"none", "counting"}
    BY <1>0, <2>1, AudioIsAKind DEF MoveSlice, TypeOK
  <2>4. starts[t] \in Nat
    BY <1>0 DEF TypeOK
  <2>5. CASE room[t] = room[s] /\ session[t] = "connected" /\ ~ClosedLate(room[t], user[t])'
    <3>1. user[t] \in Users /\ peerServerIndex[room[s]][user[t]] = t
      BY <1>0, <1>a, <2>1, <2>5 DEF PlacesInv, AnnounceInv, IndexedAt
    <3>2. t # None
      BY BoundsAssumption DEF Sessions, None
    <3>3. t \in present
      BY <3>1, <3>2
    <3>4. starts'[t] > 0
      BY <2>1, <2>4, <3>3
    <3> QED
      BY <2>2, <3>4 DEF AnnouncedAt
  <2>6. CASE room[t] = room[s] /\ session[t] = "connected" /\ ClosedLate(room[t], user[t])'
    BY <2>1, <2>2, <2>6 DEF AnnouncedAt
  <2>7. CASE room[t] # room[s] \/ session[t] # "connected"
    <3>1. session[t] = "connected" => room[t] \in Rooms
      BY <1>0 DEF SessionInv
    <3>2. session[t] = "connected" => started'[room[t]] = started[room[t]]
      BY <1>0, <2>1, <2>7, <3>1 DEF TypeOK
    <3>3. starts'[t] > 0 \/ ~(starts[t] > 0)
      BY <2>1, <2>4
    <3>4. session[t] = "connected" => AnnouncedAt(t)'
      BY <1>a, <2>1, <2>3, <3>2, <3>3 DEF AnnounceInv, AnnouncedAt
    <3> QED
      BY <2>1, <2>2, <3>4 DEF AnnouncedAt
  <2> QED
    BY <2>5, <2>6, <2>7
<1>12. ASSUME UNCHANGED <<session, room, user, peerServerIndex, started, starts,
                          inTracksReadyCount, slice>>
       PROVE  AnnounceInv'
  BY <1>12, <1>a, AnnounceFrame DEF AnnounceInv
<1>13. ASSUME NEW g \in Rooms, AbortStep(g) \/ \E b \in Stoppers : StopStep(g, b)
       PROVE  AnnounceInv'
  BY <1>12, <1>13
  DEF AbortStep, AbortTimerFires, CheckReady, StopStep, StopCloses, StopClearsReady,
      StopTestsDeleted, StopMarksDeleted, StopUnindexes
<1>14. CASE UNCHANGED vars
  BY <1>12, <1>14 DEF vars
<1> QED
  BY <1>2, <1>4, <1>5, <1>7, <1>8, <1>10, <1>11, <1>13, <1>14
  DEF Next, ClientStep, ClientLeaves, SessionStep, SliceStep, LeaveEndedRoom

(* A live session whose audio track was taken in by a room that runs has   *)
(* been told so, but for the two exceptions that StartIsAnnounced names    *)
(* (interaction.go:262-286, 329-354, peer_server.go:260-261).              *)
THEOREM StartsAreAnnounced == Spec => []StartIsAnnounced
<1>1. AnnounceInv => StartIsAnnounced
  BY DEF AnnounceInv, AnnouncedAt, StartIsAnnounced, ClosedLate
<1>2. Init /\ [][Next]_vars => []AnnounceInv
  BY Invariance, LifecycleInvariance, MembersInvariance, AnnounceInit, AnnounceStep, PTL DEF Spec
<1> QED
  BY <1>1, <1>2, PTL DEF Spec
============================================================================
