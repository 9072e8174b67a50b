--------------------------- MODULE SignalingProofs ---------------------------
(***************************************************************************)
(* Proofs about Signaling, for every size, every set of kinds and every    *)
(* bound: its type invariant and its safety invariants, how the locks may  *)
(* freeze, and what a signaling has done when it is through.               *)
(***************************************************************************)
EXTENDS Signaling, FiniteSetTheorems, TLAPS

\* A goroutine belongs to a peer or is a signaling.
LEMMA AgentsApart == Peers \intersect Signalings = {} /\ None \notin Agents
BY BoundsAssumption DEF Peers, Signalings, Agents, None

LEMMA TracksAreFinite == IsFiniteSet(Tracks) /\ IsFiniteSet(Kinds)
<1>1. IsFiniteSet(Peers)
  BY BoundsAssumption, FS_Interval DEF Peers
<1>2. IsFiniteSet(Kinds)
  <2>1. IsFiniteSet({"audio"})
    BY FS_Singleton
  <2>2. IsFiniteSet({"audio"} \union {"video"})
    BY <2>1, FS_AddElement
  <2>3. Kinds \subseteq {"audio"} \union {"video"}
    BY KindsAssumption
  <2> QED
    BY <2>2, <2>3, FS_Subset
<1> QED
  BY <1>1, <1>2, FS_Product DEF Tracks

\* The mutexes belong to the one signaling that is under way.
LEMMA LockStep == SignalingInv /\ [Next]_vars => LockInv'
<1> SUFFICES ASSUME SignalingInv, [Next]_vars PROVE LockInv'
  OBVIOUS
<1> USE BoundsAssumption, AgentsApart DEF TypeOK, SignalingInv, SliceStates, AgentStates, Agents, None, LockInv, Locked, Stable
<1>0. ASSUME UNCHANGED <<reader, mixer, todo, at, target, peerServerIndex>> PROVE LockInv'
  BY <1>0
<1>1. ASSUME NEW a \in Agents, PrepareOutTracks(a) PROVE LockInv'
  BY <1>1 DEF PrepareOutTracks, MoveAgent, AddTracks, Wanted, TracksFor, sliceIndex, Target, locks, countVars, connVars, netVars, agentVars, peerVars
<1>2. ASSUME NEW a \in Agents, CreateOffer(a) PROVE LockInv'
  BY <1>2 DEF CreateOffer, MoveAgent, Target, Sent, locks, countVars, connVars, netVars, agentVars, peerVars
<1>3. ASSUME NEW a \in Agents, SetLocalDescription(a) PROVE LockInv'
  BY <1>3 DEF SetLocalDescription, Shares, Takes, Succeeds, Serves, Target, locks, countVars, connVars, netVars, agentVars, peerVars
<1>4. ASSUME NEW a \in Agents, OfferFails(a) PROVE LockInv'
  BY <1>4 DEF OfferFails, Abandons, Release, Serves, Forget, Target, Takes, locks, countVars, connVars, netVars, agentVars, peerVars
<1>5. ASSUME NEW a \in Agents, WriteFails(a) PROVE LockInv'
  BY <1>5 DEF WriteFails, MoveAgent, Target, locks, countVars, connVars, netVars, agentVars, peerVars
<1>6. ASSUME NEW g \in Signalings, UpdateSignaling(g) PROVE LockInv'
  BY <1>6 DEF UpdateSignaling, MoveAgent, locks, countVars, connVars, netVars, agentVars, peerVars
<1>7. ASSUME NEW g \in Signalings, Visit(g) PROVE LockInv'
  BY <1>7 DEF Visit, MoveAgent, Clean, Sent, sliceIndex, locks, countVars, connVars, netVars, agentVars, peerVars
<1>8. ASSUME NEW g \in Signalings, EveryoneIsSignaled(g) PROVE LockInv'
  BY <1>8 DEF EveryoneIsSignaled, MoveAgent, Release, locks, countVars, connVars, netVars, agentVars, peerVars
<1>9. ASSUME NEW p \in Peers, CleanOutTracks(p) PROVE LockInv'
  BY <1>9 DEF CleanOutTracks, MoveAgent, Clean, Sent, sliceIndex, locks, countVars, connVars, netVars, agentVars, peerVars
<1>10. ASSUME NEW p \in Peers, NegotiationNeeded(p) PROVE LockInv'
  BY <1>10 DEF NegotiationNeeded, MoveAgent, locks, countVars, connVars, netVars, agentVars, peerVars
<1>11. ASSUME NEW p \in Peers, CloseReturns(p) PROVE LockInv'
  BY <1>11 DEF CloseReturns, MoveAgent, Serves, locks, countVars, connVars, netVars, agentVars, peerVars
<1>12. ASSUME NEW p \in Peers, ConnectPeerServer(p) PROVE LockInv'
  <2>1. reader = None /\ mixer = None /\ todo = {}
    BY <1>12 DEF ConnectPeerServer, Unlocked
  <2>2. /\ UNCHANGED <<reader, mixer, todo, target>>
        /\ \A g \in Signalings : at'[g] = at[g]
    BY <1>12 DEF ConnectPeerServer, MoveAgent, locks
  <2> QED
    BY <2>1, <2>2
<1>13. ASSUME NEW p \in Peers, RestartRequested(p) PROVE LockInv'
  BY <1>13 DEF RestartRequested, MoveAgent, locks, countVars, connVars, netVars, agentVars, peerVars
<1>14. ASSUME NEW p \in Peers, DisconnectUser(p) PROVE LockInv'
  <2>1. reader = None /\ mixer = None /\ todo = {}
    BY <1>14 DEF DisconnectUser, Unlocked
  <2>2. UNCHANGED <<reader, mixer, todo, target, at>>
    BY <1>14 DEF DisconnectUser, locks, agentVars
  <2> QED
    BY <2>1, <2>2
<1>15. ASSUME NEW t \in Tracks, CountOutTrack(t) PROVE LockInv'
  BY <1>15 DEF CountOutTrack, MoveSlice, RequestSignaling, MoveAgent, locks, countVars, connVars, netVars, agentVars, peerVars
<1>16. ASSUME UNCHANGED vars PROVE LockInv'
  BY <1>0, <1>16 DEF vars, locks, countVars, connVars, netVars, agentVars, peerVars
<1>17. ASSUME NEW p \in Peers, ClientLeaves(p) PROVE LockInv'
  BY <1>0, <1>17 DEF ClientLeaves, CloseWebsocket, locks, countVars, connVars, netVars, agentVars, peerVars
<1>18. ASSUME NEW p \in Peers, HandleAnswer(p) PROVE LockInv'
  BY <1>0, <1>18 DEF HandleAnswer, locks, countVars, connVars, netVars, agentVars, peerVars
<1>19. ASSUME NEW p \in Peers, ClosePeerServer(p) PROVE LockInv'
  BY <1>0, <1>19 DEF ClosePeerServer, CloseWebsocket, locks, countVars, connVars, netVars, agentVars, peerVars
<1>20. ASSUME NEW t \in Tracks, OnTrack(t) PROVE LockInv'
  BY <1>0, <1>20 DEF OnTrack, MoveSlice, InTracksCounted, allTracksReady, Unlocked, locks, countVars, connVars, netVars, agentVars, peerVars
<1>21. ASSUME NEW t \in Tracks, IndexMixerSlice(t) PROVE LockInv'
  BY <1>0, <1>21 DEF IndexMixerSlice, MoveSlice, locks, countVars, connVars, netVars, agentVars, peerVars
<1>22. ASSUME NEW t \in Tracks, DecOutTracksReadyCount(t) PROVE LockInv'
  BY <1>0, <1>22 DEF DecOutTracksReadyCount, MoveSlice, locks, countVars, connVars, netVars, agentVars, peerVars
<1>23. ASSUME NEW t \in Tracks, RemoveMixerSlice(t) PROVE LockInv'
  BY <1>0, <1>23 DEF RemoveMixerSlice, MoveSlice, locks, countVars, connVars, netVars, agentVars, peerVars
<1> QED
  BY <1>1, <1>2, <1>3, <1>4, <1>5, <1>6, <1>7, <1>8, <1>9, <1>10, <1>11, <1>12, <1>13, <1>14, <1>15, <1>16, <1>17, <1>18, <1>19, <1>20, <1>21, <1>22, <1>23 DEF Next, OfferStep, PeerStep, SignalingStep, ClientStep, SliceStep

\* A websocket that is closed stays closed.
LEMMA WsStep == SignalingInv /\ [Next]_vars => WsInv'
<1> SUFFICES ASSUME SignalingInv, [Next]_vars PROVE WsInv'
  OBVIOUS
<1> USE BoundsAssumption, AgentsApart DEF TypeOK, SignalingInv, SliceStates, AgentStates, Agents, None, LockInv, Locked, Stable, WsInv, Target
<1>0. ASSUME UNCHANGED <<closing, wsUp, at, target>> PROVE WsInv'
  BY <1>0
<1>1. ASSUME NEW a \in Agents, PrepareOutTracks(a) PROVE WsInv'
  BY <1>1 DEF PrepareOutTracks, MoveAgent, AddTracks, Wanted, TracksFor, sliceIndex, Target, locks, countVars, connVars, netVars, agentVars, peerVars
<1>2. ASSUME NEW a \in Agents, CreateOffer(a) PROVE WsInv'
  BY <1>2 DEF CreateOffer, MoveAgent, Target, Sent, locks, countVars, connVars, netVars, agentVars, peerVars
<1>3. ASSUME NEW a \in Agents, SetLocalDescription(a) PROVE WsInv'
  <2>1. /\ at' = [at EXCEPT ![a] = at'[a]] /\ at'[a] # "failing"
        /\ at'[a] = "sending" => ~wsUp[Target(a)]
        /\ UNCHANGED <<wsUp, closing, target>>
    BY <1>3 DEF SetLocalDescription, Shares, Succeeds
  <2>2. \A b \in Agents : b # a => at'[b] = at[b]
    BY <2>1
  <2> QED
    BY <2>1, <2>2 DEF Target
<1>4. ASSUME NEW a \in Agents, OfferFails(a) PROVE WsInv'
  BY <1>4 DEF OfferFails, Abandons, Release, Serves, Forget, Target, Takes, locks, countVars, connVars, netVars, agentVars, peerVars
<1>5. ASSUME NEW a \in Agents, WriteFails(a) PROVE WsInv'
  BY <1>5 DEF WriteFails, MoveAgent, Target, locks, countVars, connVars, netVars, agentVars, peerVars
<1>6. ASSUME NEW g \in Signalings, UpdateSignaling(g) PROVE WsInv'
  BY <1>6 DEF UpdateSignaling, MoveAgent, locks, countVars, connVars, netVars, agentVars, peerVars
<1>7. ASSUME NEW g \in Signalings, Visit(g) PROVE WsInv'
  BY <1>7 DEF Visit, MoveAgent, Clean, Sent, sliceIndex, locks, countVars, connVars, netVars, agentVars, peerVars
<1>8. ASSUME NEW g \in Signalings, EveryoneIsSignaled(g) PROVE WsInv'
  BY <1>8 DEF EveryoneIsSignaled, MoveAgent, Release, locks, countVars, connVars, netVars, agentVars, peerVars
<1>9. ASSUME NEW p \in Peers, CleanOutTracks(p) PROVE WsInv'
  BY <1>9 DEF CleanOutTracks, MoveAgent, Clean, Sent, sliceIndex, locks, countVars, connVars, netVars, agentVars, peerVars
<1>10. ASSUME NEW p \in Peers, NegotiationNeeded(p) PROVE WsInv'
  BY <1>10 DEF NegotiationNeeded, MoveAgent, locks, countVars, connVars, netVars, agentVars, peerVars
<1>11. ASSUME NEW p \in Peers, CloseReturns(p) PROVE WsInv'
  BY <1>11 DEF CloseReturns, MoveAgent, Serves, locks, countVars, connVars, netVars, agentVars, peerVars
<1>12. ASSUME NEW p \in Peers, ConnectPeerServer(p) PROVE WsInv'
  BY <1>12 DEF ConnectPeerServer, MoveAgent, Unlocked, locks, countVars, connVars, netVars, agentVars, peerVars
<1>13. ASSUME NEW p \in Peers, RestartRequested(p) PROVE WsInv'
  BY <1>13 DEF RestartRequested, MoveAgent, locks, countVars, connVars, netVars, agentVars, peerVars
<1>14. ASSUME NEW p \in Peers, ClientLeaves(p) PROVE WsInv'
  BY <1>14 DEF ClientLeaves, CloseWebsocket, locks, countVars, connVars, netVars, agentVars, peerVars
<1>15. ASSUME NEW p \in Peers, ClosePeerServer(p) PROVE WsInv'
  BY <1>15 DEF ClosePeerServer, CloseWebsocket, locks, countVars, connVars, netVars, agentVars, peerVars
<1>16. ASSUME NEW p \in Peers, DisconnectUser(p) PROVE WsInv'
  BY <1>16 DEF DisconnectUser, Unlocked, locks, countVars, connVars, netVars, agentVars, peerVars
<1>17. ASSUME NEW t \in Tracks, CountOutTrack(t) PROVE WsInv'
  BY <1>17 DEF CountOutTrack, MoveSlice, RequestSignaling, MoveAgent, locks, countVars, connVars, netVars, agentVars, peerVars
<1>18. ASSUME UNCHANGED vars PROVE WsInv'
  BY <1>0, <1>18 DEF vars, locks, countVars, connVars, netVars, agentVars, peerVars
<1>19. ASSUME NEW p \in Peers, HandleAnswer(p) PROVE WsInv'
  BY <1>0, <1>19 DEF HandleAnswer, locks, countVars, connVars, netVars, agentVars, peerVars
<1>20. ASSUME NEW t \in Tracks, OnTrack(t) PROVE WsInv'
  BY <1>0, <1>20 DEF OnTrack, MoveSlice, InTracksCounted, allTracksReady, Unlocked, locks, countVars, connVars, netVars, agentVars, peerVars
<1>21. ASSUME NEW t \in Tracks, IndexMixerSlice(t) PROVE WsInv'
  BY <1>0, <1>21 DEF IndexMixerSlice, MoveSlice, locks, countVars, connVars, netVars, agentVars, peerVars
<1>22. ASSUME NEW t \in Tracks, DecOutTracksReadyCount(t) PROVE WsInv'
  BY <1>0, <1>22 DEF DecOutTracksReadyCount, MoveSlice, locks, countVars, connVars, netVars, agentVars, peerVars
<1>23. ASSUME NEW t \in Tracks, RemoveMixerSlice(t) PROVE WsInv'
  BY <1>0, <1>23 DEF RemoveMixerSlice, MoveSlice, locks, countVars, connVars, netVars, agentVars, peerVars
<1> QED
  BY <1>1, <1>2, <1>3, <1>4, <1>5, <1>6, <1>7, <1>8, <1>9, <1>10, <1>11, <1>12, <1>13, <1>14, <1>15, <1>16, <1>17, <1>18, <1>19, <1>20, <1>21, <1>22, <1>23 DEF Next, OfferStep, PeerStep, SignalingStep, ClientStep, SliceStep

\* An offer is made when none is pending, and is pending until it is answered.
LEMMA OneOfferStep == SignalingInv /\ [Next]_vars => OneOfferAtATime'
<1> SUFFICES ASSUME SignalingInv, [Next]_vars PROVE OneOfferAtATime'
  OBVIOUS
<1> USE BoundsAssumption, AgentsApart DEF TypeOK, SignalingInv, SliceStates, AgentStates, Agents, None, LockInv, Stable, WsInv, OneOfferAtATime
<1>0. ASSUME UNCHANGED <<wsUp, offers, pending>> PROVE OneOfferAtATime'
  BY <1>0
<1>1. ASSUME NEW a \in Agents, SetLocalDescription(a) PROVE OneOfferAtATime'
  BY <1>1 DEF SetLocalDescription, Shares, Takes, Succeeds, Serves, Target, locks, countVars, connVars, netVars, agentVars, peerVars
<1>2. ASSUME NEW p \in Peers, ClientLeaves(p) PROVE OneOfferAtATime'
  BY <1>2 DEF ClientLeaves, CloseWebsocket, locks, countVars, connVars, netVars, agentVars, peerVars
<1>3. ASSUME NEW p \in Peers, HandleAnswer(p) PROVE OneOfferAtATime'
  BY <1>3 DEF HandleAnswer, locks, countVars, connVars, netVars, agentVars, peerVars
<1>4. ASSUME NEW p \in Peers, ClosePeerServer(p) PROVE OneOfferAtATime'
  BY <1>4 DEF ClosePeerServer, CloseWebsocket, locks, countVars, connVars, netVars, agentVars, peerVars
<1>5. ASSUME NEW p \in Peers, DisconnectUser(p) PROVE OneOfferAtATime'
  BY <1>5 DEF DisconnectUser, Unlocked, locks, countVars, connVars, netVars, agentVars, peerVars
<1>6. ASSUME UNCHANGED vars PROVE OneOfferAtATime'
  BY <1>0, <1>6 DEF vars, locks, countVars, connVars, netVars, agentVars, peerVars
<1>7. ASSUME NEW a \in Agents, PrepareOutTracks(a) PROVE OneOfferAtATime'
  BY <1>0, <1>7 DEF PrepareOutTracks, MoveAgent, AddTracks, Wanted, TracksFor, sliceIndex, Target, locks, countVars, connVars, netVars, agentVars, peerVars
<1>8. ASSUME NEW a \in Agents, CreateOffer(a) PROVE OneOfferAtATime'
  BY <1>0, <1>8 DEF CreateOffer, MoveAgent, Target, Sent, locks, countVars, connVars, netVars, agentVars, peerVars
<1>9. ASSUME NEW a \in Agents, OfferFails(a) PROVE OneOfferAtATime'
  BY <1>0, <1>9 DEF OfferFails, Abandons, Release, Serves, Forget, Target, Takes, locks, countVars, connVars, netVars, agentVars, peerVars
<1>10. ASSUME NEW a \in Agents, WriteFails(a) PROVE OneOfferAtATime'
  BY <1>0, <1>10 DEF WriteFails, MoveAgent, Target, locks, countVars, connVars, netVars, agentVars, peerVars
<1>11. ASSUME NEW g \in Signalings, UpdateSignaling(g) PROVE OneOfferAtATime'
  BY <1>0, <1>11 DEF UpdateSignaling, MoveAgent, locks, countVars, connVars, netVars, agentVars, peerVars
<1>12. ASSUME NEW g \in Signalings, Visit(g) PROVE OneOfferAtATime'
  BY <1>0, <1>12 DEF Visit, MoveAgent, Clean, Sent, sliceIndex, locks, countVars, connVars, netVars, agentVars, peerVars
<1>13. ASSUME NEW g \in Signalings, EveryoneIsSignaled(g) PROVE OneOfferAtATime'
  BY <1>0, <1>13 DEF EveryoneIsSignaled, MoveAgent, Release, locks, countVars, connVars, netVars, agentVars, peerVars
<1>14. ASSUME NEW p \in Peers, CleanOutTracks(p) PROVE OneOfferAtATime'
  BY <1>0, <1>14 DEF CleanOutTracks, MoveAgent, Clean, Sent, sliceIndex, locks, countVars, connVars, netVars, agentVars, peerVars
<1>15. ASSUME NEW p \in Peers, NegotiationNeeded(p) PROVE OneOfferAtATime'
  BY <1>0, <1>15 DEF NegotiationNeeded, MoveAgent, locks, countVars, connVars, netVars, agentVars, peerVars
<1>16. ASSUME NEW p \in Peers, CloseReturns(p) PROVE OneOfferAtATime'
  BY <1>0, <1>16 DEF CloseReturns, MoveAgent, Serves, locks, countVars, connVars, netVars, agentVars, peerVars
<1>17. ASSUME NEW p \in Peers, ConnectPeerServer(p) PROVE OneOfferAtATime'
  BY <1>0, <1>17 DEF ConnectPeerServer, MoveAgent, Unlocked, locks, countVars, connVars, netVars, agentVars, peerVars
<1>18. ASSUME NEW p \in Peers, RestartRequested(p) PROVE OneOfferAtATime'
  BY <1>0, <1>18 DEF RestartRequested, MoveAgent, locks, countVars, connVars, netVars, agentVars, peerVars
<1>19. ASSUME NEW t \in Tracks, OnTrack(t) PROVE OneOfferAtATime'
  BY <1>0, <1>19 DEF OnTrack, MoveSlice, InTracksCounted, allTracksReady, Unlocked, locks, countVars, connVars, netVars, agentVars, peerVars
<1>20. ASSUME NEW t \in Tracks, IndexMixerSlice(t) PROVE OneOfferAtATime'
  BY <1>0, <1>20 DEF IndexMixerSlice, MoveSlice, locks, countVars, connVars, netVars, agentVars, peerVars
<1>21. ASSUME NEW t \in Tracks, CountOutTrack(t) PROVE OneOfferAtATime'
  BY <1>0, <1>21 DEF CountOutTrack, MoveSlice, RequestSignaling, MoveAgent, locks, countVars, connVars, netVars, agentVars, peerVars
<1>22. ASSUME NEW t \in Tracks, DecOutTracksReadyCount(t) PROVE OneOfferAtATime'
  BY <1>0, <1>22 DEF DecOutTracksReadyCount, MoveSlice, locks, countVars, connVars, netVars, agentVars, peerVars
<1>23. ASSUME NEW t \in Tracks, RemoveMixerSlice(t) PROVE OneOfferAtATime'
  BY <1>0, <1>23 DEF RemoveMixerSlice, MoveSlice, locks, countVars, connVars, netVars, agentVars, peerVars
<1> QED
  BY <1>1, <1>2, <1>3, <1>4, <1>5, <1>6, <1>7, <1>8, <1>9, <1>10, <1>11, <1>12, <1>13, <1>14, <1>15, <1>16, <1>17, <1>18, <1>19, <1>20, <1>21, <1>22, <1>23 DEF Next, OfferStep, PeerStep, SignalingStep, ClientStep, SliceStep

\* What a signaling is about to add was not added by another.
LEMMA SendersStep == SignalingInv /\ [Next]_vars => SendersInv'
<1> SUFFICES ASSUME SignalingInv, [Next]_vars PROVE SendersInv'
  OBVIOUS
<1> USE BoundsAssumption, AgentsApart DEF TypeOK, SignalingInv, SliceStates, AgentStates, Agents, None, LockInv, Locked, Stable, SendersInv
<1>0. ASSUME UNCHANGED <<senders, at, target, known>> PROVE SendersInv'
  BY <1>0
<1>1. ASSUME NEW a \in Agents, PrepareOutTracks(a) PROVE SendersInv'
  BY <1>1 DEF PrepareOutTracks, MoveAgent, AddTracks, Wanted, TracksFor, sliceIndex, Target, locks, countVars, connVars, netVars, agentVars, peerVars
<1>2. ASSUME NEW a \in Agents, CreateOffer(a) PROVE SendersInv'
  BY <1>2 DEF CreateOffer, MoveAgent, Target, Sent, locks, countVars, connVars, netVars, agentVars, peerVars
<1>3. ASSUME NEW a \in Agents, SetLocalDescription(a) PROVE SendersInv'
  BY <1>3 DEF SetLocalDescription, Shares, Takes, Succeeds, Serves, Target, locks, countVars, connVars, netVars, agentVars, peerVars
<1>4. ASSUME NEW a \in Agents, OfferFails(a) PROVE SendersInv'
  BY <1>4 DEF OfferFails, Abandons, Release, Serves, Forget, Target, Takes, locks, countVars, connVars, netVars, agentVars, peerVars
<1>5. ASSUME NEW a \in Agents, WriteFails(a) PROVE SendersInv'
  BY <1>5 DEF WriteFails, MoveAgent, Target, locks, countVars, connVars, netVars, agentVars, peerVars
<1>6. ASSUME NEW g \in Signalings, UpdateSignaling(g) PROVE SendersInv'
  BY <1>6 DEF UpdateSignaling, MoveAgent, locks, countVars, connVars, netVars, agentVars, peerVars
<1>7. ASSUME NEW g \in Signalings, Visit(g) PROVE SendersInv'
  BY <1>7 DEF Visit, MoveAgent, Clean, Sent, sliceIndex, locks, countVars, connVars, netVars, agentVars, peerVars
<1>8. ASSUME NEW g \in Signalings, EveryoneIsSignaled(g) PROVE SendersInv'
  BY <1>8 DEF EveryoneIsSignaled, MoveAgent, Release, locks, countVars, connVars, netVars, agentVars, peerVars
<1>9. ASSUME NEW p \in Peers, CleanOutTracks(p) PROVE SendersInv'
  BY <1>9 DEF CleanOutTracks, MoveAgent, Clean, Sent, sliceIndex, locks, countVars, connVars, netVars, agentVars, peerVars
<1>10. ASSUME NEW p \in Peers, NegotiationNeeded(p) PROVE SendersInv'
  BY <1>10 DEF NegotiationNeeded, MoveAgent, locks, countVars, connVars, netVars, agentVars, peerVars
<1>11. ASSUME NEW p \in Peers, CloseReturns(p) PROVE SendersInv'
  BY <1>11 DEF CloseReturns, MoveAgent, Serves, locks, countVars, connVars, netVars, agentVars, peerVars
<1>12. ASSUME NEW p \in Peers, ConnectPeerServer(p) PROVE SendersInv'
  BY <1>12 DEF ConnectPeerServer, MoveAgent, Unlocked, locks, countVars, connVars, netVars, agentVars, peerVars
<1>13. ASSUME NEW p \in Peers, RestartRequested(p) PROVE SendersInv'
  BY <1>13 DEF RestartRequested, MoveAgent, locks, countVars, connVars, netVars, agentVars, peerVars
<1>14. ASSUME NEW p \in Peers, DisconnectUser(p) PROVE SendersInv'
  BY <1>14 DEF DisconnectUser, Unlocked, locks, countVars, connVars, netVars, agentVars, peerVars
<1>15. ASSUME NEW t \in Tracks, CountOutTrack(t) PROVE SendersInv'
  BY <1>15 DEF CountOutTrack, MoveSlice, RequestSignaling, MoveAgent, locks, countVars, connVars, netVars, agentVars, peerVars
<1>16. ASSUME UNCHANGED vars PROVE SendersInv'
  BY <1>0, <1>16 DEF vars, locks, countVars, connVars, netVars, agentVars, peerVars
<1>17. ASSUME NEW p \in Peers, ClientLeaves(p) PROVE SendersInv'
  BY <1>0, <1>17 DEF ClientLeaves, CloseWebsocket, locks, countVars, connVars, netVars, agentVars, peerVars
<1>18. ASSUME NEW p \in Peers, HandleAnswer(p) PROVE SendersInv'
  BY <1>0, <1>18 DEF HandleAnswer, locks, countVars, connVars, netVars, agentVars, peerVars
<1>19. ASSUME NEW p \in Peers, ClosePeerServer(p) PROVE SendersInv'
  BY <1>0, <1>19 DEF ClosePeerServer, CloseWebsocket, locks, countVars, connVars, netVars, agentVars, peerVars
<1>20. ASSUME NEW t \in Tracks, OnTrack(t) PROVE SendersInv'
  BY <1>0, <1>20 DEF OnTrack, MoveSlice, InTracksCounted, allTracksReady, Unlocked, locks, countVars, connVars, netVars, agentVars, peerVars
<1>21. ASSUME NEW t \in Tracks, IndexMixerSlice(t) PROVE SendersInv'
  BY <1>0, <1>21 DEF IndexMixerSlice, MoveSlice, locks, countVars, connVars, netVars, agentVars, peerVars
<1>22. ASSUME NEW t \in Tracks, DecOutTracksReadyCount(t) PROVE SendersInv'
  BY <1>0, <1>22 DEF DecOutTracksReadyCount, MoveSlice, locks, countVars, connVars, netVars, agentVars, peerVars
<1>23. ASSUME NEW t \in Tracks, RemoveMixerSlice(t) PROVE SendersInv'
  BY <1>0, <1>23 DEF RemoveMixerSlice, MoveSlice, locks, countVars, connVars, netVars, agentVars, peerVars
<1> QED
  BY <1>1, <1>2, <1>3, <1>4, <1>5, <1>6, <1>7, <1>8, <1>9, <1>10, <1>11, <1>12, <1>13, <1>14, <1>15, <1>16, <1>17, <1>18, <1>19, <1>20, <1>21, <1>22, <1>23 DEF Next, OfferStep, PeerStep, SignalingStep, ClientStep, SliceStep

\* A signaling adds what was not there.
LEMMA DoubleStep == SignalingInv /\ [Next]_vars => NoDoubleSend'
<1> SUFFICES ASSUME SignalingInv, [Next]_vars PROVE NoDoubleSend'
  OBVIOUS
<1> USE BoundsAssumption, AgentsApart DEF TypeOK, SignalingInv, SliceStates, AgentStates, Agents, None, LockInv, Locked, Stable, SendersInv, NoDoubleSend
<1>0. ASSUME UNCHANGED <<senders>> PROVE NoDoubleSend'
  BY <1>0
<1>1. ASSUME NEW a \in Agents, PrepareOutTracks(a) PROVE NoDoubleSend'
  BY <1>1 DEF PrepareOutTracks, MoveAgent, AddTracks, Wanted, TracksFor, sliceIndex, Target, locks, countVars, connVars, netVars, agentVars, peerVars
<1>2. ASSUME NEW g \in Signalings, Visit(g) PROVE NoDoubleSend'
  BY <1>2 DEF Visit, MoveAgent, Clean, Sent, sliceIndex, locks, countVars, connVars, netVars, agentVars, peerVars
<1>3. ASSUME NEW p \in Peers, CleanOutTracks(p) PROVE NoDoubleSend'
  BY <1>3 DEF CleanOutTracks, MoveAgent, Clean, Sent, sliceIndex, locks, countVars, connVars, netVars, agentVars, peerVars
<1>4. ASSUME NEW p \in Peers, DisconnectUser(p) PROVE NoDoubleSend'
  BY <1>4 DEF DisconnectUser, Unlocked, locks, countVars, connVars, netVars, agentVars, peerVars
<1>5. ASSUME UNCHANGED vars PROVE NoDoubleSend'
  BY <1>0, <1>5 DEF vars, locks, countVars, connVars, netVars, agentVars, peerVars
<1>6. ASSUME NEW a \in Agents, CreateOffer(a) PROVE NoDoubleSend'
  BY <1>0, <1>6 DEF CreateOffer, MoveAgent, Target, Sent, locks, countVars, connVars, netVars, agentVars, peerVars
<1>7. ASSUME NEW a \in Agents, SetLocalDescription(a) PROVE NoDoubleSend'
  BY <1>0, <1>7 DEF SetLocalDescription, Shares, Takes, Succeeds, Serves, Target, locks, countVars, connVars, netVars, agentVars, peerVars
<1>8. ASSUME NEW a \in Agents, OfferFails(a) PROVE NoDoubleSend'
  BY <1>0, <1>8 DEF OfferFails, Abandons, Release, Serves, Forget, Target, Takes, locks, countVars, connVars, netVars, agentVars, peerVars
<1>9. ASSUME NEW a \in Agents, WriteFails(a) PROVE NoDoubleSend'
  BY <1>0, <1>9 DEF WriteFails, MoveAgent, Target, locks, countVars, connVars, netVars, agentVars, peerVars
<1>10. ASSUME NEW g \in Signalings, UpdateSignaling(g) PROVE NoDoubleSend'
  BY <1>0, <1>10 DEF UpdateSignaling, MoveAgent, locks, countVars, connVars, netVars, agentVars, peerVars
<1>11. ASSUME NEW g \in Signalings, EveryoneIsSignaled(g) PROVE NoDoubleSend'
  BY <1>0, <1>11 DEF EveryoneIsSignaled, MoveAgent, Release, locks, countVars, connVars, netVars, agentVars, peerVars
<1>12. ASSUME NEW p \in Peers, NegotiationNeeded(p) PROVE NoDoubleSend'
  BY <1>0, <1>12 DEF NegotiationNeeded, MoveAgent, locks, countVars, connVars, netVars, agentVars, peerVars
<1>13. ASSUME NEW p \in Peers, CloseReturns(p) PROVE NoDoubleSend'
  BY <1>0, <1>13 DEF CloseReturns, MoveAgent, Serves, locks, countVars, connVars, netVars, agentVars, peerVars
<1>14. ASSUME NEW p \in Peers, ConnectPeerServer(p) PROVE NoDoubleSend'
  BY <1>0, <1>14 DEF ConnectPeerServer, MoveAgent, Unlocked, locks, countVars, connVars, netVars, agentVars, peerVars
<1>15. ASSUME NEW p \in Peers, RestartRequested(p) PROVE NoDoubleSend'
  BY <1>0, <1>15 DEF RestartRequested, MoveAgent, locks, countVars, connVars, netVars, agentVars, peerVars
<1>16. ASSUME NEW p \in Peers, ClientLeaves(p) PROVE NoDoubleSend'
  BY <1>0, <1>16 DEF ClientLeaves, CloseWebsocket, locks, countVars, connVars, netVars, agentVars, peerVars
<1>17. ASSUME NEW p \in Peers, HandleAnswer(p) PROVE NoDoubleSend'
  BY <1>0, <1>17 DEF HandleAnswer, locks, countVars, connVars, netVars, agentVars, peerVars
<1>18. ASSUME NEW p \in Peers, ClosePeerServer(p) PROVE NoDoubleSend'
  BY <1>0, <1>18 DEF ClosePeerServer, CloseWebsocket, locks, countVars, connVars, netVars, agentVars, peerVars
<1>19. ASSUME NEW t \in Tracks, OnTrack(t) PROVE NoDoubleSend'
  BY <1>0, <1>19 DEF OnTrack, MoveSlice, InTracksCounted, allTracksReady, Unlocked, locks, countVars, connVars, netVars, agentVars, peerVars
<1>20. ASSUME NEW t \in Tracks, IndexMixerSlice(t) PROVE NoDoubleSend'
  BY <1>0, <1>20 DEF IndexMixerSlice, MoveSlice, locks, countVars, connVars, netVars, agentVars, peerVars
<1>21. ASSUME NEW t \in Tracks, CountOutTrack(t) PROVE NoDoubleSend'
  BY <1>0, <1>21 DEF CountOutTrack, MoveSlice, RequestSignaling, MoveAgent, locks, countVars, connVars, netVars, agentVars, peerVars
<1>22. ASSUME NEW t \in Tracks, DecOutTracksReadyCount(t) PROVE NoDoubleSend'
  BY <1>0, <1>22 DEF DecOutTracksReadyCount, MoveSlice, locks, countVars, connVars, netVars, agentVars, peerVars
<1>23. ASSUME NEW t \in Tracks, RemoveMixerSlice(t) PROVE NoDoubleSend'
  BY <1>0, <1>23 DEF RemoveMixerSlice, MoveSlice, locks, countVars, connVars, netVars, agentVars, peerVars
<1> QED
  BY <1>1, <1>2, <1>3, <1>4, <1>5, <1>6, <1>7, <1>8, <1>9, <1>10, <1>11, <1>12, <1>13, <1>14, <1>15, <1>16, <1>17, <1>18, <1>19, <1>20, <1>21, <1>22, <1>23 DEF Next, OfferStep, PeerStep, SignalingStep, ClientStep, SliceStep

\* What the counting of one more slice, or of one less, does to the number of them.
LEMMA CountStep == SignalingInv /\ [Next]_vars => CountInv'
<1> SUFFICES ASSUME SignalingInv, [Next]_vars PROVE CountInv'
  OBVIOUS
<1> USE BoundsAssumption, AgentsApart DEF TypeOK, SignalingInv, SliceStates, Agents, None
<1>f. IsFiniteSet(Counted)
  BY TracksAreFinite, FS_Subset DEF Counted
<1>0. ASSUME UNCHANGED outTracksReadyCount, Counted' = Counted PROVE CountInv'
  BY <1>0 DEF CountInv
<1>1. ASSUME NEW t \in Tracks, CountOutTrack(t) PROVE CountInv'
  <2>1. outTracksReadyCount' = outTracksReadyCount + 1
    BY <1>1 DEF CountOutTrack
  <2>2. t \notin Counted /\ Counted' = Counted \union {t}
    BY <1>1 DEF CountOutTrack, MoveSlice, Counted
  <2> QED
    BY <1>f, <2>1, <2>2, FS_AddElement, FS_CardinalityType DEF CountInv
<1>2. ASSUME NEW t \in Tracks, DecOutTracksReadyCount(t) PROVE CountInv'
  <2>1. outTracksReadyCount' = outTracksReadyCount - 1
    BY <1>2 DEF DecOutTracksReadyCount
  <2>2. t \in Counted /\ Counted' = Counted \ {t}
    BY <1>2 DEF DecOutTracksReadyCount, MoveSlice, Counted
  <2> QED
    BY <1>f, <2>1, <2>2, FS_RemoveElement, FS_CardinalityType DEF CountInv
<1>3. ASSUME NEW t \in Tracks, OnTrack(t) \/ IndexMixerSlice(t) \/ RemoveMixerSlice(t) PROVE CountInv'
  <2>1. UNCHANGED outTracksReadyCount
    BY <1>3 DEF OnTrack, IndexMixerSlice, RemoveMixerSlice, countVars
  <2>2. Counted' = Counted
    BY <1>3 DEF OnTrack, IndexMixerSlice, RemoveMixerSlice, MoveSlice, Counted
  <2> QED
    BY <1>0, <2>1, <2>2
<1>4. ASSUME UNCHANGED <<slice, outTracksReadyCount>> PROVE CountInv'
  BY <1>0, <1>4 DEF Counted
<1>5. ASSUME NEW a \in Agents, PrepareOutTracks(a) PROVE CountInv'
  BY <1>4, <1>5 DEF PrepareOutTracks, locks, countVars, connVars, netVars, agentVars, peerVars
<1>6. ASSUME NEW a \in Agents, CreateOffer(a) PROVE CountInv'
  BY <1>4, <1>6 DEF CreateOffer, locks, countVars, connVars, netVars, agentVars, peerVars
<1>7. ASSUME NEW a \in Agents, SetLocalDescription(a) PROVE CountInv'
  BY <1>4, <1>7 DEF SetLocalDescription, locks, countVars, connVars, netVars, agentVars, peerVars
<1>8. ASSUME NEW a \in Agents, OfferFails(a) PROVE CountInv'
  BY <1>4, <1>8 DEF OfferFails, locks, countVars, connVars, netVars, agentVars, peerVars
<1>9. ASSUME NEW a \in Agents, WriteFails(a) PROVE CountInv'
  BY <1>4, <1>9 DEF WriteFails, locks, countVars, connVars, netVars, agentVars, peerVars
<1>10. ASSUME NEW g \in Signalings, UpdateSignaling(g) PROVE CountInv'
  BY <1>4, <1>10 DEF UpdateSignaling, locks, countVars, connVars, netVars, agentVars, peerVars
<1>11. ASSUME NEW g \in Signalings, Visit(g) PROVE CountInv'
  BY <1>4, <1>11 DEF Visit, locks, countVars, connVars, netVars, agentVars, peerVars
<1>12. ASSUME NEW g \in Signalings, EveryoneIsSignaled(g) PROVE CountInv'
  BY <1>4, <1>12 DEF EveryoneIsSignaled, locks, countVars, connVars, netVars, agentVars, peerVars
<1>13. ASSUME NEW p \in Peers, CleanOutTracks(p) PROVE CountInv'
  BY <1>4, <1>13 DEF CleanOutTracks, locks, countVars, connVars, netVars, agentVars, peerVars
<1>14. ASSUME NEW p \in Peers, NegotiationNeeded(p) PROVE CountInv'
  BY <1>4, <1>14 DEF NegotiationNeeded, locks, countVars, connVars, netVars, agentVars, peerVars
<1>15. ASSUME NEW p \in Peers, CloseReturns(p) PROVE CountInv'
  BY <1>4, <1>15 DEF CloseReturns, locks, countVars, connVars, netVars, agentVars, peerVars
<1>16. ASSUME NEW p \in Peers, ConnectPeerServer(p) PROVE CountInv'
  BY <1>4, <1>16 DEF ConnectPeerServer, locks, countVars, connVars, netVars, agentVars, peerVars
<1>17. ASSUME NEW p \in Peers, RestartRequested(p) PROVE CountInv'
  BY <1>4, <1>17 DEF RestartRequested, locks, countVars, connVars, netVars, agentVars, peerVars
<1>18. ASSUME NEW p \in Peers, ClientLeaves(p) PROVE CountInv'
  BY <1>4, <1>18 DEF ClientLeaves, locks, countVars, connVars, netVars, agentVars, peerVars
<1>19. ASSUME NEW p \in Peers, HandleAnswer(p) PROVE CountInv'
  BY <1>4, <1>19 DEF HandleAnswer, locks, countVars, connVars, netVars, agentVars, peerVars
<1>20. ASSUME NEW p \in Peers, ClosePeerServer(p) PROVE CountInv'
  BY <1>4, <1>20 DEF ClosePeerServer, locks, countVars, connVars, netVars, agentVars, peerVars
<1>21. ASSUME NEW p \in Peers, DisconnectUser(p) PROVE CountInv'
  BY <1>4, <1>21 DEF DisconnectUser, locks, countVars, connVars, netVars, agentVars, peerVars
<1>22. ASSUME UNCHANGED vars PROVE CountInv'
  BY <1>4, <1>22 DEF vars, countVars
<1> QED
  BY <1>1, <1>2, <1>3, <1>5, <1>6, <1>7, <1>8, <1>9, <1>10, <1>11, <1>12, <1>13, <1>14, <1>15, <1>16, <1>17, <1>18, <1>19, <1>20, <1>21, <1>22 DEF Next, OfferStep, PeerStep, SignalingStep, ClientStep, SliceStep

\* An agent that makes an offer makes it to a peer.
LEMMA TargetIsAPeer ==
    ASSUME SignalingInv, NEW a \in Agents, at[a] \in Stable \union {"failing"}
    PROVE  Target(a) \in Peers
BY DEF SignalingInv, LockInv, Target, Agents

\* Every step keeps the types.
LEMMA TypeStep == SignalingInv /\ [Next]_vars => TypeOK'
<1> SUFFICES ASSUME SignalingInv, [Next]_vars PROVE TypeOK'
  OBVIOUS
<1>f. outTracksReadyCount' \in 0..Cardinality(Tracks)
  <2>1. Counted' \subseteq Tracks
    BY DEF Counted
  <2>2. IsFiniteSet(Counted') /\ Cardinality(Counted') <= Cardinality(Tracks)
    BY <2>1, TracksAreFinite, FS_Subset
  <2>3. outTracksReadyCount' = Cardinality(Counted')
    BY CountStep DEF CountInv
  <2> QED
    BY <2>2, <2>3, TracksAreFinite, FS_CardinalityType
<1> USE BoundsAssumption, AgentsApart, <1>f DEF TypeOK, SignalingInv, SliceStates, AgentStates, Agents, None
<1>1. ASSUME NEW a \in Agents, PrepareOutTracks(a) PROVE TypeOK'
  <2>1. Target(a) \in Peers
    BY <1>1, TargetIsAPeer DEF PrepareOutTracks, MoveAgent, Stable
  <2>2. AddTracks(a) \subseteq Tracks
    BY DEF AddTracks, Wanted, TracksFor
  <2>3. {[track |-> t, by |-> a] : t \in AddTracks(a)} \subseteq [track : Tracks, by : Agents]
    BY <2>2
  <2>4. senders' \in [Peers -> SUBSET [track : Tracks, by : Agents]]
    BY <1>1, <2>1, <2>3 DEF PrepareOutTracks
  <2> QED
    BY <1>1, <2>4 DEF PrepareOutTracks, MoveAgent, locks, countVars, connVars, netVars, peerVars
<1>2. ASSUME NEW a \in Agents, CreateOffer(a) PROVE TypeOK'
  <2>1. Target(a) \in Peers
    BY <1>2, TargetIsAPeer DEF CreateOffer, MoveAgent, Stable
  <2>2. Sent(Target(a)) \subseteq Tracks
    BY <2>1 DEF Sent
  <2> QED
    BY <1>2, <2>1, <2>2 DEF CreateOffer, MoveAgent, locks, countVars, netVars, peerVars
<1>3. ASSUME NEW a \in Agents, SetLocalDescription(a) PROVE TypeOK'
  <2>1. Target(a) \in Peers
    BY <1>3, TargetIsAPeer DEF SetLocalDescription, Stable
  <2>2. /\ pending' \in [Peers -> BOOLEAN]
        /\ lastOffer' \in [Peers -> Agents \union {None}]
    BY <1>3, <2>1 DEF SetLocalDescription, Shares
  <2>3. /\ at' \in [Agents -> AgentStates] /\ serving' \in [Peers -> BOOLEAN]
        /\ offers' \in [Peers -> Nat]
    <3>1. CASE wsUp[Target(a)]
      <4>1. /\ at' = [at EXCEPT ![a] = IF a \in Peers THEN "idle" ELSE "visiting"]
            /\ serving' = IF a \in Peers THEN [serving EXCEPT ![a] = TRUE] ELSE serving
            /\ offers' = [offers EXCEPT ![Target(a)] = @ + 1]
        BY <1>3, <3>1 DEF SetLocalDescription, Shares, Succeeds, Serves
      <4>2. serving' \in [Peers -> BOOLEAN]
        BY <4>1
      <4>3. offers' \in [Peers -> Nat]
        BY <2>1, <4>1
      <4> QED
        BY <4>1, <4>2, <4>3
    <3>2. CASE ~wsUp[Target(a)]
      BY <1>3, <2>1, <3>2 DEF SetLocalDescription, Shares
    <3> QED
      BY <3>1, <3>2
  <2> QED
    BY <1>3, <2>2, <2>3 DEF SetLocalDescription, locks, countVars, agentVars
<1>4. ASSUME NEW a \in Agents, OfferFails(a) PROVE TypeOK'
  BY <1>4 DEF OfferFails, Abandons, Release, Serves, Forget, Target, Takes, locks, countVars, connVars, netVars, agentVars, peerVars
<1>5. ASSUME NEW a \in Agents, WriteFails(a) PROVE TypeOK'
  BY <1>5 DEF WriteFails, MoveAgent, Target, locks, countVars, connVars, netVars, agentVars, peerVars
<1>6. ASSUME NEW g \in Signalings, UpdateSignaling(g) PROVE TypeOK'
  BY <1>6 DEF UpdateSignaling, MoveAgent, locks, countVars, connVars, netVars, agentVars, peerVars
<1>7. ASSUME NEW g \in Signalings, Visit(g) PROVE TypeOK'
  BY <1>7 DEF Visit, MoveAgent, Clean, Sent, sliceIndex, locks, countVars, connVars, netVars, agentVars, peerVars
<1>8. ASSUME NEW g \in Signalings, EveryoneIsSignaled(g) PROVE TypeOK'
  BY <1>8 DEF EveryoneIsSignaled, MoveAgent, Release, locks, countVars, connVars, netVars, agentVars, peerVars
<1>9. ASSUME NEW p \in Peers, CleanOutTracks(p) PROVE TypeOK'
  BY <1>9 DEF CleanOutTracks, MoveAgent, Clean, Sent, sliceIndex, locks, countVars, connVars, netVars, agentVars, peerVars
<1>10. ASSUME NEW p \in Peers, NegotiationNeeded(p) PROVE TypeOK'
  BY <1>10 DEF NegotiationNeeded, MoveAgent, locks, countVars, connVars, netVars, agentVars, peerVars
<1>11. ASSUME NEW p \in Peers, CloseReturns(p) PROVE TypeOK'
  BY <1>11 DEF CloseReturns, MoveAgent, Serves, locks, countVars, connVars, netVars, agentVars, peerVars
<1>12. ASSUME NEW p \in Peers, ConnectPeerServer(p) PROVE TypeOK'
  BY <1>12 DEF ConnectPeerServer, MoveAgent, Unlocked, locks, countVars, connVars, netVars, agentVars, peerVars
<1>13. ASSUME NEW p \in Peers, RestartRequested(p) PROVE TypeOK'
  BY <1>13 DEF RestartRequested, MoveAgent, locks, countVars, connVars, netVars, agentVars, peerVars
<1>14. ASSUME NEW p \in Peers, ClientLeaves(p) PROVE TypeOK'
  BY <1>14 DEF ClientLeaves, CloseWebsocket, locks, countVars, connVars, netVars, agentVars, peerVars
<1>15. ASSUME NEW p \in Peers, HandleAnswer(p) PROVE TypeOK'
  BY <1>15 DEF HandleAnswer, locks, countVars, connVars, netVars, agentVars, peerVars
<1>16. ASSUME NEW p \in Peers, ClosePeerServer(p) PROVE TypeOK'
  BY <1>16 DEF ClosePeerServer, CloseWebsocket, locks, countVars, connVars, netVars, agentVars, peerVars
<1>17. ASSUME NEW p \in Peers, DisconnectUser(p) PROVE TypeOK'
  BY <1>17 DEF DisconnectUser, Unlocked, locks, countVars, connVars, netVars, agentVars, peerVars
<1>18. ASSUME NEW t \in Tracks, OnTrack(t) PROVE TypeOK'
  <2>1. neededTracks \in Nat
    BY TracksAreFinite, FS_CardinalityType, SizeAssumption DEF neededTracks
  <2>2. inTracksReadyCount' \in 0..neededTracks
    BY <1>18, <2>1 DEF OnTrack, InTracksCounted, allTracksReady
  <2> QED
    BY <1>18, <2>2 DEF OnTrack, MoveSlice, locks, connVars, netVars, agentVars, peerVars
<1>19. ASSUME NEW t \in Tracks, IndexMixerSlice(t) PROVE TypeOK'
  BY <1>19 DEF IndexMixerSlice, MoveSlice, locks, countVars, connVars, netVars, agentVars, peerVars
<1>20. ASSUME NEW t \in Tracks, CountOutTrack(t) PROVE TypeOK'
  BY <1>20 DEF CountOutTrack, MoveSlice, RequestSignaling, MoveAgent, locks, countVars, connVars, netVars, agentVars, peerVars
<1>21. ASSUME NEW t \in Tracks, DecOutTracksReadyCount(t) PROVE TypeOK'
  BY <1>21 DEF DecOutTracksReadyCount, MoveSlice, locks, countVars, connVars, netVars, agentVars, peerVars
<1>22. ASSUME NEW t \in Tracks, RemoveMixerSlice(t) PROVE TypeOK'
  BY <1>22 DEF RemoveMixerSlice, MoveSlice, locks, countVars, connVars, netVars, agentVars, peerVars
<1>23. ASSUME UNCHANGED vars PROVE TypeOK'
  BY <1>23 DEF vars, locks, countVars, connVars, netVars, agentVars, peerVars
<1> QED
  BY <1>1, <1>2, <1>3, <1>4, <1>5, <1>6, <1>7, <1>8, <1>9, <1>10, <1>11, <1>12, <1>13, <1>14, <1>15, <1>16, <1>17, <1>18, <1>19, <1>20, <1>21, <1>22, <1>23 DEF Next, OfferStep, PeerStep, SignalingStep, ClientStep, SliceStep

LEMMA SignalingInductive == Spec => []SignalingInv
<1>1. Init => SignalingInv
  <2> SUFFICES ASSUME Init PROVE SignalingInv
    OBVIOUS
  <2> USE BoundsAssumption, AgentsApart DEF Init, None
  <2>1. neededTracks \in Nat /\ Cardinality(Tracks) \in Nat
    BY TracksAreFinite, FS_CardinalityType, SizeAssumption DEF neededTracks
  <2>2. TypeOK
    BY <2>1 DEF TypeOK, SliceStates, AgentStates
  <2>3. CountInv
    <3>1. Counted = {}
      BY DEF Counted
    <3> QED
      BY <3>1, FS_EmptySet DEF CountInv
  <2>4. LockInv /\ WsInv
    BY DEF LockInv, WsInv, Locked, Stable, Agents
  <2>5. OneOfferAtATime /\ SendersInv /\ NoDoubleSend
    BY DEF OneOfferAtATime, SendersInv, NoDoubleSend, Agents
  <2> QED
    BY <2>2, <2>3, <2>4, <2>5 DEF SignalingInv
<1>2. SignalingInv /\ [Next]_vars => SignalingInv'
  BY TypeStep, CountStep, LockStep, WsStep, OneOfferStep, SendersStep, DoubleStep DEF SignalingInv
<1> QED
  BY <1>1, <1>2, PTL DEF Spec

(* The locks, indexes and counters of interaction.go:30-67, mixer.go:10-14 *)
(* and peer_server.go:28-44 stay in their types: no count passes the       *)
(* number of tracks or falls below zero.                                   *)
THEOREM SignalingTypes == Spec => []TypeOK
BY SignalingInductive, PTL DEF SignalingInv

(* Whoever takes the read lock keeps the index as it is until every peer   *)
(* was visited (mixer.go:51-59).                                           *)
THEOREM NobodyLeavesMidway == Spec => []IndexIsStable
<1>1. SignalingInv => IndexIsStable
  BY DEF SignalingInv, LockInv, IndexIsStable, Stable
<1> QED
  BY <1>1, SignalingInductive, PTL

(* However many agents make offers to a peer, one is under way exactly     *)
(* while its description is pending (peer_server.go:176-228).              *)
THEOREM OffersNeverCross == Spec => []OneOfferAtATime
BY SignalingInductive, PTL DEF SignalingInv

(* A track is sent twice to nobody by the signalings for everyone alone    *)
(* (peer_server.go:133).                                                   *)
THEOREM TracksAreSentOnce == Spec => []NoDoubleSend
BY SignalingInductive, PTL DEF SignalingInv
----------------------------------------------------------------------------
(***************************************************************************)
(* The locks that freeze.                                                  *)
(***************************************************************************)
\* A signaling that writes an offer has both mutexes, and no other one has started.
LEMMA WriterHasLocks ==
    ASSUME SignalingInv, NEW g \in Signalings, at[g] \in {"sending", "failing"}
    PROVE  /\ mixer = g /\ reader = g /\ g # None /\ g \in Agents /\ g \notin Peers
           /\ \A h \in Signalings : h # g => at[h] \notin Locked
BY AgentsApart DEF SignalingInv, LockInv, Locked, Stable, Agents

(* Neither that signaling nor the peer whose close it waits for goes on,   *)
(* and with the mutexes gone nothing happens that needs one of them.       *)
LEMMA FreezeStep ==
    ASSUME SignalingInv, [Next]_vars, NEW g \in Signalings,
           at[g] = "failing" \/ (at[g] = "sending" /\ WsLocked(Target(g)))
    PROVE  /\ at'[g] = at[g] /\ target'[g] = target[g]
           /\ \A p \in Peers : at[p] = "failing" /\ closing[p] = "closing" =>
                at'[p] = "failing" /\ closing'[p] = "closing"
           /\ UNCHANGED <<locks, peerServerIndex, countVars, slice>>
<1> DEFINE Held ==
        /\ at'[g] = at[g] /\ target'[g] = target[g]
        /\ \A p \in Peers : at[p] = "failing" /\ closing[p] = "closing" =>
             at'[p] = "failing" /\ closing'[p] = "closing"
        /\ UNCHANGED <<locks, peerServerIndex, countVars, slice>>
<1>0. /\ mixer # None /\ ~Unlocked /\ g \in Agents /\ g \notin Peers
      /\ \A h \in Signalings : h # g => at[h] \notin Locked
      /\ \A p \in Peers : p \in Agents
      /\ at \in [Agents -> AgentStates] /\ closing \in [Peers -> {"open", "closing", "closed"}]
      /\ target \in [Signalings -> Peers \union {None}]
  BY WriterHasLocks DEF SignalingInv, TypeOK, Unlocked, Agents
<1>1. ASSUME UNCHANGED <<at, target, closing, locks, peerServerIndex, countVars, slice>>
      PROVE  Held
  BY <1>1
<1>2. ASSUME NEW a \in Agents, NEW from, NEW to, MoveAgent(a, from, to),
             from \notin {"sending", "failing"},
             UNCHANGED <<target, closing, locks, peerServerIndex, countVars, slice>>
      PROVE  Held
  BY <1>0, <1>2 DEF MoveAgent
<1>3. ASSUME NEW a \in Agents, PrepareOutTracks(a) \/ CreateOffer(a) PROVE Held
  BY <1>2, <1>3 DEF PrepareOutTracks, CreateOffer, peerVars
<1>4. ASSUME NEW a \in Agents, SetLocalDescription(a) PROVE Held
  <2>1. /\ at[a] = "setting" /\ at' = [at EXCEPT ![a] = at'[a]]
        /\ UNCHANGED <<target, closing, locks, peerServerIndex, countVars, slice>>
    BY <1>0, <1>4 DEF SetLocalDescription, Shares, Succeeds
  <2> QED
    BY <1>0, <2>1
<1>5. ASSUME NEW a \in Agents, OfferFails(a) PROVE Held
  <2>1. /\ at[a] \in {"adding", "offering", "setting"} /\ a # g
        /\ at' = [at EXCEPT ![a] = at'[a]]
        /\ UNCHANGED <<closing, peerServerIndex, countVars, slice>>
    BY <1>0, <1>5 DEF OfferFails, Abandons
  <2>2. a \in Peers
    BY <1>0, <2>1 DEF Agents, Locked, Stable
  <2>3. UNCHANGED locks
    BY <1>5, <2>2 DEF OfferFails, Abandons
  <2>4. target'[g] = target[g]
    BY <1>5, <2>1 DEF OfferFails, Forget
  <2> QED
    BY <1>0, <2>1, <2>3, <2>4
<1>6. ASSUME NEW a \in Agents, WriteFails(a) PROVE Held
  <2>1. /\ at[a] = "sending" /\ at' = [at EXCEPT ![a] = "failing"] /\ ~WsLocked(Target(a))
        /\ closing' = [closing EXCEPT ![Target(a)] = IF @ = "open" THEN "closing" ELSE @]
        /\ UNCHANGED <<target, locks, peerServerIndex, countVars, slice>>
    BY <1>6 DEF WriteFails, MoveAgent
  <2>2. a # g
    BY <2>1
  <2> QED
    BY <1>0, <2>1, <2>2
<1>7. ASSUME NEW h \in Signalings, UpdateSignaling(h) \/ SignalingStep(h) PROVE FALSE
  BY <1>0, <1>7 DEF UpdateSignaling, SignalingStep, Visit, EveryoneIsSignaled, MoveAgent, Locked
<1>8. ASSUME NEW p \in Peers, CleanOutTracks(p) \/ NegotiationNeeded(p) \/ RestartRequested(p)
      PROVE  Held
  BY <1>0, <1>2, <1>8 DEF CleanOutTracks, NegotiationNeeded, RestartRequested, peerVars
<1>9. ASSUME NEW p \in Peers, CloseReturns(p) PROVE Held
  BY <1>0, <1>9 DEF CloseReturns, MoveAgent
<1>10. ASSUME NEW p \in Peers, HandleAnswer(p) \/ ClientLeaves(p) PROVE Held
  BY <1>1, <1>10 DEF HandleAnswer, ClientLeaves, peerVars, agentVars
<1>11. ASSUME NEW p \in Peers, ClosePeerServer(p) PROVE Held
  BY <1>0, <1>11 DEF ClosePeerServer, agentVars
<1>12. ASSUME NEW p \in Peers, ConnectPeerServer(p) \/ DisconnectUser(p) PROVE FALSE
  BY <1>0, <1>12 DEF ConnectPeerServer, DisconnectUser
<1>13. ASSUME NEW t \in Tracks,
              OnTrack(t) \/ IndexMixerSlice(t) \/ SliceStep(t) \/ RemoveMixerSlice(t)
       PROVE  FALSE
  BY <1>0, <1>13
  DEF OnTrack, IndexMixerSlice, SliceStep, CountOutTrack, DecOutTracksReadyCount, RemoveMixerSlice
<1>14. CASE UNCHANGED vars
  BY <1>1, <1>14 DEF vars, peerVars, agentVars
<1> QED
  BY <1>3, <1>4, <1>5, <1>6, <1>7, <1>8, <1>9, <1>10, <1>11, <1>12, <1>13, <1>14
     DEF Next, OfferStep, PeerStep, ClientStep

(* A signaling that closes a peer while it holds the mutexes, or waits for *)
(* the websocket of one whose close waits for it, never gives them back:   *)
(* nobody joins or leaves, no track comes or goes, no signaling begins     *)
(* (mixer.go:51-86, ws_conn.go:207-219, interaction.go:425-431).           *)
THEOREM FreezeIsForGood == Spec => FrozenForever
<1>1. ASSUME SignalingInv, [Next]_vars, Frozen
      PROVE  Frozen' /\ UNCHANGED <<locks, peerServerIndex, countVars, slice>>
  <2>1. PICK g \in Signalings :
            \/ at[g] = "failing"
            \/ /\ at[g] = "sending"
               /\ \E p \in Peers : at[p] = "failing" /\ Target(g) = p /\ closing[p] = "closing"
    BY <1>1 DEF Frozen
  <2>2. at[g] = "sending" => WsLocked(Target(g))
    <3> SUFFICES ASSUME at[g] = "sending" PROVE WsLocked(Target(g))
      OBVIOUS
    <3>1. PICK p \in Peers : at[p] = "failing" /\ Target(g) = p
      BY <2>1
    <3> QED
      BY <3>1 DEF WsLocked, Target, Agents
  <2>3. /\ at'[g] = at[g] /\ target'[g] = target[g]
        /\ \A p \in Peers : at[p] = "failing" /\ closing[p] = "closing" =>
             at'[p] = "failing" /\ closing'[p] = "closing"
        /\ UNCHANGED <<locks, peerServerIndex, countVars, slice>>
    BY <1>1, <2>1, <2>2, FreezeStep
  <2> QED
    BY <2>1, <2>3 DEF Frozen, Target
<1>2. SignalingInv /\ [Next]_vars =>
        [Frozen => Frozen' /\ UNCHANGED <<locks, peerServerIndex, countVars, slice>>]_vars
  BY <1>1
<1> QED
  BY <1>2, SignalingInductive, PTL DEF Spec, FrozenForever

(* While a signaling holds the mutexes it can go on, or a close can return *)
(* for which it waits, unless the locks are frozen: the goroutines of this *)
(* module have no other deadlock (mixer.go:51-86, peer_server.go:176-262,  *)
(* ws_conn.go:207-219).                                                    *)
THEOREM OnlyThisFreezes == Spec => []LocksMove
<1>1. SignalingInv => LocksMove
  <2> SUFFICES ASSUME SignalingInv, reader # None, ~Frozen
               PROVE  \/ at[reader] \in {"visiting", "adding", "offering", "setting"}
                      \/ at[reader] = "sending" /\ ~WsLocked(Target(reader))
                      \/ at[Target(reader)] = "failing" /\ closing[Target(reader)] = "closed"
    BY DEF LocksMove
  <2>1. /\ reader \in Signalings /\ at[reader] \in Locked /\ reader \notin Peers
        /\ \A h \in Signalings : h # reader => at[h] \notin Locked
    BY AgentsApart DEF SignalingInv, TypeOK, LockInv
  <2>2. at[reader] # "failing"
    BY <2>1 DEF Frozen
  <2>3. CASE at[reader] = "sending" /\ WsLocked(Target(reader))
    <3>1. PICK a \in Agents : at[a] = "failing" /\ Target(a) = Target(reader)
      BY <2>3 DEF WsLocked
    <3>2. a \in Peers /\ a = Target(reader)
      BY <2>1, <2>2, <3>1 DEF Agents, Locked, Target
    <3>3. closing[a] \in {"closing", "closed"}
      BY <3>1, <3>2 DEF SignalingInv, WsInv, TypeOK
    <3>4. closing[a] # "closing"
      BY <2>1, <2>3, <3>1, <3>2 DEF Frozen
    <3> QED
      BY <3>1, <3>2, <3>3, <3>4
  <2> QED
    BY <2>1, <2>2, <2>3 DEF Locked, Stable
<1> QED
  BY <1>1, SignalingInductive, PTL

----------------------------------------------------------------------------
(***************************************************************************)
(* What a signaling has done when it is through with a peer.               *)
(***************************************************************************)
TracksOf(S) == {s.track : s \in S}
New(T, a)   == {[track |-> t, by |-> a] : t \in T}
Kept(S, I)  == {s \in S : s.track \in I}

LEMMA SentFilter ==
    ASSUME NEW S, NEW I
    PROVE  TracksOf(Kept(S, I)) = TracksOf(S) \intersect I
BY DEF TracksOf, Kept

LEMMA SentUnion ==
    ASSUME NEW S, NEW T, NEW a
    PROVE  TracksOf(S \union New(T, a)) = TracksOf(S) \union T
<1>1. ASSUME NEW t \in T PROVE \E s \in S \union New(T, a) : s.track = t
  <2>1. [track |-> t, by |-> a] \in New(T, a) /\ [track |-> t, by |-> a].track = t
    BY DEF New
  <2> QED
    BY <2>1
<1>2. ASSUME NEW s \in S \union New(T, a) PROVE s \in S \/ s.track \in T
  BY DEF New
<1> QED
  BY <1>1, <1>2 DEF TracksOf

\* What is left to promise when the first part of OfferedInv is kept.
SignaledInv(g) == at[g] \in Locked => VisitInv(g) /\ \A p \in Done(g) : DoneInv(p)

LEMMA OneSignaling ==
    ASSUME SignalingInv, NEW g \in Signalings, at[g] \in Locked
    PROVE  /\ mixer = g /\ reader = g
           /\ \A h \in Signalings : at[h] \in Locked => h = g
BY DEF SignalingInv, LockInv

\* The steps that touch no senders and no descriptions.
LEMMA OfferedFrame ==
    ASSUME OfferedInv, NEW g \in Signalings,
           UNCHANGED <<senders, lastOffer, offer, pending, negotiated, peerServerIndex, todo>>,
           sliceIndex' = sliceIndex,
           at'[g] \in Locked =>
               /\ at[g] \in Locked
               /\ target'[g] = target[g] /\ known'[g] = known[g]
               /\ at'[g] = at[g] \/ (at'[g] = "failing" /\ at[g] = "sending")
    PROVE  SignaledInv(g)'
BY DEF OfferedInv, SignaledInv, VisitInv, Done, DoneInv, Offered, Wanted, Sent, Locked, Stable

\* The steps that need the mixer's mutex free.
LEMMA OfferedVacuous ==
    ASSUME SignalingInv, [Next]_vars, mixer' = None, NEW g \in Signalings
    PROVE  SignaledInv(g)'
BY LockStep, AgentsApart DEF SignaledInv, LockInv, Agents

\* An agent in the middle of an offer is the peer's own or the signaling under way.
LEMMA WhoOffers ==
    ASSUME SignalingInv, NEW g \in Signalings, at[g] \in Locked,
           NEW a \in Agents, at[a] \in Stable
    PROVE  a = g \/ (a \in Peers /\ Target(a) = a)
BY OneSignaling DEF Agents, Target, Locked

LEMMA OfferedPrepare ==
    ASSUME SignalingInv, OfferedInv, NEW a \in Agents, PrepareOutTracks(a),
           NEW g \in Signalings
    PROVE  SignaledInv(g)'
<1> SUFFICES ASSUME at'[g] \in Locked PROVE (VisitInv(g) /\ \A p \in Done(g) : DoneInv(p))'
  BY DEF SignaledInv
<1>0. PICK p \in Peers : p = Target(a)
  BY TargetIsAPeer DEF PrepareOutTracks, MoveAgent, Stable
<1>1. /\ at[a] = "adding" /\ at' = [at EXCEPT ![a] = "offering"]
      /\ senders' = [senders EXCEPT ![p] = @ \union {[track |-> t, by |-> a] : t \in AddTracks(a)}]
      /\ known' = [known EXCEPT ![a] = {}]
      /\ UNCHANGED <<mixer, reader, todo, slice, peerServerIndex, target, lastOffer, offer, pending,
                     negotiated>>
  BY <1>0 DEF PrepareOutTracks, MoveAgent, locks, countVars, connVars, netVars, peerVars
<1>2. at \in [Agents -> AgentStates] /\ senders \in [Peers -> SUBSET [track : Tracks, by : Agents]]
          /\ known \in [Agents -> SUBSET Tracks] /\ g \in Agents
  BY <1>1 DEF SignalingInv, TypeOK, Agents
<1>3. at[g] \in Locked /\ (g # a => at'[g] = at[g] /\ known'[g] = known[g])
          /\ (g = a => at'[g] = "offering" /\ at[g] = "adding")
  BY <1>1, <1>2 DEF Locked, Stable
<1>4. a = g \/ (a \in Peers /\ p = a)
  BY <1>0, <1>1, <1>3, WhoOffers DEF Stable
<1>5. /\ Sent(p)' = Sent(p) \union AddTracks(a)
      /\ \A q \in Peers : q # p => Sent(q)' = Sent(q)
  <2>1. senders'[p] = senders[p] \union New(AddTracks(a), a)
    BY <1>1, <1>2 DEF New
  <2>2. TracksOf(senders'[p]) = TracksOf(senders[p]) \union AddTracks(a)
    BY <2>1, SentUnion
  <2> QED
    BY <1>1, <1>2, <2>2 DEF Sent, TracksOf
<1>6. \A q \in Peers : Wanted(q)' = Wanted(q) /\ Offered(q)' = Offered(q)
  BY <1>1 DEF Wanted, sliceIndex, Offered
<1>7. AddTracks(a) \subseteq Wanted(p) /\ Wanted(p) \ known[a] = AddTracks(a) /\ Sent(p) \subseteq TracksFor(p)
  BY <1>0, <1>2 DEF AddTracks, OfferedInv
<1>8. Done(g)' = Done(g) /\ Done(g) \subseteq Peers
  BY <1>1, <1>3 DEF Done, SignalingInv, TypeOK
<1>9. \A q \in Done(g)' : DoneInv(q)'
  BY <1>1, <1>3, <1>5, <1>6, <1>7, <1>8 DEF OfferedInv, DoneInv
<1>10. VisitInv(g) /\ target'[g] = target[g] /\ target[g] = Target(g)
  BY <1>1, <1>3, AgentsApart DEF OfferedInv, Target
<1>11. CASE a = g
  <2>1. p = target[g] /\ known[g] \subseteq Sent(p) /\ Sent(p) \subseteq sliceIndex
    BY <1>0, <1>1, <1>10, <1>11 DEF VisitInv
  <2>2. Sent(p) \union (Wanted(p) \ known[a]) = Wanted(p)
    BY <1>7, <1>11, <2>1 DEF Wanted
  <2> QED
    BY <1>2, <1>3, <1>5, <1>6, <1>7, <1>9, <1>10, <1>11, <2>1, <2>2 DEF VisitInv
<1>12. CASE a # g
  <2>1. CASE p = target[g]
    BY <1>1, <1>2, <1>3, <1>5, <1>6, <1>7, <1>9, <1>10, <1>12, <2>1 DEF VisitInv, Wanted, sliceIndex
  <2>2. CASE p # target[g]
    <3>1. at[g] \in Stable => target[g] \in Peers
      BY DEF SignalingInv, LockInv
    <3> QED
      BY <1>1, <1>2, <1>3, <1>5, <1>6, <1>9, <1>10, <1>12, <2>2, <3>1 DEF VisitInv, sliceIndex, Stable
  <2> QED
    BY <2>1, <2>2
<1> QED
  BY <1>11, <1>12

LEMMA OfferedClean ==
    ASSUME SignalingInv, OfferedInv, NEW p \in Peers, CleanOutTracks(p), NEW g \in Signalings
    PROVE  SignaledInv(g)'
<1> SUFFICES ASSUME at'[g] \in Locked PROVE (VisitInv(g) /\ \A q \in Done(g) : DoneInv(q))'
  BY DEF SignaledInv
<1>1. /\ at' = [at EXCEPT ![p] = "adding"]
      /\ senders' = [senders EXCEPT ![p] = Kept(@, sliceIndex)]
      /\ known' = [known EXCEPT ![p] = Sent(p) \intersect sliceIndex]
      /\ UNCHANGED <<todo, slice, peerServerIndex, target, lastOffer, offer, pending, negotiated>>
  BY DEF CleanOutTracks, Clean, Kept, MoveAgent, locks, countVars, connVars, netVars, peerVars
<1>2. /\ senders \in [Peers -> SUBSET [track : Tracks, by : Agents]]
      /\ g \in Agents /\ p \in Agents /\ g # p
  BY AgentsApart DEF SignalingInv, TypeOK, Agents
<1>3. at'[g] = at[g] /\ known'[g] = known[g] /\ at[g] \in Locked
  BY <1>1, <1>2 DEF SignalingInv, TypeOK
<1>4. /\ Sent(p)' = Sent(p) \intersect sliceIndex
      /\ \A q \in Peers : q # p => Sent(q)' = Sent(q)
  <2>1. TracksOf(senders'[p]) = TracksOf(senders[p]) \intersect sliceIndex
    BY <1>1, <1>2, SentFilter
  <2> QED
    BY <1>1, <1>2, <2>1 DEF Sent, TracksOf
<1>5. /\ \A q \in Peers : Wanted(q)' = Wanted(q) /\ Offered(q)' = Offered(q)
      /\ sliceIndex' = sliceIndex
      /\ Wanted(p) \subseteq sliceIndex
  BY <1>1 DEF Wanted, sliceIndex, Offered
<1>6. Done(g)' = Done(g) /\ Done(g) \subseteq Peers
  BY <1>1, <1>3 DEF Done, SignalingInv, TypeOK
<1>7. \A q \in Done(g)' : DoneInv(q)'
  BY <1>1, <1>3, <1>4, <1>5, <1>6 DEF OfferedInv, DoneInv
<1>8. VisitInv(g) /\ target'[g] = target[g] /\ (at[g] \in Stable => target[g] \in Peers)
  BY <1>1, <1>3 DEF OfferedInv, SignalingInv, LockInv
<1> QED
  BY <1>1, <1>3, <1>4, <1>5, <1>7, <1>8 DEF VisitInv, Stable

LEMMA OfferedVisit ==
    ASSUME SignalingInv, OfferedInv, NEW h \in Signalings, Visit(h), NEW g \in Signalings
    PROVE  SignaledInv(g)'
<1> SUFFICES ASSUME at'[g] \in Locked PROVE (VisitInv(g) /\ \A q \in Done(g) : DoneInv(q))'
  BY DEF SignaledInv
<1>1. PICK p \in todo :
        /\ target' = [target EXCEPT ![h] = p] /\ todo' = todo \ {p}
        /\ senders' = [senders EXCEPT ![p] = Kept(@, sliceIndex)]
        /\ known' = [known EXCEPT ![h] = Sent(p) \intersect sliceIndex]
  BY DEF Visit, Clean, Kept
<1>2. /\ at[h] = "visiting" /\ at' = [at EXCEPT ![h] = "adding"]
      /\ UNCHANGED <<slice, peerServerIndex, lastOffer, offer, pending, negotiated>>
  BY DEF Visit, MoveAgent, countVars, connVars, netVars, peerVars
<1>3. /\ senders \in [Peers -> SUBSET [track : Tracks, by : Agents]]
      /\ at \in [Agents -> AgentStates] /\ known \in [Agents -> SUBSET Tracks]
      /\ target \in [Signalings -> Peers \union {None}]
      /\ g \in Agents /\ h \in Agents /\ p \in Peers /\ peerServerIndex \subseteq Peers
  BY DEF SignalingInv, TypeOK, Agents
<1>4. g = h
  <2>1. at[g] \in Locked /\ at[h] \in Locked
    BY <1>2, <1>3 DEF Locked
  <2> QED
    BY <2>1, OneSignaling
<1>5. at'[g] = "adding" /\ target'[g] = p /\ known'[g] = Sent(p) \intersect sliceIndex
  BY <1>1, <1>2, <1>3, <1>4
<1>6. /\ Sent(p)' = Sent(p) \intersect sliceIndex
      /\ \A q \in Peers : q # p => Sent(q)' = Sent(q)
  <2>1. TracksOf(senders'[p]) = TracksOf(senders[p]) \intersect sliceIndex
    BY <1>1, <1>3, SentFilter
  <2> QED
    BY <1>1, <1>3, <2>1 DEF Sent, TracksOf
<1>7. /\ \A q \in Peers : Wanted(q)' = Wanted(q) /\ Offered(q)' = Offered(q)
      /\ sliceIndex' = sliceIndex
  BY <1>2 DEF Wanted, sliceIndex, Offered
<1>8. Done(g)' = Done(g) /\ p \notin Done(g) /\ Done(g) \subseteq Peers
  BY <1>1, <1>2, <1>3, <1>4, <1>5 DEF Done
<1>9. \A q \in Done(g) : DoneInv(q)
  BY <1>2, <1>4 DEF OfferedInv, Locked
<1>10. \A q \in Done(g)' : DoneInv(q)'
  BY <1>2, <1>6, <1>7, <1>8, <1>9 DEF DoneInv
<1> QED
  BY <1>5, <1>6, <1>7, <1>10 DEF VisitInv

LEMMA OfferedCreate ==
    ASSUME SignalingInv, OfferedInv, NEW a \in Agents, CreateOffer(a), NEW g \in Signalings
    PROVE  SignaledInv(g)'
<1> SUFFICES ASSUME at'[g] \in Locked PROVE (VisitInv(g) /\ \A q \in Done(g) : DoneInv(q))'
  BY DEF SignaledInv
<1>0. PICK p \in Peers : p = Target(a)
  BY TargetIsAPeer DEF CreateOffer, MoveAgent, Stable
<1>1. /\ at[a] = "offering" /\ at' = [at EXCEPT ![a] = "setting"]
      /\ lastOffer' = [lastOffer EXCEPT ![p] = a]
      /\ offer' = [offer EXCEPT ![p] = Sent(p)]
      /\ known' = known /\ ~pending[p]
      /\ UNCHANGED <<todo, slice, peerServerIndex, target, senders, pending, negotiated>>
  BY <1>0 DEF CreateOffer, MoveAgent, locks, countVars, netVars, peerVars
<1>2. /\ at \in [Agents -> AgentStates] /\ g \in Agents
      /\ lastOffer \in [Peers -> Agents \union {None}] /\ offer \in [Peers -> SUBSET Tracks]
  BY DEF SignalingInv, TypeOK, Agents
<1>3. at[g] \in Locked /\ (g # a => at'[g] = at[g]) /\ (g = a => at'[g] = "setting")
  BY <1>1, <1>2 DEF Locked, Stable
<1>4. a = g \/ (a \in Peers /\ p = a)
  BY <1>0, <1>1, <1>3, WhoOffers DEF Stable
<1>5. /\ \A q \in Peers : Wanted(q)' = Wanted(q) /\ Sent(q)' = Sent(q) /\ Offered(q)' = Offered(q)
      /\ sliceIndex' = sliceIndex
  BY <1>1, <1>2 DEF Wanted, sliceIndex, Sent, Offered
<1>6. Done(g)' = Done(g) /\ Done(g) \subseteq Peers
  BY <1>1, <1>3 DEF Done, SignalingInv, TypeOK
<1>7. \A q \in Done(g)' : DoneInv(q)'
  <2> SUFFICES ASSUME NEW q \in Done(g) PROVE DoneInv(q)'
    BY <1>6
  <2>1. DoneInv(q) /\ q \in Peers
    BY <1>3, <1>6 DEF OfferedInv
  <2>2. CASE q = p
    BY <1>1, <1>2, <1>5, <2>1, <2>2 DEF DoneInv
  <2>3. CASE q # p
    BY <1>1, <1>2, <1>5, <2>1, <2>3 DEF DoneInv
  <2> QED
    BY <2>2, <2>3
<1>8. VisitInv(g) /\ target'[g] = target[g] /\ (at[g] \in Stable => target[g] \in Peers)
          /\ target[g] = Target(g)
  BY <1>1, <1>3, AgentsApart DEF OfferedInv, SignalingInv, LockInv, Target
<1>9. CASE a = g
  <2>1. target[g] = p /\ Sent(p) = Wanted(p) /\ offer'[p] = Sent(p)
    BY <1>0, <1>1, <1>2, <1>8, <1>9 DEF VisitInv
  <2> QED
    BY <1>3, <1>5, <1>7, <1>8, <1>9, <2>1 DEF VisitInv
<1>10. CASE a # g
  <2>1. CASE target[g] = p
    BY <1>1, <1>2, <1>3, <1>5, <1>7, <1>8, <1>10, <2>1 DEF VisitInv
  <2>2. CASE target[g] # p
    BY <1>1, <1>2, <1>3, <1>5, <1>7, <1>8, <1>10, <2>2 DEF VisitInv, Stable
  <2> QED
    BY <2>1, <2>2
<1> QED
  BY <1>9, <1>10

\* The offer set is the one that its agent created: it has every track.
LEMMA OfferedSet ==
    ASSUME SignalingInv, OfferedInv, NEW a \in Agents, SetLocalDescription(a), NEW g \in Signalings
    PROVE  SignaledInv(g)'
<1> SUFFICES ASSUME at'[g] \in Locked PROVE (VisitInv(g) /\ \A q \in Done(g) : DoneInv(q))'
  BY DEF SignaledInv
<1>0. PICK p \in Peers : p = Target(a)
  BY TargetIsAPeer DEF SetLocalDescription, Stable
<1>1. /\ at[a] = "setting" /\ lastOffer[p] = a /\ ~pending[p]
      /\ lastOffer' = [lastOffer EXCEPT ![p] = None]
      /\ pending' = [pending EXCEPT ![p] = TRUE]
      /\ UNCHANGED <<todo, slice, peerServerIndex, target, senders, offer, negotiated, known>>
  BY <1>0 DEF SetLocalDescription, Takes, Shares, locks, countVars
<1>2. /\ at \in [Agents -> AgentStates] /\ g \in Agents
      /\ lastOffer \in [Peers -> Agents \union {None}] /\ pending \in [Peers -> BOOLEAN]
  BY DEF SignalingInv, TypeOK, Agents
<1>3. \E to \in AgentStates :
        /\ at' = [at EXCEPT ![a] = to]
        /\ to = "sending" \/ (to = "idle" /\ a \in Peers) \/ (to = "visiting" /\ a \notin Peers)
  BY DEF SetLocalDescription, Shares, Succeeds, AgentStates
<1>4. at[g] \in Locked /\ (g # a => at'[g] = at[g]) /\ (g = a => at'[g] \in {"sending", "visiting"})
  <2>1. g \notin Peers
    BY AgentsApart
  <2>2. PICK to \in AgentStates :
            /\ at' = [at EXCEPT ![a] = to]
            /\ to = "sending" \/ (to = "idle" /\ a \in Peers) \/ (to = "visiting" /\ a \notin Peers)
    BY <1>3
  <2>3. CASE g = a
    BY <1>1, <1>2, <2>1, <2>2, <2>3 DEF Locked, Stable
  <2>4. CASE g # a
    BY <1>2, <2>2, <2>4
  <2> QED
    BY <2>3, <2>4, <1>1 DEF Locked, Stable
<1>5. a = g \/ (a \in Peers /\ p = a)
  BY <1>0, <1>1, <1>4, WhoOffers DEF Stable
<1>6. /\ \A q \in Peers : Wanted(q)' = Wanted(q) /\ Sent(q)' = Sent(q)
      /\ \A q \in Peers : q # p => Offered(q)' = Offered(q)
      /\ Offered(p)' = offer[p]
      /\ sliceIndex' = sliceIndex
  BY <1>1, <1>2 DEF Wanted, sliceIndex, Sent, Offered
<1>7. VisitInv(g) /\ target'[g] = target[g] /\ (at[g] \in Stable => target[g] \in Peers)
          /\ target[g] = Target(g) /\ peerServerIndex \subseteq Peers
  BY <1>1, <1>4, AgentsApart DEF OfferedInv, SignalingInv, TypeOK, LockInv, Target
<1>8. ASSUME NEW q \in Done(g), q \in Peers PROVE DoneInv(q)'
  <2>1. DoneInv(q)
    BY <1>4, <1>8 DEF OfferedInv
  <2>2. CASE q = p
    BY <1>1, <1>2, <1>6, <2>1, <2>2, AgentsApart DEF DoneInv
  <2>3. CASE q # p
    <3>1. Sent(q)' = Sent(q) /\ Wanted(q)' = Wanted(q) /\ Offered(q)' = Offered(q)
      BY <1>6, <1>8, <2>3
    <3>2. lastOffer'[q] = lastOffer[q] /\ offer'[q] = offer[q]
      BY <1>1, <1>2, <1>8, <2>3
    <3> QED
      BY <2>1, <3>1, <3>2 DEF DoneInv
  <2> QED
    BY <2>2, <2>3
<1>9. CASE a = g
  <2>1. target[g] = p /\ Sent(p) = Wanted(p) /\ offer[p] = Wanted(p)
    BY <1>0, <1>1, <1>7, <1>9 DEF VisitInv
  <2>2. DoneInv(p)'
    BY <1>1, <1>2, <1>6, <2>1 DEF DoneInv
  <2>3. Done(g)' \subseteq Done(g) \union {p} /\ Done(g)' \subseteq Peers
    BY <1>1, <1>7, <1>9, <2>1 DEF Done
  <2>4. VisitInv(g)'
    BY <1>4, <1>9 DEF VisitInv
  <2> QED
    BY <1>8, <2>2, <2>3, <2>4
<1>10. CASE a # g
  <2>1. Done(g)' = Done(g) /\ Done(g) \subseteq Peers
    BY <1>1, <1>4, <1>7, <1>10 DEF Done
  <2>2. VisitInv(g)'
    <3>1. CASE target[g] = p
      BY <1>1, <1>2, <1>4, <1>6, <1>7, <1>10, <3>1, AgentsApart DEF VisitInv, Agents
    <3>2. CASE target[g] # p
      BY <1>1, <1>2, <1>4, <1>6, <1>7, <1>10, <3>2 DEF VisitInv, Stable
    <3> QED
      BY <3>1, <3>2
  <2> QED
    BY <1>8, <2>1, <2>2
<1> QED
  BY <1>9, <1>10

LEMMA OfferedAnswer ==
    ASSUME SignalingInv, OfferedInv, NEW p \in Peers, HandleAnswer(p), NEW g \in Signalings
    PROVE  SignaledInv(g)'
<1> SUFFICES ASSUME at'[g] \in Locked PROVE (VisitInv(g) /\ \A q \in Done(g) : DoneInv(q))'
  BY DEF SignaledInv
<1>1. /\ pending[p] /\ pending' = [pending EXCEPT ![p] = FALSE]
      /\ negotiated' = [negotiated EXCEPT ![p] = offer[p]]
      /\ offer' = [offer EXCEPT ![p] = {}]
      /\ UNCHANGED <<todo, slice, peerServerIndex, target, senders, lastOffer, known, at>>
  BY DEF HandleAnswer, locks, countVars, agentVars, peerVars
<1>2. /\ pending \in [Peers -> BOOLEAN] /\ negotiated \in [Peers -> SUBSET Tracks]
      /\ offer \in [Peers -> SUBSET Tracks] /\ peerServerIndex \subseteq Peers
  BY DEF SignalingInv, TypeOK
<1>3. lastOffer[p] = None
  BY <1>1 DEF OfferedInv
<1>4. /\ \A q \in Peers : Wanted(q)' = Wanted(q) /\ Sent(q)' = Sent(q) /\ Offered(q)' = Offered(q)
      /\ \A q \in Peers : lastOffer[q] # None => offer'[q] = offer[q]
      /\ sliceIndex' = sliceIndex
  BY <1>1, <1>2, <1>3 DEF Wanted, sliceIndex, Sent, Offered
<1>5. Done(g)' = Done(g) /\ Done(g) \subseteq Peers
  BY <1>1, <1>2 DEF Done
<1>6. \A q \in Done(g)' : DoneInv(q)'
  BY <1>1, <1>4, <1>5 DEF OfferedInv, DoneInv
<1>7. VisitInv(g) /\ (at[g] \in Stable => target[g] \in Peers) /\ g # None
  BY <1>1, AgentsApart DEF OfferedInv, SignalingInv, LockInv, Agents
<1> QED
  BY <1>1, <1>4, <1>6, <1>7 DEF VisitInv, Stable

\* A connection sends only the tracks of others, and an offer created is no longer
\* the last one once a description is pending.
LEMMA OfferedPeers ==
    ASSUME SignalingInv, OfferedInv, [Next]_vars
    PROVE  \A p \in Peers : Sent(p)' \subseteq TracksFor(p) /\ (lastOffer'[p] # None => ~pending'[p])
<1> USE DEF SignalingInv, TypeOK, locks, countVars, connVars, netVars, agentVars, peerVars
<1>0. ASSUME UNCHANGED <<senders, lastOffer, pending>>
      PROVE  \A p \in Peers : Sent(p)' \subseteq TracksFor(p) /\ (lastOffer'[p] # None => ~pending'[p])
  BY <1>0 DEF OfferedInv, Sent
<1>1. ASSUME NEW q \in Peers, NEW b, Clean(b, q), UNCHANGED <<lastOffer, pending>>
      PROVE  \A p \in Peers : Sent(p)' \subseteq TracksFor(p) /\ (lastOffer'[p] # None => ~pending'[p])
  BY <1>1 DEF OfferedInv, Sent, Clean
<1>2. ASSUME NEW a \in Agents, PrepareOutTracks(a)
      PROVE  \A p \in Peers : Sent(p)' \subseteq TracksFor(p) /\ (lastOffer'[p] # None => ~pending'[p])
  <2>0. PICK q \in Peers : q = Target(a)
    BY <1>2, TargetIsAPeer DEF PrepareOutTracks, MoveAgent, Stable
  <2>1. senders' = [senders EXCEPT ![q] = @ \union New(AddTracks(a), a)]
            /\ UNCHANGED <<lastOffer, pending>>
    BY <1>2, <2>0 DEF PrepareOutTracks, New
  <2>2. AddTracks(a) \subseteq TracksFor(q)
    BY <2>0 DEF AddTracks, Wanted
  <2>3. Sent(q)' = Sent(q) \union AddTracks(a) /\ \A p \in Peers : p # q => Sent(p)' = Sent(p)
    BY <2>1, SentUnion DEF Sent, TracksOf
  <2> QED
    BY <2>1, <2>2, <2>3 DEF OfferedInv
<1>3. ASSUME NEW a \in Agents, CreateOffer(a) \/ SetLocalDescription(a)
      PROVE  \A p \in Peers : Sent(p)' \subseteq TracksFor(p) /\ (lastOffer'[p] # None => ~pending'[p])
  BY <1>3 DEF CreateOffer, SetLocalDescription, Shares, OfferedInv, Sent
<1>4. ASSUME NEW q \in Peers, DisconnectUser(q)
      PROVE  \A p \in Peers : Sent(p)' \subseteq TracksFor(p) /\ (lastOffer'[p] # None => ~pending'[p])
  BY <1>4 DEF DisconnectUser, OfferedInv, Sent
<1>5. ASSUME NEW q \in Peers, HandleAnswer(q)
      PROVE  \A p \in Peers : Sent(p)' \subseteq TracksFor(p) /\ (lastOffer'[p] # None => ~pending'[p])
  BY <1>5 DEF HandleAnswer, OfferedInv, Sent
<1>6. ASSUME NEW q \in Peers, CleanOutTracks(q)
      PROVE  \A p \in Peers : Sent(p)' \subseteq TracksFor(p) /\ (lastOffer'[p] # None => ~pending'[p])
  BY <1>1, <1>6 DEF CleanOutTracks
<1>7. ASSUME NEW h \in Signalings, Visit(h)
      PROVE  \A p \in Peers : Sent(p)' \subseteq TracksFor(p) /\ (lastOffer'[p] # None => ~pending'[p])
  <2>1. PICK q \in todo : Clean(h, q)
    BY <1>7 DEF Visit
  <2> QED
    BY <1>1, <1>7, <2>1 DEF Visit
<1>8. ASSUME NEW a \in Agents, OfferFails(a) \/ WriteFails(a) PROVE UNCHANGED <<senders, lastOffer, pending>>
  BY <1>8 DEF OfferFails, WriteFails
<1>9. ASSUME NEW h \in Signalings, UpdateSignaling(h) \/ EveryoneIsSignaled(h)
      PROVE  UNCHANGED <<senders, lastOffer, pending>>
  BY <1>9 DEF UpdateSignaling, EveryoneIsSignaled
<1>10. ASSUME NEW q \in Peers,
              \/ NegotiationNeeded(q) \/ CloseReturns(q) \/ ClientStep(q) \/ ClosePeerServer(q)
       PROVE  UNCHANGED <<senders, lastOffer, pending>>
  BY <1>10 DEF NegotiationNeeded, CloseReturns, ClientStep, ConnectPeerServer, RestartRequested,
              ClientLeaves, ClosePeerServer
<1>11. ASSUME NEW t \in Tracks,
              OnTrack(t) \/ IndexMixerSlice(t) \/ SliceStep(t) \/ RemoveMixerSlice(t)
       PROVE  UNCHANGED <<senders, lastOffer, pending>>
  BY <1>11 DEF OnTrack, IndexMixerSlice, SliceStep, CountOutTrack, DecOutTracksReadyCount,
              RemoveMixerSlice
<1>12. CASE UNCHANGED vars
  BY <1>0, <1>12 DEF vars
<1> QED
  BY <1>0, <1>2, <1>3, <1>4, <1>5, <1>6, <1>7, <1>8, <1>9, <1>10, <1>11, <1>12
  DEF Next, OfferStep, PeerStep, SignalingStep

\* One conjunct after the other: the frames, then the steps above.
LEMMA OfferedStep == SignalingInv /\ OfferedInv /\ [Next]_vars => OfferedInv'
<1> SUFFICES ASSUME SignalingInv, OfferedInv, [Next]_vars, NEW g \in Signalings
             PROVE  SignaledInv(g)'
  BY OfferedPeers DEF OfferedInv, SignaledInv
<1> USE DEF locks, countVars, connVars, netVars, agentVars, peerVars
<1>0. /\ g \in Agents /\ g \notin Peers /\ g # None
      /\ at \in [Agents -> AgentStates] /\ known \in [Agents -> SUBSET Tracks]
      /\ target \in [Signalings -> Peers \union {None}]
      /\ mixer = None => at[g] \notin Locked
  BY AgentsApart DEF SignalingInv, TypeOK, LockInv, Agents
<1>1. ASSUME NEW a \in Agents, OfferFails(a) PROVE SignaledInv(g)'
  <2>1. CASE a \in Peers
    <3>1. /\ at' = [at EXCEPT ![a] = "idle"] /\ known' = [known EXCEPT ![a] = {}]
          /\ target' = [h \in Signalings |-> IF h = a THEN None ELSE target[h]]
          /\ todo' = todo
      BY <1>1, <2>1 DEF OfferFails, Abandons, Forget
    <3>2. a # g
      BY <1>0, <2>1
    <3>3. at'[g] = at[g] /\ known'[g] = known[g] /\ target'[g] = target[g]
      BY <1>0, <3>1, <3>2
    <3>4. UNCHANGED <<senders, lastOffer, offer, pending, negotiated, peerServerIndex, todo>>
              /\ sliceIndex' = sliceIndex
      BY <1>1, <3>1 DEF OfferFails, sliceIndex
    <3>5. at'[g] \in Locked =>
              /\ at[g] \in Locked
              /\ target'[g] = target[g] /\ known'[g] = known[g]
              /\ at'[g] = at[g] \/ (at'[g] = "failing" /\ at[g] = "sending")
      BY <3>3 DEF Locked, Stable
    <3> QED
      BY <3>4, <3>5, OfferedFrame
  <2>2. CASE a \notin Peers
    BY <1>1, <2>2, OfferedVacuous DEF OfferFails, Abandons, Release
  <2> QED
    BY <2>1, <2>2
<1>2. ASSUME NEW a \in Agents, WriteFails(a) PROVE SignaledInv(g)'
  <2>1. at[a] = "sending" /\ at' = [at EXCEPT ![a] = "failing"] /\ known' = known /\ target' = target
    BY <1>2 DEF WriteFails, MoveAgent
  <2>2. at'[g] = IF g = a THEN "failing" ELSE at[g]
    BY <1>0, <2>1
  <2>3. at'[g] \in Locked => at[g] \in Locked /\ (at'[g] = at[g] \/ (at'[g] = "failing" /\ at[g] = "sending"))
    <3>1. CASE g = a
      BY <2>1, <2>2, <3>1 DEF Locked, Stable
    <3>2. CASE g # a
      BY <2>2, <3>2 DEF Locked, Stable
    <3> QED
      BY <3>1, <3>2
  <2>4. UNCHANGED <<senders, lastOffer, offer, pending, negotiated, peerServerIndex, todo>>
            /\ sliceIndex' = sliceIndex
    BY <1>2 DEF WriteFails, sliceIndex
  <2> QED
    BY <2>1, <2>3, <2>4, OfferedFrame
<1>3. ASSUME NEW h \in Signalings, UpdateSignaling(h) PROVE SignaledInv(g)'
  <2>1. at' = [at EXCEPT ![h] = "visiting"] /\ todo' = peerServerIndex
            /\ peerServerIndex' = peerServerIndex /\ mixer = None
    BY <1>3 DEF UpdateSignaling, MoveAgent
  <2>2. at'[g] \in Locked => at'[g] = "visiting"
    BY <1>0, <2>1
  <2>3. at'[g] \in Locked => Done(g)' = {}
    BY <2>1, <2>2 DEF Done
  <2> QED
    BY <2>2, <2>3 DEF SignaledInv, VisitInv
<1>4. ASSUME NEW h \in Signalings, EveryoneIsSignaled(h) PROVE SignaledInv(g)'
  BY <1>4, OfferedVacuous DEF EveryoneIsSignaled, Release
<1>5. ASSUME NEW p \in Peers, ConnectPeerServer(p) \/ DisconnectUser(p) PROVE SignaledInv(g)'
  <2>1. mixer = None /\ mixer' = mixer
    BY <1>5 DEF ConnectPeerServer, DisconnectUser, Unlocked, SignalingInv, LockInv
  <2> QED
    BY <2>1, OfferedVacuous
<1>6. ASSUME NEW t \in Tracks, IndexMixerSlice(t) \/ RemoveMixerSlice(t) PROVE SignaledInv(g)'
  BY <1>6, OfferedVacuous DEF IndexMixerSlice, RemoveMixerSlice
\* Agents of peers, and signalings that are not under way, move.
<1>7. ASSUME NEW a \in Agents, NEW to, at' = [at EXCEPT ![a] = to], a \in Peers \/ to \notin Locked,
             UNCHANGED <<senders, lastOffer, offer, pending, negotiated, slice, peerServerIndex,
                         todo, target, known>>
      PROVE  SignaledInv(g)'
  <2>1. at'[g] \in Locked => at[g] \in Locked /\ at'[g] = at[g]
    BY <1>0, <1>7
  <2>2. sliceIndex' = sliceIndex
    BY <1>7 DEF sliceIndex
  <2>3. at'[g] \in Locked =>
            /\ at[g] \in Locked
            /\ target'[g] = target[g] /\ known'[g] = known[g]
            /\ at'[g] = at[g] \/ (at'[g] = "failing" /\ at[g] = "sending")
    BY <1>7, <2>1 DEF Locked, Stable
  <2>4. UNCHANGED <<senders, lastOffer, offer, pending, negotiated, peerServerIndex, todo>>
    BY <1>7
  <2> QED
    BY <2>2, <2>3, <2>4, OfferedFrame
<1>8. ASSUME NEW p \in Peers, NegotiationNeeded(p) \/ RestartRequested(p) \/ CloseReturns(p)
      PROVE  SignaledInv(g)'
  <2>1. p \in Agents /\ \E to : at' = [at EXCEPT ![p] = to]
    BY <1>8 DEF NegotiationNeeded, RestartRequested, CloseReturns, MoveAgent, Agents
  <2>2. UNCHANGED <<senders, lastOffer, offer, pending, negotiated, slice, peerServerIndex,
                    todo, target, known>>
    BY <1>8 DEF NegotiationNeeded, RestartRequested, CloseReturns
  <2> QED
    BY <1>7, <2>1, <2>2
<1>9. ASSUME UNCHANGED <<senders, lastOffer, offer, pending, negotiated, peerServerIndex,
                         todo, target, known, at>>, sliceIndex' = sliceIndex
      PROVE  SignaledInv(g)'
  <2>1. at'[g] \in Locked =>
            /\ at[g] \in Locked
            /\ target'[g] = target[g] /\ known'[g] = known[g]
            /\ at'[g] = at[g] \/ (at'[g] = "failing" /\ at[g] = "sending")
    BY <1>9 DEF Locked, Stable
  <2>2. UNCHANGED <<senders, lastOffer, offer, pending, negotiated, peerServerIndex, todo>>
    BY <1>9
  <2> QED
    BY <1>9, <2>1, <2>2, OfferedFrame
<1>10. ASSUME NEW p \in Peers, ClientLeaves(p) \/ ClosePeerServer(p) PROVE SignaledInv(g)'
  BY <1>9, <1>10 DEF ClientLeaves, ClosePeerServer, sliceIndex
<1>11. ASSUME NEW t \in Tracks, OnTrack(t) \/ SliceStep(t) PROVE SignaledInv(g)'
  <2>1. sliceIndex' = sliceIndex
    BY <1>11 DEF OnTrack, SliceStep, CountOutTrack, DecOutTracksReadyCount, MoveSlice, sliceIndex,
                 SignalingInv, TypeOK
  <2>2. /\ at' = at \/ \E h \in Signalings : at' = [at EXCEPT ![h] = "requested"]
        /\ UNCHANGED <<senders, lastOffer, offer, pending, negotiated, peerServerIndex,
                       todo, target, known>>
    BY <1>11 DEF OnTrack, SliceStep, CountOutTrack, DecOutTracksReadyCount, RequestSignaling, MoveAgent
  <2>3. at'[g] \in Locked => at[g] \in Locked /\ at'[g] = at[g]
    BY <1>0, <2>2 DEF Locked, Stable
  <2>4. at'[g] \in Locked =>
            /\ at[g] \in Locked
            /\ target'[g] = target[g] /\ known'[g] = known[g]
            /\ at'[g] = at[g] \/ (at'[g] = "failing" /\ at[g] = "sending")
    BY <2>2, <2>3 DEF Locked, Stable
  <2>5. UNCHANGED <<senders, lastOffer, offer, pending, negotiated, peerServerIndex, todo>>
    BY <2>2
  <2> QED
    BY <2>1, <2>4, <2>5, OfferedFrame
<1>12. CASE UNCHANGED vars
  BY <1>9, <1>12 DEF vars, sliceIndex
<1> QED
  BY <1>1, <1>2, <1>3, <1>4, <1>5, <1>6, <1>8, <1>10, <1>11, <1>12, OfferedPrepare, OfferedClean,
     OfferedVisit, OfferedCreate, OfferedSet, OfferedAnswer
  DEF Next, OfferStep, PeerStep, SignalingStep, ClientStep

(* For any number of peers, agents and retries: at the end of a signaling  *)
(* each peer of the interaction has been offered exactly what mixer.go:51  *)
(* is to send it.                                                          *)
THEOREM SignalingsAreComplete == Spec => []EveryoneIsOffered
<1>1. Init => OfferedInv
  BY BoundsAssumption, AgentsApart DEF Init, OfferedInv, Sent, Locked, Stable, Agents
<1>2. SignalingInv /\ OfferedInv => EveryoneIsOffered
  <2> SUFFICES ASSUME SignalingInv, OfferedInv, NEW g \in Signalings, at[g] = "visiting",
                      NEW p \in peerServerIndex \ todo
               PROVE  Offered(p) = Wanted(p)
    BY DEF EveryoneIsOffered
  <2>1. p \in Done(g) /\ at[g] \in Locked
    BY DEF Done, Locked
  <2> QED
    BY <2>1 DEF OfferedInv, DoneInv
<1> QED
  BY <1>1, <1>2, OfferedStep, SignalingInductive, PTL DEF Spec
=============================================================================
