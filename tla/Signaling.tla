------------------------------ MODULE Signaling ------------------------------
(***************************************************************************)
(* Who gets whose tracks in a running interaction: the mixer's slice index *)
(* and managedSignalingForEveryone (sfu/mixer.go), the offers of a peer    *)
(* server (sfu/peer_server.go), the websocket they are written to          *)
(* (sfu/ws_conn.go), and the locks held meanwhile.                         *)
(*                                                                         *)
(* A peer is one peerServer; a user who comes back is a later peer with    *)
(* the same owner.  An agent is a goroutine that makes offers: a peer's    *)
(* own (newPeerServer, its message loop, the callbacks of its connection)  *)
(* or a call of managedSignalingForEveryone.  pion and the browser are     *)
(* external: one side makes an offer, the other answers or does not.  The  *)
(* end of the interaction is left to the module Interaction.               *)
(***************************************************************************)
EXTENDS Integers, FiniteSets

CONSTANTS
    Size,           \* interaction.size
    Kinds,          \* of the tracks of each peer
    MaxPeers,       \* bound: peer servers
    MaxSignalings,  \* bound: managedSignalingForEveryone at the same time
    MaxRestarts,    \* bound: offers a browser or its network asks for
    MaxLeaves       \* bound: peers that are closed or lose their browser

ASSUME SizeAssumption == Size \in 1..8
ASSUME KindsAssumption == Kinds # {} /\ Kinds \subseteq {"audio", "video"}
ASSUME BoundsAssumption ==
    /\ MaxPeers \in Nat \ {0}
    /\ MaxSignalings \in Nat
    /\ MaxRestarts \in Nat
    /\ MaxLeaves \in Nat

Peers      == 1..MaxPeers
Signalings == (MaxPeers + 1)..(MaxPeers + MaxSignalings)
Agents     == Peers \union Signalings
None       == 0
Tracks     == Peers \X Kinds
Owner(p)   == p % Size                           \* userId
neededTracks == Size * Cardinality(Kinds)

VARIABLES
    \* interaction
    peerServerIndex,  \* the peers in it
    reader,           \* None, or the signaling that holds its mutex for reading
    inTracksReadyCount, outTracksReadyCount,
    \* mixer
    mixer,            \* None, or the signaling that holds its mutex
    todo,             \* the peers that signaling has not visited yet
    slice,            \* per track: where runMixerSliceFromRemote is
    \* peerServer
    serving,          \* newPeerServer has returned and loop reads messages
    closing,          \* "open" | "closing": waits for the interaction's mutex | "closed"
    \* its websocket and peer connection
    wsUp,
    senders,          \* [track, by]: what was added to the connection, and by whom
    lastOffer,        \* the agent that made the last CreateOffer
    offer,            \* the tracks in the local description, pending or current
    pending,          \* PendingLocalDescription() # nil
    answered,         \* RemoteDescription() # nil
    asked,            \* pion has asked for a negotiation since the last answer
    negotiated,       \* the tracks of the last answered offer
    offers,           \* offers under way to the browser, or their answers back
    restarts,         \* offers asked for by browsers and networks
    \* per agent
    at,
    target,           \* the peer that a signaling visits
    known             \* the tracks it, or newPeerServer, has found to be sent already

locks      == <<reader, mixer, todo>>
countVars  == <<inTracksReadyCount, outTracksReadyCount>>
connVars   == <<lastOffer, offer, pending, answered, asked, negotiated>>
netVars    == <<wsUp, offers>>
agentVars  == <<at, target, known>>
peerVars   == <<peerServerIndex, serving, closing>>
vars == <<locks, countVars, slice, peerVars, senders, connVars, netVars, restarts, agentVars>>

SliceStates == {"none", "received", "indexed", "counted", "unindexed", "ended"}

AgentStates ==
    {"idle",
     "cleaning",   \* updateTracksAndShareOffer
     "adding",     \* its view of the senders is taken
     "offering",   \* shareOffer
     "setting",    \* offer created, not set
     "sending",    \* local description set, the websocket is down
     "failing",    \* the write failed: in ps.close, with the websocket's mutex
     "requested",  \* managedSignalingForEveryone, before the mixer's mutex
     "visiting"}   \* holds it and the read lock: between two peers

Init ==
    /\ peerServerIndex = {}
    /\ reader = None
    /\ inTracksReadyCount = 0
    /\ outTracksReadyCount = 0
    /\ mixer = None
    /\ todo = {}
    /\ slice = [t \in Tracks |-> "none"]
    /\ serving = [p \in Peers |-> FALSE]
    /\ closing = [p \in Peers |-> "open"]
    /\ wsUp = [p \in Peers |-> TRUE]
    /\ senders = [p \in Peers |-> {}]
    /\ lastOffer = [p \in Peers |-> None]
    /\ offer = [p \in Peers |-> {}]
    /\ pending = [p \in Peers |-> FALSE]
    /\ answered = [p \in Peers |-> FALSE]
    /\ asked = [p \in Peers |-> FALSE]
    /\ negotiated = [p \in Peers |-> {}]
    /\ offers = [p \in Peers |-> 0]
    /\ restarts = 0
    /\ at = [a \in Agents |-> "idle"]
    /\ target = [g \in Signalings |-> None]
    /\ known = [a \in Agents |-> {}]

sliceIndex == {t \in Tracks : slice[t] \in {"indexed", "counted"}}
Sent(p)    == {s.track : s \in senders[p]}

Target(a)  == IF a \in Peers THEN a ELSE target[a]

MoveAgent(a, from, to) ==
    /\ at[a] = from
    /\ at' = [at EXCEPT ![a] = to]

\* The interaction's mutex can be taken for writing.
Unlocked == reader = None

----------------------------------------------------------------------------
(***************************************************************************)
(* A peer server comes up.                                                 *)
(***************************************************************************)
\* A user has one peer at a time; the peers come in the order of their numbers.
\* allUsersConnected also counts a user who was admitted and whose peer server
\* is not there yet: it may hold before the index is complete.
ConnectPeerServer(p) ==
    /\ Unlocked
    /\ p \notin peerServerIndex /\ closing[p] = "open"
    /\ \A q \in 1..(p - 1) : q \in peerServerIndex \/ closing[q] = "closed"
    /\ \A q \in peerServerIndex : Owner(q) # Owner(p)
    /\ peerServerIndex' = peerServerIndex \union {p}
    /\ \/ MoveAgent(p, "idle", "cleaning")
       \/ MoveAgent(p, "idle", "offering") /\ Cardinality(peerServerIndex') < Size
    /\ UNCHANGED <<locks, countVars, slice, serving, closing, senders, connVars, netVars,
                   restarts, target, known>>

\* pion (external) reports, once until the next answer, that the connection does
\* not carry what was negotiated ...
NegotiationNeeded(p) ==
    /\ serving[p] /\ closing[p] = "open"
    /\ ~pending[p] /\ ~asked[p]
    /\ Sent(p) # negotiated[p]
    /\ asked' = [asked EXCEPT ![p] = TRUE]
    /\ MoveAgent(p, "idle", "offering")
    /\ UNCHANGED <<locks, countVars, slice, peerVars, senders, lastOffer, offer, pending,
                   answered, negotiated, netVars, restarts, target, known>>

\* ... the browser does, or ICE was disconnected.
RestartRequested(p) ==
    /\ serving[p] /\ closing[p] = "open"
    /\ restarts < MaxRestarts
    /\ restarts' = restarts + 1
    /\ MoveAgent(p, "idle", "offering")
    /\ UNCHANGED <<locks, countVars, slice, peerVars, senders, connVars, netVars,
                   target, known>>

----------------------------------------------------------------------------
(***************************************************************************)
(* An offer, by whichever agent.                                           *)
(***************************************************************************)

\* What becomes of an agent that has succeeded, or failed, with its target.
Succeeds(a) == at' = [at EXCEPT ![a] = IF a \in Peers THEN "idle" ELSE "visiting"]

\* The deferred unlocks; a signaling that failed is requested again, 2s later.
Release == reader' = None /\ mixer' = None /\ todo' = {}
Forget(a) == target' = [g \in Signalings |-> IF g = a THEN None ELSE target[g]]

Abandons_NoRetry(a) ==
    /\ at' = [at EXCEPT ![a] = "idle"]
    /\ IF a \in Peers THEN UNCHANGED locks ELSE Release
Abandons_KeepsReadLock(a) ==
    /\ at' = [at EXCEPT ![a] = IF a \in Peers THEN "idle" ELSE "requested"]
    /\ IF a \in Peers THEN UNCHANGED locks ELSE mixer' = None /\ todo' = {} /\ UNCHANGED reader
Abandons(a) ==
    /\ at' = [at EXCEPT ![a] = IF a \in Peers THEN "idle" ELSE "requested"]
    /\ IF a \in Peers THEN UNCHANGED locks ELSE Release

\* A closed peer connection refuses tracks and offers, once pc.Close has run.
MayBeClosed(a) == closing[Target(a)] # "open"

\* newPeerServer returns after the first offer, whatever became of it.
Serves(a) == serving' = IF a \in Peers THEN [serving EXCEPT ![a] = TRUE] ELSE serving

\* cleanOutTracks, and the senders that prepareOutTracks finds.
Clean(a, p) ==
    /\ senders' = [senders EXCEPT ![p] = {s \in @ : s.track \in sliceIndex}]
    /\ known' = [known EXCEPT ![a] = Sent(p) \intersect sliceIndex]

CleanOutTracks(p) ==
    /\ MoveAgent(p, "cleaning", "adding")
    /\ Clean(p, p)
    /\ UNCHANGED <<locks, countVars, slice, peerVars, connVars, netVars, restarts, target>>

\* Not the user's own tracks, unless alone in the interaction.
TracksFor(p) == {t \in Tracks : Size = 1 \/ Owner(t[1]) # Owner(p)}
Wanted(p)    == sliceIndex \intersect TracksFor(p)

AddTracks(a) == Wanted(Target(a)) \ known[a]

PrepareOutTracks(a) ==
    /\ MoveAgent(a, "adding", "offering")
    /\ senders' = [senders EXCEPT ![Target(a)] = @ \union {[track |-> t, by |-> a] : t \in AddTracks(a)}]
    /\ known' = [known EXCEPT ![a] = {}]
    /\ UNCHANGED <<locks, countVars, slice, peerVars, connVars, netVars, restarts, target>>

\* shareOffer looks for a pending description and creates the offer.
CreateOffer(a) ==
    LET p == Target(a) IN
    /\ MoveAgent(a, "offering", "setting")
    /\ ~pending[p]
    /\ lastOffer' = [lastOffer EXCEPT ![p] = a]
    /\ offer' = [offer EXCEPT ![p] = Sent(p)]
    /\ UNCHANGED <<locks, countVars, slice, peerVars, senders, pending, answered, asked,
                   negotiated, netVars, restarts, target, known>>

\* SetLocalDescription takes only the last offer created, and only when stable.
Takes(a) == lastOffer[Target(a)] = a /\ ~pending[Target(a)]

\* shareOffer goes on to write the offer.  A failed write keeps the websocket's
\* mutex while it closes the peer.
WsLocked(p) == \E a \in Agents : at[a] = "failing" /\ Target(a) = p

Shares(a) ==
    LET p == Target(a) IN
    /\ pending' = [pending EXCEPT ![p] = TRUE]
    /\ lastOffer' = [lastOffer EXCEPT ![p] = None]
    /\ IF wsUp[p]
       THEN /\ Succeeds(a)
            /\ Serves(a)
            /\ offers' = [offers EXCEPT ![p] = @ + 1]
       ELSE /\ at' = [at EXCEPT ![a] = "sending"]
            /\ UNCHANGED <<serving, offers>>

SetLocalDescription_ErrorIgnored(a) ==
    /\ at[a] = "setting"
    /\ Shares(a)
    /\ UNCHANGED <<locks, countVars, slice, peerServerIndex, closing, senders, offer, answered,
                   asked, negotiated, wsUp, restarts, target, known>>
SetLocalDescription(a) ==
    /\ at[a] = "setting"
    /\ Takes(a)
    /\ Shares(a)
    /\ UNCHANGED <<locks, countVars, slice, peerServerIndex, closing, senders, offer, answered,
                   asked, negotiated, wsUp, restarts, target, known>>

\* One of them returned false: a pending description, an error of pion.
OfferFails(a) ==
    /\ \/ at[a] = "offering" /\ pending[Target(a)]
       \/ at[a] = "setting" /\ ~Takes(a)
       \/ at[a] \in {"adding", "offering", "setting"} /\ MayBeClosed(a)
    /\ Abandons(a)
    /\ Serves(a)
    /\ known' = [known EXCEPT ![a] = {}]
    /\ Forget(a)
    /\ UNCHANGED <<countVars, slice, peerServerIndex, closing, senders, connVars,
                   netVars, restarts>>

WriteFails(a) ==
    LET p == Target(a) IN
    /\ MoveAgent(a, "sending", "failing")
    /\ ~WsLocked(p)
    /\ closing' = [closing EXCEPT ![p] = IF @ = "open" THEN "closing" ELSE @]
    /\ UNCHANGED <<locks, countVars, slice, peerServerIndex, serving, senders,
                   connVars, netVars, restarts, target, known>>

\* ps.close returns to the goroutine of a peer.  A signaling never gets there:
\* disconnectUser wants the mutex that it holds for reading.
CloseReturns(p) ==
    /\ closing[p] = "closed"
    /\ MoveAgent(p, "failing", "idle")
    /\ Serves(p)
    /\ UNCHANGED <<locks, countVars, slice, peerServerIndex, closing, senders,
                   connVars, netVars, restarts, target, known>>

----------------------------------------------------------------------------
(***************************************************************************)
(* managedSignalingForEveryone.                                            *)
(***************************************************************************)
\* Takes the mutexes of the mixer and, for reading, of the interaction.
UpdateSignaling_MixerUnlocked(g) ==
    /\ MoveAgent(g, "requested", "visiting")
    /\ mixer' = g
    /\ reader' = g
    /\ todo' = peerServerIndex
    /\ UNCHANGED <<countVars, slice, peerVars, senders, connVars, netVars, restarts, target, known>>
UpdateSignaling(g) ==
    /\ mixer = None
    /\ MoveAgent(g, "requested", "visiting")
    /\ mixer' = g
    /\ reader' = g
    /\ todo' = peerServerIndex
    /\ UNCHANGED <<countVars, slice, peerVars, senders, connVars, netVars, restarts, target, known>>

\* The next peer, and its cleanOutTracks.  The order of a Go map is any order.
Visit(g) ==
    /\ MoveAgent(g, "visiting", "adding")
    /\ \E p \in todo :
        /\ target' = [target EXCEPT ![g] = p]
        /\ todo' = todo \ {p}
        /\ Clean(g, p)
    /\ UNCHANGED <<reader, mixer, countVars, slice, peerVars, connVars, netVars, restarts>>

EveryoneIsSignaled(g) ==
    /\ todo = {}
    /\ MoveAgent(g, "visiting", "idle")
    /\ Release
    /\ target' = [target EXCEPT ![g] = None]
    /\ UNCHANGED <<countVars, slice, peerVars, senders, connVars, netVars, restarts, known>>

----------------------------------------------------------------------------
(***************************************************************************)
(* The tracks of the peers: runMixerSliceFromRemote.                       *)
(***************************************************************************)
MoveSlice(t, from, to) ==
    /\ slice[t] = from
    /\ slice' = [slice EXCEPT ![t] = to]

allTracksReady == inTracksReadyCount = neededTracks

\* A track that comes when all are there belongs to a user who is back.
InTracksCounted == IF allTracksReady THEN inTracksReadyCount ELSE inTracksReadyCount + 1

\* incInTracksReadyCount, whose start message is left to the module Interaction.
OnTrack(t) ==
    /\ serving[t[1]] /\ answered[t[1]] /\ closing[t[1]] = "open"
    /\ Unlocked
    /\ MoveSlice(t, "none", "received")
    /\ inTracksReadyCount' = InTracksCounted
    /\ UNCHANGED <<locks, outTracksReadyCount, peerVars, senders, connVars, netVars, restarts,
                   agentVars>>

IndexMixerSlice(t) ==
    /\ mixer = None
    /\ MoveSlice(t, "received", "indexed")
    /\ UNCHANGED <<locks, countVars, peerVars, senders, connVars, netVars, restarts, agentVars>>

\* incOutTracksReadyCount: all tracks are there, or again an even number of them.
signalingNeeded(n) == n = neededTracks \/ n % 2 = 0

RequestSignaling ==
    \E g \in Signalings :
        /\ \A h \in Signalings : at[h] = "idle" => g <= h
        /\ MoveAgent(g, "idle", "requested")

CountOutTrack(t) ==
    /\ Unlocked
    /\ allTracksReady
    /\ MoveSlice(t, "indexed", "counted")
    /\ outTracksReadyCount' = outTracksReadyCount + 1
    /\ IF signalingNeeded(outTracksReadyCount + 1) THEN RequestSignaling ELSE UNCHANGED at
    /\ UNCHANGED <<locks, inTracksReadyCount, peerVars, senders, connVars, netVars, restarts,
                   target, known>>

\* The loop has ended: removeMixerSlice, then decOutTracksReadyCount.
RemoveMixerSlice(t) ==
    /\ closing[t[1]] # "open"
    /\ mixer = None
    /\ MoveSlice(t, "counted", "unindexed")
    /\ UNCHANGED <<locks, countVars, peerVars, senders, connVars, netVars, restarts, agentVars>>

DecOutTracksReadyCount(t) ==
    /\ Unlocked
    /\ MoveSlice(t, "unindexed", "ended")
    /\ outTracksReadyCount' = outTracksReadyCount - 1
    /\ UNCHANGED <<locks, inTracksReadyCount, peerVars, senders, connVars, netVars, restarts,
                   agentVars>>

----------------------------------------------------------------------------
(***************************************************************************)
(* The other end, and what happens when it is gone.                        *)
(***************************************************************************)
\* What is under way on a websocket that is closed is lost.
CloseWebsocket(p) ==
    /\ wsUp' = [wsUp EXCEPT ![p] = FALSE]
    /\ offers' = [offers EXCEPT ![p] = 0]

\* The browser (external) answers the offer, and loop takes the answer.
HandleAnswer(p) ==
    /\ serving[p]
    /\ offers[p] > 0 /\ pending[p]
    /\ offers' = [offers EXCEPT ![p] = @ - 1]
    /\ pending' = [pending EXCEPT ![p] = FALSE]
    /\ answered' = [answered EXCEPT ![p] = TRUE]
    /\ asked' = [asked EXCEPT ![p] = FALSE]
    /\ negotiated' = [negotiated EXCEPT ![p] = offer[p]]
    /\ offer' = [offer EXCEPT ![p] = {}]
    /\ UNCHANGED <<locks, countVars, slice, peerVars, senders, lastOffer, wsUp, restarts,
                   agentVars>>

MayLeave(p) == Cardinality({q \in Peers \ {p} : ~wsUp[q]}) < MaxLeaves

\* The browser goes away.  After a normal close of its websocket loop returns
\* without a call of ps.close, which comes from the peer connection, later.
ClientLeaves(p) ==
    /\ MayLeave(p)
    /\ p \in peerServerIndex
    /\ wsUp[p]
    /\ CloseWebsocket(p)
    /\ UNCHANGED <<locks, countVars, slice, peerVars, senders, connVars, restarts, agentVars>>

\* ps.close, by the message loop or a callback: closed and doneCh are set, then
\* disconnectUser waits for the mutex of the interaction.
ClosePeerServer(p) ==
    /\ MayLeave(p)
    /\ serving[p]
    /\ closing[p] = "open"
    /\ closing' = [closing EXCEPT ![p] = "closing"]
    /\ CloseWebsocket(p)
    /\ UNCHANGED <<locks, countVars, slice, peerServerIndex, serving, senders,
                   connVars, restarts, agentVars>>

\* disconnectUser; what the closed connection has sent is forgotten here.
DisconnectUser_WithoutMutex(p) ==
    /\ closing[p] = "closing"
    /\ closing' = [closing EXCEPT ![p] = "closed"]
    /\ peerServerIndex' = peerServerIndex \ {p}
    /\ senders' = [senders EXCEPT ![p] = {}]
    /\ offer' = [offer EXCEPT ![p] = {}]
    /\ pending' = [pending EXCEPT ![p] = FALSE]
    /\ negotiated' = [negotiated EXCEPT ![p] = {}]
    /\ asked' = [asked EXCEPT ![p] = FALSE]
    /\ answered' = [answered EXCEPT ![p] = FALSE]
    /\ lastOffer' = [lastOffer EXCEPT ![p] = None]
    /\ UNCHANGED <<locks, countVars, slice, serving, netVars, restarts, agentVars>>
DisconnectUser(p) ==
    /\ closing[p] = "closing"
    /\ Unlocked
    /\ closing' = [closing EXCEPT ![p] = "closed"]
    /\ peerServerIndex' = peerServerIndex \ {p}
    /\ senders' = [senders EXCEPT ![p] = {}]
    /\ offer' = [offer EXCEPT ![p] = {}]
    /\ pending' = [pending EXCEPT ![p] = FALSE]
    /\ negotiated' = [negotiated EXCEPT ![p] = {}]
    /\ asked' = [asked EXCEPT ![p] = FALSE]
    /\ answered' = [answered EXCEPT ![p] = FALSE]
    /\ lastOffer' = [lastOffer EXCEPT ![p] = None]
    /\ UNCHANGED <<locks, countVars, slice, serving, netVars, restarts, agentVars>>

----------------------------------------------------------------------------
OfferStep(a) ==
    \/ PrepareOutTracks(a)
    \/ CreateOffer(a) \/ SetLocalDescription(a) \/ OfferFails(a)
    \/ WriteFails(a)

PeerStep(p) ==
    \/ CleanOutTracks(p) \/ NegotiationNeeded(p) \/ CloseReturns(p)

SignalingStep(g) ==
    Visit(g) \/ EveryoneIsSignaled(g)

ClientStep(p) ==
    \/ ConnectPeerServer(p)
    \/ RestartRequested(p) \/ ClientLeaves(p)

SliceStep(t) == CountOutTrack(t) \/ DecOutTracksReadyCount(t)

Next ==
    \/ \E a \in Agents : OfferStep(a)
    \/ \E g \in Signalings : UpdateSignaling(g) \/ SignalingStep(g)
    \/ \E p \in Peers :
        \/ PeerStep(p) \/ ClientStep(p)
        \/ HandleAnswer(p) \/ ClosePeerServer(p) \/ DisconnectUser(p)
    \/ \E t \in Tracks : OnTrack(t) \/ IndexMixerSlice(t) \/ SliceStep(t) \/ RemoveMixerSlice(t)

Spec == Init /\ [][Next]_vars

(***************************************************************************)
(* Goroutines that can run do run; a mutex of Go goes in the end to a      *)
(* goroutine that waits for it, however often others take it (strong       *)
(* fairness); a peer whose browser is gone is closed by its connection.    *)
(* Nothing is asked of browsers.                                           *)
(***************************************************************************)
Fairness ==
    /\ \A a \in Agents : WF_vars(OfferStep(a))
    /\ \A g \in Signalings : SF_vars(UpdateSignaling(g)) /\ WF_vars(SignalingStep(g))
    /\ \A p \in Peers :
        /\ WF_vars(PeerStep(p))
        /\ WF_vars(~wsUp[p] /\ ClosePeerServer(p))
        /\ SF_vars(DisconnectUser(p))

FairSpec == Spec /\ Fairness

----------------------------------------------------------------------------
(* Type invariant (interaction.go:30-67, mixer.go:10-14,                   *)
(* peer_server.go:28-44).                                                  *)
TypeOK ==
    /\ peerServerIndex \subseteq Peers
    /\ reader \in Signalings \union {None}
    /\ inTracksReadyCount \in 0..neededTracks
    /\ outTracksReadyCount \in 0..Cardinality(Tracks)
    /\ mixer \in Signalings \union {None}
    /\ todo \subseteq Peers
    /\ slice \in [Tracks -> SliceStates]
    /\ serving \in [Peers -> BOOLEAN]
    /\ closing \in [Peers -> {"open", "closing", "closed"}]
    /\ wsUp \in [Peers -> BOOLEAN]
    /\ senders \in [Peers -> SUBSET [track : Tracks, by : Agents]]
    /\ lastOffer \in [Peers -> Agents \union {None}]
    /\ offer \in [Peers -> SUBSET Tracks]
    /\ pending \in [Peers -> BOOLEAN]
    /\ answered \in [Peers -> BOOLEAN]
    /\ asked \in [Peers -> BOOLEAN]
    /\ negotiated \in [Peers -> SUBSET Tracks]
    /\ offers \in [Peers -> Nat]
    /\ restarts \in 0..MaxRestarts
    /\ at \in [Agents -> AgentStates]
    /\ target \in [Signalings -> Peers \union {None}]
    /\ known \in [Agents -> SUBSET Tracks]

(* No peer leaves the index while a signaling iterates over it, which Go   *)
(* would punish with a fatal error, and none is offered anything after it  *)
(* was taken off (mixer.go:51-59, interaction.go:425-431).                 *)
IndexIsStable ==
    /\ todo \subseteq peerServerIndex
    /\ \A g \in Signalings :
        at[g] \in {"adding", "offering", "setting", "sending"} => target[g] \in peerServerIndex

(* Offers never overlap, whoever makes them: while the websocket is up, a  *)
(* pending local description has exactly one offer or answer under way, so *)
(* that no answer is refused (its error would end the message loop) and no *)
(* peer stays blocked behind an offer that nobody will answer              *)
(* (peer_server.go:176-228, 386-397).                                      *)
OneOfferAtATime ==
    \A p \in Peers : wsUp[p] => offers[p] = IF pending[p] THEN 1 ELSE 0

(* peer_server.go:133 "so we don't double send": no connection gets a      *)
(* track twice, except when newPeerServer, which does not take the mixer's *)
(* mutex, prepares it at the same time as a signaling.                     *)
NoDoubleSend ==
    \A p \in Peers : \A x, y \in senders[p] :
        x.track = y.track => x = y \/ p \in {x.by, y.by}

\* The tracks of a peer's offer, as long as it is pending and after it was answered.
Offered(p) == IF pending[p] THEN offer[p] ELSE negotiated[p]

(* What a signaling promises: from when it has been to a peer until it is  *)
(* through with everybody, the offer of that peer, pending or answered,    *)
(* has exactly the tracks it is to get, whatever this peer's own goroutines*)
(* add and offer meanwhile, and whoever leaves (mixer.go:51-86,            *)
(* peer_server.go:110-242).                                                *)
EveryoneIsOffered ==
    \A g \in Signalings : at[g] = "visiting" =>
        \A p \in peerServerIndex \ todo : Offered(p) = Wanted(p)

(* The two ways a signaling stops an interaction: it closes a peer         *)
(* while it holds the mutex that disconnectUser wants, or it waits for the *)
(* websocket of a peer whose close waits for that mutex.                   *)
Frozen ==
    \E g \in Signalings :
        \/ at[g] = "failing"
        \/ /\ at[g] = "sending"
           /\ \E p \in Peers : at[p] = "failing" /\ Target(g) = p /\ closing[p] = "closing"

(* Once the locks freeze, they stay so, and the interaction with them:     *)
(* nobody joins it or is taken off it, no track comes or goes, and no      *)
(* other signaling begins, whatever browsers, websockets and the other     *)
(* goroutines of its peers still do (mixer.go:51-86, ws_conn.go:207-219,   *)
(* interaction.go:425-431).                                                *)
FrozenForever ==
    [][Frozen => Frozen' /\ UNCHANGED <<locks, peerServerIndex, countVars, slice>>]_vars

(* The goroutines of this module know no third way: while a signaling      *)
(* holds the mutexes and they are not frozen, it can go on with its next   *)
(* peer or its offer, or the close that keeps the websocket from it can    *)
(* return (mixer.go:51-86, peer_server.go:176-262, ws_conn.go:207-219).    *)
LocksMove ==
    reader # None => \/ Frozen
                     \/ at[reader] \in {"visiting", "adding", "offering", "setting"}
                     \/ at[reader] = "sending" /\ ~WsLocked(Target(reader))
                     \/ at[Target(reader)] = "failing" /\ closing[Target(reader)] = "closed"

(* Unless a signaling freezes the locks, a peer that closes is taken off   *)
(* the interaction; what else may hold the mutex for ever is in Interaction *)
(* and taken not to happen here (peer_server.go:244-262).                  *)
DisconnectedUnlessFrozen ==
    \A p \in Peers : closing[p] = "closing" ~> (closing[p] = "closed" \/ Frozen)

(* A signaling for everyone is carried through: every track that is there  *)
(* when it is requested reaches every peer of another user that is there,  *)
(* in spite of pending offers, retries and reloads; unless one of the two  *)
(* leaves, the locks freeze, or a browser never answers its offer, which   *)
(* can hold up everybody (mixer.go:51-86).                                 *)
SignalingIsComplete ==
    \A g \in Signalings, p \in Peers : \A t \in TracksFor(p) :
        (at[g] = "requested" /\ p \in peerServerIndex /\ t \in sliceIndex) ~>
            \/ t \in negotiated[p]
            \/ p \notin peerServerIndex
            \/ t \notin sliceIndex
            \/ Frozen
            \/ \E q \in Peers : []pending[q]

(* peer_server.go:260 "cleanup anyway": close always disconnects the user. *)
(* Refuted by a run.                                                       *)
CleanupAnyway == \A p \in Peers : closing[p] = "closing" ~> closing[p] = "closed"

----------------------------------------------------------------------------
(* The inductive strengthening of the safety invariants.                   *)
Stable == {"adding", "offering", "setting", "sending"}
Locked == Stable \union {"visiting", "failing"}

\* One signaling at a time is under way: it has both mutexes.
LockInv ==
    /\ reader = mixer
    /\ mixer = None => todo = {}
    /\ todo \subseteq peerServerIndex
    /\ \A g \in Signalings :
        /\ at[g] \in Locked <=> mixer = g
        /\ at[g] \in Stable \union {"failing"} => target[g] \in Peers
        /\ at[g] # "cleaning"
        /\ at[g] \in Stable => target[g] \in peerServerIndex

\* What a closed peer, or an agent whose write will fail, knows of the websocket.
WsInv ==
    /\ \A p \in Peers : closing[p] # "open" => ~wsUp[p]
    /\ \A a \in Agents : at[a] \in {"sending", "failing"} => ~wsUp[Target(a)]
    /\ \A a \in Agents : at[a] = "failing" => closing[Target(a)] # "open"

\* What a signaling is about to add was not added by another one.
SendersInv ==
    /\ \A p \in Peers : \A s \in senders[p] : s.by = p \/ s.by \in Signalings
    /\ \A g \in Signalings : at[g] = "adding" =>
        \A s \in senders[target[g]] : s.by = target[g] \/ s.track \in known[g]

\* The peers that a signaling is through with, and the one it is at.
Done(g) == (peerServerIndex \ todo) \ (IF at[g] = "visiting" THEN {} ELSE {target[g]})

DoneInv(p) ==
    /\ Sent(p) = Wanted(p) /\ Offered(p) = Wanted(p)
    /\ lastOffer[p] # None => offer[p] = Wanted(p)

VisitInv(g) ==
    LET p == target[g] IN
    /\ at[g] = "adding" => known[g] \subseteq Sent(p) /\ Sent(p) \subseteq sliceIndex
    /\ at[g] \in {"offering", "setting"} => Sent(p) = Wanted(p)
    /\ at[g] = "setting" /\ lastOffer[p] = g => offer[p] = Wanted(p)

OfferedInv ==
    /\ \A p \in Peers : Sent(p) \subseteq TracksFor(p) /\ (lastOffer[p] # None => ~pending[p])
    /\ \A g \in Signalings : at[g] \in Locked =>
            VisitInv(g) /\ \A p \in Done(g) : DoneInv(p)

\* outTracksReadyCount counts the slices that were counted and not yet discounted.
Counted == {t \in Tracks : slice[t] \in {"counted", "unindexed"}}
CountInv == outTracksReadyCount = Cardinality(Counted)

SignalingInv ==
    TypeOK /\ CountInv /\ LockInv /\ WsInv /\ OneOfferAtATime /\ SendersInv /\ NoDoubleSend
=============================================================================
