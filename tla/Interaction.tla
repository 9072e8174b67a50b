---------------------------- MODULE Interaction ----------------------------
(***************************************************************************)
(* The life of one interaction id of the SFU: sfu/interaction_store.go and *)
(* sfu/interaction.go, with the parts of peer_server.go and mixer_slice.go *)
(* that call them.  One id may be used by several incarnations, one after  *)
(* the other: each is a room.  A session is one websocket connection and,  *)
(* once it is connected, its peerServer; a user who reloads the page owns  *)
(* several.  A slice is the goroutine that carries one track of a session. *)
(*                                                                         *)
(* What one goroutine does while it holds the mutex of an interaction is   *)
(* one step, unless it waits for another lock inside: then the lock it     *)
(* holds is part of the state.  Code that runs without the mutex (stop,    *)
(* abortCountdown after its check) is split at each shared access.         *)
(***************************************************************************)
EXTENDS Integers, FiniteSets

CONSTANTS
    Users,         \* user ids
    Size,          \* interaction.size, after the clamps of newInteraction
    AudioOnly,     \* JoinPayload.AudioOnly
    MaxRooms,      \* bound: incarnations of the id
    MaxSessions,   \* bound: websocket connections
    MaxLateCloses, \* bound: later calls of peerServer.close that disconnect the user
    MaxSignalings  \* bound: rooms whose signaling is followed, as it may hang

ASSUME UsersAssumption == IsFiniteSet(Users)
ASSUME SizeAssumption == Size \in 1..8           \* clamped to 1..MaxSize
ASSUME AudioOnlyAssumption == AudioOnly \in BOOLEAN
ASSUME BoundsAssumption ==
    /\ MaxRooms \in Nat \ {0}
    /\ MaxSessions \in Nat \ {0}
    /\ MaxLateCloses \in Nat
    /\ MaxSignalings \in Nat

Rooms    == 1..MaxRooms
Sessions == 1..MaxSessions
None     == 0                                    \* no room, no session
Kinds    == IF AudioOnly THEN {"audio"} ELSE {"audio", "video"}
neededTracks == IF AudioOnly THEN Size ELSE 2 * Size

Channels == {"ready", "started", "aborted", "done"}
Stoppers == {"abort", "graceful"}                \* abortCountdown, gracefulCountdown

VARIABLES
    \* interactionStore
    storeMutex,          \* None, or the session that holds it in interactionStore.join
    index,               \* None, or the room indexed under the id
    created,             \* how many rooms newInteraction made
    \* interaction, per room
    mutex,               \* None, or the session that holds it in disconnectUser
    connectedIndex,      \* per user: "never" | "yes" | "no"
    peerServerIndex,     \* per user: None, or a session
    ready, started, deleted,
    pipelineStartCount, inTracksReadyCount, outTracksReadyCount,
    closed,              \* the channels already closed
    stopper,             \* where the two countdown goroutines are
    \* its mixer, per room
    signaling,           \* what is known of managedSignalingForEveryone
    \* peerServer, per session
    session, user, room,
    lateCloses,          \* calls of close(), after the first, that disconnected the user
    starts,              \* "start" messages sent to the session
    slice,               \* per kind: where runMixerSliceFromRemote is
    \* the process
    panicked             \* a channel was closed twice

storeVars   == <<storeMutex, index, created>>
userVars    == <<connectedIndex, peerServerIndex>>
trackVars   == <<pipelineStartCount, inTracksReadyCount, outTracksReadyCount>>
roomVars    == <<mutex, signaling, userVars, ready, started, deleted, trackVars, closed,
                 stopper, panicked>>
sessionVars == <<session, user, room, lateCloses, starts>>
vars        == <<storeVars, roomVars, sessionVars, slice>>

SessionStates ==
    {"idle",        \* not arrived
     "joining",     \* in interactionStore.join, holds the store mutex
     "refused",     \* error-duplicate or error-full
     "joined",      \* admitted, newPeerServer has not run connectPeerServer yet
     "abandoned",   \* admitted, but newPeerConn failed: no peerServer
     "connected",   \* its peerServer is alive
     "closing",     \* in close(): doneCh closed, waits for the mutex in disconnectUser
     "unindexing",  \* in disconnectUser, holds the mutex, waits for the store mutex
     "over"}        \* close() has returned

SliceStates ==
    {"none",        \* no track of this kind received yet
     "counting",    \* between the critical sections of incInTracksReadyCount
     "waiting",     \* in waitTillAllReady
     "outcounting", "bound", "running", "ended",
     "discarded"}   \* the room was aborted before the slice was bound

SignalingStates ==
    {"none",        \* not requested yet
     "requested",   \* may be under way: what cannot be offered is retried every 2s
     "hanging"}     \* waits for ever, in the close of a peer, with the read lock

StopperStates ==
    {"none",        \* goroutine not started
     "waiting",     \* for its timer
     "cancelled",   \* its timer was stopped: it waits for ever
     "fired",       \* timer received, not yet past the check of ready
     "holding",     \* found the room ready: returned without RUnlock
     "stopping",    \* found it not ready, has not closed the channel
     "clearing",    \* channel closed, ready not yet reset
     "sleeping",    \* in the 3s delay
     "marking",     \* saw deleted = FALSE
     "unindexing",  \* set deleted, waits for the store mutex
     "ended"}

----------------------------------------------------------------------------
Init ==
    /\ storeMutex = None
    /\ index = None
    /\ created = 0
    /\ mutex = [g \in Rooms |-> None]
    /\ connectedIndex = [g \in Rooms |-> [u \in Users |-> "never"]]
    /\ peerServerIndex = [g \in Rooms |-> [u \in Users |-> None]]
    /\ ready = [g \in Rooms |-> FALSE]
    /\ started = [g \in Rooms |-> FALSE]
    /\ deleted = [g \in Rooms |-> FALSE]
    /\ pipelineStartCount = [g \in Rooms |-> 0]
    /\ inTracksReadyCount = [g \in Rooms |-> 0]
    /\ outTracksReadyCount = [g \in Rooms |-> 0]
    /\ closed = [g \in Rooms |-> {}]
    /\ stopper = [g \in Rooms |-> [b \in Stoppers |-> "none"]]
    /\ signaling = [g \in Rooms |-> "none"]
    /\ session = [s \in Sessions |-> "idle"]
    /\ user = [s \in Sessions |-> None]
    /\ room = [s \in Sessions |-> None]
    /\ lateCloses = [s \in Sessions |-> 0]
    /\ starts = [s \in Sessions |-> 0]
    /\ slice = [s \in Sessions |-> [k \in Kinds |-> "none"]]
    /\ panicked = FALSE

\* close(ch): a second close of a channel panics, and nothing recovers it.
Close(g, c) ==
    /\ closed' = [closed EXCEPT ![g] = @ \union {c}]
    /\ panicked' = (panicked \/ c \in closed[g])

\* The mutex of the room can be taken for reading.  A signaling that hangs bars
\* new readers too: its own disconnectUser is a writer that waits.
ReadUnlocked(g) ==
    /\ mutex[g] = None
    /\ signaling[g] # "hanging"

Unlocked_DespiteReaders(g) == ReadUnlocked(g)
\* It can be taken for writing: moreover the abort goroutine did not leave its
\* read lock behind.
Unlocked(g) ==
    /\ ReadUnlocked(g)
    /\ stopper[g]["abort"] # "holding"

\* A timer that is stopped before it fires leaves its goroutine waiting.
StopAbortTimer(g) ==
    stopper' = [stopper EXCEPT ![g]["abort"] = IF @ = "waiting" THEN "cancelled" ELSE @]

ConnectedUsers(g) == {u \in Users : connectedIndex[g][u] = "yes"}
KnownUsers(g)     == {u \in Users : connectedIndex[g][u] # "never"}

\* A peerServer exists / has closed its doneCh.
HasPeerServer(s) == session[s] \in {"connected", "closing", "unindexing", "over"}
IsDone(s)        == session[s] \in {"closing", "unindexing", "over"}

----------------------------------------------------------------------------
(***************************************************************************)
(* Joining: RunPeerServer calls interactionStore.join, which holds the     *)
(* store mutex while it waits for the mutex of the room.                   *)
(***************************************************************************)
Arrive(s, u) ==
    /\ session[s] = "idle"
    /\ \A t \in 1..(s - 1) : session[t] # "idle"
    /\ storeMutex = None
    /\ index # None \/ created < MaxRooms
    /\ storeMutex' = s
    /\ session' = [session EXCEPT ![s] = "joining"]
    /\ user' = [user EXCEPT ![s] = u]
    /\ UNCHANGED <<index, created, roomVars, room, lateCloses, starts, slice>>

StartAbortCountdown_Forgotten(g) == UNCHANGED stopper
StartAbortCountdown(g) == stopper' = [stopper EXCEPT ![g]["abort"] = "waiting"]

\* "new_interaction"
JoinNew(s) ==
    /\ session[s] = "joining"
    /\ index = None
    /\ created < MaxRooms
    /\ LET g == created + 1 IN
        /\ created' = g
        /\ index' = g
        /\ connectedIndex' = [connectedIndex EXCEPT ![g][user[s]] = "yes"]
        /\ StartAbortCountdown(g)
        /\ room' = [room EXCEPT ![s] = g]
    /\ storeMutex' = None
    /\ session' = [session EXCEPT ![s] = "joined"]
    /\ UNCHANGED <<mutex, signaling, peerServerIndex, ready, started, deleted, trackVars,
                   closed, panicked, user, lateCloses, starts, slice>>

\* interaction.join accepts: a known user who left, or a new one while there is room.
Admits_OneTooMany(g, u) ==
    \/ connectedIndex[g][u] = "no"
    \/ connectedIndex[g][u] = "never" /\ Cardinality(KnownUsers(g)) <= Size
Admits_Duplicates(g, u) ==
    \/ connectedIndex[g][u] # "never"
    \/ Cardinality(KnownUsers(g)) # Size
Admits(g, u) ==
    \/ connectedIndex[g][u] = "no"
    \/ connectedIndex[g][u] = "never" /\ Cardinality(KnownUsers(g)) # Size

JoinExisting(s) ==
    /\ session[s] = "joining"
    /\ index # None
    /\ Unlocked(index)
    /\ Admits(index, user[s])
    /\ connectedIndex' = [connectedIndex EXCEPT ![index][user[s]] = "yes"]
    /\ room' = [room EXCEPT ![s] = index]
    /\ storeMutex' = None
    /\ session' = [session EXCEPT ![s] = "joined"]
    /\ UNCHANGED <<index, created, mutex, signaling, peerServerIndex, ready, started,
                   deleted, trackVars, closed, stopper, panicked, user, lateCloses, starts,
                   slice>>

\* error-duplicate or error-full
Refuses_OnlyFull(g, u) ==
    connectedIndex[g][u] = "never" /\ Cardinality(KnownUsers(g)) = Size
Refuses(g, u) == ~Admits(g, u)

JoinRefused(s) ==
    /\ session[s] = "joining"
    /\ index # None
    /\ Unlocked(index)
    /\ Refuses(index, user[s])
    /\ storeMutex' = None
    /\ session' = [session EXCEPT ![s] = "refused"]
    /\ UNCHANGED <<index, created, roomVars, user, room, lateCloses, starts, slice>>

\* error-peer-connection: RunPeerServer returns, the user stays marked connected.
PeerConnectionFails(s) ==
    /\ session[s] = "joined"
    /\ session' = [session EXCEPT ![s] = "abandoned"]
    /\ UNCHANGED <<storeVars, roomVars, user, room, lateCloses, starts, slice>>

ConnectPeerServer(s) ==
    /\ session[s] = "joined"
    /\ Unlocked(room[s])
    /\ peerServerIndex' = [peerServerIndex EXCEPT ![room[s]][user[s]] = s]
    /\ session' = [session EXCEPT ![s] = "connected"]
    /\ UNCHANGED <<storeVars, mutex, signaling, connectedIndex, ready, started, deleted,
                   trackVars, closed, stopper, panicked, user, room, lateCloses, starts,
                   slice>>

----------------------------------------------------------------------------
(***************************************************************************)
(* Leaving: peerServer.close sets closed and doneCh the first time it is   *)
(* called; every call, the first and the later ones, runs disconnectUser.  *)
(***************************************************************************)
ClosePeerServer(s) ==
    /\ session[s] = "connected"
    /\ session' = [session EXCEPT ![s] = "closing"]
    /\ UNCHANGED <<storeVars, roomVars, user, room, lateCloses, starts, slice>>

\* The browser leaves, its connection fails or it sends "stop".
ClientLeaves(s) == ClosePeerServer(s)

\* First goroutine of peerServer.loop; files() needs the read lock before close().
LeaveEndedRoom_NotAborted(s) ==
    /\ ClosePeerServer(s)
    /\ "done" \in closed[room[s]] /\ ReadUnlocked(room[s])
LeaveEndedRoom(s) ==
    /\ ClosePeerServer(s)
    /\ \/ "aborted" \in closed[room[s]]
       \/ "done" \in closed[room[s]] /\ ReadUnlocked(room[s])

\* disconnectUser(ps) is called by the close that ends the session, and again by
\* every other one: the pc state callback after pc.Close, a websocket write that
\* fails, the end of the room.  Of these only those that change something are
\* counted.  It does nothing for a user who is not marked connected.
CallsDisconnect(s, from) ==
    /\ session[s] = from
    /\ \/ from = "closing"
       \/ from = "over" /\ lateCloses[s] < MaxLateCloses
    /\ Unlocked(room[s])

DisconnectNobody(s) ==
    /\ CallsDisconnect(s, "closing")
    /\ connectedIndex[room[s]][user[s]] # "yes"
    /\ session' = [session EXCEPT ![s] = "over"]
    /\ UNCHANGED <<storeVars, roomVars, user, room, lateCloses, starts, slice>>

MarkDisconnected_StillConnected(s, from) ==
    /\ connectedIndex[room[s]][user[s]] = "yes"
    /\ peerServerIndex' = [peerServerIndex EXCEPT ![room[s]][user[s]] = None]
    /\ lateCloses' = IF from = "over" THEN [lateCloses EXCEPT ![s] = @ + 1] ELSE lateCloses
    /\ UNCHANGED connectedIndex
MarkDisconnected(s, from) ==
    /\ connectedIndex[room[s]][user[s]] = "yes"
    /\ peerServerIndex' = [peerServerIndex EXCEPT ![room[s]][user[s]] = None]
    /\ connectedIndex' = [connectedIndex EXCEPT ![room[s]][user[s]] = "no"]
    /\ lateCloses' = IF from = "over" THEN [lateCloses EXCEPT ![s] = @ + 1] ELSE lateCloses

\* The room is deleted when it is left empty and is not ready.
LeavesItEmpty_EvenReady(s) ==
    /\ ConnectedUsers(room[s]) \subseteq {user[s]}
    /\ ~deleted[room[s]]
LeavesItEmpty(s) ==
    /\ ConnectedUsers(room[s]) \subseteq {user[s]}
    /\ ~ready[room[s]]
    /\ ~deleted[room[s]]

DisconnectUser(s, from) ==
    /\ CallsDisconnect(s, from)
    /\ ~LeavesItEmpty(s)
    /\ MarkDisconnected(s, from)
    /\ session' = [session EXCEPT ![s] = "over"]
    /\ UNCHANGED <<storeVars, mutex, signaling, ready, started, deleted, trackVars, closed,
                   stopper, panicked, user, room, starts, slice>>

\* Variant: the interaction is unlocked before the store forgets it.
DisconnectLastUser_Unlocked(s, from) ==
    /\ CallsDisconnect(s, from)
    /\ LeavesItEmpty(s)
    /\ MarkDisconnected(s, from)
    /\ StopAbortTimer(room[s])
    /\ deleted' = [deleted EXCEPT ![room[s]] = TRUE]
    /\ session' = [session EXCEPT ![s] = "unindexing"]
    /\ UNCHANGED <<storeVars, mutex, signaling, ready, started, trackVars, closed, panicked,
                   user, room, starts, slice>>

\* ... and then the mutex is kept while interactionStore.delete waits for its own.
DisconnectLastUser(s, from) ==
    /\ CallsDisconnect(s, from)
    /\ LeavesItEmpty(s)
    /\ MarkDisconnected(s, from)
    /\ StopAbortTimer(room[s])
    /\ deleted' = [deleted EXCEPT ![room[s]] = TRUE]
    /\ mutex' = [mutex EXCEPT ![room[s]] = s]
    /\ session' = [session EXCEPT ![s] = "unindexing"]
    /\ UNCHANGED <<storeVars, signaling, ready, started, trackVars, closed, panicked,
                   user, room, starts, slice>>

\* interactionStore.delete removes the id, whichever room it maps to.
UnindexEmptyRoom(s) ==
    /\ session[s] = "unindexing"
    /\ storeMutex = None
    /\ index' = None
    /\ mutex' = [mutex EXCEPT ![room[s]] = None]
    /\ session' = [session EXCEPT ![s] = "over"]
    /\ UNCHANGED <<storeMutex, created, signaling, userVars, ready, started, deleted,
                   trackVars, closed, stopper, panicked, user, room, lateCloses, starts,
                   slice>>

----------------------------------------------------------------------------
(***************************************************************************)
(* Tracks: runMixerSliceFromRemote, one goroutine per received track.      *)
(***************************************************************************)
MoveSlice(s, k, from, to) ==
    /\ slice[s][k] = from
    /\ slice' = [slice EXCEPT ![s][k] = to]

\* There is always an audio track: one of the two tells.
AnnouncesStart_Video(k) == k = "video"
AnnouncesStart(k) == k = "audio"

AlreadyReady(g) == inTracksReadyCount[g] = neededTracks

\* pc.OnTrack and the first critical section of incInTracksReadyCount: a
\* reconnecting peer is told that the interaction runs.
OnTrack(s, k) ==
    LET g == room[s]
        isAlreadyReady == AlreadyReady(g) IN
    /\ HasPeerServer(s)
    /\ Unlocked(g)
    /\ MoveSlice(s, k, "none", IF isAlreadyReady THEN "waiting" ELSE "counting")
    /\ starts' = IF isAlreadyReady /\ AnnouncesStart(k)
                 THEN [starts EXCEPT ![s] = @ + 1] ELSE starts
    /\ UNCHANGED <<storeVars, roomVars, session, user, room, lateCloses>>

\* Second critical section: the count reaches the needed one only once.
CountInTrack(s, k) ==
    LET g == room[s]
        isReadyNow == inTracksReadyCount[g] + 1 = neededTracks IN
    /\ MoveSlice(s, k, "counting", "waiting")
    /\ Unlocked(g)
    /\ inTracksReadyCount' = [inTracksReadyCount EXCEPT ![g] = @ + 1]
    /\ IF isReadyNow
       THEN /\ ready' = [ready EXCEPT ![g] = TRUE]
            /\ StopAbortTimer(g)
            /\ Close(g, "ready")
       ELSE UNCHANGED <<ready, stopper, closed, panicked>>
    /\ UNCHANGED <<storeVars, mutex, signaling, userVars, started, deleted,
                   pipelineStartCount, outTracksReadyCount, sessionVars>>

\* waitTillAllReady: when both channels are closed select takes either.
WaitTillAllReady(s, k) ==
    /\ \/ MoveSlice(s, k, "waiting", "outcounting") /\ "ready" \in closed[room[s]]
       \/ MoveSlice(s, k, "waiting", "discarded") /\ "aborted" \in closed[room[s]]
    /\ UNCHANGED <<storeVars, roomVars, sessionVars>>

\* incOutTracksReadyCount: all tracks are out, or again an even number of them.
signalingNeeded(g, n) == n = neededTracks \/ (ready[g] /\ n % 2 = 0)

\* managedSignalingForEveryone, in a goroutine of its own: nothing in a deleted room.
RequestSignaling(g) ==
    signaling' = [signaling EXCEPT ![g] =
                    IF @ = "none" /\ ~deleted[g] /\ g <= MaxSignalings THEN "requested" ELSE @]

\* ... and BindTrackAutoStart, which waits for nobody: the pipeline starts when
\* the last track of the session is bound.
BindTrack(s, k) ==
    LET g == room[s]
        count == outTracksReadyCount[g] + 1 IN
    /\ MoveSlice(s, k, "outcounting", "bound")
    /\ Unlocked(g)
    /\ outTracksReadyCount' = [outTracksReadyCount EXCEPT ![g] = count]
    /\ IF signalingNeeded(g, count) THEN RequestSignaling(g) ELSE UNCHANGED signaling
    /\ UNCHANGED <<storeVars, mutex, userVars, ready, started, deleted,
                   pipelineStartCount, inTracksReadyCount, closed, stopper, panicked,
                   sessionVars>>

PipelineStarted(s) == \A k \in Kinds : slice[s][k] \in {"bound", "running", "ended"}

\* interaction.start, called by every slice whose pipeline has started.
Starts_Again(g) == Size = 1 \/ pipelineStartCount[g] + 1 > 1
Starts(g) == ~started[g] /\ (Size = 1 \/ pipelineStartCount[g] + 1 > 1)

Start(s, k) ==
    LET g == room[s]
        present == {peerServerIndex[g][u] : u \in Users} \ {None} IN
    /\ PipelineStarted(s)
    /\ Unlocked(g)
    /\ MoveSlice(s, k, "bound", "running")
    /\ pipelineStartCount' = [pipelineStartCount EXCEPT ![g] = @ + 1]
    /\ IF Starts(g)
       THEN /\ started' = [started EXCEPT ![g] = TRUE]
            /\ starts' = [t \in Sessions |->
                            IF t \in present THEN starts[t] + 1 ELSE starts[t]]
            /\ stopper' = [stopper EXCEPT ![g]["graceful"] = "waiting"]
            /\ Close(g, "started")
       ELSE UNCHANGED <<started, starts, stopper, closed, panicked>>
    /\ UNCHANGED <<storeVars, mutex, signaling, userVars, ready, deleted,
                   inTracksReadyCount, outTracksReadyCount, session, user, room,
                   lateCloses>>

\* The signaling holds the mutex of the room for reading while it goes from peer to
\* peer.  A write that fails closes the peer in the same goroutine, and there
\* disconnectUser waits for that mutex.  Where the peer closes already, that close
\* waits for it and has the mutex of the peer.  A signaling that does not hang
\* gives the mutex back and changes nothing here.
SignalingHangs(s) ==
    /\ HasPeerServer(s)
    /\ peerServerIndex[room[s]][user[s]] = s
    /\ signaling[room[s]] = "requested"
    /\ mutex[room[s]] = None
    /\ signaling' = [signaling EXCEPT ![room[s]] = "hanging"]
    /\ session' = [session EXCEPT ![s] = IF @ = "connected" THEN "closing" ELSE @]
    /\ UNCHANGED <<storeVars, mutex, userVars, ready, started, deleted, trackVars, closed,
                   stopper, panicked, user, room, lateCloses, starts, slice>>

\* The main loop ends when the peer is done or its track cannot be read.
SliceEnds_NotCountedOut(s, k) ==
    /\ MoveSlice(s, k, "running", "ended")
    /\ Unlocked(room[s])
    /\ UNCHANGED <<storeVars, roomVars, sessionVars>>
SliceEnds_UnlessDone(s, k) ==
    /\ ~IsDone(s)
    /\ SliceEnds_NotCountedOut(s, k)
SliceEnds(s, k) ==
    /\ MoveSlice(s, k, "running", "ended")
    /\ Unlocked(room[s])
    /\ outTracksReadyCount' = [outTracksReadyCount EXCEPT ![room[s]] = @ - 1]
    /\ UNCHANGED <<storeVars, mutex, signaling, userVars, ready, started, deleted,
                   pipelineStartCount, inTracksReadyCount, closed, stopper, panicked,
                   sessionVars>>

----------------------------------------------------------------------------
(***************************************************************************)
(* Ending: the abort and the graceful countdowns and stop().               *)
(***************************************************************************)
MoveStopper(g, b, from, to) ==
    /\ stopper[g][b] = from
    /\ stopper' = [stopper EXCEPT ![g][b] = to]

AbortTimerFires(g) ==
    /\ MoveStopper(g, "abort", "waiting", "fired")
    /\ UNCHANGED <<storeVars, mutex, signaling, userVars, ready, started, deleted,
                   trackVars, closed, panicked, sessionVars, slice>>

\* abortCountdown reads ready under the read lock; it gives the lock back
\* only when the room is not ready.
CheckReady(g) ==
    /\ ReadUnlocked(g)
    /\ MoveStopper(g, "abort", "fired", IF ready[g] THEN "holding" ELSE "stopping")
    /\ UNCHANGED <<storeVars, mutex, signaling, userVars, ready, started, deleted,
                   trackVars, closed, panicked, sessionVars, slice>>

\* stop() does not take the mutex: each of its accesses is a step.  The first
\* one closes the channel, for gracefulCountdown when its timer fires.
StopChannel(b) == IF b = "graceful" THEN "done" ELSE "aborted"

StopCloses(g, b) ==
    /\ MoveStopper(g, b, IF b = "graceful" THEN "waiting" ELSE "stopping", "clearing")
    /\ Close(g, StopChannel(b))
    /\ UNCHANGED <<storeVars, mutex, signaling, userVars, ready, started, deleted,
                   trackVars, sessionVars, slice>>

StopClearsReady(g, b) ==
    /\ MoveStopper(g, b, "clearing", "sleeping")
    /\ ready' = [ready EXCEPT ![g] = FALSE]
    /\ UNCHANGED <<storeVars, mutex, signaling, userVars, started, deleted, trackVars,
                   closed, panicked, sessionVars, slice>>

\* unguardedDelete, called without the mutex after the delay
StopTestsDeleted(g, b) ==
    /\ MoveStopper(g, b, "sleeping", IF deleted[g] THEN "ended" ELSE "marking")
    /\ UNCHANGED <<storeVars, mutex, signaling, userVars, ready, started, deleted,
                   trackVars, closed, panicked, sessionVars, slice>>

StopMarksDeleted(g, b) ==
    /\ MoveStopper(g, b, "marking", "unindexing")
    /\ deleted' = [deleted EXCEPT ![g] = TRUE]
    /\ UNCHANGED <<storeVars, mutex, signaling, userVars, ready, started, trackVars, closed,
                   panicked, sessionVars, slice>>

StopUnindexes(g, b) ==
    /\ storeMutex = None
    /\ MoveStopper(g, b, "unindexing", "ended")
    /\ index' = None
    /\ UNCHANGED <<storeMutex, created, mutex, signaling, userVars, ready, started,
                   deleted, trackVars, closed, panicked, sessionVars, slice>>

----------------------------------------------------------------------------
SessionStep(s) ==
    \/ JoinNew(s) \/ JoinExisting(s) \/ JoinRefused(s)
    \/ ConnectPeerServer(s)
    \/ DisconnectNobody(s)
    \/ DisconnectUser(s, "closing") \/ DisconnectLastUser(s, "closing")
    \/ UnindexEmptyRoom(s)

SliceStep(s, k) ==
    \/ CountInTrack(s, k) \/ WaitTillAllReady(s, k) \/ BindTrack(s, k) \/ Start(s, k)

StopStep(g, b) ==
    \/ StopCloses(g, b) \/ StopClearsReady(g, b) \/ StopTestsDeleted(g, b)
    \/ StopMarksDeleted(g, b) \/ StopUnindexes(g, b)

AbortStep(g) == AbortTimerFires(g) \/ CheckReady(g)

\* What browsers and the network do, when they please.
ClientStep(s) ==
    \/ \E u \in Users : Arrive(s, u)
    \/ PeerConnectionFails(s) \/ ClientLeaves(s) \/ SignalingHangs(s)
    \/ DisconnectUser(s, "over") \/ DisconnectLastUser(s, "over")
    \/ \E k \in Kinds : OnTrack(s, k)

Next ==
    \/ \E s \in Sessions : ClientStep(s) \/ SessionStep(s) \/ LeaveEndedRoom(s)
    \/ \E s \in Sessions, k \in Kinds : SliceStep(s, k) \/ SliceEnds(s, k)
    \/ \E g \in Rooms : AbortStep(g) \/ \E b \in Stoppers : StopStep(g, b)

Spec == Init /\ [][Next]_vars

(***************************************************************************)
(* Goroutines that can run do run, mutexes are handed on, timers fire.     *)
(* Nothing is asked of clients.  A read lock is promised only while the one *)
(* that the abort goroutine leaves cannot make a writer wait in front of it *)
(* (RWMutex gives a waiting writer precedence over new readers).           *)
(***************************************************************************)
ReadersMayPass(s) ==
    \/ "aborted" \in closed[room[s]]
    \/ stopper[room[s]]["abort"] # "holding"

Fairness ==
    /\ \A s \in Sessions :
        /\ WF_vars(SessionStep(s))
        /\ WF_vars(LeaveEndedRoom(s) /\ ReadersMayPass(s))
        /\ \A k \in Kinds : WF_vars(SliceStep(s, k))
        /\ \A k \in Kinds : WF_vars(IsDone(s) /\ SliceEnds(s, k))
    /\ \A g \in Rooms :
        /\ WF_vars(AbortStep(g))
        /\ \A b \in Stoppers : WF_vars(StopStep(g, b))

FairSpec == Spec /\ Fairness

----------------------------------------------------------------------------
(* Type invariant: every variable has the shape its Go declaration gives   *)
(* it (interaction.go:30-67, peer_server.go:28-44).                        *)
TypeOK ==
    /\ storeMutex \in Sessions \union {None}
    /\ index \in Rooms \union {None}
    /\ created \in 0..MaxRooms
    /\ mutex \in [Rooms -> Sessions \union {None}]
    /\ connectedIndex \in [Rooms -> [Users -> {"never", "yes", "no"}]]
    /\ peerServerIndex \in [Rooms -> [Users -> Sessions \union {None}]]
    /\ ready \in [Rooms -> BOOLEAN]
    /\ started \in [Rooms -> BOOLEAN]
    /\ deleted \in [Rooms -> BOOLEAN]
    /\ pipelineStartCount \in [Rooms -> Nat]
    /\ inTracksReadyCount \in [Rooms -> Nat]
    /\ outTracksReadyCount \in [Rooms -> Int]
    /\ closed \in [Rooms -> SUBSET Channels]
    /\ stopper \in [Rooms -> [Stoppers -> StopperStates]]
    /\ signaling \in [Rooms -> SignalingStates]
    /\ session \in [Sessions -> SessionStates]
    /\ user \in [Sessions -> Users \union {None}]
    /\ room \in [Sessions -> Rooms \union {None}]
    /\ lateCloses \in [Sessions -> 0..MaxLateCloses]
    /\ starts \in [Sessions -> Nat]
    /\ slice \in [Sessions -> [Kinds -> SliceStates]]
    /\ panicked \in BOOLEAN

(* No channel is closed twice, whichever goroutines meet: a second close   *)
(* would panic and take every interaction of the server down               *)
(* (close at interaction.go:284, 291, 294 and 350).                        *)
NoDoubleClose == ~panicked

(* Why that is so: where the countdown goroutines are, what the counters   *)
(* say and which channels are closed are three views of the same history.  *)
HasClosed == {"clearing", "sleeping", "marking", "unindexing", "ended"}

CountdownInv ==
    \A g \in Rooms :
        /\ stopper[g]["abort"] \in HasClosed <=> "aborted" \in closed[g]
        /\ stopper[g]["graceful"] \in HasClosed <=> "done" \in closed[g]
        /\ stopper[g]["graceful"] # "none" <=> started[g]
        /\ started[g] <=> "started" \in closed[g]
        /\ started[g] => "ready" \in closed[g]

CountInv ==
    \A g \in Rooms :
        /\ "ready" \in closed[g] => inTracksReadyCount[g] >= neededTracks
        /\ g > created => stopper[g]["abort"] = "none"

SessionInv ==
    \A s \in Sessions :
        /\ session[s] \notin {"idle", "joining", "refused"} => room[s] \in Rooms
        /\ \A k \in Kinds :
            /\ slice[s][k] # "none" => HasPeerServer(s)
            /\ slice[s][k] \in {"outcounting", "bound", "running", "ended"} =>
                    "ready" \in closed[room[s]]

IInv == TypeOK /\ CountdownInv /\ CountInv /\ SessionInv /\ NoDoubleClose

(* However users join, leave, come back and are disconnected by late       *)
(* closes, a room never gets to know more users than its size              *)
(* (interaction.join, interaction.go:212-239).                             *)
Capacity == \A g \in Rooms : Cardinality(KnownUsers(g)) <= Size

\* ... which is inductive with: a room that was not created yet knows nobody and
\* is not indexed.
CapacityInv ==
    /\ Capacity
    /\ index <= created
    /\ \A g \in Rooms : g > created => KnownUsers(g) = {}

\* The slices that carry media for a room.
Carrying(g) ==
    {sk \in Sessions \X Kinds :
        room[sk[1]] = g /\ slice[sk[1]][sk[2]] \in {"bound", "running"}}

(* The counter that decides when to renegotiate is balanced over every     *)
(* exit: it is the number of slices that carry media for the room          *)
(* (incOutTracksReadyCount and decOutTracksReadyCount).                    *)
OutTracksBalanced == \A g \in Rooms : outTracksReadyCount[g] = Cardinality(Carrying(g))

\* The sessions that joined for a user and have still to run disconnectUser.
Members(g, u) ==
    {s \in Sessions : /\ room[s] = g /\ user[s] = u
                      /\ session[s] \in {"joined", "abandoned", "connected", "closing"}}

(* A user marked connected can always be released: one of the sessions     *)
(* that joined for her has still to run disconnectUser, except where the   *)
(* peer connection could not be made (interaction.go:225, 234, 441).       *)
NoGhostUser ==
    \A g \in Rooms : \A u \in ConnectedUsers(g) : Members(g, u) # {}

LiveSessions(g, u) == {s \in Members(g, u) : session[s] \in {"joined", "connected"}}

ClosedLate(g, u) == \E s \in Sessions : room[s] = g /\ user[s] = u /\ lateCloses[s] > 0

(* README "error-duplicate": two live sessions of one user in one room     *)
(* only ever come from a close that was repeated (peer_server.go:260-261). *)
DuplicatesNeedLateClose ==
    \A g \in Rooms, u \in Users :
        Cardinality(LiveSessions(g, u)) <= 1 \/ ClosedLate(g, u)

\* ... which is inductive with: without such a close a user who has a session left
\* is marked connected, so that nobody else is admitted for her.
MembersInv ==
    /\ NoGhostUser
    /\ \A g \in Rooms, u \in Users :
        \/ ClosedLate(g, u)
        \/ /\ \A s, t \in Members(g, u) : s = t
           /\ Members(g, u) # {} => connectedIndex[g][u] = "yes"
    /\ \A s \in Sessions : session[s] \in {"idle", "joining"} => lateCloses[s] = 0

(* Nobody waits for the beginning of a room that runs: a live session whose *)
(* audio track was taken in has been told to start, by start() or as a     *)
(* reconnecting peer.  It is missed only when a repeated close removed it  *)
(* from peerServerIndex, or when two tracks were counted past the exact    *)
(* number that incInTracksReadyCount tests (interaction.go:280, 331).      *)
StartIsAnnounced ==
    \A s \in Sessions :
        session[s] = "connected" /\ started[room[s]] /\ slice[s]["audio"] # "none" =>
            \/ starts[s] > 0
            \/ inTracksReadyCount[room[s]] > neededTracks
            \/ slice[s]["audio"] = "counting"
            \/ \E t \in Sessions :
                room[t] = room[s] /\ user[t] = user[s] /\ lateCloses[t] > 0

(* A room is marked deleted only when a countdown has ended it, or by the  *)
(* step that leaves it without a connected user before it is ready         *)
(* (interaction.go:302, 448-453).                                          *)
HasEnded(g) == closed[g] \intersect {"aborted", "done"} # {}

DeletionJustified ==
    [][\A g \in Rooms : deleted'[g] /\ ~deleted[g] =>
        \/ HasEnded(g)
        \/ ~ready[g] /\ ConnectedUsers(g)' = {}]_vars

----------------------------------------------------------------------------
(* The three ways the locking can stop the world: join holds the store     *)
(* mutex and waits for the room's, disconnectUser the other way round; the *)
(* abort goroutine returns without giving its read lock back; and a        *)
(* signaling waits for the write lock while it has the read lock.          *)
LockCycle ==
    /\ storeMutex # None
    /\ index # None
    /\ mutex[index] # None

\* A reader never leaves the room's mutex.
ReaderStays(g) == stopper[g]["abort"] = "holding" \/ signaling[g] = "hanging"

Frozen == LockCycle \/ \E g \in Rooms : ReaderStays(g)

\* The mutex of the room is held for good.
Stuck(g) == (LockCycle /\ index = g) \/ ReaderStays(g)

(* The locks never recover.  A goroutine in join and one in disconnectUser *)
(* that wait for each other keep the store from every user of every room,  *)
(* and a read lock that is never given back keeps a room from its own:     *)
(* nobody enters or leaves it, no track is counted and it does not start,  *)
(* whatever the other countdown, late closes and reconnecting users still  *)
(* do (interaction_store.go:28-45, interaction.go:305-315, 425-453,        *)
(* mixer.go:50-61).                                                        *)
FrozenForever ==
    [][ /\ LockCycle => LockCycle' /\ UNCHANGED storeVars
        /\ \A g \in Rooms : Stuck(g) =>
            /\ Stuck(g)'
            /\ UNCHANGED <<connectedIndex[g], peerServerIndex[g], started[g]>>
            /\ UNCHANGED <<pipelineStartCount[g], inTracksReadyCount[g], outTracksReadyCount[g]>>
      ]_vars

\* Which goroutine has which mutex: join that of the store, disconnectUser the
\* room's while it waits for the store.
HolderInv ==
    /\ storeMutex # None =>
        session[storeMutex] = "joining" /\ (index = None => created < MaxRooms)
    /\ \A g \in Rooms : mutex[g] # None =>
        session[mutex[g]] = "unindexing" /\ room[mutex[g]] = g
    /\ \A s \in Sessions :
        /\ session[s] = "joining" => storeMutex = s
        /\ session[s] = "unindexing" => mutex[room[s]] = s

JoinCanReturn(s) ==
    /\ session[s] = "joining"
    /\ IF index = None THEN created < MaxRooms ELSE Unlocked(index)

UnindexCanReturn(s) == session[s] = "unindexing" /\ storeMutex = None

(* The store's mutex and the rooms' stop in no other way, as far as the    *)
(* goroutines modelled here go: whenever one is held and the locks are not *)
(* frozen, a goroutine that holds one can go on and give it back, however  *)
(* many rooms and users there are (interaction_store.go:28-52,             *)
(* interaction.go:212-239, 425-453).                                       *)
LocksMove ==
    storeMutex # None \/ (\E g \in Rooms : mutex[g] # None) =>
        Frozen \/ \E s \in Sessions : JoinCanReturn(s) \/ UnindexCanReturn(s)

(* A join is answered, unless the mutex of the room it finds under the id  *)
(* is held for good, in one of the three ways (interaction_store.go:28).   *)
JoinAnsweredUnlessFrozen ==
    \A s \in Sessions : session[s] = "joining" ~>
        (session[s] # "joining" \/ (index # None /\ Stuck(index)))

(* Every room is deleted in the end, even where its locks freeze: it is    *)
(* aborted, it ends, or it is left empty before it was ready.  One kind of *)
(* room escapes: its tracks were all there, which stops the abort timer,   *)
(* but it never starts (interaction.go:267-325, 348-354, 448-453).         *)
RoomsAreReclaimed ==
    \A g \in Rooms : created >= g ~>
        (deleted[g] \/ []("ready" \in closed[g] /\ ~started[g]))

(* Unless the locks freeze, an aborted or finished room is marked deleted  *)
(* and every peer server in it is closed (interaction.go:288-303,          *)
(* peer_server.go:319-334).                                                *)
EndedRoomsAreEmptied ==
    \A g \in Rooms : HasEnded(g) ~>
        ( Frozen \/ (/\ deleted[g]
                    /\ \A s \in Sessions : room[s] = g => session[s] # "connected"))

(* A slice that has been counted out does not stay behind a peer that is   *)
(* gone, unless the locks freeze or the other track of its pipeline never  *)
(* comes (mixer_slice.go:206-282).                                         *)
RunningSlicesEnd ==
    \A s \in Sessions, k \in Kinds :
        (slice[s][k] = "running" /\ IsDone(s)) ~> (slice[s][k] = "ended" \/ Frozen)
----------------------------------------------------------------------------
(* What comments and the README say of the program and the code does not   *)
(* do: each is refuted by a run of its own.                                *)

(* README.md:59 "error-duplicate" "when a user with same userId is already *)
(* connected": a user never has two live sessions in one room.             *)
NoDuplicateSession ==
    \A g \in Rooms, u \in Users : Cardinality(LiveSessions(g, u)) <= 1

(* mixer_slice.go:215 "first pipeline started starts the interaction",     *)
(* even where no connection of the room fails under a signaling.           *)
StartedPipelineStartsRoom ==
    \A s \in Sessions, k \in Kinds :
        (slice[s][k] = "bound" /\ PipelineStarted(s)) ~>
            \/ slice[s][k] = "running"
            \/ \E g \in Rooms : signaling[g] = "hanging"
============================================================================
