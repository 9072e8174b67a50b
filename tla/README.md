# DuckSoup in TLA+

DuckSoup is a videoconferencing server for experiments: a Go SFU (selective forwarding unit)
that passes the tracks of every user through a GStreamer pipeline, where effects are applied
and recordings made, before it sends them to the others. This directory holds TLA+ modules
that model its core logic, the configurations that check them with TLC, and theorems about
them proved with TLAPS. Line numbers are those of the files under `src/`.

## 1. The system

### Components

| component | source | state | operations |
|---|---|---|---|
| interaction store | `sfu/interaction_store.go` | a mutex, a map from ids to interactions | `join`, `delete` |
| interaction | `sfu/interaction.go` | an RW mutex; who ever joined and who is connected (`connectedIndex`), the peer servers (`peerServerIndex`); `ready`, `started`, `deleted`; three counters; channels `readyCh`, `startedCh`, `abortedCh`, `doneCh`; an abort timer | `join`, `connectPeerServer`, `disconnectUser`, `incInTracksReadyCount`, `inc/decOutTracksReadyCount`, `start`, `abortCountdown`, `gracefulCountdown`, `stop`, `unguardedDelete`, `runMixerSliceFromRemote` |
| peer server | `sfu/peer_server.go` | a mutex, `closed`, `doneCh`, its pipeline, its interpolators | `RunPeerServer`, `loop`, `close`, `controlFx`, `updateTracksAndShareOffer`, `shareOffer` |
| peer connection | `sfu/peer_conn.go` | pion's peer connection | callbacks: tracks, candidates, connection states, negotiation needed; PLI requests |
| websocket connection | `sfu/ws_conn.go` | a mutex, a socket | `readJoin`, `receive`, `send`, `sendWithPayload` |
| mixer | `sfu/mixer.go` | an RW mutex, the slices by track id | `indexMixerSlice`, `removeMixerSlice`, `managedSignalingForEveryone`, `dispatchInteractionPLI` |
| mixer slice | `sfu/mixer_slice.go` | a mutex, byte counters, sender controllers, `doneCh` | `loop`, `close`, the RTCP, encoder, statistics and plot loops |
| sender controller | `sfu/sender_controller.go` | target bitrates of one sender | loss and GCC feedback |
| pipeline | `gst/pipeline.go`, `gst/pipeline_store.go`, `gst/gst.c`, `gst/go_called_from_c.go` | outputs, `RecordingFiles`, `startedCh`, `stoppedCount`, the GStreamer element and its bus, the pipeline store | `BindTrackAutoStart`, `start`, `updateRecordingFiles`, `Stop`, `PushRTP`, `PushRTCP`, `SetFxPropFloat`, `SetFxPolyProp`, `bus_callback`, `stop_pipeline`, `writeTo` |
| pipeline templates | `gst/template.go`, `gst/media_options.go`, `config/pipelines` | none: text made from the join payload | the choice of a template, its filesinks |
| engine | `engine/engine.go`, `engine/options.go` | a channel with the bandwidth estimator | the configuration of a connection, step by step |
| linear interpolator | `sequencing/linear_interpolator.go` | a ticker, a channel | its goroutine, `Stop` |
| ssrc index | `store/ssrc_index.go` | a locked map | add, get, remove |
| browser client | `front/src/js/lib/ducksoup.js` | its peer connection, stream, pending candidates, intervals, `startedRTC`, `stopped` | `start`, `stop`, a handler per message, the bitrate ramp |
| everything else | `server`, `env`, `config`, `iceservers`, `logger`, `helpers`, `plot`, `stats`, `frontbuild`, `front` | start-up configuration, pages | |

### How they interact

A websocket runs `RunPeerServer`: it waits for the join message, calls `interactionStore.join`
(which holds the store mutex while it takes the interaction's), makes a peer connection and
a peer server, and then reads messages. A track that arrives runs `runMixerSliceFromRemote` in
a goroutine of its own: it counts itself in, waits until all tracks of the interaction are
there or it is aborted, counts itself out, binds to the pipeline, waits until this started,
calls `interaction.start` and forwards media until its peer is done. Two goroutines per
interaction wait for timers, one to abort it when it does not become ready, one to end it.
`interaction.stop` closes a channel that every peer server listens to and, three seconds later,
deletes the interaction without its mutex. A peer server may be closed from many sides: its
websocket's reads and writes, its peer connection's state callback, a message, the end of the
interaction; each of these calls disconnects its user. GStreamer calls back from its streaming
threads (samples) and from the GLib main loop (bus messages).

### What is hard

* Mutexes (store, interaction, mixer, peer server, websocket) are taken inside one another, in
  both orders in one case; one lock is not given back on one path, another is waited for by its own holder.
* `stop` works without the mutex, and checks are separated from what they justify
  (`abortCountdown`, `incInTracksReadyCount`).
* Everything that goes by user id (`disconnectUser`, `delete`) may meet a later
  session or a later interaction of the same name.
* A second close of a channel panics, and nothing recovers a panic: one interaction would take
  the others down.
* Two slices share a pipeline without its mutex, C code frees it from another thread.
* Several control requests for one effect share an index entry, and interpolators stop themselves.
* Two tables, in Go and in the templates, must agree on which files a page's options produce.
* Nothing can be assumed of browsers: they leave, reload, and never send the second track.
* The player's handlers and timers wait for the user and for its connection, and go on after it was stopped or
  after their next tick.

### What makes each component correct

* Interaction: never more users than places; it becomes ready, starts and ends in this order;
  what is deleted was aborted, ended or left empty; the counters count what they say; whoever is
  there is told to start; everything ends and is released, and joins are answered.
* Pipeline: started once, after both outputs are bound; fed only while it plays; stopped after
  both slices; its callbacks find their pipeline and output; released once, and finally. The files
  it announces are those it writes.
* Effect control: the property has, in the end, the value last asked for; requests return.
* Mixer and signaling: every connected peer is finally offered exactly the tracks of the others,
  and no offer is made over a pending one.
* Bitrate control: targets stay within the configured limits, whatever the feedback.
* Player: one connection and one request for the camera; offers are answered, candidates kept;
  what it holds is released when it ends, and the server hears of it.

## 2. Modules

| module | models | contains |
|---|---|---|
| `Interaction` | store, interaction, life of the peer servers and of their slices | state machine and its properties |
| `InteractionProofs`, `MembersProofs` | | theorems about its safety and its locks |
| `RoomLifecycle` | what an interaction id promises to its users | abstract specification |
| `InteractionLifecycle` | how `Interaction` implements it | refinement mapping |
| `LifecycleProofs` | | the theorem that it does |
| `MCInteraction` | | the symmetry set for TLC |
| `Recording` | from the options of a page to the files of its recording: player, join payload, templates, `updateRecordingFiles` | operators, no state |
| `Pipeline` | one peer's pipeline with its two slices, the GLib main loop, the store, the files | state machine and its properties |
| `PipelineProofs` | | theorems about its safety and its files |
| `MCPipeline` | | the pages that TLC tries |
| `Signaling` | the mixer, the offers of the peer servers, their websockets and the locks held meanwhile | state machine and its properties |
| `SignalingProofs` | | theorems about its safety and its locks |
| `FxControl` | the requests for one effect property and their interpolators | state machine and its properties |
| `FxControlProofs` | | theorems about its safety |
| `Player` | one player in a browser, its websocket, and the handshake and loop that serve it | state machine and its properties |
| `Negotiation` | what a peer server and a player promise each other about offers | abstract specification |
| `PlayerNegotiation` | how `Player` implements it | refinement mapping |
| `PlayerProofs` | | theorems about the safety of `Player`, and that it implements `Negotiation` |
| `BitrateControl` | the sender controllers of the video slices and the encoder loops that follow them | state machine and its properties |
| `BitrateControlProofs` | | theorems about its safety |

An operator `X_Variant` placed just before `X` is a plausible slip in the code of `X`; each
property is known to be refuted by at least one of them, so that none holds by accident.

### Interaction

One id is modelled. Its successive interactions are *rooms* (`1..MaxRooms`), its websockets
*sessions* (`1..MaxSessions`), one user may own several. Variables carry the names of the Go
fields; `session`, `slice` and `stopper` are the places where the goroutines of a session, of a
track and of a countdown are.

What one goroutine does while it holds the interaction's mutex is one action, because every
access to what it changes takes that mutex, with these exceptions, which are split:

* `interactionStore.join` holds the store mutex and waits for the interaction's: `Arrive` takes
  the first, `JoinNew`, `JoinExisting` and `JoinRefused` need the second.
* `disconnectUser` may hold the interaction's mutex and wait for the store's:
  `DisconnectLastUser` takes it (`mutex`), `UnindexEmptyRoom` gives it back.
* `abortCountdown` and `stop` run without it: `CheckReady`, `StopCloses`, `StopClearsReady`,
  `StopTestsDeleted`, `StopMarksDeleted` and `StopUnindexes` are its successive shared accesses.
* `incInTracksReadyCount` has two critical sections, `OnTrack` and `CountInTrack`.

Two read locks may never be given back. The one that `abortCountdown` keeps is the place `"holding"` (`Unlocked` tests
for it). The other is the mixer's: `signaling` says whether a signaling of the room was requested (`RequestSignaling`, in
`BindTrack`) and whether it hangs. `SignalingHangs` stands for all that `Signaling` shows of it in detail: it writes to a peer
whose websocket is gone, closes it, and waits in `disconnectUser` for the mutex that it holds, or it waits for a peer that is in
such a close already. From then on nobody gets the mutex, readers neither, as a writer waits. A signaling that does not
hang gives the lock back, in the same step as far as this module goes.
Timers may fire at any time, which covers every duration; the graceful timer only once it was
started. Later calls of `peerServer.close` are the `"over"` variants of the disconnect actions;
only those that change something count against `MaxLateCloses`. `MaxSignalings` bounds the rooms whose signalings are followed. Left out: SSRCs, recorded
files (see `Pipeline`), remaining times, and what signalings do to the peers (see `Signaling`).

### RoomLifecycle and InteractionLifecycle

`RoomLifecycle` knows no locks, channels, goroutines or tracks: rooms are opened one after the other,
users enter and leave, a room goes through its phases, may be given up, and is deleted. It says what may be
relied on: places are kept by those who leave; a room deleted because it was empty is never entered again,
while one that ended may be, as `join` finds it until it is unindexed; giving up is decided before the room is
ready (or after it ended), and may take effect later, when it is ready by then (this is what the code does, see
6). Under the mapping of `InteractionLifecycle` a phase is the last of three channels that was closed,
"decided" the position of the abort countdown past its check, presence the mark in `connectedIndex`. What it
hides is everything the goroutines do in several steps: the disconnection of the last user, `stop`, and `join`
under the store's mutex each become one abstract step, whose moment the mapping fixes.

### Recording

The options of a page pass through `#parseJoinPayload` (JavaScript), `readJoin` and its defaults (Go); then
two tables decide independently: `newPipelineDef` chooses a template, whose filesinks are read off the
template's text (`SinkFiles`), and `updateRecordingFiles` names the files of the recording (`NamedFiles`).
`NamedSinks` are the filesinks that can be found by name to be given a new location. `"other"` is any value that
nobody expects. Left out: sizes, rates, codecs and the elements between the sinks.

### Pipeline

`slice[k]` walks through `mixerSlice.loop` and `close`, and through `start` and
`gstStopPipeline` when that slice runs them. `output[k]` is a plain field written by one slice
and read by the other; as nothing orders the two, a write may stay in the writer's store buffer
(`"buffered"`) while the writer reads the other field. `state` is the GStreamer element:
`stop_pipeline` is two steps, set to NULL (which ends the streaming threads and flushes the bus)
and release with the removal from the store, run by the main loop (`BusCallback`) or by a slice
(`ForceStop`). `PostError` lets GStreamer fail while it runs. Use after release is undefined
behaviour: the model records who did it and goes on. `interaction.start` is taken to return.
The page is chosen in `Init` from `Setups`, on which `Recording` then works. A file
is a name with the prefix (`filePrefix`) of the moment at which its path was made, since each call makes another:
when the pipeline was parsed, or when one of the slices ran `start`. `SetFxProp` stands for the control requests, which
use the element from goroutines of their own at any time; together with RTCP it is what `misused` calls "anyone". In
recording mode `bypass` media does not go through the pipeline; slices that push nothing cover it. Left out: key
frame requests, encoder rates and the log messages of the bus.

### FxControl

`controlFx` takes the peer server's mutex for one action (`ControlAtOnce`, `ControlOver`), then
consumes; the producer's tick, send and stop are separate steps, and a send is a rendezvous.
A ticker keeps one tick (Go 1.21), even when stopped. Values are abstracted to the
request they are meant for and whether they are its target. The history variables `overlapped`,
`slow` and `staleWrites` only serve the properties.

### Signaling

Only here a *peer* is one `peerServer`; users who come back are later peers with the same owner.
An *agent* is whoever makes an offer: the goroutines of a peer (`newPeerServer`, `loop`, the
callbacks of its connection; they are taken to make one offer at a time) or one call of
`managedSignalingForEveryone` with its retries. `at[a]` is where the agent is in
`updateTracksAndShareOffer`; `cleanOutTracks`, the view of the senders that `prepareOutTracks` takes,
its additions, and the two halves of `shareOffer` (create, set local description) are separate
steps, as nothing but the mixer's mutex, which the goroutines of a peer do not take, keeps other
agents away. pion and the browser are external: pion sets only the last offer it created, and only in
a stable state, refuses to work once closed, and asks once for a negotiation until the next answer; the
browser answers an offer or does not. `mixer` and `reader` are the two mutexes that
`managedSignalingForEveryone` holds together; the critical sections of all others are single steps
that need them free. `ps.close` is `ClosePeerServer` (or `WriteFails`, from within a write) and then
`DisconnectUser`, which waits for the interaction's mutex; a signaling that has to wait for it while
it holds the read lock stays at `"failing"` for ever. Left out: the deletion of
the interaction (which only suppresses signalings), PLI requests, candidates, and the renegotiation that
`disconnectUser` asks for when the interaction is deleted, which does nothing then.

### BitrateControl

A *receiver* is one peer connection of a user; a *controller* is one `senderController`, of a slice
to a receiver. `loop[c]` is where its `loop` waits for the start, `readers` are the ones whose RTCP loop
runs without GCC. With GCC the bandwidth estimator is external: one per connection, it calls the
handler it was given last (pion keeps one), when its target changes and at no other time. `encoder[s]` is
`loopEncoderController`. A tick reads the rates one by one (`ReadRate`), because neither the map nor a
rate is read under a mutex that the writers take, and then sets the target; it goes on when the slice is
done meanwhile, and one more may begin then, as `select` takes either case. Rates are computed in
integers as in the code. Left out: the conversion to kbit/s for H264, a tick that meets an addition to the
map (which Go answers with a fatal error), key frame requests, and audio, whose ticks do nothing.

### Player

The websocket is two sequences of messages, `toClient` and `toServer`; a closure is the last message of
either. Each handler of `ducksoup.js` runs to its next `await` in one action: `handler[n]` is where the
handler of offer `n` is (asking the user, setting the offer, answering), and several may be under way.
`pc`, `created`, `startedRTC`, `stream` and `remoteDescription` are what they share; `ramping` and `polling` are
the intervals that run, `rampInterval` and `statsIntervalId` the one that would be cleared. The interval of
the ramp runs an async function: `RampTick` raises the step and awaits `setParameters`, `RampContinues` comes when that is
done, tests for the last step and clears the interval; `inFlight` counts the ticks in between, of which there may be several,
and `overtaken` notes the ramps that had more than one at a time. The
browser is external: its connection, once closed, refuses tracks and descriptions, and a closed websocket
delivers nothing. On the server `run` is where `RunPeerServer` is, `reader` its reading goroutine, `ps` the peer
server. `estimatorCh` is the channel on which the configured API hands over its bandwidth estimator: `newPionPeerConn`
receives from it whether or not the configuration went far enough to send (`CreatePeerConnection`, `AwaitEstimator`). What the interaction does is reduced to what this player can see of it: the join is admitted or
refused, offers are made (by the goroutines of the peer server or by the mixer, see `Signaling`), the player
is told to start, the interaction ends. A write to a socket that is gone succeeds or closes the peer server;
before there is a peer server it may panic, which ends `RunPeerServer`. A connection that `close` is closing
makes no further offer. Left out: the ids and their sanitising, candidates of the browser, `other_joined`,
`other_left`, `ending` and `files`, which the player only forwards.

### Negotiation and PlayerNegotiation

`Negotiation` knows no websocket, goroutines, handlers or connections: there is one negotiation after the
other; an offer is set, goes to the player, is with her, and its answer comes back, or it is lost on the way and
then holds up all that would follow; the user is asked once, by the first offer, and nothing is
answered before she consents. Under the mapping of `PlayerNegotiation` the negotiation under way is the pending local description of
the peer server, and its place follows from where `Player` has the offer: in an agent that has set and not sent
it, in a queue of the websocket, in a handler that is at one of its awaits, or in no place any more. What it
hides is that any of three goroutines may make the offer, that writing it is a step of its own, the other
messages, and everything that can close in between.

## 3. Runs

All runs have `CHECK_DEADLOCK FALSE`: sessions, requests and slices are bounded and do come to
an end, and a room without anybody left has nothing more to do.

| run | instance | properties | what it shows |
|---|---|---|---|
| `interaction_audio` | 3 users, 3 sessions, 1 late close, an audio room of 2 | `NoDoubleClose` `Capacity` `NoGhostUser` `DuplicatesNeedLateClose` `StartIsAnnounced` `OutTracksBalanced` | more users than places and more sessions than places, so that refusal, reload, duplicate sessions and late closes all meet both countdowns |
| `interaction_live` | 2 users, 2 sessions, 1 late close, 2 successive audio rooms of 2 | `ImplementsLifecycle` `DeletionJustified` `FrozenForever` `JoinAnsweredUnlessFrozen` `EndedRoomsAreEmptied` `RoomsAreReclaimed` `RunningSlicesEnd` | the refinement of `RoomLifecycle`, stop() of an old room against a new one, what each of the three deadlocks stops for good, and liveness under the fairness below |
| `interaction_duplicate` | 2 users, 3 sessions, 1 late close, audio and video | `NoDuplicateSession` | refuted: see 6 |
| `interaction_readlock` | 1 user, a mirror room with audio and video | `StartedPipelineStartsRoom` | refuted: see 6 |
| `pipeline_media` | one pipeline, 18 pages | `MediaMeetsAPlayingPipeline` `CallbacksAreServed` `AnnouncedFilesExist` `RecordedFilesAreAnnounced` `ReleasedOnlyWhenUnused` `PipelineIsDeleted` `SlicesEnd` | the complete state space of every page: every branch of the choice of a template and of `updateRecordingFiles` |
| `pipeline_default` | a page without options | `ForcedByDefault` | refuted: see 6 |
| `fx_transitions` | 3 requests, 1 step before the target | `LoneRequestWins` `StaleWritesBounded` `NoPanicWhenCalm` `ControlFxReturns` | every interleaving of three requests with their producers |
| `signaling_offers` | 2 users with one track each, 3 peers, 2 signalings at a time, 1 peer leaves | `IndexIsStable` `OneOfferAtATime` `NoDoubleSend` `EveryoneIsOffered` | a user leaves and is back while a signaling is under way or is retried, and the next one overlaps it; what a signaling has done when it is through |
| `signaling_live` | 2 users with one track each, 1 signaling, 1 restart of ICE, 1 peer leaves | `DisconnectedUnlessFrozen` `SignalingIsComplete` | liveness: pending offers, lost races and departures do not stop a signaling |
| `signaling_cleanup` | 2 users with one track each, 1 signaling, 1 peer leaves | `CleanupAnyway` | refuted: see 6 |
| `bitrate_video` | 1 slice, 2 users with 2 connections each, limits 200..205 | `TargetWithinLimits` `RatesNeverStall` `EncoderFollowsSlowest` | rates change and controllers are replaced between the reads of a tick, with loss reports and with GCC |
| `player_session` | 2 offers, 1 candidate, 1 step of the ramp | `OneNegotiation` `CandidatesReachPlayer` `NothingOutlivesPlayer` `ImplementsNegotiation` `OffersAreAnswered` `JoinIsSettled` `StopEndsPeerServer` | from the join to the end, with refusals, errors, denied consent, stops and a failing network at every point, and the refinement of `Negotiation` |

The type invariants and the inductive invariants are proved, and spend no property of a run; each was checked by
TLC on the instance of its run before it was proved. The module of `player_session` is `PlayerNegotiation`.

Why the bounds are enough: three sessions are needed, and suffice, for an old session, its
successor and a duplicate; two late closes would only repeat the first; the signaling of each room of
`interaction_live` is followed (`MaxSignalings`), while `interaction_audio` follows none, which halves its states (its invariants
were also checked with the one of its room, over 6.3 million states, and are proved for every number); two rooms give the id
to a successor while the first is being deleted; a size of 2 separates "all tracks" from "some",
a size of 1 is the mirror room with its own rule for starting. The passing runs of
`Interaction` have one kind of track; what is proved of it is proved for both, and its refuted runs have both. Two signalings overlap only when a
user is back, which takes a third peer; a second departure empties the room or repeats the first; with
one restart a peer's own offer crosses the signaling's at each of its steps, while without it only
those of `newPeerServer` and pion do. Three requests are needed for the entry of the
second to be removed by the first and missed by the third; one step before the target gives both
kinds of values. With limits of 200 and 205 one report takes a rate from either to the other, past both;
a third user would add one more read to a tick. The second offer to a player is the one that can meet
the first (a second request for the camera, a crossing answer), a third could only meet its predecessor;
one candidate can come before, between and after them; a ramp of one step ends with its first tick, and misses the end when the
second overtakes it (the safety properties were also checked with 2 and with 4 steps, and are proved for every number). Slices share nothing but the handler of an
estimator, which is why one is enough for these properties (see 6 for several).

## 4. Fairness

Goroutines that can run do run (`WF` of the steps of every session, slice, countdown, producer and
consumer): the Go scheduler is preemptive. Mutexes are handed on: a waiting goroutine is
continuously enabled once the lock is free. That a lock comes free is not assumed: the liveness properties of `Interaction`
except the three ways in which one does not (`Frozen`), and `LocksMove` says that there are no others among the goroutines
modelled. Timers and tickers fire. Nothing is asked of clients and networks:
arrivals, tracks, departures and late closes have no fairness. Two things need a word:

* a slice leaves its main loop once its peer is done (`LeaveLoop`, `SliceEnds`): its `Read`
  returns, since `peerServer.close` closes the peer connection;
* GStreamer carries an EOS event to the bus.

In `Signaling` mutexes are strongly fair: Go's hand over in the order of arrival once a
waiter starves, so that `UpdateSignaling` and `DisconnectUser` get theirs although others keep taking it.
Browsers owe no answer; `SignalingIsComplete` therefore excepts an offer that stays pending
for ever. A peer whose websocket is gone is finally closed by its connection (pion reports
that it is disconnected). The retry of a signaling after 2 s is a step that may come at any time.

In `BitrateControl` the encoder's ticker ticks; receivers owe no report, estimators no target, and the
interaction may never start. `EncoderFollowsSlowest` excepts rates that keep changing.

In `Player` events are dispatched, handlers of offers go on once the user has consented, goroutines run, a join message that
came is read, and an offer that was set is sent. Each of these is one condition for all handlers, goroutines or agents: each
has finitely many steps to take, so that none is starved by the others. Ticks of the ramp, and the senders they wait for, are
promised nothing. `JoinIsSettled` excepts the one wait that nothing
ends (see 6), and takes from `Interaction` that the store and the interaction answer the join: where their locks freeze, they do not. Users owe no consent, the interaction need not end, and no network need fail:
`StopEndsPeerServer` excepts one that does, as then only pion's timeout remains.

In `Interaction` a read lock is promised only while no leaked one lets a waiting writer bar the
readers (`ReadersMayPass`).

## 5. Proofs

Every safety property, action property and refinement of the passing runs is also a theorem, for all values of the
constants. All proofs have the same shape: an inductive invariant whose
conjuncts are named, lemmas that say what a step which leaves some variables alone preserves, one step per action,
and a last temporal step. What follows says why the property alone is not inductive.

### Interaction

For all users, sizes, numbers of rooms, sessions and late closes, from `UsersAssumption` (finitely many users),
`SizeAssumption` (1..8, as `newInteraction` clamps it), `AudioOnlyAssumption` and `BoundsAssumption`:

| module | theorem | property | by |
|---|---|---|---|
| `InteractionProofs` | `TypeCorrect` | `TypeOK` | |
| | `Invariance` | `IInv` | |
| | `NeverPanics` | `NoDoubleClose` | `IInv` |
| | `DeletionIsJustified` | `DeletionJustified` | `IInv` |
| | `CapacityIsRespected` | `Capacity` | `CapacityInv` |
| | `OnlyThisFreezes` | `LocksMove` | `IInv`, `HolderInv` |
| `LifecycleProofs` | `LifecycleInvariance` | | `IInv`, `LifecycleInv` |
| | `FreezeIsForGood` | `FrozenForever` | `IInv`, `LifecycleInv`, `RequestedInv` |
| | `Refinement` | `ImplementsLifecycle` | `IInv`, `LifecycleInv` |
| `MembersProofs` | `NobodyIsAGhost` | `NoGhostUser` | `MembersInv` |
| | `DuplicatesAreLate` | `DuplicatesNeedLateClose` | `MembersInv` |
| | `TracksAreBalanced` | `OutTracksBalanced` | itself, with `IInv` |
| | `StartsAreAnnounced` | `StartIsAnnounced` | `AnnounceInv` |

`NoDoubleClose` is not inductive: that a channel is not closed twice follows only from where
the countdown goroutines are and from what the counters say. `IInv` adds

* `CountdownInv`: a countdown goroutine has passed its `close` exactly when its channel is
  closed, the graceful one exists exactly when the room started, and started means that
  `startedCh` is closed, after `readyCh`;
* `CountInv`: once `readyCh` is closed the count of tracks has reached the needed number, so
  that the equality which closes it is never met again; a room that was not created has no
  countdown;
* `SessionInv`: a slice past the wait belongs to a peer server whose room is ready, which is why
  starting follows readiness.

`Capacity` needs finite sets: the users known to a room grow by at most the joining one, and
only when there are not already `Size` of them; it is inductive together with the fact that the
indexed room was created and that a room not yet created knows nobody (`CapacityInv`).
`DeletionJustified` follows per step from `IInv`: stop() marks a room deleted from a place after its `close`,
so that the room has ended.

The locks have two theorems, one the converse of the other. They are about three ways to freeze: `join` and `disconnectUser`
wait for each other (`LockCycle`), `abortCountdown` leaves its read lock behind, a signaling waits in the close of a peer
for the mutex that it holds. `FreezeIsForGood`: once one of these has happened, no later step changes who is in the stuck
room, what it has counted and whether it started, nor (for the cycle) the store. It needs that no room is opened twice and
that a signaling is requested in rooms that exist only (`RequestedInv`), so that `JoinNew`, which needs no mutex of a room,
leaves a stuck one alone; this is why it is in `LifecycleProofs`. `OnlyThisFreezes`: unless one of them has happened, one of
the goroutines that hold a mutex has a step to take. `HolderInv` says for it which goroutine has which mutex and where it is.
The three are thus all the deadlocks of the goroutines of this module: join, the countdowns, disconnection, the counters and
the signaling seen from outside. It says nothing of mutexes that are not in the module (those of a mixer, a peer server
or a websocket are in `Signaling`, as far as offers and closes take them). `LocksMove` is no property of a run; TLC checked it on
the instances of `interaction_live` and `interaction_audio` before it was proved.

The refinement is proved action by action: each either is a stutter of the abstract room or the one abstract step the
mapping fixes. What it needs beyond `IInv` is `LifecycleInv`: a room that was marked deleted before it ended is
locked for as long as it is indexed, so that nobody can enter it in between; and the flag `ready`, which `join`
and `abortCountdown` look at, agrees with the closed channels up to the end of the room, although `stop` clears it
without the mutex. Only the newest room is ever indexed.

`NoGhostUser` says that for each user marked connected some session has still to disconnect her; the disconnection of one of
two sessions would break it, so that `MembersInv` adds that there are not two unless a close was repeated.
`OutTracksBalanced` is a cardinality argument: each action adds or removes at most one slice of those that carry media.
`StartIsAnnounced` rests on the fact that a connected session is the one that `peerServerIndex` gives
for its user (`IndexedAt`), as start() goes through that index.

### Pipeline

For every set of pages (`SetupsAssumption`: options the type allows):

| theorem | property |
|---|---|
| `PipelineInvariance` | `PipelineInv`, the inductive invariant |
| `PipelineTypes` | `TypeOK` |
| `MediaIsPlayed` | `MediaMeetsAPlayingPipeline` |
| `CallbacksFindTheirs` | `CallbacksAreServed` |
| `ReleasedOnce` | `ReleasedOnlyWhenUnused` |
| `NeverPlaysAgain` | `ElementGoesForward` |
| `AnnouncedFilesAreThere` | `AnnouncedFilesExist` |
| `RecordingsAreAnnounced` | `RecordedFilesAreAnnounced` |

`StopInv`: `stoppedCount` is the number of slices past `Stop`, and the one that goes on into `gstStopPipeline` is the last;
`OutputInv`: the pipeline leaves its parsed state only when both outputs are written; `StateInv`: unless GStreamer
failed, the element is drained, set to NULL and released only after all slices have passed `Stop`, and by either the main
loop or the forcing slice, not both. `NeverPlaysAgain` is the same invariant seen from a step: a slice that is late in `start`
has not stopped, so that the other cannot have stopped the element (no property of a run; checked by TLC on the instance of
`pipeline_media` first).

The files need both halves of the module. `FilesInv` follows the two slices: before either has run `updateRecordingFiles`
nothing is named; while one is between that and `close(startedCh)` alone, or has been, the recording files and the locations
of their sinks have the same prefix, the one that it made; when both run it, what is named is left open, as one of them then panics. Lemmas
about `Recording` compare the two tables, template by template and mode by mode: what is named is written
(`NamedAreWritten`) and what is written is named (`WrittenAreNamed`), but for the exceptions of the properties. They hold
for all pages that the type allows, of which the run has 18.

### FxControl

For any number of requests and of ticks (`RequestsAssumption`, `StepsAssumption`):

| theorem | property |
|---|---|
| `FxTypes` | `TypeOK` |
| `StoppedWritesOnce` | `StaleWritesBounded` |
| `CalmNeverPanics` | `NoPanicWhenCalm` |
| `LastTargetIsSet` | `LoneRequestWins` |

`FxInv` has one part for each, which holds under that property's own condition: a closed interpolator delivers nothing, so
that only the value its consumer already held can still be set (`StoppedInv`, `StaleInv`); without overlap and slowness
one is closed only by itself, after its last tick (`CalmInv`); without overlap all but the last request have
returned, and the last has delivered its target by the time it is closed (`LoneInv`).

### Signaling

For every size from 1 to 8, any kinds of tracks, peers, signalings, restarts and departures:

| theorem | property |
|---|---|
| `SignalingTypes` | `TypeOK` |
| `NobodyLeavesMidway` | `IndexIsStable` |
| `OffersNeverCross` | `OneOfferAtATime` |
| `TracksAreSentOnce` | `NoDoubleSend` |
| `SignalingsAreComplete` | `EveryoneIsOffered` |
| `FreezeIsForGood` | `FrozenForever` |
| `OnlyThisFreezes` | `LocksMove` |

`LockInv`: the signaling that visits peers is the one that has both mutexes, and whoever it visits or has still to
visit is in the index. `WsInv`: an agent writes to a websocket that is gone only if its peer is being closed.
`SendersInv`: what a signaling is about to add was added by no other, since it has held the mixer's mutex since it
looked. `CountInv` (the counter of tracks is the number of those counted) gives the counter its type.

`EveryoneIsOffered` is the safety half of `SignalingIsComplete`. Its invariant, `OfferedInv`, follows a signaling through a visit
(`VisitInv`: what it has found to be sent already is still sent and still there, after its additions exactly the wanted tracks
are sent, and the offer it created has these unless another agent has created one since, in which case pion will refuse it)
and keeps what it has left behind (`DoneInv`: the peer's own goroutines may prepare tracks and make offers
afterwards, but find nothing to add, and any offer of theirs has the same tracks). It rests on the mixer's mutex, which
keeps the slices, and on the read lock, which keeps the peers.

`FreezeIsForGood` and `OnlyThisFreezes` are about the locks as in `Interaction`: a signaling that is stuck in the close of a
peer, or behind one, stops the interaction for good, and among signalings, offers and closes nothing else does. The other two
ways to freeze the interaction's mutex need `join` and `abortCountdown`, which are not in this module; `DisconnectedUnlessFrozen`
takes them not to happen. Both were checked by TLC on the instance of
`signaling_offers` before they were proved, and are no properties of a run.

### Player

For any number of offers, of candidates and of steps of the ramp (`BoundsAssumption`, `StepsAssumption`):

| theorem | property |
|---|---|
| `PlayerInvariance` | `PlayerInv`, the inductive invariant |
| `PlayerTypes` | `TypeOK` |
| `OneConnection` | `OneNegotiation` |
| `NoCandidateLost` | `CandidatesReachPlayer` |
| `StoppedPlayerIsQuiet` | `NothingOutlivesPlayer` |
| `PlayerNegotiates` | `ImplementsNegotiation` |

The websocket has two unbounded sequences, of which lemmas say what taking and adding a message does to the set of messages,
to their being there once and to their order. `OfferInv`: the pending offer is unsent, on its way, handled or
answered, and in one of these places only; `ConsentInv`: as long as the user has not consented the first offer stays pending, so
that no second handler runs `#startRTCOnce`; `CandidateInv`: while there is no connection and the first offer is the peer
server's own, an offer is ahead of every candidate; `StopInv` and `TimerInv`: what stop() finds to close, and that until
the other start is told the interval it clears is the one that runs. `TimerInv` also follows the ticks of a ramp: if none has
overtaken another, at most one is in flight, and it is that of the last step once the step is the last; so the ramp is cleared
before another tick can raise the step past it.

The refinement is proved action by action. What makes the mapping a function of the state is `OnePlace`: an offer is in at most
one of the places, and in one of them only if it is pending (from `OfferInv`). Most actions leave the
offer where it is (`Frame`); of these the ones that close something may take the last place away from it, which is
`Lose` (`FrameNegotiation`). The others are one step of `Negotiation` each.

### BitrateControl

`BitrateControlProofs` proves, for all slices, users, connections, reports and estimates, and all limits
with `20 <= MinBitrate <= DefaultBitrate <= MaxBitrate` (`BitrateAssumption`; below 20 the factor 269/256
would be lost in the integer division; the configuration has 150000):

| theorem | property |
|---|---|
| `Invariance` | `IInv`, the inductive invariant |
| `TypeCorrect` | `TypeOK` |
| `LimitsAreKept` | `TargetWithinLimits` |
| `RatesMove` | `RatesNeverStall` |

`TargetWithinLimits` needs `TickReads`: a tick that has nothing left to read has read some rate, because it
began with a controller in the index and controllers are replaced but never removed. `RatesMove`
rests on two lemmas about the integer arithmetic, `LittleLossGrows` and `MuchLossShrinks`.

### TLC alone

* Everything temporal but the refinements and the action properties (the liveness of `interaction_live`, `signaling_live`,
  `pipeline_media`, `fx_transitions`, `bitrate_video` and `player_session`): ENABLED and fairness are out of the prover's reach.

## 6. Where the code and its words disagree

Each is a run whose property is what a comment or the project's README says, refuted by a
behaviour of the code.

* `StartedPipelineStartsRoom`: `abortCountdown` keeps its read lock when it finds the room ready.
* `NoDuplicateSession`: a repeated close of an old session disconnects the new session of the
  same user; a third is then admitted next to it.
* `ForcedByDefault`: the default recording mode is `muxed` (`defaults.go:6`), which the templates record like `forced`
  but `updateRecordingFiles` does not know: nothing is announced.
* `CleanupAnyway`: `updateSignaling` holds the interaction's read lock while it writes offers; a
  write that fails calls `close`, whose cleanup locks the same mutex for writing in the same
  goroutine. It never returns, and neither does anybody else who needs that mutex: among them `join`, which holds the
  mutex of the store meanwhile, so that nobody can join any other interaction either (`Interaction` has it as
  `SignalingHangs`).

Others can be read off the modules, without a run of their own:

* `join` (store, then interaction) and `disconnectUser` (interaction, then store) wait for each other, and no
  id can be joined any more (an exception of `JoinAnsweredUnlessFrozen`).
* A player that is stopped while its user is asked for the camera turns it on when she consents, and nothing turns it
  off (`late`, an exception of `NothingOutlivesPlayer`), against README.md:145 on `stop()`.
* A player that is told to start twice keeps two ramps and one id: the first ramp's last step clears the second,
  and the first goes on past the last step, beyond the maximal bitrate (an exception there too).
* A ramp tests for its last step only after it has waited for `setParameters` (`ducksoup.js:214-216`), and by equality: when
  the wait outlasts the interval, or a sender refuses its parameters, the end is missed, and the ramp raises the bitrate
  past `MAX_VIDEO_BITRATE` at each further tick until the player stops (`overtaken`, another exception).
* "start" may come before the first offer: the ramp then has no connection, and throws at each tick (`blind`).
* A candidate that overtakes the first offer, which the mixer's signaling can send while `newPeerServer`
  attaches the callbacks, meets no connection and is lost (an exception of `CandidatesReachPlayer`). Those
  gathered before the callbacks are attached are never sent (`"unheard"`).
* `send` closes `ws.ps` when a write fails, which is nil before `connectPeerServer`: `RunPeerServer` panics and
  leaves the admitted user connected (`JoinRoom`); the comment at `ws_conn.go:221` recommends `rawSend` there.
* A join message that comes too late leaves its reader at an unbuffered channel for ever (`JoinTooLate`).
* A first message that cannot be read gets no answer (`ws_conn.go:136`), and neither does a join of which a field other than
  the ids has a wrong type: `readJoin` then returns the error of `json.Unmarshal` without a word (`ws_conn.go:145-175`), while
  README.md:58 announces "error-join". A payload of which nothing can be parsed leaves the ids empty and is told.
* `NewWebRTCAPI` only logs an error of `configureAPIOptions`; when that fails before the interceptors are registered nobody sends
  the estimator, and `RunPeerServer` waits for ever with its user admitted (an exception of `JoinIsSettled`).
* A connection whose `prepareInTracks` fails is not closed.
* Mode `direct` is not excluded from recording or effects: `newPipelineDef` falls through to the muxed template, and
  `direct.gtpl` is never chosen, although README.md:92 says neither is done; mode `bypass` opens files that stay empty.
* The filesinks of `audio_only.gtpl` have no name: an audio-only peer announces files under a prefix that they never get
  (an exception of both file properties), against the comments at `pipeline.go:92` and `205`.
* `DUCKSOUP_NO_RECORDING` changes the template and not what is announced (an exception of `AnnouncedFilesExist`).
* In mode `split` one effect makes both wet files announced, and only its own written (another exception).
* Control requests use the pipeline whatever has become of it, also after it was unreferenced (`SetFxProp`).
* A websocket that is closed normally, and an answer that is refused, end `loop` without `close`; the
  peer server then waits for its connection to fail.
* `start` counts slices, not pipelines (`interaction.go:275`), so that the two tracks of one user
  start an interaction of size 2, against the comment above it.
* `inTracksReadyCount` is never decremented: a user who reloads before the room is ready is
  counted twice, and the room becomes ready without the others. Past the exact number, no
  reconnecting peer is told to start (an exception of `StartIsAnnounced`).
* `abortCountdown` may abort a room that has become ready since it looked.
* A peer who reconnects between ready and start is told to start twice.
* A pipeline that was not started when its peer ends is never released, and a slice whose
  partner track never comes waits for ever (an exception of `SlicesEnd`).
* A room that is ready, never starts and is left by everybody is never deleted (an exception of
  `RoomsAreReclaimed`).
* `stop` calls `unguardedDelete` without the mutex, which its comment asks for
  (`interaction.go:410`), and may so remove a newer interaction from the index (`StopUnindexes`).
* Both slices of a peer may start its pipeline (`pipeline.go:198`): `filePrefix` is then called a
  third time, and `startedCh` is closed twice, a panic (`panicked` in `Pipeline`).
* A value under way to an old target is set after a newer request (`LoneRequestWins` excepts
  requests that overlap).
* `newPeerServer` prepares tracks without the mixer's mutex: it may add a track that a signaling adds
  too, in spite of "don't double send" (excepted by `NoDoubleSend`), and reads a Go map
  that others write.
* `disconnectUser` renegotiates only when the interaction is deleted, the opposite of its comment,
  and the renegotiation then does nothing: tracks of a leaver stay until the next one.
* `updateSignaling` stops at the first peer that has a pending offer: a browser which never answers
  keeps the tracks from all peers behind it (an exception of `SignalingIsComplete`).
* With one track per user, `incOutTracksReadyCount` asks for a signaling only at even counts: in an
  interaction of three, all but one gone, one who is back gets no tracks by it when the count is odd.
* With GCC a controller has no rate until its estimator's target changes after the start: the comment
  that "ccOptimalBitrate default value is set by ccEstimator" (`sender_controller.go:39`) does not describe
  the code. As the least rate is then 0, one such controller keeps the encoder of its slice from any
  update (an exception of `EncoderFollowsSlowest`).
* An estimator has one handler, but every video slice sent over its connection sets one: the last one takes
  it (`Listen`), and the controllers of the other slices keep the rate they had, 0 at first.
* The controller of a user who left stays in the index, and its last rate keeps limiting the encoder.
* `loopEncoderController` ranges over a Go map that `addSender` writes, without the mutex.

## 7. What is left

Not done: candidates of the browser in `Player`; an abstract specification of `Pipeline` or `Signaling`; a composition of `Signaling` with
`Interaction`, whose product is beyond TLC (each models of the other what it can see of it: `Signaling`
the mutex of the interaction and its index, `Interaction` the counters).

Not modelled, and why:

* HTTP routes, environment, logging, TURN credentials, asset building, test and statistics pages: start-up and pure
  input or output, no protocol state.
* In `FxControl` the mutex of the peer server is taken to come free. It does not when a `close` that holds it is frozen
  (see 6): a request then keeps waiting in its deferred delete, or before it begins.
* Key frame requests: the throttling of `peer_conn.go` is disabled in the code, so that they are stateless messages to a browser.
* The SSRC index: each operation is one critical section, and only the packet dump of the logs reads it.
* Plots and byte counters of a slice: written by one goroutine, read for logs.
* The elements of the templates, media contents, codecs and GStreamer's internals: external. `gst_parse_launch` may
  fail on a template and its error is ignored; the model takes templates to parse.
* Races on Go maps (`loop` at `peer_server.go:398` and `dispatchInteractionPLI` at `mixer.go:97` read `peerServerIndex`, which
  `IndexIsStable` does not cover; `newPeerServer` reads `sliceIndex`, `loopEncoderController` ranges over the controllers): the runtime may answer them with a fatal error, which has no further behaviour to model.
