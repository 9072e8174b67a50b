------------------------------- MODULE Player -------------------------------
(***************************************************************************)
(* One player in a browser (front/src/js/lib/ducksoup.js), its websocket,  *)
(* and what serves it: RunPeerServer and loop of sfu/peer_server.go,       *)
(* readJoin, receive and the writes of sfu/ws_conn.go.                     *)
(*                                                                         *)
(* The websocket is two sequences.  Left out are server messages that the  *)
(* player only forwards, client messages that are only logged, and the     *)
(* candidates of the browser, which follow its answer.  What goes on in    *)
(* the interaction is left to Interaction and Signaling: here it admits or *)
(* refuses, starts, ends, and makes offers.                                *)
(***************************************************************************)
EXTENDS Integers, Sequences

CONSTANTS
    MaxOffers,      \* bound: offers to this player
    MaxCandidates,  \* bound: candidates of the server's connection
    Steps           \* STEPS of rampBitrate

ASSUME BoundsAssumption == MaxOffers \in Nat /\ MaxCandidates \in Nat
ASSUME StepsAssumption  == Steps \in Nat \ {0}

Offers     == 1..MaxOffers
Candidates == 1..MaxCandidates
\* Who sends "start": start() to everybody, incInTracksReadyCount to this player.
Starts     == {"everybody", "oneself"}
\* Who makes offers: the goroutines of the peer server, or the mixer's.
Agents     == {"self", "mixer"}

VARIABLES
    \* the websocket
    toClient, toServer,
    broken,           \* the network has failed
    \* the player
    readyState,       \* "connecting" | "open" | "closing" | "closed"
    stopped, startedRTC,
    pc,               \* the current RTCPeerConnection: "none" | "open" | "closed"
    created,          \* how many there were
    handler,          \* per offer: onmessage, between its awaits
    remoteDescription,\* the offer that was set last, 0 if none
    stream,           \* "none" | "live" | "stopped"
    late,             \* the stream came after everything was released
    candidate,        \* per candidate: where it is
    ramping, polling, \* the starts whose intervals run: rampBitrate, updateStats
    rampInterval, statsIntervalId,
    blind,            \* the ramps that began without a connection
    step,             \* of each ramp, at most Steps + 1
    inFlight,         \* of each ramp: its ticks that wait for setParameters
    overtaken,        \* the ramps with a tick that came before an earlier one was through
    \* the server
    reader,           \* the goroutine of RunPeerServer: "reading" | "sending" | "done"
    estimatorCh,      \* "empty" | "full" | "failed": nobody sends
    run,              \* RunPeerServer, see its actions
    ps,               \* the peer server: "none" | "open" | "closed"
    wsOpen,           \* the server has not closed the websocket
    offers, pendingOffer,
    unsent,           \* per agent: the offer it has set and not sent, or 0
    firstOffer,       \* who made the first offer
    answered,
    told,             \* the starts that were sent
    room              \* "open" | "aborted" | "done"

socketVars == <<toClient, toServer, broken>>
rtcVars    == <<startedRTC, created, handler, remoteDescription, late>>
tickVars   == <<step, inFlight, overtaken>>
timerVars  == <<ramping, polling, rampInterval, statsIntervalId, blind, tickVars>>
releasable == <<pc, stream, ramping, polling, rampInterval, step, inFlight>>
playerVars == <<readyState, stopped, rtcVars, pc, stream, timerVars>>
offerVars  == <<offers, pendingOffer, unsent, firstOffer, answered>>
joinVars   == <<reader, estimatorCh>>
serverVars == <<joinVars, run, ps, wsOpen, offerVars, told, room>>
vars == <<socketVars, playerVars, candidate, serverVars>>

Init ==
    /\ toClient = <<>> /\ toServer = <<>> /\ broken = FALSE
    /\ readyState = "connecting" /\ stopped = FALSE /\ startedRTC = FALSE
    /\ pc = "none" /\ created = 0
    /\ handler = [n \in Offers |-> "none"]
    /\ remoteDescription = 0
    /\ stream = "none" /\ late = FALSE
    /\ candidate = [c \in Candidates |-> "none"]
    /\ ramping = {} /\ polling = {} /\ blind = {}
    /\ rampInterval = "none" /\ statsIntervalId = "none"
    /\ step = [k \in Starts |-> 0]
    /\ inFlight = [k \in Starts |-> 0] /\ overtaken = {}
    /\ reader = "reading" /\ estimatorCh = "empty"
    /\ run = "waiting" /\ ps = "none" /\ wsOpen = TRUE
    /\ offers = 0 /\ pendingOffer = 0
    /\ unsent = [a \in Agents |-> 0]
    /\ firstOffer = "none" /\ answered = FALSE
    /\ told = {} /\ room = "open"

----------------------------------------------------------------------------
(***************************************************************************)
(* The player: its end.                                                    *)
(***************************************************************************)
\* #stopRTC.  It deletes rampInterval: a tick in flight has nothing left to clear,
\* and nobody reads the step of a ramp that is cleared.
StopRTC_KeepsStream ==
    /\ ramping' = ramping \ {rampInterval}
    /\ rampInterval' = "none"
    /\ inFlight' = [k \in Starts |-> 0]
    /\ step' = [k \in Starts |-> IF k \in ramping' THEN step[k] ELSE 0]
    /\ polling' = polling \ {statsIntervalId}
    /\ pc' = IF pc = "open" THEN "closed" ELSE pc
    /\ UNCHANGED stream
StopRTC ==
    /\ ramping' = ramping \ {rampInterval}
    /\ rampInterval' = "none"
    /\ inFlight' = [k \in Starts |-> 0]
    /\ step' = [k \in Starts |-> IF k \in ramping' THEN step[k] ELSE 0]
    /\ polling' = polling \ {statsIntervalId}
    /\ stream' = IF stream = "live" THEN "stopped" ELSE stream
    /\ pc' = IF pc = "open" THEN "closed" ELSE pc

\* A message of a websocket that is no longer open is not sent.
ServerSend(ms) ==
    toServer' = IF readyState = "open" /\ wsOpen THEN toServer \o ms ELSE toServer

Farewell_CloseFirst(code) == <<<<"close", code>>, <<"stop">>>>
Farewell(code) == <<<<"stop">>, <<"close", code>>>>

\* stop(): the server sees a normal closure, or 4000 after an error.
StopWith(code) ==
    /\ IF stopped
       THEN UNCHANGED <<toServer, readyState, releasable, stopped>>
       ELSE /\ ServerSend(Farewell(code))
            /\ readyState' = IF readyState = "closed" THEN "closed" ELSE "closing"
            /\ StopRTC
            /\ stopped' = TRUE
    /\ UNCHANGED <<broken, rtcVars, statsIntervalId, blind, overtaken, candidate, serverVars>>

Stop ==
    /\ ~stopped
    /\ StopWith("normal")
    /\ UNCHANGED toClient

\* onclose of a websocket that the player closes.
OnClose ==
    /\ readyState = "closing"
    /\ readyState' = "closed"
    /\ StopRTC
    /\ toClient' = <<>>
    /\ UNCHANGED <<toServer, broken, stopped, rtcVars, statsIntervalId, blind, overtaken, candidate,
                   serverVars>>

\* The network fails, or the page is left without a stop(): the server may be
\* told.  onclose comes alone or after onerror, whose stop() sends nothing then.
Breaks ==
    /\ readyState # "closed"
    /\ broken' = TRUE
    /\ readyState' = "closed"
    /\ stopped' \in {stopped, TRUE}
    /\ StopRTC
    /\ toClient' = <<>>
    /\ \E code \in {"normal", "unexpected", "reset"} : toServer' = <<<<"close", code>>>>
    /\ UNCHANGED <<rtcVars, statsIntervalId, blind, overtaken, candidate, serverVars>>

----------------------------------------------------------------------------
(***************************************************************************)
(* The player: its messages.                                               *)
(***************************************************************************)
OnOpen ==
    /\ readyState = "connecting"
    /\ readyState' = "open"
    /\ toServer' = <<<<"join">>>>
    /\ UNCHANGED <<toClient, broken, stopped, rtcVars, pc, stream, timerVars, candidate,
                   serverVars>>

Receives(kind) ==
    /\ readyState = "open"
    /\ toClient # <<>>
    /\ Head(toClient)[1] = kind

FirstAwait_AnswersOnce == IF startedRTC THEN "done" ELSE "asking"
FirstAwait == IF startedRTC THEN "setting" ELSE "asking"

\* The first part of the handler of an offer, with that of #startRTCOnce.
OnOffer ==
    /\ Receives("offer")
    /\ LET n == Head(toClient)[2] IN
       handler' = [handler EXCEPT ![n] = FirstAwait]
    /\ IF startedRTC
       THEN UNCHANGED <<pc, created, remoteDescription>>
       ELSE pc' = "open" /\ created' = created + 1 /\ remoteDescription' = 0
    /\ toClient' = Tail(toClient)
    /\ UNCHANGED <<toServer, broken, readyState, stopped, startedRTC, stream, late, timerVars,
                   candidate, serverVars>>

\* getUserMedia.  A connection that was closed meanwhile takes no tracks.
MediaGranted(n) ==
    /\ handler[n] = "asking"
    /\ stream' = "live"
    /\ IF pc = "closed"
       THEN /\ handler' = [handler EXCEPT ![n] = "failed"]
            /\ late' = TRUE
            /\ UNCHANGED startedRTC
       ELSE /\ handler' = [handler EXCEPT ![n] = "setting"]
            /\ startedRTC' = TRUE
            /\ UNCHANGED late
    /\ UNCHANGED <<socketVars, readyState, stopped, pc, created, remoteDescription, timerVars,
                   candidate, serverVars>>

MediaDenied(n) ==
    /\ handler[n] = "asking"
    /\ handler' = [handler EXCEPT ![n] = "failed"]
    /\ UNCHANGED <<socketVars, readyState, stopped, startedRTC, pc, created, remoteDescription,
                   stream, late, timerVars, candidate, serverVars>>

\* setRemoteDescription, and the pending candidates, which stay in the list.
SetOffer(n) ==
    /\ handler[n] = "setting"
    /\ IF pc = "closed"
       THEN /\ handler' = [handler EXCEPT ![n] = "failed"]
            /\ UNCHANGED <<remoteDescription, candidate>>
       ELSE /\ handler' = [handler EXCEPT ![n] = "answering"]
            /\ remoteDescription' = n
            /\ candidate' = [c \in Candidates |->
                                IF candidate[c] = "pending" THEN "added" ELSE candidate[c]]
    /\ UNCHANGED <<socketVars, readyState, stopped, startedRTC, pc, created, stream, late,
                   timerVars, serverVars>>

\* createAnswer, setLocalDescription and the answer.
Answer(n) ==
    /\ handler[n] = "answering"
    /\ IF pc = "closed"
       THEN /\ handler' = [handler EXCEPT ![n] = "failed"]
            /\ UNCHANGED toServer
       ELSE /\ handler' = [handler EXCEPT ![n] = "done"]
            /\ ServerSend(<<<<"answer", n>>>>)
    /\ UNCHANGED <<toClient, broken, readyState, stopped, startedRTC, pc, created,
                   remoteDescription, stream, late, timerVars, candidate, serverVars>>

\* Without a connection the handler throws, and the candidate is lost.
CandidateGoesTo_Nowhere ==
    IF pc = "none" \/ remoteDescription = 0 THEN "lost" ELSE "added"
CandidateGoesTo ==
    IF pc = "none" THEN "lost" ELSE IF remoteDescription = 0 THEN "pending" ELSE "added"

OnCandidate ==
    /\ Receives("candidate")
    /\ candidate' = [candidate EXCEPT ![Head(toClient)[2]] = CandidateGoesTo]
    /\ toClient' = Tail(toClient)
    /\ UNCHANGED <<toServer, broken, playerVars, serverVars>>

OnStart ==
    /\ Receives("start")
    /\ LET k == Head(toClient)[2] IN
       /\ ramping' = ramping \union {k}
       /\ rampInterval' = k
       /\ polling' = polling \union {k}
       /\ statsIntervalId' = k
       /\ blind' = IF pc = "none" THEN blind \union {k} ELSE blind
    /\ toClient' = Tail(toClient)
    /\ UNCHANGED <<toServer, broken, readyState, stopped, rtcVars, pc, stream, tickVars, candidate,
                   serverVars>>

\* An error message, or the forwarding of "joined".
OnError ==
    /\ Receives("error")
    /\ StopWith("unexpected")
    /\ toClient' = Tail(toClient)

OnJoined ==
    /\ Receives("joined")
    /\ toClient' = Tail(toClient)
    /\ UNCHANGED <<toServer, broken, playerVars, candidate, serverVars>>

\* onclose, or onerror and onclose, of a websocket that the server has closed.
OnServerClose ==
    /\ Receives("close")
    /\ readyState' = "closed"
    /\ stopped' \in {stopped, TRUE}
    /\ StopRTC
    /\ toClient' = <<>>
    /\ UNCHANGED <<toServer, broken, rtcVars, statsIntervalId, blind, overtaken, candidate,
                   serverVars>>

\* A tick of rampBitrate, until it waits for the senders to take their parameters.
\* Without a connection it throws, and raises nothing.
RampTick(k) ==
    /\ k \in ramping \ blind
    /\ step[k] <= Steps
    /\ step' = [step EXCEPT ![k] = @ + 1]
    /\ inFlight' = [inFlight EXCEPT ![k] = @ + 1]
    /\ overtaken' = IF inFlight[k] = 0 THEN overtaken ELSE overtaken \union {k}
    /\ UNCHANGED <<socketVars, readyState, stopped, rtcVars, pc, stream, ramping, polling,
                   rampInterval, statsIntervalId, blind, candidate, serverVars>>

\* The rest of it, which does not come when a sender refuses them.  It looks at the
\* step as it is now.
RampContinues(k) ==
    /\ inFlight[k] > 0
    /\ inFlight' = [inFlight EXCEPT ![k] = @ - 1]
    /\ ramping' = IF step[k] = Steps THEN ramping \ {rampInterval} ELSE ramping
    /\ UNCHANGED <<socketVars, readyState, stopped, rtcVars, pc, stream, polling, rampInterval,
                   statsIntervalId, blind, step, overtaken, candidate, serverVars>>

----------------------------------------------------------------------------
(***************************************************************************)
(* The server: writes and closing.                                         *)
(***************************************************************************)
Delivered(ms) == IF wsOpen /\ readyState = "open" THEN toClient \o ms ELSE toClient

\* ws.Close().
CloseWs == wsOpen' = FALSE /\ toClient' = Delivered(<<<<"close">>>>)

\* ps.close().
PsClose == ps' = "closed" /\ CloseWs

\* A write that fails closes the peer server.
Write(m) ==
    \/ /\ wsOpen
       /\ toClient' = Delivered(<<m>>)
       /\ UNCHANGED <<ps, wsOpen>>
    \/ /\ ~wsOpen \/ readyState = "closed"
       /\ PsClose

----------------------------------------------------------------------------
(***************************************************************************)
(* The server: RunPeerServer.                                              *)
(***************************************************************************)
\* readJoin: the ids are valid or not, and empty if nothing could be parsed.  The
\* player is told so, but not of a message that cannot be read or of an error that
\* left the ids valid.
ReadJoin ==
    /\ reader = "reading"
    /\ wsOpen
    /\ toServer # <<>> /\ Head(toServer)[1] = "join"
    /\ toServer' = Tail(toServer)
    /\ \/ reader' \in {"sending", "done"} /\ UNCHANGED toClient
       \/ reader' = "done" /\ toClient' = Delivered(<<<<"error">>>>)
    /\ UNCHANGED <<broken, playerVars, candidate, estimatorCh, run, ps, wsOpen, offerVars, told,
                   room>>

ReadJoinFails ==
    /\ reader = "reading"
    /\ ~wsOpen \/ (toServer # <<>> /\ Head(toServer)[1] # "join")
    /\ reader' = "done"
    /\ UNCHANGED <<socketVars, playerVars, candidate, estimatorCh, run, ps, wsOpen, offerVars,
                   told, room>>

JoinIsRead ==
    /\ run = "waiting" /\ reader = "sending"
    /\ run' = "joining" /\ reader' = "done"
    /\ UNCHANGED <<socketVars, playerVars, candidate, estimatorCh, ps, wsOpen, offerVars, told,
                   room>>

\* maxWaitingForJoin: a reader that has the message then waits for ever.
JoinTooLate ==
    /\ run = "waiting"
    /\ run' = "returned"
    /\ CloseWs
    /\ UNCHANGED <<toServer, broken, playerVars, candidate, joinVars, ps, offerVars, told, room>>

Refuse ==
    /\ run' = "returned"
    /\ wsOpen' = FALSE
    /\ toClient' = Delivered(<<<<"error">>, <<"close">>>>)
    /\ UNCHANGED ps

\* A write that fails before there is a peer server panics, which ends the goroutine.
JoinRoom ==
    /\ run = "joining"
    /\ \/ /\ run' = "connecting"
          /\ toClient' = Delivered(<<<<"joined">>>>)
          /\ UNCHANGED <<ps, wsOpen>>
       \/ Refuse
       \/ /\ readyState = "closed"
          /\ run' = "returned"
          /\ CloseWs
          /\ UNCHANGED ps
    /\ UNCHANGED <<toServer, broken, playerVars, candidate, joinVars, offerVars, told, room>>

----------------------------------------------------------------------------
(***************************************************************************)
(* The server: newPeerConn, which waits for the bandwidth estimator.       *)
(***************************************************************************)
\* What comes on estimatorCh.  Without GCC configureAPIOptions sends nil; with it the
\* interceptor of the new connection sends the estimator.  A failure may come before.
Sent_NilForgotten(gcc, configured, made) ==
    IF ~configured \/ (gcc /\ ~made) THEN {"full", "failed"}
    ELSE IF gcc THEN {"full"} ELSE {"empty"}
Sent(gcc, configured, made) ==
    IF configured /\ (gcc => made) THEN {"full"} ELSE {"full", "failed"}

\* newPionPeerConn until it waits.  An error of RegisterCodec is returned at once, one
\* of configureAPIOptions is only logged, one of NewPeerConnection is kept.
CreatePeerConnection ==
    /\ run = "connecting"
    /\ \/ Refuse /\ UNCHANGED estimatorCh
       \/ \E gcc, configured, made \in BOOLEAN :
            /\ estimatorCh' \in Sent(gcc, configured, made)
            /\ run' = IF made THEN "created" ELSE "uncreated"
            /\ UNCHANGED <<ps, wsOpen, toClient>>
    /\ UNCHANGED <<toServer, broken, playerVars, candidate, reader, offerVars, told, room>>

\* The rest of newPeerConn, with prepareInTracks, which may fail, and newPeerServer
\* until the peer server is known to the interaction.
AwaitEstimator ==
    /\ run \in {"created", "uncreated"}
    /\ estimatorCh = "full"
    /\ estimatorCh' = "empty"
    /\ \/ Refuse
       \/ /\ run = "created"
          /\ run' = "offering"
          /\ ps' = "open"
          /\ UNCHANGED <<wsOpen, toClient>>
    /\ UNCHANGED <<toServer, broken, playerVars, candidate, reader, offerVars, told, room>>

----------------------------------------------------------------------------
(***************************************************************************)
(* The server: offers, candidates and starts.                              *)
(***************************************************************************)
HasCallbacks == ps # "none" /\ run \in {"looping", "returned"}

\* shareOffer, until the local description is set.
MayOffer_OverPending == ps = "open"
MayOffer == ps = "open" /\ pendingOffer = 0

CreateOffer(a) ==
    /\ MayOffer
    /\ offers < MaxOffers
    /\ unsent[a] = 0
    /\ a = "self" => HasCallbacks \/ run = "offering"
    /\ offers' = offers + 1
    /\ pendingOffer' = offers + 1
    /\ unsent' = [unsent EXCEPT ![a] = offers + 1]
    /\ firstOffer' = IF firstOffer = "none" THEN a ELSE firstOffer
    /\ UNCHANGED <<socketVars, playerVars, candidate, joinVars, run, ps, wsOpen, answered, told,
                   room>>

\* The rest of shareOffer; newPeerServer then attaches its callbacks.
SendOffer(a) ==
    /\ unsent[a] # 0
    /\ unsent' = [unsent EXCEPT ![a] = 0]
    /\ Write(<<"offer", unsent[a]>>)
    /\ run' = IF a = "self" /\ run = "offering" THEN "attaching" ELSE run
    /\ UNCHANGED <<toServer, broken, playerVars, candidate, joinVars, offers, pendingOffer,
                   firstOffer, answered, told, room>>

FirstOfferRefused ==
    /\ run = "offering"
    /\ unsent["self"] = 0
    /\ ~MayOffer
    /\ run' = "attaching"
    /\ UNCHANGED <<socketVars, playerVars, candidate, joinVars, ps, wsOpen, offerVars, told, room>>

AttachCallbacks ==
    /\ run = "attaching"
    /\ run' = "looping"
    /\ UNCHANGED <<socketVars, playerVars, candidate, joinVars, ps, wsOpen, offerVars, told, room>>

\* The connection gathers from the first local description on; without the
\* callback nobody hears of it.
Gather(c) ==
    /\ ps = "open" /\ offers > 0
    /\ candidate[c] = "none"
    /\ c > 1 => candidate[c - 1] # "none"
    /\ IF HasCallbacks
       THEN candidate' = [candidate EXCEPT ![c] = "sent"] /\ Write(<<"candidate", c>>)
       ELSE candidate' = [candidate EXCEPT ![c] = "unheard"] /\ UNCHANGED <<toClient, ps, wsOpen>>
    /\ UNCHANGED <<toServer, broken, playerVars, joinVars, run, offerVars, told, room>>

\* incInTracksReadyCount needs a track, hence an answer.
TellStart(k) ==
    /\ ps = "open"
    /\ k \notin told
    /\ k = "oneself" => answered
    /\ told' = told \union {k}
    /\ Write(<<"start", k>>)
    /\ UNCHANGED <<toServer, broken, playerVars, candidate, joinVars, run, offerVars, room>>

----------------------------------------------------------------------------
(***************************************************************************)
(* The server: loop.                                                       *)
(***************************************************************************)
ServerReceives(kind) ==
    /\ run = "looping"
    /\ wsOpen
    /\ toServer # <<>>
    /\ Head(toServer)[1] = kind
    /\ toServer' = Tail(toServer)

\* An answer that pion refuses ends the loop, and leaves the peer server.
ReceiveAnswer ==
    /\ ServerReceives("answer")
    /\ IF ps = "open" /\ pendingOffer = Head(toServer)[2]
       THEN pendingOffer' = 0 /\ answered' = TRUE /\ UNCHANGED <<run, wsOpen, toClient>>
       ELSE run' = "returned" /\ CloseWs /\ UNCHANGED <<pendingOffer, answered>>
    /\ UNCHANGED <<broken, playerVars, candidate, joinVars, ps, offers, unsent, firstOffer, told,
                   room>>

ReceiveStop ==
    /\ ServerReceives("stop")
    /\ PsClose
    /\ UNCHANGED <<broken, playerVars, candidate, joinVars, run, offerVars, told, room>>

\* Only a closure that is unexpected closes the peer server.
ReceiveClose ==
    /\ ServerReceives("close")
    /\ run' = "returned"
    /\ CloseWs
    /\ ps' = IF Head(toServer)[2] = "unexpected" THEN "closed" ELSE ps
    /\ UNCHANGED <<broken, playerVars, candidate, joinVars, offerVars, told, room>>

ReceiveFails ==
    /\ run = "looping"
    /\ ~wsOpen
    /\ run' = "returned"
    /\ UNCHANGED <<socketVars, playerVars, candidate, joinVars, ps, wsOpen, offerVars, told, room>>

RoomEnds ==
    /\ room = "open"
    /\ room' \in {"aborted", "done"}
    /\ UNCHANGED <<socketVars, playerVars, candidate, joinVars, run, ps, wsOpen, offerVars, told>>

\* The first goroutine of loop.
LoopNoticesEnd ==
    /\ HasCallbacks /\ ps = "open"
    /\ room # "open"
    /\ ps' = "closed"
    /\ wsOpen' = FALSE
    /\ toClient' = Delivered(IF room = "aborted" THEN <<<<"error">>, <<"close">>>>
                                                 ELSE <<<<"close">>>>)
    /\ UNCHANGED <<toServer, broken, playerVars, candidate, joinVars, run, offerVars, told, room>>

\* The connection of a browser that has closed its own, or is gone, fails.
ConnectionFails ==
    /\ HasCallbacks /\ ps = "open"
    /\ answered
    /\ pc = "closed" \/ broken
    /\ PsClose
    /\ UNCHANGED <<toServer, broken, playerVars, candidate, joinVars, run, offerVars, told, room>>

----------------------------------------------------------------------------
PlayerHandles ==
    OnOpen \/ OnOffer \/ OnCandidate \/ OnStart \/ OnError \/ OnJoined \/ OnServerClose \/ OnClose
PlayerContinues(n) == SetOffer(n) \/ Answer(n)

ServerRuns ==
    \/ ReadJoin \/ ReadJoinFails \/ JoinIsRead \/ JoinRoom
    \/ CreatePeerConnection \/ AwaitEstimator
    \/ FirstOfferRefused \/ AttachCallbacks
    \/ ReceiveAnswer \/ ReceiveStop \/ ReceiveClose \/ ReceiveFails

Next ==
    \/ PlayerHandles
    \/ \E n \in Offers : MediaGranted(n) \/ MediaDenied(n) \/ PlayerContinues(n)
    \/ \E k \in Starts : RampTick(k) \/ RampContinues(k) \/ TellStart(k)
    \/ Stop \/ Breaks
    \/ ServerRuns
    \/ JoinTooLate
    \/ \E a \in Agents : CreateOffer(a) \/ SendOffer(a)
    \/ \E c \in Candidates : Gather(c)
    \/ RoomEnds \/ LoopNoticesEnd \/ ConnectionFails

Spec == Init /\ [][Next]_vars

\* Events are dispatched, goroutines run, offers that were set are sent.  Users
\* need not answer the browser, nor stop; senders need not take parameters; the
\* room need not end.
FairSpec ==
    /\ Spec
    /\ WF_vars(PlayerHandles)
    /\ WF_vars(\E n \in Offers : PlayerContinues(n))
    /\ WF_vars(ServerRuns \/ (run = "offering" /\ CreateOffer("self")))
    /\ WF_vars(\E a \in Agents : SendOffer(a))

----------------------------------------------------------------------------
ToClient == {<<"joined">>, <<"error">>, <<"close">>}
            \union ({"offer"} \X Offers) \union ({"candidate"} \X Candidates)
            \union ({"start"} \X Starts)
ToServer == {<<"join">>, <<"stop">>} \union ({"answer"} \X Offers)
            \union ({"close"} \X {"normal", "unexpected", "reset"})

(* Type invariant (ducksoup.js:226-242, peer_server.go:28-44), with what   *)
(* exists only after something else.                                       *)
TypeOK ==
    /\ toClient \in Seq(ToClient) /\ toServer \in Seq(ToServer)
    /\ readyState \in {"connecting", "open", "closing", "closed"}
    /\ pc \in {"none", "open", "closed"}
    /\ created \in 0..MaxOffers /\ (created = 0 <=> pc = "none")
    /\ handler \in [Offers -> {"none", "asking", "setting", "answering", "done", "failed"}]
    /\ remoteDescription \in 0..offers /\ (remoteDescription # 0 => startedRTC)
    /\ stream \in {"none", "live", "stopped"}
    /\ candidate \in [Candidates -> {"none", "sent", "unheard", "pending", "added", "lost"}]
    /\ ramping \subseteq Starts /\ polling \subseteq Starts /\ blind \subseteq Starts
    /\ rampInterval \in Starts \union {"none"} /\ statsIntervalId \in Starts \union {"none"}
    /\ step \in [Starts -> 0..Steps + 1] /\ inFlight \in [Starts -> 0..Steps + 1]
    /\ overtaken \subseteq Starts /\ \A k \in Starts : inFlight[k] <= step[k]
    /\ reader \in {"reading", "sending", "done"}
    /\ estimatorCh \in {"empty", "full", "failed"}
    /\ run \in {"waiting", "joining", "connecting", "created", "uncreated",
               "offering", "attaching", "looping", "returned"}
    /\ ps \in {"none", "open", "closed"}
    /\ offers \in 0..MaxOffers /\ (ps = "none" => offers = 0)
    /\ pendingOffer \in {0, offers} /\ unsent \in [Agents -> {0, offers}]
    /\ told \subseteq Starts /\ ramping \subseteq told
    /\ {broken, stopped, startedRTC, late, wsOpen, answered} \subseteq BOOLEAN

(* #startRTCOnce (ducksoup.js:517-540) is not atomic: it waits for the     *)
(* user's consent before it notes that it has started.  Yet it makes one   *)
(* connection, and asks once, because the server makes no offer while one  *)
(* is pending, and a refused one stays pending (peer_server.go:182); and   *)
(* no answer meets another offer, which would end the server's loop.       *)
OneNegotiation ==
    /\ created <= 1
    /\ \A i \in 1..Len(toServer) :
        toServer[i][1] = "answer" => toServer[i][2] = pendingOffer

(* A candidate that comes before the offer is set is kept for it           *)
(* (ducksoup.js:457-463): none is lost, unless the mixer's signaling made  *)
(* the first offer and the callbacks overtake it.                          *)
CandidatesReachPlayer ==
    \A c \in Candidates : candidate[c] = "lost" => firstOffer = "mixer"

(* README.md:145 "`stop()` to stop media streams and close communication   *)
(* with server": a player that has stopped, or whose websocket is closed,  *)
(* holds no stream, unless the user consented after that; has no interval  *)
(* running, unless it was told to start twice.  Nor does a ramp raise the  *)
(* bitrate past its maximum then, unless one of its ticks outlasted the    *)
(* interval: such a ramp may miss the end, for which it tests only after   *)
(* an await (ducksoup.js:201-218), and runs on until the player stops.     *)
NothingOutlivesPlayer ==
    /\ (stopped \/ readyState = "closed") /\ stream = "live" => late
    /\ told # Starts =>
        /\ stopped \/ readyState = "closed" => ramping = {} /\ polling = {}
        /\ \A k \in Starts \ overtaken : step[k] <= Steps

(* Once the user has consented, an offer is answered and the answer comes  *)
(* to the peer server, unless one of them ends (ducksoup.js:440-455,       *)
(* peer_server.go:373-383).                                                *)
OffersAreAnswered ==
    \A n \in Offers :
        handler[n] \in {"setting", "done"} ~>
            pendingOffer # n \/ ps = "closed" \/ readyState # "open"

(* options.go:41 "needed not to block pc": a player whose join was read is *)
(* refused or served, unless the configuration or the creation of her      *)
(* connection fails before anything was sent to the channel on which       *)
(* newPionPeerConn then waits for ever (peer_conn.go:64-67).               *)
JoinIsSettled ==
    run = "joining" ~> run \in {"looping", "returned"} \/ estimatorCh = "failed"

(* ducksoup.js:320 "will stop server ressources faster": after a stop() or *)
(* an error the peer server ends, however far the server was with the join *)
(* or an offer, unless the network fails.                                  *)
StopEndsPeerServer ==
    stopped /\ ps = "open" ~> ps = "closed" \/ broken

----------------------------------------------------------------------------
(***************************************************************************)
(* The inductive strengthening of the safety invariants.                   *)
(***************************************************************************)
Messages(q) == {q[i] : i \in 1..Len(q)}

\* Each offer, answer and start is at most once on its way.
Once(q) ==
    \A i, j \in 1..Len(q) :
        q[i] = q[j] /\ q[i][1] \in {"offer", "answer", "start"} => i = j

Offered == \E n \in Offers : <<"offer", n>> \in Messages(toClient)

\* Candidates come after an offer.
Ordered(q) ==
    \A j \in 1..Len(q) : q[j][1] = "candidate" =>
        \E i \in 1..Len(q) : i < j /\ q[i][1] = "offer"

\* The pending offer is set, on its way, handled or answered; no other one is.
OfferInv ==
    /\ Once(toClient) /\ Once(toServer)
    /\ \A n \in Offers :
        /\ <<"offer", n>> \in Messages(toClient) =>
              n = pendingOffer /\ handler[n] = "none" /\ \A a \in Agents : unsent[a] = 0
        /\ handler[n] \in {"asking", "setting", "answering"} => n = pendingOffer
        /\ <<"answer", n>> \in Messages(toServer) => n = pendingOffer /\ handler[n] = "done"
        /\ n > offers => handler[n] = "none"
    /\ \A a \in Agents : unsent[a] # 0 =>
        /\ unsent[a] = pendingOffer /\ handler[unsent[a]] = "none"
        /\ \A b \in Agents : unsent[b] # 0 => b = a

\* Until the user consents the first offer stays pending.
ConsentInv ==
    /\ created <= 1
    /\ startedRTC => created > 0
    /\ created > 0 /\ ~startedRTC => pendingOffer # 0 /\ handler[pendingOffer] # "none"
    /\ \A n \in Offers :
        /\ handler[n] # "none" => created > 0
        /\ handler[n] \in {"setting", "answering", "done"} => startedRTC

\* What there is before the player has joined, and who makes the first offer.
FirstInv ==
    /\ firstOffer \in Agents \union {"none"}
    /\ offers > 0 <=> firstOffer # "none"
    /\ run \in {"waiting", "joining", "connecting", "created", "uncreated"} => ps = "none"
    /\ run \in {"attaching", "looping", "returned"} /\ ps = "open" => firstOffer # "none"
    /\ readyState = "connecting" =>
        /\ run \in {"waiting", "returned"} /\ ps = "none" /\ reader # "sending"
        /\ toClient = <<>> /\ toServer = <<>>

\* A first offer of the peer server's own is ahead of all candidates.
CandidateInv ==
    readyState = "open" /\ firstOffer # "mixer" /\ pc = "none" =>
        /\ Ordered(toClient)
        /\ wsOpen /\ firstOffer = "self" => Offered \/ (unsent["self"] # 0 /\ run = "offering")

StopInv ==
    stopped \/ readyState = "closed" => readyState \in {"closing", "closed"} /\ pc # "open"

\* A start is on its way once; until the other comes, what runs is what would be cleared.
TimerInv ==
    /\ polling \subseteq told
    /\ \A k \in Starts :
        /\ <<"start", k>> \in Messages(toClient) => k \in told \ ramping /\ step[k] = 0
        /\ k \notin told => step[k] = 0
    /\ told # Starts =>
        /\ ramping \subseteq {rampInterval} /\ polling \subseteq {statsIntervalId}
        /\ \A k \in Starts \ overtaken : inFlight[k] <= 1
        /\ \A k \in ramping \ overtaken :
              step[k] < Steps \/ (step[k] = Steps /\ inFlight[k] = 1)

(* All of it: while the user is asked for her camera one offer waits, and  *)
(* it is pending; what an offer, a candidate, a start or stop() finds is   *)
(* what it relies on (ducksoup.js:401-540, peer_server.go:176-231).        *)
PlayerInv ==
    /\ TypeOK /\ OfferInv /\ ConsentInv /\ FirstInv /\ CandidateInv /\ StopInv /\ TimerInv
    /\ CandidatesReachPlayer /\ NothingOutlivesPlayer
=============================================================================
