----------------------------- MODULE FxControl -----------------------------
(***************************************************************************)
(* The control of one property of one effect: peerServer.controlFx         *)
(* (sfu/peer_server.go) and the interpolator it reads from                 *)
(* (sequencing/linear_interpolator.go).  Each request runs in a goroutine  *)
(* of its own, the consumer; a request with a duration owns one            *)
(* interpolator, whose goroutine, the producer, is woken by a ticker and   *)
(* hands its values over an unbuffered channel.                            *)
(*                                                                         *)
(* A value is abstracted to the request it is meant for and whether it is  *)
(* that request's target or a step on the way.  A panic ends the process.  *)
(***************************************************************************)
EXTENDS Naturals

CONSTANTS
    MaxRequests,   \* bound: client_control messages for this property
    Steps          \* bound: ticks within a duration, at most maxInterpolatorDuration long

ASSUME RequestsAssumption == MaxRequests \in Nat \ {0}
ASSUME StepsAssumption == Steps \in Nat

Requests == 1..MaxRequests
None     == 0
Late     == Steps + 1      \* the elapsed time exceeds the duration

VARIABLES
    \* peerServer
    interpolatorIndex,     \* None, or the request whose interpolator is indexed
    isDone,
    \* controlFx, per request
    request,
    received,              \* the value that the consumer holds is the target
    \* LinearInterpolator
    closed,                \* the requests whose C is closed
    ticking,               \* those whose ticker runs
    tick,                  \* per request: a tick waits in ticker.C
    elapsed,               \* ... in steps
    producer,
    \* the property of the effect
    value,
    \* history
    latest,                \* the last request that took the mutex
    overlapped,            \* a request came while another had not returned
    slow,                  \* a tick came while the previous value was on its way
    staleWrites,           \* per request: values set with its ticker stopped, after a later one came
    panicked

consumerVars == <<request, received>>
producerVars == <<tick, elapsed, producer>>
historyVars  == <<latest, overlapped>>
vars == <<interpolatorIndex, isDone, consumerVars, closed, ticking, producerVars, value,
          historyVars, slow, staleWrites, panicked>>

ConsumerStates ==
    {"none",
     "consuming",   \* in select
     "setting",     \* received a value, not set yet
     "leaving",     \* about to run the deferred delete
     "returned"}

ProducerStates ==
    {"off", "idle", \* not made; waits for a tick, for ever once the ticker is stopped
     "sending",     \* blocked on C with a value on the way
     "finishing",   \* blocked on C with the target
     "stopping"}    \* sent the target, about to call Stop

Init ==
    /\ interpolatorIndex = None
    /\ isDone = FALSE
    /\ request = [r \in Requests |-> "none"]
    /\ received = [r \in Requests |-> FALSE]
    /\ closed = {}
    /\ ticking = {}
    /\ tick = [r \in Requests |-> FALSE]
    /\ elapsed = [r \in Requests |-> 0]
    /\ producer = [r \in Requests |-> "off"]
    /\ value = [by |-> None, target |-> TRUE]
    /\ latest = None
    /\ overlapped = FALSE
    /\ slow = FALSE
    /\ staleWrites = [r \in Requests |-> 0]
    /\ panicked = FALSE

Blocked == {"sending", "finishing"}

\* close(C): closing it twice panics, and so does the producer blocked on it.
CloseC_NotClosed(stopped) == UNCHANGED <<closed, panicked>>
CloseC(stopped) ==
    /\ closed' = closed \union stopped
    /\ panicked' = (\E r \in stopped : r \in closed \/ producer[r] \in Blocked)

----------------------------------------------------------------------------
(* controlFx, under the mutex of the peerServer.                           *)

Indexed == {interpolatorIndex} \ {None}

\* Requests are numbered in the order in which they take the mutex.
Takes(r) ==
    /\ r = latest + 1
    /\ latest' = r
    /\ overlapped' = (overlapped \/ \E o \in 1..latest : request[o] # "returned")

ControlAtOnce(r) ==
    /\ Takes(r)
    /\ ticking' = ticking \ Indexed
    /\ CloseC(Indexed)
    /\ value' = [by |-> r, target |-> TRUE]
    /\ request' = [request EXCEPT ![r] = "returned"]
    /\ UNCHANGED <<interpolatorIndex, isDone, received, producerVars, slow, staleWrites>>

ControlOver(r) ==
    /\ Takes(r)
    /\ ticking' = (ticking \ Indexed) \union {r}
    /\ CloseC(Indexed)
    /\ interpolatorIndex' = r
    /\ request' = [request EXCEPT ![r] = "consuming"]
    /\ producer' = [producer EXCEPT ![r] = "idle"]
    /\ UNCHANGED <<isDone, received, tick, elapsed, value, slow, staleWrites>>

----------------------------------------------------------------------------
(* The producer.                                                           *)

Elapse(n) == IF n < Late THEN n + 1 ELSE n

\* Time passes; a tick that finds the previous one still waiting is dropped.
Tick(r) ==
    /\ r \in ticking
    /\ elapsed' = [elapsed EXCEPT ![r] = Elapse(@)]
    /\ tick' = [tick EXCEPT ![r] = TRUE]
    /\ slow' = (slow \/ tick[r] \/ producer[r] # "idle")
    /\ UNCHANGED <<interpolatorIndex, isDone, consumerVars, closed, ticking, producer,
                   value, historyVars, staleWrites, panicked>>

Produce(r) ==
    /\ producer[r] = "idle"
    /\ tick[r]
    /\ tick' = [tick EXCEPT ![r] = FALSE]
    /\ producer' = [producer EXCEPT ![r] = IF elapsed[r] = Late THEN "finishing" ELSE "sending"]
    /\ panicked' = (r \in closed)
    /\ UNCHANGED <<interpolatorIndex, isDone, consumerVars, closed, ticking, elapsed,
                   value, historyVars, slow, staleWrites>>

\* The last value is finalValue itself, not one computed from the ratio.
IsTarget_ByRatio(r) == FALSE
IsTarget(r) == producer[r] = "finishing"

Receive(r) ==
    /\ producer[r] \in Blocked
    /\ request[r] = "consuming"
    /\ producer' = [producer EXCEPT ![r] = IF @ = "finishing" THEN "stopping" ELSE "idle"]
    /\ request' = [request EXCEPT ![r] = "setting"]
    /\ received' = [received EXCEPT ![r] = IsTarget(r)]
    /\ UNCHANGED <<interpolatorIndex, isDone, closed, ticking, tick, elapsed,
                   value, historyVars, slow, staleWrites, panicked>>

ProducerStops(r) ==
    /\ producer[r] = "stopping"
    /\ producer' = [producer EXCEPT ![r] = "idle"]
    /\ ticking' = ticking \ {r}
    /\ CloseC({r})
    /\ UNCHANGED <<interpolatorIndex, isDone, consumerVars, tick, elapsed,
                   value, historyVars, slow, staleWrites>>

----------------------------------------------------------------------------
(* The consumer.                                                           *)

Set(r) ==
    /\ request[r] = "setting"
    /\ request' = [request EXCEPT ![r] = "consuming"]
    /\ value' = [by |-> r, target |-> received[r]]
    /\ staleWrites' = IF r < latest /\ r \notin ticking
                      THEN [staleWrites EXCEPT ![r] = @ + 1] ELSE staleWrites
    /\ UNCHANGED <<interpolatorIndex, isDone, received, closed, ticking, producerVars,
                   historyVars, slow, panicked>>

Leaves(r) ==
    /\ request[r] = "consuming"
    /\ request' = [request EXCEPT ![r] = "leaving"]
    /\ UNCHANGED <<interpolatorIndex, isDone, received, closed, ticking, producerVars, value,
                   historyVars, slow, staleWrites, panicked>>

SeesClosed(r) == r \in closed /\ Leaves(r)
SeesDone(r) == isDone /\ Leaves(r)

\* The deferred delete removes whatever is indexed.
Cleanup_StopsAgain(r) ==
    /\ interpolatorIndex' = None
    /\ ticking' = ticking \ {r}
    /\ CloseC({r})
Cleanup(r) ==
    /\ interpolatorIndex' = None
    /\ UNCHANGED <<closed, ticking, panicked>>

Return(r) ==
    /\ request[r] = "leaving"
    /\ request' = [request EXCEPT ![r] = "returned"]
    /\ Cleanup(r)
    /\ UNCHANGED <<isDone, received, producerVars, value, historyVars, slow, staleWrites>>

PeerDone ==
    /\ ~isDone
    /\ isDone' = TRUE
    /\ UNCHANGED <<interpolatorIndex, consumerVars, closed, ticking, producerVars, value,
                   historyVars, slow, staleWrites, panicked>>

----------------------------------------------------------------------------
ProducerStep(r) == Produce(r) \/ ProducerStops(r)
ConsumerStep(r) == Receive(r) \/ Set(r) \/ SeesClosed(r) \/ SeesDone(r) \/ Return(r)

Next ==
    /\ ~panicked
    /\ \/ \E r \in Requests :
            \/ ControlAtOnce(r) \/ ControlOver(r)
            \/ Tick(r) \/ ProducerStep(r) \/ ConsumerStep(r)
       \/ PeerDone

Spec == Init /\ [][Next]_vars

(***************************************************************************)
(* Goroutines that can run do run and tickers tick.                        *)
(***************************************************************************)
Fairness ==
    \A r \in Requests :
        /\ WF_vars(~panicked /\ Tick(r))
        /\ WF_vars(~panicked /\ ProducerStep(r))
        /\ WF_vars(~panicked /\ ConsumerStep(r))

FairSpec == Spec /\ Fairness

----------------------------------------------------------------------------
(* Type invariant (peer_server.go:28-44, linear_interpolator.go:7-12).     *)
TypeOK ==
    /\ interpolatorIndex \in Requests \union {None}
    /\ isDone \in BOOLEAN
    /\ request \in [Requests -> ConsumerStates]
    /\ received \in [Requests -> BOOLEAN]
    /\ closed \subseteq Requests
    /\ ticking \subseteq Requests
    /\ tick \in [Requests -> BOOLEAN]
    /\ elapsed \in [Requests -> 0..Late]
    /\ producer \in [Requests -> ProducerStates]
    /\ value \in [by : Requests \union {None}, target : BOOLEAN]
    /\ latest \in Requests \union {None}
    /\ overlapped \in BOOLEAN
    /\ slow \in BOOLEAN
    /\ staleWrites \in [Requests -> Nat]
    /\ panicked \in BOOLEAN

\* All the requests that came have returned, and the peer is still there.
Quiet == ~isDone /\ ~panicked /\ \A r \in 1..latest : request[r] = "returned"

(* README.md:128 "is updated to 1.2, with a linear interpolation over 500  *)
(* ms. If the last parameter is ommitted (transition duration), the update *)
(* is instantaneous": once nothing is under way the property has the value *)
(* of the last request, provided that none came before the previous one    *)
(* returned: otherwise a consumer that holds a value sets it after its     *)
(* interpolator was stopped by the later request.                          *)
LoneRequestWins == Quiet /\ ~overlapped => value = [by |-> latest, target |-> TRUE]

(* A stopped interpolation disturbs its successor at most once: its        *)
(* consumer sets the one value that it held (peer_server.go:302-313).      *)
StaleWritesBounded == \A r \in Requests : staleWrites[r] <= 1

(* C is closed twice, or under a blocked producer, only when requests      *)
(* overlap or when a value is not consumed before the next tick            *)
(* (linear_interpolator.go:26-27, 39-42, peer_server.go:279).              *)
NoPanicWhenCalm == panicked => overlapped \/ slow

(* Every controlFx call returns, its interpolator having sent the target   *)
(* or been stopped by a later request, whichever deferred delete has taken *)
(* it off the index meanwhile, and its ticker is stopped.  Only a peer     *)
(* that is done leaves tickers running: the consumer goes, the producer    *)
(* stays blocked (peer_server.go:296-313, linear_interpolator.go:31).      *)
ControlFxReturns ==
    \A r \in Requests :
        request[r] # "none" ~>
            panicked \/ (request[r] = "returned" /\ (isDone \/ r \notin ticking))

----------------------------------------------------------------------------
(* The inductive strengthening of the three safety invariants.             *)
Waiting == {"consuming", "setting", "leaving"}

\* Nothing of a request exists before it took the mutex, and what is indexed waits.
OriginInv ==
    /\ \A r \in Requests : r > latest =>
        /\ request[r] = "none" /\ producer[r] = "off"
        /\ ~tick[r] /\ r \notin ticking /\ r \notin closed
    /\ \A r \in 1..latest : request[r] # "none"
    /\ interpolatorIndex # None => request[interpolatorIndex] \in Waiting

\* An interpolator ticks until its C is closed, and then delivers nothing more.
StoppedInv == ~panicked =>
    \A r \in Requests :
        /\ producer[r] = "off" \/ r \in ticking \/ r \in closed
        /\ producer[r] = "off" => request[r] \in {"none", "returned"}
        /\ r \in closed => producer[r] \notin Blocked

StaleInv ==
    \A r \in Requests :
        /\ staleWrites[r] <= 1
        /\ staleWrites[r] > 0 /\ ~panicked => r \in closed /\ request[r] # "setting"

\* Without overlap or slowness an interpolator stops itself, once and for ever.
CalmInv == ~overlapped /\ ~slow =>
    /\ ~panicked
    /\ \A r \in Requests :
        /\ tick[r] => producer[r] = "idle"
        /\ r \in closed => producer[r] = "idle" /\ ~tick[r] /\ r \notin ticking

\* Without overlap the last request alone is under way, and ends when it has set its target.
Delivered(r) ==
    \/ request[r] = "setting" /\ received[r]
    \/ request[r] # "setting" /\ value = [by |-> r, target |-> TRUE]
LoneInv == ~overlapped /\ ~panicked =>
    /\ \A r \in 1..latest : r # latest => request[r] = "returned"
    /\ latest = None => value = [by |-> None, target |-> TRUE]
    /\ latest # None =>
        /\ producer[latest] = "stopping" \/ latest \in closed => Delivered(latest)
        /\ request[latest] = "leaving" => isDone \/ latest \in closed
        /\ request[latest] = "returned" => isDone \/ value = [by |-> latest, target |-> TRUE]

FxInv == TypeOK /\ OriginInv /\ StoppedInv /\ StaleInv /\ CalmInv /\ LoneInv
============================================================================
