--------------------------- MODULE BitrateControl ---------------------------
(***************************************************************************)
(* The bitrate of the video encoders: the sender controllers               *)
(* (sfu/sender_controller.go), which estimate what one receiver can take   *)
(* from one slice, and the loop of a slice that gives the least of them to *)
(* its encoder (sfu/mixer_slice.go).                                       *)
(*                                                                         *)
(* A receiver is one peer connection; a user who comes back is a later     *)
(* receiver.  Receivers report losses, or, with GCC, the bandwidth         *)
(* estimator of their connection (external) calls the one handler that it  *)
(* was given last.  The order of slices and receivers, and the encoder     *)
(* itself, are left to the modules Signaling and Pipeline.                 *)
(***************************************************************************)
EXTENDS Integers

CONSTANTS
    Slices,          \* the video slices of an interaction
    Users,           \* to whom they are sent
    MaxReturns,      \* bound: connections of one user
    MinBitrate, MaxBitrate, DefaultBitrate,  \* config.SFU.Video
    Losses,          \* the values of FractionLost in receiver reports
    Estimates        \* the targets of the bandwidth estimators

\* 1.05 is 269 / 256 in integers: it lets a rate grow from 20 on.
ASSUME BitrateAssumption ==
    /\ MinBitrate \in Nat /\ MaxBitrate \in Nat /\ DefaultBitrate \in Nat
    /\ 20 <= MinBitrate
    /\ MinBitrate <= DefaultBitrate /\ DefaultBitrate <= MaxBitrate
ASSUME ReportsAssumption == Losses \subseteq 0..255 /\ Estimates \subseteq Nat
ASSUME ReturnsAssumption == MaxReturns \in Nat
ASSUME SlicesAssumption == \A s \in Slices : s # 0

Receivers   == Users \X (1..MaxReturns)
Controllers == Slices \X Receivers
None        == 0

VARIABLES
    GCC,                    \* env.GCC
    isStarted,              \* interaction.isStarted() is closed
    pc,                     \* per receiver: "none" | "open" | "closed"
    onTargetBitrateChange,  \* per receiver: the slice whose controller is the handler
    \* senderController
    loop,                   \* "none" | "waiting": for isStarted() | "running"
    readers,                \* the controllers whose estimateLoopReadRTCPOnVideo runs
    ccOptimalBitrate, lossOptimalBitrate,
    \* mixerSlice
    isDone,
    senderControllerIndex,  \* per slice and user: the connection, or 0
    encoder,                \* loopEncoderController: "off" | "idle" | "ticking" | "returned"
    unread,                 \* per slice: the users whose rate this tick has not read
    rate,                   \* per slice: the least rate that this tick has read
    targetBitrate

receiverVars   == <<pc, onTargetBitrateChange>>
controllerVars == <<loop, readers, ccOptimalBitrate, lossOptimalBitrate>>
tickVars       == <<encoder, unread, rate, targetBitrate>>
vars == <<GCC, isStarted, receiverVars, controllerVars, isDone, senderControllerIndex, tickVars>>

NoRate == MaxBitrate + 1

Init ==
    /\ GCC \in BOOLEAN
    /\ isStarted = FALSE
    /\ pc = [r \in Receivers |-> "none"]
    /\ onTargetBitrateChange = [r \in Receivers |-> None]
    /\ loop = [c \in Controllers |-> "none"]
    /\ readers = {}
    /\ ccOptimalBitrate = [c \in Controllers |-> 0]
    /\ lossOptimalBitrate = [c \in Controllers |-> DefaultBitrate]
    /\ isDone = [s \in Slices |-> FALSE]
    /\ senderControllerIndex = [s \in Slices |-> [u \in Users |-> 0]]
    /\ encoder = [s \in Slices |-> "off"]
    /\ unread = [s \in Slices |-> {}]
    /\ rate = [s \in Slices |-> NoRate]
    /\ targetBitrate = [s \in Slices |-> 0]

----------------------------------------------------------------------------
(***************************************************************************)
(* Connections and their senders.                                          *)
(***************************************************************************)
\* A user has one connection at a time.
Open(r) ==
    /\ pc[r] = "none"
    /\ \A n \in 1..(r[2] - 1) : pc[<<r[1], n>>] = "closed"
    /\ pc' = [pc EXCEPT ![r] = "open"]
    /\ UNCHANGED <<GCC, isStarted, onTargetBitrateChange, controllerVars, isDone,
                   senderControllerIndex, tickVars>>

\* Its senders end: nothing is read from them any more.
ClosePeerConn(r) ==
    /\ pc[r] = "open"
    /\ pc' = [pc EXCEPT ![r] = "closed"]
    /\ UNCHANGED <<GCC, isStarted, onTargetBitrateChange, controllerVars, isDone,
                   senderControllerIndex, tickVars>>

\* addSender: a later controller replaces the user's earlier one, and reads
\* reports at once, unless the slice is done.
AddSender(s, r) ==
    /\ pc[r] = "open"
    /\ loop[<<s, r>>] = "none"
    /\ loop' = [loop EXCEPT ![<<s, r>>] = "waiting"]
    /\ senderControllerIndex' = [senderControllerIndex EXCEPT ![s][r[1]] = r[2]]
    /\ readers' = IF GCC \/ isDone[s] THEN readers ELSE readers \union {<<s, r>>}
    /\ UNCHANGED <<GCC, isStarted, receiverVars, ccOptimalBitrate, lossOptimalBitrate, isDone,
                   tickVars>>

\* The slice has called i.start(), which may have to wait for another slice.
SliceStarts(s) ==
    /\ encoder[s] = "off"
    /\ ~isDone[s]
    /\ encoder' = [encoder EXCEPT ![s] = "idle"]
    /\ \/ isStarted' = TRUE
       \/ UNCHANGED isStarted
    /\ UNCHANGED <<GCC, receiverVars, controllerVars, isDone, senderControllerIndex,
                   unread, rate, targetBitrate>>

\* The end of senderController.loop: with GCC the controller becomes the handler.
Listen(s, r) ==
    /\ isStarted
    /\ loop[<<s, r>>] = "waiting"
    /\ loop' = [loop EXCEPT ![<<s, r>>] = "running"]
    /\ onTargetBitrateChange' = IF GCC THEN [onTargetBitrateChange EXCEPT ![r] = s]
                                       ELSE onTargetBitrateChange
    /\ UNCHANGED <<GCC, isStarted, pc, readers, ccOptimalBitrate, lossOptimalBitrate, isDone,
                   senderControllerIndex, tickVars>>

----------------------------------------------------------------------------
(***************************************************************************)
(* What the receivers can take.                                            *)
(***************************************************************************)
capRate_NoMin(in) == IF in > MaxBitrate THEN MaxBitrate ELSE in
capRate(in) ==
    IF in > MaxBitrate THEN MaxBitrate ELSE IF in < MinBitrate THEN MinBitrate ELSE in

\* A loss of 256 is all.
newOptimalBitrate_DividesFirst(prev, loss) ==
    IF loss < 5 THEN (prev \div 256) * 269
    ELSE IF loss > 25 THEN (prev \div 512) * (512 - loss)
    ELSE prev
newOptimalBitrate(prev, loss) ==
    IF loss < 5 THEN (prev * 269) \div 256
    ELSE IF loss > 25 THEN (prev * (512 - loss)) \div 512
    ELSE prev

\* updateRateFromLoss, for a report that estimateLoopReadRTCPOnVideo reads:
\* it looks whether the slice is done only between two reads.
UpdateRateFromLoss(s, r, loss) ==
    /\ <<s, r>> \in readers
    /\ pc[r] = "open"
    /\ readers' = IF isDone[s] THEN readers \ {<<s, r>>} ELSE readers
    /\ lossOptimalBitrate' =
        [lossOptimalBitrate EXCEPT ![<<s, r>>] = capRate(newOptimalBitrate(@, loss))]
    /\ UNCHANGED <<GCC, isStarted, receiverVars, loop, ccOptimalBitrate, isDone,
                   senderControllerIndex, tickVars>>

\* The estimator of the connection has a new target, and calls its handler.
TargetBitrateChanges(r, bitrate) ==
    LET s == onTargetBitrateChange[r] IN
    /\ pc[r] = "open"
    /\ s # None
    /\ ccOptimalBitrate' = [ccOptimalBitrate EXCEPT ![<<s, r>>] = capRate(bitrate)]
    /\ UNCHANGED <<GCC, isStarted, receiverVars, loop, readers, lossOptimalBitrate, isDone,
                   senderControllerIndex, tickVars>>

----------------------------------------------------------------------------
(***************************************************************************)
(* loopEncoderController.                                                  *)
(***************************************************************************)
Indexed(s) == {u \in Users : senderControllerIndex[s][u] # 0}

optimalRate(s, u) ==
    LET c == <<s, <<u, senderControllerIndex[s][u]>>>> IN
    IF GCC THEN ccOptimalBitrate[c] ELSE lossOptimalBitrate[c]

\* Also when the slice is done: select takes either.
EncoderTicks(s) ==
    /\ encoder[s] = "idle"
    /\ Indexed(s) # {}
    /\ encoder' = [encoder EXCEPT ![s] = "ticking"]
    /\ unread' = [unread EXCEPT ![s] = Indexed(s)]
    /\ rate' = [rate EXCEPT ![s] = NoRate]
    /\ UNCHANGED <<GCC, isStarted, receiverVars, controllerVars, isDone, senderControllerIndex,
                   targetBitrate>>

\* minInt, over the rates read so far.
Least_Last(x, y) == y
Least(x, y) == IF y < x THEN y ELSE x

ReadRate(s) ==
    /\ \E u \in unread[s] :
        /\ unread' = [unread EXCEPT ![s] = @ \ {u}]
        /\ rate' = [rate EXCEPT ![s] = Least(@, optimalRate(s, u))]
    /\ UNCHANGED <<GCC, isStarted, receiverVars, controllerVars, isDone, senderControllerIndex,
                   encoder, targetBitrate>>

UpdateTargetBitrates(s) ==
    /\ encoder[s] = "ticking"
    /\ unread[s] = {}
    /\ encoder' = [encoder EXCEPT ![s] = "idle"]
    /\ targetBitrate' = [targetBitrate EXCEPT ![s] = IF rate[s] > 0 THEN rate[s] ELSE @]
    /\ rate' = [rate EXCEPT ![s] = NoRate]
    /\ UNCHANGED <<GCC, isStarted, receiverVars, controllerVars, isDone, senderControllerIndex,
                   unread>>

EncoderReturns(s) ==
    /\ encoder[s] = "idle"
    /\ isDone[s]
    /\ encoder' = [encoder EXCEPT ![s] = "returned"]
    /\ UNCHANGED <<GCC, isStarted, receiverVars, controllerVars, isDone, senderControllerIndex,
                   unread, rate, targetBitrate>>

SliceEnds(s) ==
    /\ ~isDone[s]
    /\ isDone' = [isDone EXCEPT ![s] = TRUE]
    /\ UNCHANGED <<GCC, isStarted, receiverVars, controllerVars, senderControllerIndex, tickVars>>

----------------------------------------------------------------------------
EncoderStep(s) == EncoderTicks(s) \/ ReadRate(s) \/ UpdateTargetBitrates(s) \/ EncoderReturns(s)

ReceiverStep(r) ==
    \/ Open(r) \/ ClosePeerConn(r)
    \/ \E bitrate \in Estimates : TargetBitrateChanges(r, bitrate)
    \/ \E s \in Slices :
        \/ AddSender(s, r) \/ Listen(s, r)
        \/ \E loss \in Losses : UpdateRateFromLoss(s, r, loss)

Next ==
    \/ \E s \in Slices : SliceStarts(s) \/ EncoderStep(s) \/ SliceEnds(s)
    \/ \E r \in Receivers : ReceiverStep(r)

Spec == Init /\ [][Next]_vars

\* The ticker ticks.  Nothing is asked of receivers.
FairSpec == Spec /\ \A s \in Slices : WF_vars(EncoderStep(s))

----------------------------------------------------------------------------
Bitrates == MinBitrate..MaxBitrate

(* Type invariant (sender_controller.go:15-26, mixer_slice.go:33-62).      *)
TypeOK ==
    /\ GCC \in BOOLEAN
    /\ isStarted \in BOOLEAN
    /\ pc \in [Receivers -> {"none", "open", "closed"}]
    /\ onTargetBitrateChange \in [Receivers -> Slices \union {None}]
    /\ loop \in [Controllers -> {"none", "waiting", "running"}]
    /\ readers \subseteq Controllers
    /\ ccOptimalBitrate \in [Controllers -> Bitrates \union {0}]
    /\ lossOptimalBitrate \in [Controllers -> Bitrates]
    /\ isDone \in [Slices -> BOOLEAN]
    /\ senderControllerIndex \in [Slices -> [Users -> 0..MaxReturns]]
    /\ encoder \in [Slices -> {"off", "idle", "ticking", "returned"}]
    /\ unread \in [Slices -> SUBSET Users]
    /\ rate \in [Slices -> Bitrates \union {0, NoRate}]
    /\ targetBitrate \in [Slices -> Nat]

(* What a tick has read: it asks only controllers that exist, and is done   *)
(* with reading only when it has a rate (mixer_slice.go:345-356).          *)
TickReads ==
    \A s \in Slices :
        /\ unread[s] \subseteq Indexed(s)
        /\ encoder[s] = "ticking" /\ unread[s] = {} => rate[s] # NoRate

(* README.md:260 "`video` defines min/max/default values of target         *)
(* bitrates": an encoder is left alone, or is set to a rate within them,   *)
(* also by a tick that meets a controller without an estimate or is under  *)
(* way while controllers are replaced (mixer_slice.go:345-360).            *)
TargetWithinLimits == \A s \in Slices : targetBitrate[s] \in Bitrates \union {0}

(* A report of little loss always lets a rate grow until the maximum, and  *)
(* one of much loss lets it shrink until the minimum, although the factors *)
(* are computed in integers (sender_controller.go:84-93).                  *)
RatesNeverStall ==
    [][\A c \in Controllers, loss \in Losses :
        UpdateRateFromLoss(c[1], c[2], loss) =>
            LET prev == lossOptimalBitrate[c] new == lossOptimalBitrate'[c] IN
            /\ loss < 5 => new > prev \/ new = MaxBitrate
            /\ loss > 25 => new < prev \/ new = MinBitrate]_vars

\* What the controllers of a slice say at this moment.
Rates(s) == [u \in Indexed(s) |-> optimalRate(s, u)]
SlowestRate(s) ==
    IF Indexed(s) = {} THEN 0
    ELSE CHOOSE x \in Bitrates \union {0} :
            /\ \E u \in Indexed(s) : x = Rates(s)[u]
            /\ \A u \in Indexed(s) : x <= Rates(s)[u]

(* mixer_slice.go:336 "update encoding bitrate on tick and according to    *)
(* minimum controller rate": unless the rates keep changing, the encoder   *)
(* comes to have the least of them, as long as every controller has one    *)
(* and the slice lasts.  A tick reads them one by one: rates that keep     *)
(* changing may have a least one that does not, and yet never be found.    *)
EncoderFollowsSlowest ==
    \A s \in Slices :
        \/ []<>(isDone[s] \/ encoder[s] = "off" \/ SlowestRate(s) \in {0, targetBitrate[s]})
        \/ []<><<Rates(s)' # Rates(s)>>_vars
=============================================================================
