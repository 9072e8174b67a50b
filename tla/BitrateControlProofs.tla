------------------------ MODULE BitrateControlProofs ------------------------
(***************************************************************************)
(* Theorems about BitrateControl, for every set of slices and users and    *)
(* every configuration of bitrates that meets the assumptions.             *)
(***************************************************************************)
EXTENDS BitrateControl, TLAPS

IInv == TypeOK /\ TickReads /\ TargetWithinLimits

(* The cap puts every integer within the configured limits.                *)
LEMMA CapRateBounds ==
    ASSUME NEW in \in Int
    PROVE  capRate(in) \in Bitrates
BY BitrateAssumption DEF capRate, Bitrates

(* The rate of an indexed controller is zero or within the limits, and so  *)
(* below the value that stands for none read.                              *)
LEMMA OptimalRateBounds ==
    ASSUME TypeOK, NEW s \in Slices, NEW u \in Indexed(s)
    PROVE  optimalRate(s, u) \in Bitrates \union {0}
<1>1. u \in Users /\ senderControllerIndex[s][u] \in 1..MaxReturns
  BY ReturnsAssumption DEF TypeOK, Indexed
<1>2. <<s, <<u, senderControllerIndex[s][u]>>>> \in Controllers
  BY <1>1 DEF Controllers, Receivers
<1> QED
  BY <1>2 DEF TypeOK, optimalRate

(* What the minimum of a read rate and of those before it is.              *)
LEMMA LeastBounds ==
    ASSUME NEW x \in Bitrates \union {0, NoRate}, NEW y \in Bitrates \union {0}
    PROVE  Least(x, y) \in Bitrates \union {0} /\ Least(x, y) # NoRate
BY BitrateAssumption DEF Least, Bitrates, NoRate

(* A report is turned into an integer, whatever it says.                   *)
LEMMA NewOptimalBitrateType ==
    ASSUME NEW prev \in Nat, NEW loss \in 0..255
    PROVE  newOptimalBitrate(prev, loss) \in Int
BY DEF newOptimalBitrate

(* Growth: 1.05 in integers exceeds 1 from 20 on.                          *)
LEMMA LittleLossGrows ==
    ASSUME NEW prev \in Nat, 20 <= prev, NEW loss \in 0..4
    PROVE  newOptimalBitrate(prev, loss) > prev
<1>1. newOptimalBitrate(prev, loss) = (prev * 269) \div 256
  BY DEF newOptimalBitrate
<1>2. (prev * 269) \div 256 > prev
  OBVIOUS
<1> QED
  BY <1>1, <1>2

(* Shrinking: a factor of at most 486 / 512 takes one off every rate.      *)
LEMMA MuchLossShrinks ==
    ASSUME NEW prev \in Nat, 20 <= prev, NEW loss \in 26..255
    PROVE  newOptimalBitrate(prev, loss) < prev
<1>1. newOptimalBitrate(prev, loss) = (prev * (512 - loss)) \div 512
  BY DEF newOptimalBitrate
<1> DEFINE factor == 512 - loss
<1>2. factor \in Nat /\ factor <= 486
  OBVIOUS
<1>3. prev * factor \in Nat /\ prev * factor <= prev * 486
  <2> HIDE DEF factor
  <2> QED BY <1>2
<1>4. \A n \in Nat : n <= prev * 486 => n \div 512 < prev
  OBVIOUS
<1> QED
  BY <1>1, <1>3, <1>4

LEMMA InitInv == Init => IInv
<1> SUFFICES ASSUME Init PROVE IInv
  OBVIOUS
<1>1. TypeOK
  <2>1. DefaultBitrate \in Bitrates /\ 0 \in 0..MaxReturns
    BY BitrateAssumption, ReturnsAssumption DEF Bitrates
  <2>2. lossOptimalBitrate \in [Controllers -> Bitrates]
    BY <2>1 DEF Init
  <2>3. senderControllerIndex \in [Slices -> [Users -> 0..MaxReturns]]
    BY <2>1 DEF Init
  <2> QED
    BY <2>2, <2>3 DEF Init, TypeOK
<1>2. TickReads
  BY DEF Init, TickReads, Indexed
<1>3. TargetWithinLimits
  BY DEF Init, TargetWithinLimits
<1> QED
  BY <1>1, <1>2, <1>3 DEF IInv

(* Steps that leave the ticks and the index alone keep what was read.      *)
LEMMA TicksUntouched ==
    ASSUME TickReads, TargetWithinLimits, UNCHANGED <<tickVars, senderControllerIndex>>
    PROVE  TickReads' /\ TargetWithinLimits'
BY DEF TickReads, TargetWithinLimits, tickVars, Indexed

(* Every step keeps the invariant.                                         *)
LEMMA StepInv == IInv /\ [Next]_vars => IInv'
<1> SUFFICES ASSUME IInv, [Next]_vars PROVE IInv'
  OBVIOUS
<1> USE DEF IInv
<1>1. ASSUME NEW s \in Slices, SliceStarts(s) PROVE IInv'
  <2>1. TypeOK'
    BY <1>1 DEF SliceStarts, TypeOK, receiverVars, controllerVars
  <2>2. TickReads' /\ TargetWithinLimits'
    BY <1>1 DEF SliceStarts, TickReads, TargetWithinLimits, Indexed, TypeOK
  <2> QED BY <2>1, <2>2
<1>2. ASSUME NEW s \in Slices, EncoderTicks(s) PROVE IInv'
  <2>1. TypeOK'
    BY <1>2 DEF EncoderTicks, TypeOK, receiverVars, controllerVars, Indexed
  <2>2. TickReads' /\ TargetWithinLimits'
    BY <1>2 DEF EncoderTicks, TickReads, TargetWithinLimits, Indexed, TypeOK
  <2> QED BY <2>1, <2>2
<1>3. ASSUME NEW s \in Slices, ReadRate(s) PROVE IInv'
  <2> PICK u \in unread[s] :
        /\ unread' = [unread EXCEPT ![s] = @ \ {u}]
        /\ rate' = [rate EXCEPT ![s] = Least(@, optimalRate(s, u))]
    BY <1>3 DEF ReadRate
  <2>1. Least(rate[s], optimalRate(s, u)) \in Bitrates \union {0}
        /\ Least(rate[s], optimalRate(s, u)) # NoRate
    BY OptimalRateBounds, LeastBounds DEF TypeOK, TickReads
  <2>2. TypeOK'
    BY <1>3, <2>1 DEF ReadRate, TypeOK, receiverVars, controllerVars
  <2>3. TickReads' /\ TargetWithinLimits'
    BY <1>3, <2>1 DEF ReadRate, TickReads, TargetWithinLimits, Indexed, TypeOK
  <2> QED BY <2>2, <2>3
<1>4. ASSUME NEW s \in Slices, UpdateTargetBitrates(s) PROVE IInv'
  <2>1. rate[s] \in Bitrates \union {0}
    BY <1>4 DEF UpdateTargetBitrates, TickReads, TypeOK
  <2>2. TypeOK'
    BY <1>4, <2>1, BitrateAssumption
    DEF UpdateTargetBitrates, TypeOK, receiverVars, controllerVars, Bitrates
  <2>3. TickReads'
    BY <1>4 DEF UpdateTargetBitrates, TickReads, Indexed, TypeOK
  <2>4. TargetWithinLimits'
    BY <1>4, <2>1 DEF UpdateTargetBitrates, TargetWithinLimits, TypeOK
  <2> QED BY <2>2, <2>3, <2>4
<1>5. ASSUME NEW s \in Slices, EncoderReturns(s) PROVE IInv'
  <2>1. TypeOK'
    BY <1>5 DEF EncoderReturns, TypeOK, receiverVars, controllerVars
  <2>2. TickReads' /\ TargetWithinLimits'
    BY <1>5 DEF EncoderReturns, TickReads, TargetWithinLimits, Indexed, TypeOK
  <2> QED BY <2>1, <2>2
<1>6. ASSUME NEW s \in Slices, SliceEnds(s) PROVE IInv'
  BY <1>6, TicksUntouched DEF SliceEnds, TypeOK, receiverVars, controllerVars, tickVars
<1>7. ASSUME NEW r \in Receivers, Open(r) \/ ClosePeerConn(r) PROVE IInv'
  BY <1>7, TicksUntouched DEF Open, ClosePeerConn, TypeOK, controllerVars, tickVars
<1>8. ASSUME NEW r \in Receivers, NEW bitrate \in Estimates, TargetBitrateChanges(r, bitrate)
      PROVE  IInv'
  <2>1. capRate(bitrate) \in Bitrates
    BY CapRateBounds, ReportsAssumption
  <2> QED
    BY <1>8, <2>1, TicksUntouched DEF TargetBitrateChanges, TypeOK, receiverVars, tickVars
<1>9. ASSUME NEW r \in Receivers, NEW s \in Slices, AddSender(s, r) PROVE IInv'
  <2>1. r[1] \in Users /\ r[2] \in 1..MaxReturns /\ <<s, r>> \in Controllers
    BY DEF Receivers, Controllers
  <2>2. TypeOK'
    <3>1. senderControllerIndex' \in [Slices -> [Users -> 0..MaxReturns]]
      <4>1. senderControllerIndex \in [Slices -> [Users -> 0..MaxReturns]]
            /\ r[2] \in 0..MaxReturns
        BY <2>1, ReturnsAssumption DEF TypeOK
      <4> QED
        BY <1>9, <2>1, <4>1 DEF AddSender
    <3>2. loop' \in [Controllers -> {"none", "waiting", "running"}]
      BY <1>9 DEF AddSender, TypeOK
    <3>3. readers' \subseteq Controllers
      BY <1>9, <2>1 DEF AddSender, TypeOK
    <3> QED
      BY <1>9, <3>1, <3>2, <3>3 DEF AddSender, TypeOK, receiverVars, tickVars
  <2>3. \A x \in Slices : Indexed(x) \subseteq Indexed(x)'
    BY <1>9, <2>1, ReturnsAssumption DEF AddSender, Indexed, TypeOK
  <2>4. TickReads' /\ TargetWithinLimits'
    BY <1>9, <2>3 DEF AddSender, TickReads, TargetWithinLimits, tickVars
  <2> QED BY <2>2, <2>4
<1>10. ASSUME NEW r \in Receivers, NEW s \in Slices, Listen(s, r) PROVE IInv'
  BY <1>10, TicksUntouched DEF Listen, TypeOK, tickVars
<1>11. ASSUME NEW r \in Receivers, NEW s \in Slices, NEW loss \in Losses,
              UpdateRateFromLoss(s, r, loss)
       PROVE  IInv'
  <2>1. <<s, r>> \in Controllers
    BY DEF Controllers
  <2>2. lossOptimalBitrate[<<s, r>>] \in Nat
    BY <2>1, BitrateAssumption DEF TypeOK, Bitrates
  <2>3. capRate(newOptimalBitrate(lossOptimalBitrate[<<s, r>>], loss)) \in Bitrates
    BY <2>2, NewOptimalBitrateType, CapRateBounds, ReportsAssumption
  <2> QED
    BY <1>11, <2>3, TicksUntouched DEF UpdateRateFromLoss, TypeOK, receiverVars, tickVars
<1>12. CASE UNCHANGED vars
  BY <1>12, TicksUntouched DEF vars, TypeOK, receiverVars, controllerVars, tickVars
<1> QED
  BY <1>1, <1>2, <1>3, <1>4, <1>5, <1>6, <1>7, <1>8, <1>9, <1>10, <1>11, <1>12
  DEF Next, EncoderStep, ReceiverStep

(* The invariant that the others follow from.                              *)
THEOREM Invariance == Spec => []IInv
BY InitInv, StepInv, PTL DEF Spec

(* Type correctness, for every number of slices, users and connections.    *)
THEOREM TypeCorrect == Spec => []TypeOK
<1>1. IInv => TypeOK
  BY DEF IInv
<1> QED
  BY <1>1, Invariance, PTL

(* An encoder is never set outside the configured limits, whatever the     *)
(* receivers report, the estimators say and the ticks meet                 *)
(* (mixer_slice.go:345-360, sender_controller.go:69-76).                   *)
THEOREM LimitsAreKept == Spec => []TargetWithinLimits
<1>1. IInv => TargetWithinLimits
  BY DEF IInv
<1> QED
  BY <1>1, Invariance, PTL

(* No configuration of at least 20 bit/s makes a rate stick where a report *)
(* should move it (sender_controller.go:94-105).                           *)
THEOREM RatesMove == Spec => RatesNeverStall
<1> DEFINE Moves == \A c \in Controllers, loss \in Losses :
        UpdateRateFromLoss(c[1], c[2], loss) =>
            LET prev == lossOptimalBitrate[c] new == lossOptimalBitrate'[c] IN
            /\ loss < 5 => new > prev \/ new = MaxBitrate
            /\ loss > 25 => new < prev \/ new = MinBitrate
<1>1. ASSUME TypeOK, NEW c \in Controllers, NEW loss \in Losses,
             UpdateRateFromLoss(c[1], c[2], loss)
      PROVE  LET prev == lossOptimalBitrate[c] new == lossOptimalBitrate'[c] IN
             /\ loss < 5 => new > prev \/ new = MaxBitrate
             /\ loss > 25 => new < prev \/ new = MinBitrate
  <2> DEFINE prev == lossOptimalBitrate[c]
             raw  == newOptimalBitrate(prev, loss)
  <2>1. prev \in Bitrates /\ prev \in Nat /\ 20 <= prev /\ loss \in 0..255
    BY <1>1, BitrateAssumption, ReportsAssumption DEF TypeOK, Bitrates
  <2>2. c = <<c[1], c[2]>>
    BY DEF Controllers
  <2>3. lossOptimalBitrate'[c] = capRate(raw)
    BY <1>1, <2>2 DEF UpdateRateFromLoss, TypeOK
  <2>4. raw \in Int
    BY <2>1, NewOptimalBitrateType
  <2>5. loss < 5 => raw > prev
    BY <2>1, LittleLossGrows
  <2>6. loss > 25 => raw < prev
    BY <2>1, MuchLossShrinks
  <2> HIDE DEF raw
  <2>7. loss < 5 => capRate(raw) > prev \/ capRate(raw) = MaxBitrate
    BY <2>1, <2>4, <2>5, BitrateAssumption DEF capRate, Bitrates
  <2>8. loss > 25 => capRate(raw) < prev \/ capRate(raw) = MinBitrate
    BY <2>1, <2>4, <2>6, BitrateAssumption DEF capRate, Bitrates
  <2> QED
    BY <2>3, <2>7, <2>8
<1>2. TypeOK /\ [Next]_vars => [Moves]_vars
  BY <1>1
<1> QED
  BY <1>2, TypeCorrect, PTL DEF Spec, RatesNeverStall
=============================================================================
