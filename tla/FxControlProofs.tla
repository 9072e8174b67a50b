--------------------------- MODULE FxControlProofs ---------------------------
(***************************************************************************)
(* Proofs about FxControl, for every number of requests and of ticks: its  *)
(* type invariant and its three safety invariants, from FxInv.             *)
(***************************************************************************)
EXTENDS FxControl, TLAPS

\* Every step keeps the types.
LEMMA TypeStep == FxInv /\ [Next]_vars => TypeOK'
<1> SUFFICES ASSUME FxInv, [Next]_vars PROVE TypeOK'
  OBVIOUS
<1> USE RequestsAssumption, StepsAssumption DEF FxInv, TypeOK, TypeOK, Requests, None, ConsumerStates, ProducerStates, Late
<1>1. ASSUME NEW r \in Requests, ~panicked, ControlAtOnce(r) PROVE TypeOK'
  BY <1>1 DEF ControlAtOnce, Takes, CloseC, Indexed, consumerVars, producerVars, historyVars
<1>2. ASSUME NEW r \in Requests, ~panicked, ControlOver(r) PROVE TypeOK'
  BY <1>2 DEF ControlOver, Takes, CloseC, Indexed, consumerVars, producerVars, historyVars
<1>3. ASSUME NEW r \in Requests, ~panicked, Tick(r) PROVE TypeOK'
  BY <1>3 DEF Tick, Elapse, Late, consumerVars, producerVars, historyVars
<1>4. ASSUME NEW r \in Requests, ~panicked, Produce(r) PROVE TypeOK'
  BY <1>4 DEF Produce, Late, consumerVars, producerVars, historyVars
<1>5. ASSUME NEW r \in Requests, ~panicked, ProducerStops(r) PROVE TypeOK'
  BY <1>5 DEF ProducerStops, CloseC, consumerVars, producerVars, historyVars
<1>6. ASSUME NEW r \in Requests, ~panicked, Receive(r) PROVE TypeOK'
  BY <1>6 DEF Receive, IsTarget, Blocked, consumerVars, producerVars, historyVars
<1>7. ASSUME NEW r \in Requests, ~panicked, Set(r) PROVE TypeOK'
  BY <1>7 DEF Set, consumerVars, producerVars, historyVars
<1>8. ASSUME NEW r \in Requests, ~panicked, SeesClosed(r) PROVE TypeOK'
  BY <1>8 DEF SeesClosed, Leaves, consumerVars, producerVars, historyVars
<1>9. ASSUME NEW r \in Requests, ~panicked, SeesDone(r) PROVE TypeOK'
  BY <1>9 DEF SeesDone, Leaves, consumerVars, producerVars, historyVars
<1>10. ASSUME NEW r \in Requests, ~panicked, Return(r) PROVE TypeOK'
  BY <1>10 DEF Return, Cleanup, consumerVars, producerVars, historyVars
<1>11. ASSUME PeerDone PROVE TypeOK'
  BY <1>11 DEF PeerDone, consumerVars, producerVars, historyVars
<1>12. ASSUME UNCHANGED vars PROVE TypeOK'
  BY <1>12 DEF vars, consumerVars, producerVars, historyVars
<1> QED
  BY <1>1, <1>2, <1>3, <1>4, <1>5, <1>6, <1>7, <1>8, <1>9, <1>10, <1>11, <1>12 DEF Next, ProducerStep, ConsumerStep

\* Nothing exists of a request that did not come.
LEMMA OriginStep == FxInv /\ [Next]_vars => OriginInv'
<1> SUFFICES ASSUME FxInv, [Next]_vars PROVE OriginInv'
  OBVIOUS
<1> USE RequestsAssumption, StepsAssumption DEF FxInv, TypeOK, OriginInv, Requests, None, ConsumerStates, ProducerStates, Waiting
<1>1. ASSUME NEW r \in Requests, ~panicked, ControlAtOnce(r) PROVE OriginInv'
  BY <1>1 DEF ControlAtOnce, Takes, CloseC, Indexed, consumerVars, producerVars, historyVars
<1>2. ASSUME NEW r \in Requests, ~panicked, ControlOver(r) PROVE OriginInv'
  BY <1>2 DEF ControlOver, Takes, CloseC, Indexed, consumerVars, producerVars, historyVars
<1>3. ASSUME NEW r \in Requests, ~panicked, Tick(r) PROVE OriginInv'
  BY <1>3 DEF Tick, Elapse, Late, consumerVars, producerVars, historyVars
<1>4. ASSUME NEW r \in Requests, ~panicked, Produce(r) PROVE OriginInv'
  BY <1>4 DEF Produce, Late, consumerVars, producerVars, historyVars
<1>5. ASSUME NEW r \in Requests, ~panicked, ProducerStops(r) PROVE OriginInv'
  BY <1>5 DEF ProducerStops, CloseC, consumerVars, producerVars, historyVars
<1>6. ASSUME NEW r \in Requests, ~panicked, Receive(r) PROVE OriginInv'
  BY <1>6 DEF Receive, IsTarget, Blocked, consumerVars, producerVars, historyVars
<1>7. ASSUME NEW r \in Requests, ~panicked, Set(r) PROVE OriginInv'
  BY <1>7 DEF Set, consumerVars, producerVars, historyVars
<1>8. ASSUME NEW r \in Requests, ~panicked, SeesClosed(r) PROVE OriginInv'
  BY <1>8 DEF SeesClosed, Leaves, consumerVars, producerVars, historyVars
<1>9. ASSUME NEW r \in Requests, ~panicked, SeesDone(r) PROVE OriginInv'
  BY <1>9 DEF SeesDone, Leaves, consumerVars, producerVars, historyVars
<1>10. ASSUME NEW r \in Requests, ~panicked, Return(r) PROVE OriginInv'
  BY <1>10 DEF Return, Cleanup, consumerVars, producerVars, historyVars
<1>11. ASSUME PeerDone PROVE OriginInv'
  BY <1>11 DEF PeerDone, consumerVars, producerVars, historyVars
<1>12. ASSUME UNCHANGED vars PROVE OriginInv'
  BY <1>12 DEF vars, consumerVars, producerVars, historyVars
<1> QED
  BY <1>1, <1>2, <1>3, <1>4, <1>5, <1>6, <1>7, <1>8, <1>9, <1>10, <1>11, <1>12 DEF Next, ProducerStep, ConsumerStep

\* What is closed delivers nothing.
LEMMA StoppedStep == FxInv /\ [Next]_vars => StoppedInv'
<1> SUFFICES ASSUME FxInv, [Next]_vars PROVE StoppedInv'
  OBVIOUS
<1> USE RequestsAssumption, StepsAssumption DEF FxInv, TypeOK, StoppedInv, Requests, None, ConsumerStates, ProducerStates, OriginInv, Blocked, Waiting
<1>1. ASSUME NEW r \in Requests, ~panicked, ControlAtOnce(r) PROVE StoppedInv'
  BY <1>1 DEF ControlAtOnce, Takes, CloseC, Indexed, consumerVars, producerVars, historyVars
<1>2. ASSUME NEW r \in Requests, ~panicked, ControlOver(r) PROVE StoppedInv'
  BY <1>2 DEF ControlOver, Takes, CloseC, Indexed, consumerVars, producerVars, historyVars
<1>3. ASSUME NEW r \in Requests, ~panicked, Tick(r) PROVE StoppedInv'
  BY <1>3 DEF Tick, Elapse, Late, consumerVars, producerVars, historyVars
<1>4. ASSUME NEW r \in Requests, ~panicked, Produce(r) PROVE StoppedInv'
  BY <1>4 DEF Produce, Late, consumerVars, producerVars, historyVars
<1>5. ASSUME NEW r \in Requests, ~panicked, ProducerStops(r) PROVE StoppedInv'
  BY <1>5 DEF ProducerStops, CloseC, consumerVars, producerVars, historyVars
<1>6. ASSUME NEW r \in Requests, ~panicked, Receive(r) PROVE StoppedInv'
  BY <1>6 DEF Receive, IsTarget, Blocked, consumerVars, producerVars, historyVars
<1>7. ASSUME NEW r \in Requests, ~panicked, Set(r) PROVE StoppedInv'
  BY <1>7 DEF Set, consumerVars, producerVars, historyVars
<1>8. ASSUME NEW r \in Requests, ~panicked, SeesClosed(r) PROVE StoppedInv'
  BY <1>8 DEF SeesClosed, Leaves, consumerVars, producerVars, historyVars
<1>9. ASSUME NEW r \in Requests, ~panicked, SeesDone(r) PROVE StoppedInv'
  BY <1>9 DEF SeesDone, Leaves, consumerVars, producerVars, historyVars
<1>10. ASSUME NEW r \in Requests, ~panicked, Return(r) PROVE StoppedInv'
  BY <1>10 DEF Return, Cleanup, consumerVars, producerVars, historyVars
<1>11. ASSUME PeerDone PROVE StoppedInv'
  BY <1>11 DEF PeerDone, consumerVars, producerVars, historyVars
<1>12. ASSUME UNCHANGED vars PROVE StoppedInv'
  BY <1>12 DEF vars, consumerVars, producerVars, historyVars
<1> QED
  BY <1>1, <1>2, <1>3, <1>4, <1>5, <1>6, <1>7, <1>8, <1>9, <1>10, <1>11, <1>12 DEF Next, ProducerStep, ConsumerStep

\* One stale write at most.
LEMMA StaleStep == FxInv /\ [Next]_vars => StaleInv'
<1> SUFFICES ASSUME FxInv, [Next]_vars PROVE StaleInv'
  OBVIOUS
<1> USE RequestsAssumption, StepsAssumption DEF FxInv, TypeOK, StaleInv, Requests, None, ConsumerStates, ProducerStates, OriginInv, StoppedInv, Blocked
<1>1. ASSUME NEW r \in Requests, ~panicked, ControlAtOnce(r) PROVE StaleInv'
  BY <1>1 DEF ControlAtOnce, Takes, CloseC, Indexed, consumerVars, producerVars, historyVars
<1>2. ASSUME NEW r \in Requests, ~panicked, ControlOver(r) PROVE StaleInv'
  BY <1>2 DEF ControlOver, Takes, CloseC, Indexed, consumerVars, producerVars, historyVars
<1>3. ASSUME NEW r \in Requests, ~panicked, Tick(r) PROVE StaleInv'
  BY <1>3 DEF Tick, Elapse, Late, consumerVars, producerVars, historyVars
<1>4. ASSUME NEW r \in Requests, ~panicked, Produce(r) PROVE StaleInv'
  BY <1>4 DEF Produce, Late, consumerVars, producerVars, historyVars
<1>5. ASSUME NEW r \in Requests, ~panicked, ProducerStops(r) PROVE StaleInv'
  BY <1>5 DEF ProducerStops, CloseC, consumerVars, producerVars, historyVars
<1>6. ASSUME NEW r \in Requests, ~panicked, Receive(r) PROVE StaleInv'
  BY <1>6 DEF Receive, IsTarget, Blocked, consumerVars, producerVars, historyVars
<1>7. ASSUME NEW r \in Requests, ~panicked, Set(r) PROVE StaleInv'
  BY <1>7 DEF Set, consumerVars, producerVars, historyVars
<1>8. ASSUME NEW r \in Requests, ~panicked, SeesClosed(r) PROVE StaleInv'
  BY <1>8 DEF SeesClosed, Leaves, consumerVars, producerVars, historyVars
<1>9. ASSUME NEW r \in Requests, ~panicked, SeesDone(r) PROVE StaleInv'
  BY <1>9 DEF SeesDone, Leaves, consumerVars, producerVars, historyVars
<1>10. ASSUME NEW r \in Requests, ~panicked, Return(r) PROVE StaleInv'
  BY <1>10 DEF Return, Cleanup, consumerVars, producerVars, historyVars
<1>11. ASSUME PeerDone PROVE StaleInv'
  BY <1>11 DEF PeerDone, consumerVars, producerVars, historyVars
<1>12. ASSUME UNCHANGED vars PROVE StaleInv'
  BY <1>12 DEF vars, consumerVars, producerVars, historyVars
<1> QED
  BY <1>1, <1>2, <1>3, <1>4, <1>5, <1>6, <1>7, <1>8, <1>9, <1>10, <1>11, <1>12 DEF Next, ProducerStep, ConsumerStep

\* A request that overlaps no other finds nothing indexed, and closes nothing.
LEMMA NothingIndexed ==
    ASSUME FxInv, NEW r \in Requests, Takes(r), CloseC(Indexed), ~overlapped'
    PROVE  /\ \A o \in 1..latest : request[o] = "returned"
           /\ ~overlapped /\ latest = r - 1
           /\ Indexed = {} /\ closed' = closed /\ ~panicked'
<1> USE RequestsAssumption DEF FxInv, TypeOK, Requests, None
<1>0. latest = r - 1
  BY DEF Takes
<1>1. ~(overlapped \/ \E o \in 1..latest : request[o] # "returned")
  BY Zenon DEF Takes
<1>2. interpolatorIndex = None
  BY <1>0, <1>1 DEF OriginInv, Waiting
<1> QED
  BY <1>0, <1>1, <1>2 DEF CloseC, Indexed

\* A panic needs overlap or a slow consumer.
LEMMA CalmStep == FxInv /\ [Next]_vars => CalmInv'
<1> SUFFICES ASSUME FxInv, [Next]_vars PROVE CalmInv'
  OBVIOUS
<1> USE RequestsAssumption, StepsAssumption DEF FxInv, TypeOK, CalmInv, Requests, None, ConsumerStates, ProducerStates, OriginInv, StoppedInv, Blocked, Waiting
<1>1. ASSUME NEW r \in Requests, ~panicked, ControlAtOnce(r) PROVE CalmInv'
  BY <1>1, NothingIndexed DEF ControlAtOnce, Takes, CloseC, Indexed, consumerVars, producerVars, historyVars
<1>2. ASSUME NEW r \in Requests, ~panicked, ControlOver(r) PROVE CalmInv'
  <2> SUFFICES ASSUME ~overlapped', ~slow' PROVE CalmInv'
    OBVIOUS
  <2>1. /\ ~overlapped /\ ~slow /\ latest = r - 1
        /\ closed' = closed /\ ~panicked' /\ ticking' = ticking \union {r}
        /\ producer' = [producer EXCEPT ![r] = "idle"] /\ tick' = tick
    BY <1>2, NothingIndexed DEF ControlOver
  <2>2. r \notin closed /\ ~tick[r]
    BY <2>1
  <2> QED
    BY <2>1, <2>2
<1>3. ASSUME NEW r \in Requests, ~panicked, Tick(r) PROVE CalmInv'
  BY <1>3 DEF Tick, Elapse, Late, consumerVars, producerVars, historyVars
<1>4. ASSUME NEW r \in Requests, ~panicked, Produce(r) PROVE CalmInv'
  BY <1>4 DEF Produce, Late, consumerVars, producerVars, historyVars
<1>5. ASSUME NEW r \in Requests, ~panicked, ProducerStops(r) PROVE CalmInv'
  BY <1>5 DEF ProducerStops, CloseC, consumerVars, producerVars, historyVars
<1>6. ASSUME NEW r \in Requests, ~panicked, Receive(r) PROVE CalmInv'
  BY <1>6 DEF Receive, IsTarget, Blocked, consumerVars, producerVars, historyVars
<1>7. ASSUME NEW r \in Requests, ~panicked, Set(r) PROVE CalmInv'
  BY <1>7 DEF Set, consumerVars, producerVars, historyVars
<1>8. ASSUME NEW r \in Requests, ~panicked, SeesClosed(r) PROVE CalmInv'
  BY <1>8 DEF SeesClosed, Leaves, consumerVars, producerVars, historyVars
<1>9. ASSUME NEW r \in Requests, ~panicked, SeesDone(r) PROVE CalmInv'
  BY <1>9 DEF SeesDone, Leaves, consumerVars, producerVars, historyVars
<1>10. ASSUME NEW r \in Requests, ~panicked, Return(r) PROVE CalmInv'
  BY <1>10 DEF Return, Cleanup, consumerVars, producerVars, historyVars
<1>11. ASSUME PeerDone PROVE CalmInv'
  BY <1>11 DEF PeerDone, consumerVars, producerVars, historyVars
<1>12. ASSUME UNCHANGED vars PROVE CalmInv'
  BY <1>12 DEF vars, consumerVars, producerVars, historyVars
<1> QED
  BY <1>1, <1>2, <1>3, <1>4, <1>5, <1>6, <1>7, <1>8, <1>9, <1>10, <1>11, <1>12 DEF Next, ProducerStep, ConsumerStep

\* The lone request ends with its target.
LEMMA LoneStep == FxInv /\ [Next]_vars => LoneInv'
<1> SUFFICES ASSUME FxInv, [Next]_vars PROVE LoneInv'
  OBVIOUS
<1> USE RequestsAssumption, StepsAssumption DEF FxInv, TypeOK, LoneInv, Requests, None, ConsumerStates, ProducerStates, OriginInv, StoppedInv, Blocked, Waiting, Delivered
<1>1. ASSUME NEW r \in Requests, ~panicked, ControlAtOnce(r) PROVE LoneInv'
  <2> SUFFICES ASSUME ~overlapped' PROVE LoneInv'
    OBVIOUS
  <2>1. /\ \A o \in 1..latest : request[o] = "returned"
        /\ latest' = r /\ latest = r - 1 /\ closed' = closed
        /\ value' = [by |-> r, target |-> TRUE] /\ producer' = producer
        /\ request' = [request EXCEPT ![r] = "returned"]
    BY <1>1, NothingIndexed DEF ControlAtOnce, Takes, producerVars
  <2> QED
    BY <2>1
<1>2. ASSUME NEW r \in Requests, ~panicked, ControlOver(r) PROVE LoneInv'
  <2> SUFFICES ASSUME ~overlapped' PROVE LoneInv'
    OBVIOUS
  <2>1. /\ \A o \in 1..latest : request[o] = "returned"
        /\ latest' = r /\ latest = r - 1 /\ closed' = closed
        /\ producer' = [producer EXCEPT ![r] = "idle"]
        /\ request' = [request EXCEPT ![r] = "consuming"]
    BY <1>2, NothingIndexed DEF ControlOver, Takes
  <2>2. r \notin closed
    BY <2>1
  <2> QED
    BY <2>1, <2>2
<1>3. ASSUME NEW r \in Requests, ~panicked, Tick(r) PROVE LoneInv'
  BY <1>3 DEF Tick, Elapse, Late, consumerVars, producerVars, historyVars
<1>4. ASSUME NEW r \in Requests, ~panicked, Produce(r) PROVE LoneInv'
  BY <1>4 DEF Produce, Late, consumerVars, producerVars, historyVars
<1>5. ASSUME NEW r \in Requests, ~panicked, ProducerStops(r) PROVE LoneInv'
  BY <1>5 DEF ProducerStops, CloseC, consumerVars, producerVars, historyVars
<1>6. ASSUME NEW r \in Requests, ~panicked, Receive(r) PROVE LoneInv'
  <2> SUFFICES ASSUME ~overlapped PROVE LoneInv'
    BY <1>6 DEF Receive, historyVars
  <2>1. r = latest /\ r \notin closed
    BY <1>6 DEF Receive
  <2>2. producer[r] = "finishing" => received'[r]
    BY <1>6 DEF Receive, IsTarget
  <2>3. producer'[r] = "stopping" => producer[r] = "finishing"
    BY <1>6 DEF Receive, Blocked
  <2>4. /\ request' = [request EXCEPT ![r] = "setting"]
        /\ UNCHANGED <<isDone, closed, latest, panicked>>
    BY <1>6 DEF Receive, historyVars
  <2> QED
    BY <2>1, <2>2, <2>3, <2>4
<1>7. ASSUME NEW r \in Requests, ~panicked, Set(r) PROVE LoneInv'
  <2> SUFFICES ASSUME ~overlapped PROVE LoneInv'
    BY <1>7 DEF Set, historyVars
  <2>1. r = latest
    BY <1>7 DEF Set
  <2>2. /\ request[r] = "setting" /\ request' = [request EXCEPT ![r] = "consuming"]
        /\ value' = [by |-> r, target |-> received[r]]
        /\ UNCHANGED <<isDone, received, closed, producer, latest, panicked>>
    BY <1>7 DEF Set, producerVars, historyVars
  <2>3. producer[r] = "stopping" \/ r \in closed => Delivered(r)
    BY <1>7, <2>1
  <2>4. Delivered(r) => received[r]
    BY <2>2, Zenon DEF Delivered
  <2>5. received[r] \in BOOLEAN
    OBVIOUS
  <2>6. producer[r] = "stopping" \/ r \in closed => value' = [by |-> r, target |-> TRUE]
    BY <2>2, <2>3, <2>4, <2>5, Zenon
  <2> QED
    BY <2>1, <2>2, <2>6
<1>8. ASSUME NEW r \in Requests, ~panicked, SeesClosed(r) PROVE LoneInv'
  BY <1>8 DEF SeesClosed, Leaves, consumerVars, producerVars, historyVars
<1>9. ASSUME NEW r \in Requests, ~panicked, SeesDone(r) PROVE LoneInv'
  BY <1>9 DEF SeesDone, Leaves, consumerVars, producerVars, historyVars
<1>10. ASSUME NEW r \in Requests, ~panicked, Return(r) PROVE LoneInv'
  BY <1>10 DEF Return, Cleanup, consumerVars, producerVars, historyVars
<1>11. ASSUME PeerDone PROVE LoneInv'
  BY <1>11 DEF PeerDone, consumerVars, producerVars, historyVars
<1>12. ASSUME UNCHANGED vars PROVE LoneInv'
  BY <1>12 DEF vars, consumerVars, producerVars, historyVars
<1> QED
  BY <1>1, <1>2, <1>3, <1>4, <1>5, <1>6, <1>7, <1>8, <1>9, <1>10, <1>11, <1>12 DEF Next, ProducerStep, ConsumerStep

LEMMA FxInductive == Spec => []FxInv
<1>1. Init => FxInv
  <2> SUFFICES ASSUME Init PROVE FxInv
    OBVIOUS
  <2> USE RequestsAssumption, StepsAssumption DEF Init, Requests, None
  <2>1. /\ value \in [by : Requests \union {None}, target : BOOLEAN]
        /\ elapsed \in [Requests -> 0..Late]
    BY DEF Late
  <2>2. TypeOK
    BY <2>1 DEF TypeOK, ConsumerStates, ProducerStates
  <2>3. OriginInv /\ StoppedInv /\ StaleInv
    BY DEF OriginInv, StoppedInv, StaleInv
  <2>4. CalmInv /\ LoneInv
    BY DEF CalmInv, LoneInv
  <2> QED
    BY <2>2, <2>3, <2>4 DEF FxInv
<1>2. FxInv /\ [Next]_vars => FxInv'
  BY TypeStep, OriginStep, StoppedStep, StaleStep, CalmStep, LoneStep DEF FxInv
<1> QED
  BY <1>1, <1>2, PTL DEF Spec

(* The variables of peerServer, LinearInterpolator and controlFx stay in   *)
(* their types (peer_server.go:28-44, linear_interpolator.go:7-12).        *)
THEOREM FxTypes == Spec => []TypeOK
BY FxInductive, PTL DEF FxInv

(* A stopped interpolation sets at most the one value that its consumer    *)
(* held: after close(C) its producer delivers nothing                      *)
(* (peer_server.go:302-313, linear_interpolator.go:39-42).                 *)
THEOREM StoppedWritesOnce == Spec => []StaleWritesBounded
<1>1. FxInv => StaleWritesBounded
  BY DEF FxInv, StaleInv, StaleWritesBounded
<1> QED
  BY <1>1, FxInductive, PTL

(* A lone interpolator that is read in time closes C once                  *)
(* (linear_interpolator.go:26-27, 39-42).                                  *)
THEOREM CalmNeverPanics == Spec => []NoPanicWhenCalm
<1>1. FxInv => NoPanicWhenCalm
  BY DEF FxInv, CalmInv, NoPanicWhenCalm
<1> QED
  BY <1>1, FxInductive, PTL

(* Requests that do not overlap leave the property at the last target, at  *)
(* once or after its transition (README.md:128, peer_server.go:274-314).   *)
THEOREM LastTargetIsSet == Spec => []LoneRequestWins
<1>1. FxInv => LoneRequestWins
  BY RequestsAssumption DEF FxInv, LoneInv, LoneRequestWins, Quiet, TypeOK, Requests, None
<1> QED
  BY <1>1, FxInductive, PTL
=============================================================================
