---------------------------- MODULE PlayerProofs ----------------------------
(***************************************************************************)
(* Proofs about Player, for every number of offers, candidates and steps:  *)
(* its type invariant and its three safety invariants, and that it         *)
(* implements Negotiation.  The two directions of the websocket are        *)
(* sequences, of which the invariants only need to know which messages     *)
(* they hold, that some come once, and which is first.                     *)
(***************************************************************************)
EXTENDS PlayerNegotiation, TLAPS

(* What a queue holds after a message was taken from it, or one was added. *)
LEMMA EmptyQueue == Messages(<<>>) = {} /\ Once(<<>>) /\ Ordered(<<>>)
BY DEF Messages, Once, Ordered

LEMMA TailMessages ==
    ASSUME NEW S, NEW q \in Seq(S), q # <<>>
    PROVE  /\ Tail(q) \in Seq(S) /\ Head(q) \in S
           /\ Head(q) \in Messages(q)
           /\ Messages(Tail(q)) \subseteq Messages(q)
           /\ Messages(q) \subseteq Messages(Tail(q)) \union {Head(q)}
<1>1. /\ Len(q) \in Nat /\ Len(q) > 0 /\ Head(q) = q[1] /\ Len(Tail(q)) = Len(q) - 1
      /\ \A i \in 1..Len(Tail(q)) : i + 1 \in 1..Len(q) /\ Tail(q)[i] = q[i + 1]
  OBVIOUS
<1>2. \A i \in 1..Len(q) : i # 1 => i - 1 \in 1..Len(Tail(q)) /\ Tail(q)[i - 1] = q[i]
  BY <1>1
<1> QED
  BY <1>1, <1>2 DEF Messages

LEMMA TailOnce ==
    ASSUME NEW S, NEW q \in Seq(S), q # <<>>, Once(q)
    PROVE  /\ Once(Tail(q))
           /\ Head(q)[1] \in {"offer", "answer", "start"} => Head(q) \notin Messages(Tail(q))
<1>1. /\ Len(q) \in Nat /\ Len(q) > 0 /\ Head(q) = q[1] /\ Len(Tail(q)) = Len(q) - 1
      /\ \A i \in 1..Len(Tail(q)) : i + 1 \in 1..Len(q) /\ Tail(q)[i] = q[i + 1]
  OBVIOUS
<1>2. Once(Tail(q))
  <2> SUFFICES ASSUME NEW i \in 1..Len(Tail(q)), NEW j \in 1..Len(Tail(q)),
                      Tail(q)[i] = Tail(q)[j], Tail(q)[i][1] \in {"offer", "answer", "start"}
               PROVE  i = j
    BY DEF Once
  <2>1. i + 1 = j + 1
    BY <1>1 DEF Once
  <2> QED
    BY <2>1
<1>3. ASSUME Head(q)[1] \in {"offer", "answer", "start"}, Head(q) \in Messages(Tail(q)) PROVE FALSE
  <2>1. PICK i \in 1..Len(Tail(q)) : Tail(q)[i] = Head(q)
    BY <1>3 DEF Messages
  <2>2. q[i + 1] = q[1] /\ i + 1 \in 1..Len(q) /\ 1 \in 1..Len(q)
    BY <1>1, <2>1
  <2> QED
    BY <1>1, <1>3, <2>2 DEF Once
<1> QED
  BY <1>2, <1>3

LEMMA TailOrdered ==
    ASSUME NEW S, NEW q \in Seq(S), q # <<>>, Ordered(q)
    PROVE  /\ Head(q)[1] # "candidate"
           /\ Head(q)[1] # "offer" => Ordered(Tail(q))
<1>1. /\ Len(q) \in Nat /\ Len(q) > 0 /\ Head(q) = q[1] /\ Len(Tail(q)) = Len(q) - 1
      /\ \A i \in 1..Len(Tail(q)) : i + 1 \in 1..Len(q) /\ Tail(q)[i] = q[i + 1]
  OBVIOUS
<1>2. Head(q)[1] # "candidate"
  BY <1>1 DEF Ordered
<1>3. ASSUME Head(q)[1] # "offer", NEW j \in 1..Len(Tail(q)), Tail(q)[j][1] = "candidate"
      PROVE  \E i \in 1..Len(Tail(q)) : i < j /\ Tail(q)[i][1] = "offer"
  <2>1. PICK i \in 1..Len(q) : i < j + 1 /\ q[i][1] = "offer"
    BY <1>1, <1>3 DEF Ordered
  <2>2. i # 1
    BY <1>1, <1>3, <2>1
  <2>3. i - 1 \in 1..Len(Tail(q)) /\ i - 1 < j /\ Tail(q)[i - 1] = q[i]
    BY <1>1, <2>1, <2>2
  <2> QED
    BY <2>1, <2>3
<1> QED
  BY <1>2, <1>3 DEF Ordered

LEMMA AddMessage ==
    ASSUME NEW S, NEW q \in Seq(S), NEW m \in S
    PROVE  /\ q \o <<m>> \in Seq(S)
           /\ Messages(q \o <<m>>) = Messages(q) \union {m}
<1>1. /\ Len(q) \in Nat /\ Len(q \o <<m>>) = Len(q) + 1 /\ (q \o <<m>>)[Len(q) + 1] = m
      /\ \A i \in 1..Len(q) : (q \o <<m>>)[i] = q[i]
      /\ q \o <<m>> \in Seq(S)
  OBVIOUS
<1>2. \A i \in 1..Len(q) + 1 : i \in 1..Len(q) \/ i = Len(q) + 1
  BY <1>1
<1> QED
  BY <1>1, <1>2 DEF Messages

LEMMA AddOnce ==
    ASSUME NEW S, NEW q \in Seq(S), NEW m \in S, Once(q),
           m \notin Messages(q) \/ m[1] \notin {"offer", "answer", "start"}
    PROVE  Once(q \o <<m>>)
<1>1. /\ Len(q) \in Nat /\ Len(q \o <<m>>) = Len(q) + 1 /\ (q \o <<m>>)[Len(q) + 1] = m
      /\ \A i \in 1..Len(q) : (q \o <<m>>)[i] = q[i]
  OBVIOUS
<1>2. \A i \in 1..Len(q) + 1 : i \in 1..Len(q) \/ i = Len(q) + 1
  BY <1>1
<1> QED
  BY <1>1, <1>2 DEF Messages, Once

LEMMA AddOrdered ==
    ASSUME NEW S, NEW q \in Seq(S), NEW m \in S, Ordered(q),
           m[1] # "candidate" \/ \E i \in 1..Len(q) : q[i][1] = "offer"
    PROVE  Ordered(q \o <<m>>)
<1>1. /\ Len(q) \in Nat /\ Len(q \o <<m>>) = Len(q) + 1 /\ (q \o <<m>>)[Len(q) + 1] = m
      /\ \A i \in 1..Len(q) : (q \o <<m>>)[i] = q[i]
  OBVIOUS
<1>2. \A i \in 1..Len(q) + 1 : i \in 1..Len(q) \/ i = Len(q) + 1
  BY <1>1
<1>3. \A i \in 1..Len(q) : i \in 1..Len(q) + 1 /\ i < Len(q) + 1
  BY <1>1
<1> QED
  BY <1>1, <1>2, <1>3 DEF Ordered

----------------------------------------------------------------------------
(* Messages that no invariant speaks of leave the queue to the player as   *)
(* it was: the same offers and starts, once and in order.                  *)
Keeps(q, r) ==
    /\ r \in Seq(ToClient)
    /\ \A n \in Offers : <<"offer", n>> \in Messages(r) <=> <<"offer", n>> \in Messages(q)
    /\ \A k \in Starts : <<"start", k>> \in Messages(r) <=> <<"start", k>> \in Messages(q)
    /\ Once(q) => Once(r)
    /\ Ordered(q) => Ordered(r)

LEMMA KeepsItself == ASSUME NEW q \in Seq(ToClient) PROVE Keeps(q, q)
BY DEF Keeps

LEMMA KeepsAdded ==
    ASSUME NEW q \in Seq(ToClient), NEW m \in {<<"joined">>, <<"error">>, <<"close">>}
    PROVE  Keeps(q, q \o <<m>>)
<1>1. m \in ToClient
  BY DEF ToClient
<1>2. m[1] \in {"joined", "error", "close"}
  OBVIOUS
<1>3. \A n : <<"offer", n>>[1] = "offer" /\ <<"start", n>>[1] = "start"
  OBVIOUS
<1>4. \A n : <<"offer", n>> # m /\ <<"start", n>> # m
  BY <1>2, <1>3
<1>5. /\ q \o <<m>> \in Seq(ToClient)
      /\ Messages(q \o <<m>>) = Messages(q) \union {m}
  BY <1>1, AddMessage
<1>6. Once(q) => Once(q \o <<m>>)
  BY <1>1, <1>2, AddOnce
<1>7. Ordered(q) => Ordered(q \o <<m>>)
  BY <1>1, <1>2, AddOrdered
<1> QED
  BY <1>4, <1>5, <1>6, <1>7 DEF Keeps

LEMMA KeepsTaken ==
    ASSUME NEW q \in Seq(ToClient), q # <<>>, Head(q)[1] \notin {"offer", "start"}
    PROVE  Keeps(q, Tail(q))
<1>1. \A n : <<"offer", n>>[1] = "offer" /\ <<"start", n>>[1] = "start"
  OBVIOUS
<1>2. \A n : <<"offer", n>> # Head(q) /\ <<"start", n>> # Head(q)
  BY <1>1
<1>3. Once(q) => Once(Tail(q))
  BY TailOnce
<1>4. Ordered(q) => Ordered(Tail(q))
  BY TailOrdered
<1> QED
  BY <1>2, <1>3, <1>4, TailMessages DEF Keeps

LEMMA KeepsDelivered ==
    ASSUME TypeOK
    PROVE  /\ \A m \in {<<"joined">>, <<"error">>, <<"close">>} :
                Keeps(toClient, Delivered(<<m>>))
           /\ Keeps(toClient, Delivered(<<<<"error">>, <<"close">>>>))
<1>1. toClient \in Seq(ToClient)
  BY DEF TypeOK
<1>2. \A m \in {<<"joined">>, <<"error">>, <<"close">>} : Keeps(toClient, toClient \o <<m>>)
  BY <1>1, KeepsAdded
<1>3. toClient \o <<<<"error">>, <<"close">>>> = (toClient \o <<<<"error">>>>) \o <<<<"close">>>>
  BY <1>1
<1>4. Keeps(toClient, toClient \o <<<<"error">>>>) /\ toClient \o <<<<"error">>>> \in Seq(ToClient)
  BY <1>2 DEF Keeps
<1>5. Keeps(toClient \o <<<<"error">>>>, (toClient \o <<<<"error">>>>) \o <<<<"close">>>>)
  BY <1>4, KeepsAdded
<1>6. Keeps(toClient, toClient \o <<<<"error">>, <<"close">>>>)
  BY <1>3, <1>4, <1>5 DEF Keeps
<1> QED
  BY <1>1, <1>2, <1>6, KeepsItself DEF Delivered

(* What else a step may do to that queue, and which steps.                 *)
ClientChanges ==
    \/ Keeps(toClient, toClient')
    \/ toClient' = <<>> /\ readyState' = "closed"
    \/ OnOffer \/ OnStart
    \/ \E a \in Agents : SendOffer(a)
    \/ \E c \in Candidates : Gather(c)
    \/ \E k \in Starts : TellStart(k)

LEMMA ClientStep == ASSUME TypeOK, [Next]_vars PROVE ClientChanges
<1>0. Keeps(toClient, toClient)
  BY KeepsItself DEF TypeOK
<1>1. CASE UNCHANGED vars
  BY <1>0, <1>1 DEF ClientChanges, vars, socketVars
<1>2. ASSUME NEW kind \in {"candidate", "error", "joined"}, Receives(kind)
      PROVE  Keeps(toClient, Tail(toClient))
  BY <1>2, KeepsTaken DEF TypeOK, Receives
<1>3. CASE OnOpen
  BY <1>0, <1>3 DEF ClientChanges, OnOpen
<1>4. CASE OnCandidate \/ OnError \/ OnJoined
  BY <1>2, <1>4 DEF ClientChanges, OnCandidate, OnError, OnJoined
<1>5. CASE OnServerClose \/ OnClose \/ Breaks
  BY <1>5 DEF ClientChanges, OnServerClose, OnClose, Breaks
<1>6. CASE Stop
  BY <1>0, <1>6 DEF ClientChanges, Stop
<1>7. ASSUME NEW n \in Offers, MediaGranted(n) \/ MediaDenied(n) \/ PlayerContinues(n)
      PROVE  ClientChanges
  BY <1>0, <1>7 DEF ClientChanges, MediaGranted, MediaDenied, PlayerContinues, SetOffer, Answer,
                    socketVars
<1>8. ASSUME NEW k \in Starts, RampTick(k) \/ RampContinues(k) PROVE ClientChanges
  BY <1>0, <1>8 DEF ClientChanges, RampTick, RampContinues, socketVars
<1>9. CASE ReadJoin \/ ReadJoinFails \/ JoinIsRead
  BY <1>0, <1>9, KeepsDelivered DEF ClientChanges, ReadJoin, ReadJoinFails, JoinIsRead, socketVars
<1>10. CASE JoinRoom \/ CreatePeerConnection \/ AwaitEstimator \/ JoinTooLate
  BY <1>0, <1>10, KeepsDelivered DEF ClientChanges, JoinRoom, CreatePeerConnection, AwaitEstimator,
                                     JoinTooLate, Refuse, CloseWs
<1>11. CASE FirstOfferRefused \/ AttachCallbacks \/ ReceiveFails \/ RoomEnds
  BY <1>0, <1>11 DEF ClientChanges, FirstOfferRefused, AttachCallbacks, ReceiveFails, RoomEnds,
                     socketVars
<1>12. CASE ReceiveAnswer \/ ReceiveStop \/ ReceiveClose
  BY <1>0, <1>12, KeepsDelivered DEF ClientChanges, ReceiveAnswer, ReceiveStop, ReceiveClose, PsClose,
                                     CloseWs
<1>13. CASE LoopNoticesEnd \/ ConnectionFails
  BY <1>13, KeepsDelivered DEF ClientChanges, LoopNoticesEnd, ConnectionFails, PsClose, CloseWs
<1>14. ASSUME NEW a \in Agents, CreateOffer(a) PROVE ClientChanges
  BY <1>0, <1>14 DEF ClientChanges, CreateOffer, socketVars
<1> QED
  BY <1>1, <1>3, <1>4, <1>5, <1>6, <1>7, <1>8, <1>9, <1>10, <1>11, <1>12, <1>13, <1>14
     DEF Next, PlayerHandles, ServerRuns, ClientChanges

(* Towards the server: no step but Answer adds an answer.                  *)
LessAnswers(q, r) ==
    /\ r \in Seq(ToServer)
    /\ \A n \in Offers : <<"answer", n>> \in Messages(r) => <<"answer", n>> \in Messages(q)
    /\ Once(q) => Once(r)

LEMMA LessItself == ASSUME NEW q \in Seq(ToServer) PROVE LessAnswers(q, q)
BY DEF LessAnswers

LEMMA LessTaken == ASSUME NEW q \in Seq(ToServer), q # <<>> PROVE LessAnswers(q, Tail(q))
<1>1. Once(q) => Once(Tail(q))
  BY TailOnce
<1> QED
  BY <1>1, TailMessages DEF LessAnswers

LEMMA LessAdded ==
    ASSUME NEW q \in Seq(ToServer), NEW m \in ToServer, m[1] # "answer", m[1] \in {"join", "stop", "close"}
    PROVE  LessAnswers(q, q \o <<m>>)
<1>1. \A n : <<"answer", n>>[1] = "answer"
  OBVIOUS
<1>2. \A n : <<"answer", n>> # m
  BY <1>1
<1>3. Once(q) => Once(q \o <<m>>)
  BY AddOnce
<1> QED
  BY <1>2, <1>3, AddMessage DEF LessAnswers

LEMMA LessAlone ==
    ASSUME NEW q, NEW m \in ToServer, m[1] # "answer", m[1] \in {"join", "stop", "close"}
    PROVE  LessAnswers(q, <<m>>)
<1>1. <<>> \in Seq(ToServer) /\ <<>> \o <<m>> = <<m>>
  OBVIOUS
<1>2. LessAnswers(<<>>, <<m>>)
  BY <1>1, LessAdded
<1> QED
  BY <1>2, EmptyQueue DEF LessAnswers

LEMMA LessFarewell ==
    ASSUME TypeOK, NEW code \in {"normal", "unexpected"}, ServerSend(Farewell(code))
    PROVE  LessAnswers(toServer, toServer')
<1>1. toServer \in Seq(ToServer)
  BY DEF TypeOK
<1>2. /\ <<"stop">> \in ToServer /\ <<"stop">>[1] = "stop"
      /\ <<"close", code>> \in ToServer /\ <<"close", code>>[1] = "close"
  BY DEF ToServer
<1>3. LessAnswers(toServer, toServer \o <<<<"stop">>>>) /\ toServer \o <<<<"stop">>>> \in Seq(ToServer)
  BY <1>1, <1>2, LessAdded DEF LessAnswers
<1>4. LessAnswers(toServer \o <<<<"stop">>>>, (toServer \o <<<<"stop">>>>) \o <<<<"close", code>>>>)
  BY <1>2, <1>3, LessAdded
<1>5. toServer \o Farewell(code) = (toServer \o <<<<"stop">>>>) \o <<<<"close", code>>>>
  BY <1>1 DEF Farewell
<1> QED
  BY <1>1, <1>3, <1>4, <1>5, LessItself DEF ServerSend, LessAnswers

LEMMA ServerStep ==
    ASSUME TypeOK, [Next]_vars
    PROVE  LessAnswers(toServer, toServer') \/ \E n \in Offers : Answer(n)
<1>0. LessAnswers(toServer, toServer)
  BY LessItself DEF TypeOK
<1>1. toServer # <<>> => LessAnswers(toServer, Tail(toServer))
  BY LessTaken DEF TypeOK
<1>2. CASE UNCHANGED vars
  BY <1>0, <1>2 DEF vars, socketVars
<1>3. CASE OnOpen
  <2>1. <<"join">> \in ToServer /\ <<"join">>[1] = "join"
    BY DEF ToServer
  <2> QED
    BY <1>3, <2>1, LessAlone DEF OnOpen
<1>4. CASE OnOffer \/ OnCandidate \/ OnStart \/ OnJoined \/ OnServerClose \/ OnClose
  BY <1>0, <1>4 DEF OnOffer, OnCandidate, OnStart, OnJoined, OnServerClose, OnClose
<1>5. CASE OnError \/ Stop
  BY <1>0, <1>5, LessFarewell DEF OnError, Stop, StopWith
<1>6. CASE Breaks
  <2>1. PICK code \in {"normal", "unexpected", "reset"} : toServer' = <<<<"close", code>>>>
    BY <1>6 DEF Breaks
  <2>2. <<"close", code>> \in ToServer /\ <<"close", code>>[1] = "close"
    BY DEF ToServer
  <2> QED
    BY <2>1, <2>2, LessAlone
<1>7. ASSUME NEW n \in Offers, MediaGranted(n) \/ MediaDenied(n) \/ SetOffer(n)
      PROVE  LessAnswers(toServer, toServer')
  BY <1>0, <1>7 DEF MediaGranted, MediaDenied, SetOffer, socketVars
<1>8. ASSUME NEW k \in Starts, RampTick(k) \/ RampContinues(k) \/ TellStart(k) PROVE LessAnswers(toServer, toServer')
  BY <1>0, <1>8 DEF RampTick, RampContinues, TellStart, socketVars
<1>9. CASE ReadJoin \/ ReceiveAnswer \/ ReceiveStop \/ ReceiveClose
  BY <1>1, <1>9 DEF ReadJoin, ReceiveAnswer, ReceiveStop, ReceiveClose, ServerReceives
<1>10. CASE ReadJoinFails \/ JoinIsRead \/ JoinRoom \/ CreatePeerConnection \/ AwaitEstimator
  BY <1>0, <1>10 DEF ReadJoinFails, JoinIsRead, JoinRoom, CreatePeerConnection, AwaitEstimator,
                     socketVars
<1>11. CASE JoinTooLate \/ FirstOfferRefused \/ AttachCallbacks \/ ReceiveFails \/ RoomEnds
  BY <1>0, <1>11 DEF JoinTooLate, FirstOfferRefused, AttachCallbacks, ReceiveFails, RoomEnds, socketVars
<1>12. CASE LoopNoticesEnd \/ ConnectionFails
  BY <1>0, <1>12 DEF LoopNoticesEnd, ConnectionFails
<1>13. ASSUME NEW a \in Agents, CreateOffer(a) \/ SendOffer(a) PROVE LessAnswers(toServer, toServer')
  BY <1>0, <1>13 DEF CreateOffer, SendOffer, socketVars
<1>14. ASSUME NEW c \in Candidates, Gather(c) PROVE LessAnswers(toServer, toServer')
  BY <1>0, <1>14 DEF Gather
<1> QED
  BY <1>2, <1>3, <1>4, <1>5, <1>6, <1>7, <1>8, <1>9, <1>10, <1>11, <1>12, <1>13, <1>14
     DEF Next, PlayerHandles, PlayerContinues, ServerRuns

----------------------------------------------------------------------------
(* What the two queues hold after a step.                                  *)
LEMMA Written ==
    ASSUME TypeOK, NEW m \in ToClient, Write(m)
    PROVE  Keeps(toClient, toClient') \/ toClient' = toClient \o <<m>>
BY KeepsItself, KeepsDelivered DEF TypeOK, Write, Delivered, PsClose, CloseWs

LEMMA OfferIsAMessage ==
    /\ \A n \in Offers : <<"offer", n>> \in ToClient /\ <<"offer", n>>[1] = "offer"
    /\ \A c \in Candidates : <<"candidate", c>> \in ToClient /\ <<"candidate", c>>[1] = "candidate"
    /\ \A k \in Starts : <<"start", k>> \in ToClient /\ <<"start", k>>[1] = "start"
    /\ \A n \in Offers : <<"answer", n>> \in ToServer /\ <<"answer", n>>[1] = "answer"
BY DEF ToClient, ToServer

LEMMA HeadIs ==
    ASSUME TypeOK, toClient # <<>>
    PROVE  /\ Head(toClient)[1] = "offer" =>
                \E n \in Offers : Head(toClient) = <<"offer", n>> /\ Head(toClient)[2] = n
           /\ Head(toClient)[1] = "start" =>
                \E k \in Starts : Head(toClient) = <<"start", k>> /\ Head(toClient)[2] = k
           /\ Head(toClient)[1] = "candidate" => Head(toClient)[2] \in Candidates
<1>1. Head(toClient) \in ToClient
  BY TailMessages DEF TypeOK
<1> QED
  BY <1>1 DEF ToClient

LEMMA ServerHeadIs ==
    ASSUME TypeOK, toServer # <<>>, Head(toServer)[1] = "answer"
    PROVE  \E n \in Offers : Head(toServer) = <<"answer", n>> /\ Head(toServer)[2] = n
<1>1. Head(toServer) \in ToServer
  BY TailMessages DEF TypeOK
<1> QED
  BY <1>1 DEF ToServer

LEMMA ClientHolds ==
    ASSUME PlayerInv, [Next]_vars
    PROVE  /\ toClient' \in Seq(ToClient)
           /\ Once(toClient')
           /\ \A n \in Offers : <<"offer", n>> \in Messages(toClient') =>
                \/ <<"offer", n>> \in Messages(toClient) /\ (OnOffer => n # Head(toClient)[2])
                \/ \E a \in Agents : SendOffer(a) /\ unsent[a] = n
           /\ \A k \in Starts : <<"start", k>> \in Messages(toClient') =>
                \/ <<"start", k>> \in Messages(toClient) /\ (OnStart => k # Head(toClient)[2])
                \/ TellStart(k)
<1> DEFINE Goal ==
        /\ toClient' \in Seq(ToClient)
        /\ Once(toClient')
        /\ \A n \in Offers : <<"offer", n>> \in Messages(toClient') =>
                \/ <<"offer", n>> \in Messages(toClient) /\ (OnOffer => n # Head(toClient)[2])
                \/ \E a \in Agents : SendOffer(a) /\ unsent[a] = n
        /\ \A k \in Starts : <<"start", k>> \in Messages(toClient') =>
                \/ <<"start", k>> \in Messages(toClient) /\ (OnStart => k # Head(toClient)[2])
                \/ TellStart(k)
<1>1. TypeOK /\ toClient \in Seq(ToClient) /\ Once(toClient)
  BY DEF PlayerInv, TypeOK, OfferInv
<1>2. CASE Keeps(toClient, toClient') /\ ~OnOffer /\ ~OnStart
  BY <1>1, <1>2 DEF Keeps
<1>3. CASE toClient' = <<>>
  BY <1>3, EmptyQueue
<1>4. CASE OnOffer
  <2>1. toClient # <<>> /\ Head(toClient)[1] = "offer" /\ toClient' = Tail(toClient) /\ ~OnStart
    BY <1>4 DEF OnOffer, OnStart, Receives
  <2>2. PICK n \in Offers : Head(toClient) = <<"offer", n>> /\ Head(toClient)[2] = n
    BY <1>1, <2>1, HeadIs
  <2>3. <<"offer", n>> \notin Messages(toClient')
    BY <1>1, <2>1, <2>2, TailOnce
  <2> QED
    BY <1>1, <2>1, <2>2, <2>3, TailOnce, TailMessages
<1>5. CASE OnStart
  <2>1. toClient # <<>> /\ Head(toClient)[1] = "start" /\ toClient' = Tail(toClient) /\ ~OnOffer
    BY <1>5 DEF OnOffer, OnStart, Receives
  <2>2. PICK k \in Starts : Head(toClient) = <<"start", k>> /\ Head(toClient)[2] = k
    BY <1>1, <2>1, HeadIs
  <2>3. <<"start", k>> \notin Messages(toClient')
    BY <1>1, <2>1, <2>2, TailOnce
  <2> QED
    BY <1>1, <2>1, <2>2, <2>3, TailOnce, TailMessages
<1>6. ASSUME NEW a \in Agents, SendOffer(a), ~OnOffer, ~OnStart PROVE Goal
  <2>1. unsent[a] # 0 /\ unsent[a] \in Offers /\ <<"offer", unsent[a]>> \notin Messages(toClient)
    <3>1. unsent[a] # 0 /\ unsent[a] \in {0, offers} /\ offers \in 0..MaxOffers
      BY <1>1, <1>6 DEF SendOffer, TypeOK
    <3>2. unsent[a] \in Offers
      BY <3>1, BoundsAssumption DEF Offers
    <3> QED
      BY <3>1, <3>2 DEF PlayerInv, OfferInv
  <2>2. Write(<<"offer", unsent[a]>>)
    BY <1>6 DEF SendOffer
  <2>3. CASE toClient' = toClient \o <<<<"offer", unsent[a]>>>>
    <3>1. /\ toClient' \in Seq(ToClient)
          /\ Messages(toClient') = Messages(toClient) \union {<<"offer", unsent[a]>>}
      BY <1>1, <2>1, <2>3, OfferIsAMessage, AddMessage
    <3>2. Once(toClient')
      BY <1>1, <2>1, <2>3, OfferIsAMessage, AddOnce
    <3>3. \A k \in Starts : <<"start", k>> # <<"offer", unsent[a]>>
      BY <2>1, OfferIsAMessage
    <3>4. \A n \in Offers : <<"offer", n>> = <<"offer", unsent[a]>> => n = unsent[a]
      OBVIOUS
    <3> QED
      BY <1>6, <3>1, <3>2, <3>3, <3>4
  <2> QED
    BY <1>1, <1>2, <1>6, <2>1, <2>2, <2>3, OfferIsAMessage, Written
<1>7. ASSUME NEW c \in Candidates, Gather(c), ~OnOffer, ~OnStart PROVE Goal
  <2>1. CASE toClient' = toClient \o <<<<"candidate", c>>>>
    <3>1. /\ toClient' \in Seq(ToClient)
          /\ Messages(toClient') = Messages(toClient) \union {<<"candidate", c>>}
      BY <1>1, <2>1, OfferIsAMessage, AddMessage
    <3>2. Once(toClient')
      BY <1>1, <2>1, OfferIsAMessage, AddOnce
    <3>3. /\ \A k \in Starts : <<"start", k>> # <<"candidate", c>>
          /\ \A n \in Offers : <<"offer", n>> # <<"candidate", c>>
      BY OfferIsAMessage
    <3> QED
      BY <1>7, <3>1, <3>2, <3>3
  <2>2. CASE UNCHANGED toClient
    BY <1>1, <1>2, <1>7, <2>2, KeepsItself
  <2> QED
    BY <1>1, <1>2, <1>7, <2>1, <2>2, OfferIsAMessage, Written DEF Gather
<1>8. ASSUME NEW k \in Starts, TellStart(k), ~OnOffer, ~OnStart PROVE Goal
  <2>1. Write(<<"start", k>>) /\ <<"start", k>> \notin Messages(toClient)
    BY <1>8 DEF TellStart, PlayerInv, TimerInv
  <2>2. CASE toClient' = toClient \o <<<<"start", k>>>>
    <3>1. /\ toClient' \in Seq(ToClient)
          /\ Messages(toClient') = Messages(toClient) \union {<<"start", k>>}
      BY <1>1, <2>2, OfferIsAMessage, AddMessage
    <3>2. Once(toClient')
      BY <1>1, <2>1, <2>2, OfferIsAMessage, AddOnce
    <3>3. \A n \in Offers : <<"offer", n>> # <<"start", k>>
      BY OfferIsAMessage
    <3>4. \A l \in Starts : <<"start", l>> = <<"start", k>> => l = k
      OBVIOUS
    <3> QED
      BY <1>8, <3>1, <3>2, <3>3, <3>4
  <2> QED
    BY <1>1, <1>2, <1>8, <2>1, <2>2, OfferIsAMessage, Written
<1> QED
  BY <1>1, <1>2, <1>3, <1>4, <1>5, <1>6, <1>7, <1>8, ClientStep DEF ClientChanges

LEMMA ServerHolds ==
    ASSUME PlayerInv, [Next]_vars
    PROVE  /\ toServer' \in Seq(ToServer)
           /\ Once(toServer')
           /\ \A n \in Offers : <<"answer", n>> \in Messages(toServer') =>
                \/ <<"answer", n>> \in Messages(toServer)
                     /\ (ReceiveAnswer => n # Head(toServer)[2])
                \/ Answer(n) /\ handler'[n] = "done"
<1> DEFINE Goal ==
        /\ toServer' \in Seq(ToServer)
        /\ Once(toServer')
        /\ \A n \in Offers : <<"answer", n>> \in Messages(toServer') =>
                \/ <<"answer", n>> \in Messages(toServer)
                     /\ (ReceiveAnswer => n # Head(toServer)[2])
                \/ Answer(n) /\ handler'[n] = "done"
<1>1. TypeOK /\ toServer \in Seq(ToServer) /\ Once(toServer)
  BY DEF PlayerInv, TypeOK, OfferInv
<1>2. CASE LessAnswers(toServer, toServer') /\ ~ReceiveAnswer
  BY <1>1, <1>2 DEF LessAnswers
<1>3. CASE ReceiveAnswer
  <2>1. toServer # <<>> /\ Head(toServer)[1] = "answer" /\ toServer' = Tail(toServer)
    BY <1>3 DEF ReceiveAnswer, ServerReceives
  <2>2. PICK n \in Offers : Head(toServer) = <<"answer", n>> /\ Head(toServer)[2] = n
    BY <1>1, <2>1, ServerHeadIs
  <2> QED
    BY <1>1, <2>1, <2>2, TailOnce, TailMessages
<1>4. ASSUME NEW n \in Offers, Answer(n), ~ReceiveAnswer PROVE Goal
  <2>1. handler[n] = "answering" /\ <<"answer", n>> \notin Messages(toServer)
    BY <1>4 DEF Answer, PlayerInv, OfferInv
  <2>2. CASE UNCHANGED toServer
    BY <1>1, <1>2, <1>4, <2>2, LessItself
  <2>3. CASE toServer' = toServer \o <<<<"answer", n>>>> /\ handler'[n] = "done"
    <3>1. /\ toServer' \in Seq(ToServer)
          /\ Messages(toServer') = Messages(toServer) \union {<<"answer", n>>}
      BY <1>1, <2>3, OfferIsAMessage, AddMessage
    <3>2. Once(toServer')
      BY <1>1, <2>1, <2>3, OfferIsAMessage, AddOnce
    <3>3. \A m \in Offers : <<"answer", m>> = <<"answer", n>> => m = n
      OBVIOUS
    <3> QED
      BY <1>4, <2>3, <3>1, <3>2, <3>3
  <2> QED
    BY <1>1, <1>4, <2>2, <2>3 DEF Answer, ServerSend, TypeOK
<1> QED
  BY <1>1, <1>2, <1>3, <1>4, ServerStep

----------------------------------------------------------------------------
LEMMA OfferNumbers ==
    ASSUME TypeOK
    PROVE  /\ offers \in Nat /\ offers <= MaxOffers /\ MaxOffers \in Nat
           /\ pendingOffer = 0 \/ (pendingOffer = offers /\ offers \in Offers)
           /\ \A a \in Agents : unsent[a] = 0 \/ (unsent[a] = offers /\ offers \in Offers)
BY BoundsAssumption DEF TypeOK, Offers

(* The other actions leave offers and handlers alone.                      *)
LEMMA OfferFrame ==
    ASSUME PlayerInv, [Next]_vars, UNCHANGED <<handler, pendingOffer, unsent, offers>>
    PROVE  OfferInv'
<1>1. ~OnOffer
  <2> SUFFICES ASSUME OnOffer PROVE FALSE
    OBVIOUS
  <2>1. toClient # <<>> /\ Head(toClient)[1] = "offer"
    BY DEF OnOffer, Receives
  <2>2. PICK n \in Offers : Head(toClient) = <<"offer", n>> /\ Head(toClient)[2] = n
    BY <2>1, HeadIs DEF PlayerInv
  <2>3. <<"offer", n>> \in Messages(toClient)
    BY <2>1, <2>2, TailMessages DEF PlayerInv, TypeOK
  <2>4. handler[n] = "none"
    BY <2>3 DEF PlayerInv, OfferInv
  <2>5. handler'[n] # "none"
    BY <2>2 DEF OnOffer, FirstAwait, PlayerInv, TypeOK
  <2> QED
    BY <2>4, <2>5
<1>2. \A a \in Agents : ~SendOffer(a)
  BY DEF SendOffer, PlayerInv, TypeOK
<1>3. \A n \in Offers : ~Answer(n)
  BY DEF Answer, PlayerInv, TypeOK
<1> QED
  BY <1>1, <1>2, <1>3, ClientHolds, ServerHolds DEF PlayerInv, OfferInv

LEMMA OfferStep == PlayerInv /\ [Next]_vars => OfferInv'
<1> SUFFICES ASSUME PlayerInv, [Next]_vars PROVE OfferInv'
  OBVIOUS
<1>0. TypeOK
  BY DEF PlayerInv
<1>1. CASE UNCHANGED vars
  BY <1>1, OfferFrame DEF vars, playerVars, rtcVars, serverVars, offerVars
<1>2. CASE OnOffer
  <2>1. toClient # <<>> /\ Head(toClient)[1] = "offer"
    BY <1>2 DEF OnOffer, Receives
  <2>2. PICK n \in Offers : Head(toClient) = <<"offer", n>> /\ Head(toClient)[2] = n
    BY <1>0, <2>1, HeadIs
  <2>3. <<"offer", n>> \in Messages(toClient)
    BY <2>1, <2>2, TailMessages DEF PlayerInv, TypeOK
  <2>4. /\ handler' = [handler EXCEPT ![n] = FirstAwait] /\ FirstAwait \in {"setting", "asking"}
        /\ UNCHANGED <<pendingOffer, unsent, offers>>
    BY <1>2, <2>2 DEF OnOffer, FirstAwait, serverVars, offerVars
  <2>5. n = pendingOffer /\ handler[n] = "none" /\ \A a \in Agents : unsent[a] = 0
    BY <2>3 DEF PlayerInv, OfferInv
  <2>6. n <= offers
    BY <1>0, <2>5, OfferNumbers DEF Offers
  <2>7. \A a \in Agents : ~SendOffer(a)
    BY <2>5 DEF SendOffer
  <2>8. \A m \in Offers : ~Answer(m)
    BY <2>5 DEF Answer, PlayerInv, OfferInv
  <2>9. \A m \in Offers : handler'[m] = IF m = n THEN FirstAwait ELSE handler[m]
    BY <1>0, <2>4 DEF TypeOK
  <2>10. \A m \in Offers : <<"offer", m>> \notin Messages(toClient')
    BY <1>2, <2>2, <2>5, <2>7, ClientHolds DEF PlayerInv, OfferInv
  <2>11. \A m \in Offers : <<"answer", m>> \notin Messages(toServer')
    BY <2>5, <2>8, ServerHolds DEF PlayerInv, OfferInv
  <2>12. \A m \in Offers : m > offers => m # n /\ handler[m] = "none"
    <3>1. \A m \in Offers : m > offers => handler[m] = "none"
      BY DEF PlayerInv, OfferInv
    <3>2. \A m \in Offers : m > offers => m # n
      BY <1>0, <2>6, OfferNumbers DEF Offers
    <3> QED
      BY <3>1, <3>2
  <2>13. \A m \in Offers : handler[m] \in {"asking", "setting", "answering"} => m = pendingOffer
    BY DEF PlayerInv, OfferInv
  <2>14. Once(toClient') /\ Once(toServer')
    BY ClientHolds, ServerHolds
  <2> QED
    BY <2>4, <2>5, <2>9, <2>10, <2>11, <2>12, <2>13, <2>14 DEF OfferInv
<1>3. ASSUME NEW n \in Offers, MediaGranted(n) \/ MediaDenied(n) \/ SetOffer(n)
      PROVE  OfferInv'
  <2>1. /\ handler[n] \in {"asking", "setting"} /\ n = pendingOffer
        /\ UNCHANGED <<toClient, toServer, pendingOffer, unsent, offers>>
        /\ handler' = [handler EXCEPT ![n] = handler'[n]]
        /\ handler'[n] \in {"setting", "answering", "failed"}
    BY <1>0, <1>3 DEF MediaGranted, MediaDenied, SetOffer, PlayerInv, OfferInv, TypeOK, serverVars,
                 offerVars, socketVars
  <2>2. \A m \in Offers : m # n => handler'[m] = handler[m]
    BY <1>0, <2>1 DEF TypeOK
  <2>3. n <= offers
    BY <1>0, <2>1, OfferNumbers DEF Offers
  <2>4. \A a \in Agents : unsent[a] = 0
    BY <1>0, <2>1 DEF PlayerInv, OfferInv
  <2> QED
    BY <2>1, <2>2, <2>3, <2>4 DEF PlayerInv, OfferInv, Offers
<1>4. ASSUME NEW n \in Offers, Answer(n) PROVE OfferInv'
  <2>1. /\ handler[n] = "answering" /\ n = pendingOffer
        /\ UNCHANGED <<toClient, pendingOffer, unsent, offers>>
        /\ handler' = [handler EXCEPT ![n] = handler'[n]]
        /\ handler'[n] \in {"done", "failed"}
    BY <1>0, <1>4 DEF Answer, PlayerInv, OfferInv, TypeOK, serverVars, offerVars
  <2>2. \A m \in Offers : m # n => handler'[m] = handler[m]
    BY <1>0, <2>1 DEF TypeOK
  <2>3. n <= offers
    BY <1>0, <2>1, OfferNumbers DEF Offers
  <2>4. \A a \in Agents : unsent[a] = 0
    BY <1>0, <2>1 DEF PlayerInv, OfferInv
  <2>5. \A m \in Offers : <<"answer", m>> \in Messages(toServer') => m = n /\ handler'[n] = "done"
    <3> SUFFICES ASSUME NEW m \in Offers, <<"answer", m>> \in Messages(toServer')
                 PROVE  m = n /\ handler'[n] = "done"
      OBVIOUS
    <3>1. <<"answer", m>> \notin Messages(toServer)
      BY <2>1 DEF PlayerInv, OfferInv
    <3>2. Answer(m) /\ handler'[m] = "done"
      BY <3>1, ServerHolds
    <3>3. m = pendingOffer
      BY <3>2 DEF Answer, PlayerInv, OfferInv
    <3> QED
      BY <2>1, <3>2, <3>3
  <2> QED
    BY <2>1, <2>2, <2>3, <2>4, <2>5, ServerHolds DEF PlayerInv, OfferInv, Offers
<1>5. ASSUME NEW a \in Agents, CreateOffer(a) PROVE OfferInv'
  <2>1. /\ pendingOffer = 0 /\ offers < MaxOffers /\ unsent[a] = 0
        /\ offers' = offers + 1 /\ pendingOffer' = offers + 1
        /\ unsent' = [unsent EXCEPT ![a] = offers + 1]
        /\ UNCHANGED <<handler, toClient, toServer>>
    BY <1>5 DEF CreateOffer, MayOffer, socketVars, playerVars, rtcVars
  <2>2. offers' \in Offers /\ 0 \notin Offers /\ offers' # 0
    BY <1>0, <2>1, OfferNumbers DEF Offers
  <2>3. /\ handler[offers'] = "none"
        /\ \A n \in Offers : n > offers' => handler[n] = "none"
    <3>1. \A n \in Offers : n > offers => handler[n] = "none"
      BY DEF PlayerInv, OfferInv
    <3> QED
      BY <1>0, <2>1, <2>2, <3>1, OfferNumbers DEF Offers
  <2>4. \A b \in Agents : unsent[b] = 0
    BY <1>0, <2>1, <2>2, OfferNumbers DEF PlayerInv, OfferInv
  <2>5. \A b \in Agents : unsent'[b] = IF b = a THEN offers' ELSE 0
    BY <1>0, <2>1, <2>4 DEF TypeOK
  <2>6. \A n \in Offers : /\ <<"offer", n>> \notin Messages(toClient)
                          /\ handler[n] \notin {"asking", "setting", "answering"}
                          /\ <<"answer", n>> \notin Messages(toServer)
    BY <2>1, <2>2 DEF PlayerInv, OfferInv
  <2> QED
    BY <2>1, <2>2, <2>3, <2>5, <2>6 DEF PlayerInv, OfferInv
<1>6. ASSUME NEW a \in Agents, SendOffer(a) PROVE OfferInv'
  <2>1. /\ unsent[a] # 0 /\ unsent' = [unsent EXCEPT ![a] = 0]
        /\ UNCHANGED <<handler, toServer, pendingOffer, offers>>
    BY <1>6 DEF SendOffer, playerVars, rtcVars
  <2>2. /\ unsent[a] = pendingOffer /\ handler[unsent[a]] = "none"
        /\ \A b \in Agents : unsent[b] # 0 => b = a
    BY <2>1 DEF PlayerInv, OfferInv
  <2>3. \A b \in Agents : unsent'[b] = 0
    BY <1>0, <2>1, <2>2 DEF TypeOK
  <2>4. \A n \in Offers : <<"offer", n>> \notin Messages(toClient)
    BY <2>1 DEF PlayerInv, OfferInv
  <2>5. \A n \in Offers : <<"offer", n>> \in Messages(toClient') => n = unsent[a]
    BY <2>2, <2>4, ClientHolds DEF SendOffer
  <2> QED
    BY <2>1, <2>2, <2>3, <2>5, ClientHolds DEF PlayerInv, OfferInv
<1>7. CASE ReceiveAnswer
  <2>1. toServer # <<>> /\ Head(toServer)[1] = "answer"
    BY <1>7 DEF ReceiveAnswer, ServerReceives
  <2>2. PICK n \in Offers : Head(toServer) = <<"answer", n>> /\ Head(toServer)[2] = n
    BY <1>0, <2>1, ServerHeadIs
  <2>3. <<"answer", n>> \in Messages(toServer)
    BY <2>1, <2>2, TailMessages DEF PlayerInv, TypeOK
  <2>4. n = pendingOffer /\ handler[n] = "done"
    BY <2>3 DEF PlayerInv, OfferInv
  <2>5. UNCHANGED <<handler, unsent, offers>>
    BY <1>7 DEF ReceiveAnswer, playerVars, rtcVars
  <2>6. /\ \A m \in Offers : /\ <<"offer", m>> \notin Messages(toClient)
                             /\ handler[m] \notin {"asking", "setting", "answering"}
        /\ \A a \in Agents : unsent[a] = 0
    BY <2>4 DEF PlayerInv, OfferInv
  <2>7. \A a \in Agents : ~SendOffer(a)
    BY <2>6 DEF SendOffer
  <2>8. \A m \in Offers : ~Answer(m)
    BY <2>6 DEF Answer
  <2>9. \A m \in Offers : /\ <<"offer", m>> \notin Messages(toClient')
                          /\ <<"answer", m>> \notin Messages(toServer')
    BY <1>7, <2>2, <2>4, <2>6, <2>7, <2>8, ClientHolds, ServerHolds DEF PlayerInv, OfferInv
  <2> QED
    BY <2>5, <2>6, <2>9, ClientHolds, ServerHolds DEF PlayerInv, OfferInv
<1>8. CASE \/ OnOpen \/ OnCandidate \/ OnStart \/ OnError \/ OnJoined \/ OnServerClose \/ OnClose
           \/ Stop \/ Breaks \/ \E k \in Starts : RampTick(k) \/ RampContinues(k) \/ TellStart(k)
  <2>1. UNCHANGED <<handler, pendingOffer, unsent, offers>>
    BY <1>8 DEF OnOpen, OnCandidate, OnStart, OnError, OnJoined, OnServerClose, OnClose, Stop, Breaks,
                StopWith, RampTick, RampContinues, TellStart, playerVars, rtcVars, serverVars, offerVars
  <2> QED
    BY <2>1, OfferFrame
<1>9. CASE \/ ReadJoin \/ ReadJoinFails \/ JoinIsRead \/ JoinRoom \/ CreatePeerConnection
           \/ AwaitEstimator \/ FirstOfferRefused \/ AttachCallbacks \/ JoinTooLate
           \/ ReceiveStop \/ ReceiveClose \/ ReceiveFails
           \/ RoomEnds \/ LoopNoticesEnd \/ ConnectionFails \/ \E c \in Candidates : Gather(c)
  <2>1. UNCHANGED <<handler, pendingOffer, unsent, offers>>
    BY <1>9 DEF ReadJoin, ReadJoinFails, JoinIsRead, JoinRoom, CreatePeerConnection,
           AwaitEstimator, FirstOfferRefused, AttachCallbacks, JoinTooLate, ReceiveStop, ReceiveClose,
           ReceiveFails, RoomEnds, LoopNoticesEnd, ConnectionFails, Gather, playerVars, rtcVars,
           offerVars
  <2> QED
    BY <2>1, OfferFrame
<1> QED
  BY <1>1, <1>2, <1>3, <1>4, <1>5, <1>6, <1>7, <1>8, <1>9
     DEF Next, PlayerHandles, PlayerContinues, ServerRuns

----------------------------------------------------------------------------
LEMMA ConsentStep == PlayerInv /\ [Next]_vars => ConsentInv'
<1> SUFFICES ASSUME PlayerInv, [Next]_vars PROVE ConsentInv'
  OBVIOUS
<1>0. TypeOK /\ ConsentInv
  BY DEF PlayerInv
<1>1. ASSUME UNCHANGED <<created, startedRTC, handler>>, pendingOffer' = pendingOffer
      PROVE  ConsentInv'
  BY <1>0, <1>1 DEF ConsentInv
<1>2. CASE UNCHANGED vars
  BY <1>1, <1>2 DEF vars, playerVars, rtcVars, serverVars, offerVars
<1>3. CASE OnOffer
  <2>1. toClient # <<>> /\ Head(toClient)[1] = "offer"
    BY <1>3 DEF OnOffer, Receives
  <2>2. PICK n \in Offers : Head(toClient) = <<"offer", n>> /\ Head(toClient)[2] = n
    BY <1>0, <2>1, HeadIs
  <2>3. <<"offer", n>> \in Messages(toClient)
    BY <2>1, <2>2, TailMessages DEF PlayerInv, TypeOK
  <2>4. n = pendingOffer /\ handler[n] = "none"
    BY <2>3 DEF PlayerInv, OfferInv
  <2>5. /\ handler' = [handler EXCEPT ![n] = FirstAwait]
        /\ UNCHANGED <<pendingOffer, startedRTC>>
        /\ IF startedRTC THEN created' = created ELSE created' = created + 1
    BY <1>3, <2>2 DEF OnOffer, serverVars, offerVars
  <2>6. \A m \in Offers : handler'[m] = IF m = n THEN FirstAwait ELSE handler[m]
    BY <1>0, <2>5 DEF TypeOK
  <2>7. created \in Nat /\ n # 0
    BY <1>0 DEF TypeOK, Offers
  <2>8. CASE startedRTC
    BY <1>0, <2>4, <2>5, <2>6, <2>8 DEF ConsentInv, FirstAwait
  <2>9. CASE ~startedRTC
    <3>1. created = 0 /\ created' = 1 /\ ~startedRTC'
      BY <1>0, <2>4, <2>5, <2>7, <2>9 DEF ConsentInv
    <3>2. FirstAwait = "asking"
      BY <2>9 DEF FirstAwait
    <3>3. \A m \in Offers : handler[m] = "none"
      BY <1>0, <3>1 DEF ConsentInv
    <3> QED
      BY <2>4, <2>5, <2>6, <2>7, <3>1, <3>2, <3>3 DEF ConsentInv
  <2> QED
    BY <2>8, <2>9
<1>4. ASSUME NEW n \in Offers, MediaGranted(n) \/ MediaDenied(n) \/ SetOffer(n) \/ Answer(n)
      PROVE  ConsentInv'
  <2>1. /\ handler[n] # "none" /\ handler' = [handler EXCEPT ![n] = handler'[n]]
        /\ handler'[n] # "none"
        /\ startedRTC => startedRTC'
        /\ handler'[n] \in {"setting", "answering", "done"} =>
                startedRTC' \/ handler[n] \in {"setting", "answering"}
        /\ UNCHANGED <<created, pendingOffer>>
    BY <1>0, <1>4 DEF MediaGranted, MediaDenied, SetOffer, Answer, TypeOK, serverVars, offerVars
  <2>2. \A m \in Offers : m # n => handler'[m] = handler[m]
    BY <1>0, <2>1 DEF TypeOK
  <2>3. pendingOffer = 0 \/ pendingOffer \in Offers
    BY <1>0, OfferNumbers
  <2> QED
    BY <1>0, <2>1, <2>2, <2>3 DEF ConsentInv
<1>5. ASSUME NEW a \in Agents, CreateOffer(a) PROVE ConsentInv'
  BY <1>0, <1>5 DEF CreateOffer, MayOffer, playerVars, rtcVars, ConsentInv
<1>6. CASE ReceiveAnswer
  <2>1. UNCHANGED <<created, startedRTC, handler>>
    BY <1>6 DEF ReceiveAnswer, playerVars, rtcVars
  <2>2. CASE pendingOffer' = pendingOffer
    BY <1>1, <2>1, <2>2
  <2>3. CASE pendingOffer' # pendingOffer
    <3>1. toServer # <<>> /\ Head(toServer)[1] = "answer"
      BY <1>6 DEF ReceiveAnswer, ServerReceives
    <3>2. PICK n \in Offers : Head(toServer) = <<"answer", n>> /\ Head(toServer)[2] = n
      BY <1>0, <3>1, ServerHeadIs
    <3>3. <<"answer", n>> \in Messages(toServer)
      BY <3>1, <3>2, TailMessages DEF PlayerInv, TypeOK
    <3>4. handler[n] = "done"
      BY <3>3 DEF PlayerInv, OfferInv
    <3> QED
      BY <1>0, <2>1, <3>4 DEF ConsentInv
  <2> QED
    BY <2>2, <2>3
<1>7. CASE \/ OnOpen \/ OnCandidate \/ OnStart \/ OnError \/ OnJoined \/ OnServerClose \/ OnClose
           \/ Stop \/ Breaks \/ \E k \in Starts : RampTick(k) \/ RampContinues(k) \/ TellStart(k)
  BY <1>1, <1>7 DEF OnOpen, OnCandidate, OnStart, OnError, OnJoined, OnServerClose, OnClose, Stop,
                    Breaks, StopWith, RampTick, RampContinues, TellStart, playerVars, rtcVars, serverVars, offerVars
<1>8. CASE \/ ReadJoin \/ ReadJoinFails \/ JoinIsRead \/ JoinRoom \/ CreatePeerConnection
           \/ AwaitEstimator \/ FirstOfferRefused \/ AttachCallbacks \/ JoinTooLate
           \/ ReceiveStop \/ ReceiveClose \/ ReceiveFails \/ RoomEnds \/ LoopNoticesEnd
           \/ ConnectionFails \/ (\E c \in Candidates : Gather(c)) \/ \E a \in Agents : SendOffer(a)
  BY <1>1, <1>8 DEF ReadJoin, ReadJoinFails, JoinIsRead, JoinRoom, CreatePeerConnection,
         AwaitEstimator, FirstOfferRefused, AttachCallbacks, JoinTooLate, ReceiveStop, ReceiveClose,
         ReceiveFails, RoomEnds, LoopNoticesEnd, ConnectionFails, Gather, SendOffer, playerVars,
         rtcVars, offerVars
<1> QED
  BY <1>2, <1>3, <1>4, <1>5, <1>6, <1>7, <1>8 DEF Next, PlayerHandles, PlayerContinues, ServerRuns

LEMMA FirstStep == PlayerInv /\ [Next]_vars => FirstInv'
<1> SUFFICES ASSUME PlayerInv, [Next]_vars PROVE FirstInv'
  OBVIOUS
<1>0. TypeOK /\ FirstInv
  BY DEF PlayerInv
<1>1. ASSUME UNCHANGED <<firstOffer, offers>>, UNCHANGED <<run, ps, reader>>,
             readyState' = "connecting" =>
                readyState = "connecting" /\ UNCHANGED <<toClient, toServer>>
      PROVE  FirstInv'
  BY <1>0, <1>1 DEF FirstInv
<1>2. CASE UNCHANGED vars
  BY <1>1, <1>2 DEF vars, playerVars, serverVars, offerVars, socketVars, joinVars
<1>3. CASE \/ OnOpen \/ OnOffer \/ OnCandidate \/ OnStart \/ OnError \/ OnJoined \/ OnServerClose
           \/ OnClose \/ Stop \/ Breaks
  BY <1>1, <1>3 DEF OnOpen, OnOffer, OnCandidate, OnStart, OnError, OnJoined, OnServerClose, OnClose,
         Stop, Breaks, StopWith, ServerSend, Receives, playerVars, serverVars, offerVars, joinVars
<1>4. ASSUME NEW n \in Offers, MediaGranted(n) \/ MediaDenied(n) \/ SetOffer(n)
      PROVE  FirstInv'
  BY <1>1, <1>4 DEF MediaGranted, MediaDenied, SetOffer, serverVars, offerVars, joinVars, socketVars
<1>5. ASSUME NEW n \in Offers, Answer(n) PROVE FirstInv'
  BY <1>1, <1>5 DEF Answer, ServerSend, serverVars, offerVars, joinVars
<1>6. ASSUME NEW k \in Starts, RampTick(k) \/ RampContinues(k) PROVE FirstInv'
  BY <1>1, <1>6 DEF RampTick, RampContinues, serverVars, offerVars, joinVars, socketVars
<1>7. CASE RoomEnds
  BY <1>1, <1>7 DEF RoomEnds, offerVars, joinVars, socketVars, playerVars
<1>8. CASE ReadJoin \/ ReadJoinFails \/ JoinIsRead
  BY <1>0, <1>8 DEF ReadJoin, ReadJoinFails, JoinIsRead, FirstInv, playerVars, offerVars, socketVars,
                    Delivered
<1>9. CASE JoinRoom \/ CreatePeerConnection \/ AwaitEstimator \/ JoinTooLate
  BY <1>0, <1>9 DEF JoinRoom, CreatePeerConnection, AwaitEstimator, JoinTooLate, Refuse, CloseWs,
         Delivered, FirstInv, playerVars, offerVars, joinVars
<1>10. CASE FirstOfferRefused
  BY <1>0, <1>10, OfferNumbers DEF FirstOfferRefused, MayOffer, FirstInv, playerVars, offerVars,
         joinVars, socketVars, Offers
<1>11. CASE AttachCallbacks \/ ReceiveFails
  BY <1>0, <1>11 DEF AttachCallbacks, ReceiveFails, FirstInv, playerVars, offerVars, joinVars, socketVars
<1>12. CASE ReceiveAnswer \/ ReceiveStop \/ ReceiveClose
  BY <1>0, <1>12 DEF ReceiveAnswer, ReceiveStop, ReceiveClose, ServerReceives, PsClose, CloseWs,
         FirstInv, playerVars, offerVars, joinVars
<1>13. ASSUME NEW a \in Agents, CreateOffer(a) PROVE FirstInv'
  BY <1>0, <1>13, OfferNumbers DEF CreateOffer, MayOffer, FirstInv, Agents, playerVars, joinVars, socketVars
<1>14. ASSUME NEW a \in Agents, SendOffer(a) PROVE FirstInv'
  <2>1. offers > 0
    BY <1>0, <1>14, OfferNumbers DEF SendOffer, Offers
  <2>2. readyState # "connecting" /\ UNCHANGED readyState
    BY <1>0, <1>14, <2>1 DEF FirstInv, TypeOK, SendOffer, playerVars
  <2> QED
    <3>1. UNCHANGED <<offers, firstOffer>> /\ firstOffer # "none"
      BY <1>0, <1>14, <2>1 DEF SendOffer, FirstInv
    <3>2. run' = run \/ (run = "offering" /\ run' = "attaching")
      BY <1>14 DEF SendOffer
    <3>3. ps' = ps \/ ps' = "closed"
      BY <1>14 DEF SendOffer, Write, PsClose
    <3>4. ps # "none"
      BY <1>0, <2>1 DEF TypeOK
    <3> QED
      BY <1>0, <2>1, <2>2, <3>1, <3>2, <3>3, <3>4 DEF FirstInv
<1>15. ASSUME NEW c \in Candidates, Gather(c) PROVE FirstInv'
  BY <1>0, <1>15 DEF Gather, Write, PsClose, CloseWs, FirstInv, playerVars, offerVars, joinVars
<1>16. ASSUME NEW k \in Starts, TellStart(k) PROVE FirstInv'
  BY <1>0, <1>16 DEF TellStart, Write, PsClose, CloseWs, FirstInv, playerVars, offerVars, joinVars
<1>17. CASE LoopNoticesEnd \/ ConnectionFails
  BY <1>0, <1>17 DEF LoopNoticesEnd, ConnectionFails, PsClose, CloseWs, FirstInv, playerVars,
         offerVars, joinVars
<1> QED
  BY <1>2, <1>3, <1>4, <1>5, <1>6, <1>7, <1>8, <1>9, <1>10, <1>11, <1>12, <1>13, <1>14, <1>15, <1>16,
     <1>17 DEF Next, PlayerHandles, PlayerContinues, ServerRuns

----------------------------------------------------------------------------
LEMMA OfferedIs ==
    ASSUME TypeOK, Offered
    PROVE  \E i \in 1..Len(toClient) : toClient[i][1] = "offer"
<1>1. PICK n \in Offers : <<"offer", n>> \in Messages(toClient)
  BY DEF Offered
<1>2. PICK i \in 1..Len(toClient) : toClient[i] = <<"offer", n>>
  BY <1>1 DEF Messages
<1> QED
  BY <1>2

(* What never comes back: a player without a connection, an open           *)
(* websocket, the time before the first offer.                             *)
Forward ==
    /\ pc' = "none" => pc = "none"
    /\ wsOpen' => wsOpen
    /\ readyState' = "open" => readyState = "open" \/ OnOpen
    /\ firstOffer' = firstOffer \/ \E a \in Agents : CreateOffer(a)
    /\ run = "offering" =>
        UNCHANGED <<run, unsent>> \/ (\E a \in Agents : CreateOffer(a) \/ SendOffer(a))
                                  \/ unsent["self"] = 0

LEMMA GoesForward == ASSUME TypeOK, [Next]_vars PROVE Forward
<1>1. CASE UNCHANGED vars
  BY <1>1 DEF Forward, vars, playerVars, rtcVars, serverVars, offerVars
<1>2. CASE OnOpen \/ OnOffer \/ OnCandidate \/ OnStart \/ OnError \/ OnJoined \/ OnServerClose
           \/ OnClose \/ Stop \/ Breaks
  <2>1. UNCHANGED <<wsOpen, firstOffer, run, unsent>>
    BY <1>2 DEF OnOpen, OnOffer, OnCandidate, OnStart, OnError, OnJoined, OnServerClose, OnClose,
           Stop, Breaks, StopWith, serverVars, offerVars
  <2>2. pc' = "none" => pc = "none"
    <3>1. CASE OnOpen \/ OnOffer \/ OnCandidate \/ OnStart \/ OnJoined
      BY <3>1 DEF OnOpen, OnOffer, OnCandidate, OnStart, OnJoined, playerVars
    <3>2. CASE OnServerClose \/ OnClose \/ Breaks
      BY <3>2 DEF OnServerClose, OnClose, Breaks, StopRTC
    <3>3. CASE OnError \/ Stop
      BY <3>3 DEF OnError, Stop, StopWith, StopRTC, releasable
    <3> QED
      BY <1>2, <3>1, <3>2, <3>3
  <2>3. readyState' = "open" => readyState = "open" \/ OnOpen
    <3>1. CASE OnOffer \/ OnCandidate \/ OnStart \/ OnJoined
      BY <3>1 DEF OnOffer, OnCandidate, OnStart, OnJoined, playerVars
    <3>2. CASE OnServerClose \/ OnClose \/ Breaks
      BY <3>2 DEF OnServerClose, OnClose, Breaks
    <3>3. CASE OnError \/ Stop
      BY <3>3 DEF OnError, Stop, StopWith
    <3> QED
      BY <1>2, <3>1, <3>2, <3>3
  <2> QED
    BY <2>1, <2>2, <2>3 DEF Forward
<1>3. ASSUME NEW n \in Offers, MediaGranted(n) \/ MediaDenied(n) \/ SetOffer(n) \/ Answer(n)
      PROVE  Forward
  BY <1>3 DEF Forward, MediaGranted, MediaDenied, SetOffer, Answer, serverVars, offerVars
<1>4. ASSUME NEW k \in Starts, RampTick(k) \/ RampContinues(k) PROVE Forward
  BY <1>4 DEF Forward, RampTick, RampContinues, serverVars, offerVars
<1>5. CASE ReadJoin \/ ReadJoinFails \/ JoinIsRead \/ RoomEnds
  BY <1>5 DEF Forward, ReadJoin, ReadJoinFails, JoinIsRead, RoomEnds, playerVars, offerVars
<1>6. CASE JoinRoom \/ CreatePeerConnection \/ AwaitEstimator \/ JoinTooLate
  BY <1>6 DEF Forward, JoinRoom, CreatePeerConnection, AwaitEstimator, JoinTooLate, Refuse, CloseWs,
         playerVars, offerVars
<1>7. CASE FirstOfferRefused \/ AttachCallbacks \/ ReceiveFails
  BY <1>7 DEF Forward, FirstOfferRefused, AttachCallbacks, ReceiveFails, playerVars, offerVars
<1>8. CASE ReceiveAnswer \/ ReceiveStop \/ ReceiveClose
  BY <1>8 DEF Forward, ReceiveAnswer, ReceiveStop, ReceiveClose, ServerReceives, PsClose, CloseWs,
         playerVars, offerVars
<1>9. ASSUME NEW a \in Agents, CreateOffer(a) PROVE Forward
  BY <1>9 DEF Forward, CreateOffer, playerVars
<1>10. ASSUME NEW a \in Agents, SendOffer(a) PROVE Forward
  BY <1>10 DEF Forward, SendOffer, Write, PsClose, CloseWs, playerVars
<1>11. ASSUME NEW c \in Candidates, Gather(c) PROVE Forward
  BY <1>11 DEF Forward, Gather, Write, PsClose, CloseWs, playerVars, offerVars
<1>12. ASSUME NEW k \in Starts, TellStart(k) PROVE Forward
  BY <1>12 DEF Forward, TellStart, Write, PsClose, CloseWs, playerVars, offerVars
<1>13. CASE LoopNoticesEnd \/ ConnectionFails
  BY <1>13 DEF Forward, LoopNoticesEnd, ConnectionFails, PsClose, CloseWs, playerVars, offerVars
<1> QED
  BY <1>1, <1>2, <1>3, <1>4, <1>5, <1>6, <1>7, <1>8, <1>9, <1>10, <1>11, <1>12, <1>13
     DEF Next, PlayerHandles, PlayerContinues, ServerRuns

(* Who made the first offer, once there was one.                           *)
LEMMA FirstOfferStays ==
    ASSUME PlayerInv, [Next]_vars
    PROVE  /\ firstOffer # "none" => firstOffer' = firstOffer
           /\ firstOffer' = firstOffer \/ \E a \in Agents : CreateOffer(a) /\ firstOffer' = a
BY GoesForward DEF Forward, PlayerInv, CreateOffer

LEMMA CandidateStep == PlayerInv /\ [Next]_vars => CandidateInv'
<1> SUFFICES ASSUME PlayerInv, [Next]_vars,
                    readyState' = "open", firstOffer' # "mixer", pc' = "none"
             PROVE  /\ Ordered(toClient')
                    /\ wsOpen' /\ firstOffer' = "self" =>
                            Offered' \/ (unsent'["self"] # 0 /\ run' = "offering")
  BY DEF CandidateInv
<1> DEFINE Announced == Offered \/ (unsent["self"] # 0 /\ run = "offering")
<1>0. TypeOK /\ FirstInv /\ toClient \in Seq(ToClient) /\ Forward
  BY GoesForward DEF PlayerInv, TypeOK
<1>1. pc = "none" /\ firstOffer # "mixer" /\ (wsOpen' => wsOpen)
  BY <1>0, FirstOfferStays DEF Forward
<1>2. CASE OnOpen
  BY <1>0, <1>2, EmptyQueue DEF OnOpen, FirstInv, TypeOK, serverVars, offerVars, Agents
<1>3. ASSUME ~OnOpen PROVE readyState = "open"
  BY <1>0, <1>3 DEF Forward
<1>4. ASSUME ~OnOpen PROVE Ordered(toClient) /\ (wsOpen /\ firstOffer = "self" => Announced)
  BY <1>1, <1>3, <1>4 DEF PlayerInv, CandidateInv
<1>5. CASE OnOffer
  <2>1. startedRTC
    BY <1>5 DEF OnOffer
  <2> QED
    BY <1>0, <1>1, <2>1 DEF PlayerInv, ConsentInv, TypeOK
<1>6. ASSUME NEW a \in Agents, CreateOffer(a) PROVE wsOpen' /\ firstOffer' = "self" =>
                Offered' \/ (unsent'["self"] # 0 /\ run' = "offering")
  <2>1. /\ unsent' = [unsent EXCEPT ![a] = offers + 1] /\ offers + 1 # 0
        /\ UNCHANGED <<toClient, run>> /\ ps = "open"
        /\ ~OnOpen
    BY <1>0, <1>6, OfferNumbers DEF CreateOffer, MayOffer, socketVars, OnOpen, FirstInv, playerVars
  <2>2. CASE firstOffer = "self"
    <3>1. Offered => Offered'
      BY <2>1 DEF Offered
    <3>2. unsent["self"] # 0 => unsent'["self"] # 0
      BY <1>0, <2>1 DEF TypeOK, Agents
    <3> QED
      BY <1>1, <1>4, <2>1, <2>2, <3>1, <3>2
  <2>3. CASE firstOffer # "self" /\ firstOffer' = "self"
    <3>1. a = "self" /\ firstOffer = "none"
      BY <1>6, <2>3 DEF CreateOffer
    <3>2. run = "offering"
      BY <1>0, <1>6, <2>1, <3>1 DEF CreateOffer, HasCallbacks, FirstInv
    <3>3. unsent'["self"] # 0
      BY <1>0, <2>1, <3>1 DEF TypeOK, Agents
    <3> QED
      BY <2>1, <3>2, <3>3
  <2> QED
    BY <2>2, <2>3
<1>7. CASE Keeps(toClient, toClient') /\ ~OnOpen /\ (\A a \in Agents : ~CreateOffer(a) /\ ~SendOffer(a))
  <2>1. Ordered(toClient')
    BY <1>4, <1>7 DEF Keeps
  <2>2. Offered => Offered'
    BY <1>7 DEF Keeps, Offered
  <2>3. firstOffer' = firstOffer /\ (run = "offering" => UNCHANGED <<run, unsent>> \/ unsent["self"] = 0)
    BY <1>0, <1>7 DEF Forward
  <2> QED
    BY <1>1, <1>4, <1>7, <2>1, <2>2, <2>3
<1>8. CASE OnStart
  <2>1. /\ toClient # <<>> /\ Head(toClient)[1] = "start" /\ toClient' = Tail(toClient)
        /\ UNCHANGED <<run, unsent, firstOffer, wsOpen>> /\ ~OnOpen
    BY <1>8 DEF OnStart, Receives, OnOpen, serverVars, offerVars
  <2>2. Ordered(toClient')
    BY <1>0, <1>4, <2>1, TailOrdered
  <2>3. \A n \in Offers : <<"offer", n>> # Head(toClient)
    BY <2>1, OfferIsAMessage
  <2>4. Offered => Offered'
    BY <1>0, <2>1, <2>3, TailMessages DEF Offered
  <2> QED
    BY <1>4, <2>1, <2>2, <2>4
<1>9. ASSUME NEW a \in Agents, SendOffer(a)
      PROVE  /\ Ordered(toClient')
             /\ wsOpen' /\ firstOffer' = "self" => Offered'
  <2>1. Write(<<"offer", unsent[a]>>) /\ unsent[a] \in Offers /\ ~OnOpen
    BY <1>0, <1>9, OfferNumbers DEF SendOffer, OnOpen, FirstInv, Offers, TypeOK, playerVars
  <2>2. CASE toClient' = toClient \o <<<<"offer", unsent[a]>>>>
    <3>1. Messages(toClient') = Messages(toClient) \union {<<"offer", unsent[a]>>}
      BY <1>0, <2>1, <2>2, OfferIsAMessage, AddMessage
    <3>2. Ordered(toClient')
      BY <1>0, <1>4, <2>1, <2>2, OfferIsAMessage, AddOrdered
    <3> QED
      BY <2>1, <3>1, <3>2 DEF Offered
  <2>3. CASE toClient' # toClient \o <<<<"offer", unsent[a]>>>>
    <3>1. ~wsOpen'
      BY <1>1, <1>3, <2>1, <2>3 DEF Write, Delivered, PsClose, CloseWs
    <3>2. Keeps(toClient, toClient')
      BY <1>0, <2>1, <2>3, OfferIsAMessage, Written
    <3> QED
      BY <1>4, <2>1, <3>1, <3>2 DEF Keeps
  <2> QED
    BY <2>2, <2>3
<1>10. ASSUME NEW c \in Candidates, Gather(c), ~Keeps(toClient, toClient')
       PROVE  /\ Ordered(toClient')
              /\ wsOpen' /\ firstOffer' = "self" => Offered'
  <2>1. /\ HasCallbacks /\ Write(<<"candidate", c>>) /\ offers > 0 /\ ~OnOpen
        /\ UNCHANGED <<firstOffer, run>>
    BY <1>0, <1>10, KeepsItself DEF Gather, OnOpen, FirstInv, playerVars, offerVars
  <2>2. toClient' = toClient \o <<<<"candidate", c>>>>
    BY <1>0, <1>10, <2>1, OfferIsAMessage, Written
  <2>3. wsOpen
    <3>1. toClient' # toClient
      BY <1>0, <1>10, KeepsItself
    <3> QED
      BY <2>1, <3>1 DEF Write, Delivered, PsClose, CloseWs
  <2>4. firstOffer = "self"
    BY <1>0, <1>1, <2>1 DEF FirstInv, Agents
  <2>5. Offered
    BY <1>4, <2>1, <2>3, <2>4 DEF HasCallbacks
  <2>6. Ordered(toClient')
    BY <1>0, <1>4, <2>1, <2>2, <2>5, OfferedIs, OfferIsAMessage, AddOrdered
  <2>7. Messages(toClient) \subseteq Messages(toClient')
    BY <1>0, <2>2, OfferIsAMessage, AddMessage
  <2> QED
    BY <2>5, <2>6, <2>7 DEF Offered
<1>11. ASSUME NEW k \in Starts, TellStart(k), ~Keeps(toClient, toClient')
       PROVE  /\ Ordered(toClient')
              /\ wsOpen' /\ firstOffer' = "self" =>
                    Offered' \/ (unsent'["self"] # 0 /\ run' = "offering")
  <2>1. Write(<<"start", k>>) /\ ~OnOpen /\ UNCHANGED <<firstOffer, run, unsent>>
    BY <1>0, <1>11 DEF TellStart, OnOpen, FirstInv, playerVars, offerVars
  <2>2. toClient' = toClient \o <<<<"start", k>>>>
    BY <1>0, <1>11, <2>1, OfferIsAMessage, Written
  <2>3. Ordered(toClient')
    BY <1>0, <1>4, <2>1, <2>2, OfferIsAMessage, AddOrdered
  <2>4. Messages(toClient) \subseteq Messages(toClient')
    BY <1>0, <2>2, OfferIsAMessage, AddMessage
  <2> QED
    BY <1>1, <1>4, <2>1, <2>3, <2>4 DEF Offered
<1>12. ASSUME NEW a \in Agents, CreateOffer(a) PROVE Ordered(toClient')
  BY <1>0, <1>4, <1>12 DEF CreateOffer, MayOffer, OnOpen, FirstInv, playerVars, socketVars
<1> QED
  BY <1>0, <1>2, <1>5, <1>6, <1>7, <1>8, <1>9, <1>10, <1>11, <1>12, ClientStep DEF ClientChanges

LEMMA LostStep == PlayerInv /\ [Next]_vars => CandidatesReachPlayer'
<1> SUFFICES ASSUME PlayerInv, [Next]_vars, NEW d \in Candidates, candidate'[d] = "lost"
             PROVE  firstOffer' = "mixer"
  BY DEF CandidatesReachPlayer
<1>0. TypeOK
  BY DEF PlayerInv
<1>1. ASSUME candidate[d] = "lost" PROVE firstOffer' = "mixer"
  BY <1>1, FirstOfferStays DEF PlayerInv, CandidatesReachPlayer
<1>2. ASSUME UNCHANGED candidate PROVE firstOffer' = "mixer"
  BY <1>1, <1>2
<1>3. CASE OnCandidate
  <2>1. readyState = "open" /\ toClient # <<>> /\ Head(toClient)[1] = "candidate"
        /\ UNCHANGED firstOffer
    BY <1>3 DEF OnCandidate, Receives, serverVars, offerVars
  <2>2. candidate[d] = "lost" \/ pc = "none"
    BY <1>0, <1>3 DEF OnCandidate, CandidateGoesTo, TypeOK
  <2>3. ~Ordered(toClient)
    BY <1>0, <2>1, TailOrdered DEF TypeOK
  <2>4. pc = "none" => firstOffer = "mixer"
    BY <2>1, <2>3 DEF PlayerInv, CandidateInv
  <2> QED
    BY <1>1, <2>1, <2>2, <2>4
<1>4. ASSUME NEW n \in Offers, SetOffer(n) PROVE firstOffer' = "mixer"
  BY <1>0, <1>1, <1>4 DEF SetOffer, TypeOK
<1>5. ASSUME NEW c \in Candidates, Gather(c) PROVE firstOffer' = "mixer"
  BY <1>0, <1>1, <1>5 DEF Gather, TypeOK
<1>6. CASE UNCHANGED vars
  BY <1>2, <1>6 DEF vars
<1>7. CASE OnOpen \/ OnOffer \/ OnStart \/ OnError \/ OnJoined \/ OnServerClose \/ OnClose \/ Stop \/ Breaks
  BY <1>2, <1>7 DEF OnOpen, OnOffer, OnStart, OnError, OnJoined, OnServerClose, OnClose, Stop, Breaks,
         StopWith
<1>8. ASSUME NEW n \in Offers, MediaGranted(n) \/ MediaDenied(n) \/ Answer(n)
      PROVE  firstOffer' = "mixer"
  BY <1>2, <1>8 DEF MediaGranted, MediaDenied, Answer
<1>9. ASSUME NEW k \in Starts, RampTick(k) \/ RampContinues(k) \/ TellStart(k) PROVE firstOffer' = "mixer"
  BY <1>2, <1>9 DEF RampTick, RampContinues, TellStart
<1>10. ASSUME NEW a \in Agents, CreateOffer(a) \/ SendOffer(a) PROVE firstOffer' = "mixer"
  BY <1>2, <1>10 DEF CreateOffer, SendOffer
<1>11. CASE \/ ReadJoin \/ ReadJoinFails \/ JoinIsRead \/ JoinRoom \/ CreatePeerConnection
            \/ AwaitEstimator \/ FirstOfferRefused \/ AttachCallbacks \/ JoinTooLate
            \/ ReceiveAnswer \/ ReceiveStop \/ ReceiveClose \/ ReceiveFails
            \/ RoomEnds \/ LoopNoticesEnd \/ ConnectionFails
  BY <1>2, <1>11 DEF ReadJoin, ReadJoinFails, JoinIsRead, JoinRoom, CreatePeerConnection,
         AwaitEstimator, FirstOfferRefused, AttachCallbacks, JoinTooLate, ReceiveAnswer, ReceiveStop,
         ReceiveClose, ReceiveFails, RoomEnds, LoopNoticesEnd, ConnectionFails
<1> QED
  BY <1>3, <1>4, <1>5, <1>6, <1>7, <1>8, <1>9, <1>10, <1>11
     DEF Next, PlayerHandles, PlayerContinues, ServerRuns

----------------------------------------------------------------------------
(* Steps that leave the player alone.                                      *)
ServerAlone ==
    /\ UNCHANGED <<readyState, stopped, startedRTC, pc, created, handler, remoteDescription, stream,
                   late, ramping, polling, rampInterval, statsIntervalId, blind, step, inFlight,
                   overtaken>>

LEMMA AloneStep ==
    ASSUME [Next]_vars
    PROVE  \/ ServerAlone
           \/ PlayerHandles \/ Stop \/ Breaks
           \/ \E n \in Offers : MediaGranted(n) \/ MediaDenied(n) \/ SetOffer(n) \/ Answer(n)
           \/ \E k \in Starts : RampTick(k) \/ RampContinues(k)
<1>1. CASE UNCHANGED vars
  BY <1>1 DEF ServerAlone, vars, playerVars, rtcVars, timerVars, tickVars
<1>2. CASE ServerRuns
  BY <1>2 DEF ServerAlone, playerVars, rtcVars, timerVars, tickVars, ServerRuns, ReadJoin, ReadJoinFails, JoinIsRead, JoinRoom,
         CreatePeerConnection, AwaitEstimator, FirstOfferRefused, AttachCallbacks, ReceiveAnswer, ReceiveStop,
         ReceiveClose, ReceiveFails
<1>3. CASE JoinTooLate \/ RoomEnds \/ LoopNoticesEnd \/ ConnectionFails
  BY <1>3 DEF ServerAlone, playerVars, rtcVars, timerVars, tickVars, JoinTooLate, RoomEnds, LoopNoticesEnd, ConnectionFails
<1>4. ASSUME NEW a \in Agents, CreateOffer(a) \/ SendOffer(a) PROVE ServerAlone
  BY <1>4 DEF ServerAlone, playerVars, rtcVars, timerVars, tickVars, CreateOffer, SendOffer
<1>5. ASSUME NEW c \in Candidates, Gather(c) PROVE ServerAlone
  BY <1>5 DEF ServerAlone, playerVars, rtcVars, timerVars, tickVars, Gather
<1>6. ASSUME NEW k \in Starts, TellStart(k) PROVE ServerAlone
  BY <1>6 DEF ServerAlone, playerVars, rtcVars, timerVars, tickVars, TellStart
<1> QED
  BY <1>1, <1>2, <1>3, <1>4, <1>5, <1>6 DEF Next, PlayerContinues

LEMMA StopStep == PlayerInv /\ [Next]_vars => StopInv'
<1> SUFFICES ASSUME PlayerInv, [Next]_vars PROVE StopInv'
  OBVIOUS
<1>0. TypeOK /\ StopInv
  BY DEF PlayerInv
<1>1. CASE ServerAlone
  BY <1>0, <1>1 DEF ServerAlone, StopInv
<1>2. CASE OnOpen \/ OnOffer
  BY <1>0, <1>2 DEF OnOpen, OnOffer, Receives, StopInv
<1>3. CASE OnCandidate \/ OnJoined \/ OnStart
  BY <1>0, <1>3 DEF OnCandidate, OnJoined, OnStart, playerVars, StopInv
<1>4. CASE OnServerClose \/ OnClose \/ Breaks
  BY <1>0, <1>4 DEF OnServerClose, OnClose, Breaks, StopRTC, StopInv
<1>5. CASE OnError \/ Stop
  BY <1>0, <1>5 DEF OnError, Stop, StopWith, StopRTC, releasable, StopInv
<1>6. ASSUME NEW n \in Offers, MediaGranted(n) \/ MediaDenied(n) \/ SetOffer(n) \/ Answer(n)
      PROVE  StopInv'
  BY <1>0, <1>6 DEF MediaGranted, MediaDenied, SetOffer, Answer, StopInv
<1>7. ASSUME NEW k \in Starts, RampTick(k) \/ RampContinues(k) PROVE StopInv'
  BY <1>0, <1>7 DEF RampTick, RampContinues, StopInv
<1> QED
  BY <1>1, <1>2, <1>3, <1>4, <1>5, <1>6, <1>7, AloneStep DEF PlayerHandles

(* Nobody forgets a start.                                                 *)
LEMMA ToldGrows ==
    ASSUME [Next]_vars
    PROVE  UNCHANGED told \/ \E k \in Starts : TellStart(k) /\ told' = told \union {k}
<1>1. ASSUME \A k \in Starts : ~TellStart(k) PROVE UNCHANGED told
  BY <1>1 DEF Next, vars, serverVars, PlayerHandles, PlayerContinues, ServerRuns, OnOpen, OnOffer, OnCandidate, OnStart,
         OnError, OnJoined, OnServerClose, OnClose, MediaGranted, MediaDenied, SetOffer, Answer, RampTick, RampContinues, Stop, StopWith,
         Breaks, ReadJoin, ReadJoinFails, JoinIsRead, JoinRoom, CreatePeerConnection, AwaitEstimator, FirstOfferRefused,
         AttachCallbacks, ReceiveAnswer, ReceiveStop, ReceiveClose, ReceiveFails, JoinTooLate, CreateOffer, SendOffer,
         Gather, RoomEnds, LoopNoticesEnd, ConnectionFails
<1> QED
  BY <1>1 DEF TellStart

(* What runs, and how far, while one start at most was told.               *)
LEMMA TimerStep == PlayerInv /\ [Next]_vars => TimerInv'
<1> SUFFICES ASSUME PlayerInv, [Next]_vars PROVE TimerInv'
  OBVIOUS
<1>0. TypeOK /\ TimerInv /\ Steps \in Nat /\ Steps > 0
  BY StepsAssumption DEF PlayerInv
<1>00. /\ step \in [Starts -> 0..Steps + 1] /\ inFlight \in [Starts -> 0..Steps + 1]
       /\ \A l \in Starts : step[l] \in Int /\ inFlight[l] \in Int
  BY <1>0 DEF TypeOK
<1>1. \A k \in Starts : <<"start", k>> \in Messages(toClient') =>
                \/ <<"start", k>> \in Messages(toClient) /\ (OnStart => k # Head(toClient)[2])
                \/ TellStart(k)
  BY ClientHolds
<1>2. ASSUME NEW k \in Starts, TellStart(k) PROVE TimerInv'
  <2>1. /\ k \notin told /\ told' = told \union {k} /\ ServerAlone
        /\ ~OnStart
    BY <1>2 DEF TellStart, ServerAlone, playerVars, rtcVars, timerVars, tickVars, OnStart, serverVars
  <2>2. \A l \in Starts : TellStart(l) => l = k
    BY <1>2 DEF TellStart
  <2>3. k \notin ramping /\ step[k] = 0
    BY <1>0, <2>1 DEF TypeOK, TimerInv
  <2>4. \A l \in Starts : <<"start", l>> \in Messages(toClient') => l \in told' \ ramping' /\ step'[l] = 0
    BY <1>0, <1>1, <2>1, <2>2, <2>3 DEF TimerInv, ServerAlone
  <2>5. told # Starts
    BY <2>1
  <2> QED
    BY <1>0, <2>1, <2>3, <2>4, <2>5 DEF TimerInv, ServerAlone
<1>3. ASSUME \A k \in Starts : ~TellStart(k) PROVE UNCHANGED told
  BY <1>3, ToldGrows
<1>4. CASE OnStart
  <2>1. PICK k \in Starts : Head(toClient) = <<"start", k>> /\ Head(toClient)[2] = k
    BY <1>0, <1>4, HeadIs DEF OnStart, Receives
  <2>2. /\ ramping' = ramping \union {k} /\ polling' = polling \union {k}
        /\ rampInterval' = k /\ statsIntervalId' = k
        /\ blind' = blind \/ blind' = blind \union {k}
        /\ UNCHANGED <<step, inFlight, overtaken, told>>
        /\ \A l \in Starts : ~TellStart(l)
    BY <1>4, <2>1 DEF OnStart, serverVars, TellStart, playerVars, timerVars, tickVars
  <2>3. k \in told \ ramping /\ step[k] = 0
    <3>1. <<"start", k>> \in Messages(toClient)
      BY <1>0, <1>4, <2>1, TailMessages DEF OnStart, Receives, TypeOK
    <3> QED
      BY <1>0, <3>1 DEF TimerInv
  <2>4. \A l \in Starts : <<"start", l>> \in Messages(toClient') => l \in told' \ ramping' /\ step'[l] = 0
    BY <1>0, <1>1, <1>4, <2>1, <2>2 DEF TimerInv
  <2>5. ASSUME told # Starts PROVE told = {k}
    <3>1. told \subseteq Starts /\ k \in told
      BY <1>0, <2>3 DEF TypeOK
    <3>2. PICK l \in Starts : l \notin told
      BY <2>5, <3>1
    <3> QED
      BY <3>1, <3>2 DEF Starts
  <2>6. ASSUME told # Starts
        PROVE  /\ ramping' \subseteq {k} /\ polling' \subseteq {k}
               /\ \A l \in ramping' : step'[l] < Steps
    BY <1>0, <2>2, <2>3, <2>5, <2>6 DEF TypeOK, TimerInv
  <2> QED
    BY <1>0, <2>2, <2>3, <2>4, <2>6 DEF TimerInv
<1>5. ASSUME NEW k \in Starts, RampTick(k) PROVE TimerInv'
  <2>1. /\ k \in ramping /\ step[k] \in 0..Steps
        /\ step' = [step EXCEPT ![k] = @ + 1] /\ inFlight' = [inFlight EXCEPT ![k] = @ + 1]
        /\ overtaken' = IF inFlight[k] = 0 THEN overtaken ELSE overtaken \union {k}
        /\ UNCHANGED <<ramping, polling, rampInterval, statsIntervalId, told, toClient>>
    BY <1>0, <1>5 DEF RampTick, TypeOK, serverVars, socketVars
  <2>2. /\ step'[k] = step[k] + 1 /\ inFlight'[k] = inFlight[k] + 1
        /\ \A l \in Starts : l # k => step'[l] = step[l] /\ inFlight'[l] = inFlight[l]
    BY <1>00, <2>1
  <2>3. \A l \in Starts : <<"start", l>> \in Messages(toClient) => l # k
    BY <1>0, <2>1 DEF TimerInv
  <2>4. ASSUME told # Starts, NEW l \in Starts \ overtaken'
        PROVE  /\ inFlight'[l] <= 1
               /\ l \in ramping => step'[l] < Steps \/ (step'[l] = Steps /\ inFlight'[l] = 1)
    <3>1. CASE l # k
      BY <1>0, <2>1, <2>2, <2>4, <3>1 DEF TimerInv
    <3>2. CASE l = k
      <4>1. inFlight[k] = 0 /\ k \notin overtaken
        BY <2>1, <2>4, <3>2
      <4>2. step[k] < Steps
        BY <1>0, <2>1, <2>4, <4>1 DEF TimerInv
      <4> QED
        BY <1>0, <1>00, <2>2, <3>2, <4>1, <4>2
    <3> QED
      BY <3>1, <3>2
  <2>5. k \in told
    BY <1>0, <2>1 DEF TypeOK
  <2>6. told # Starts =>
          /\ ramping' \subseteq {rampInterval'} /\ polling' \subseteq {statsIntervalId'}
          /\ \A l \in Starts \ overtaken' : inFlight'[l] <= 1
          /\ \A l \in ramping' \ overtaken' :
                step'[l] < Steps \/ (step'[l] = Steps /\ inFlight'[l] = 1)
    BY <1>0, <2>1, <2>4 DEF TypeOK, TimerInv
  <2> QED
    BY <1>0, <2>1, <2>2, <2>3, <2>5, <2>6 DEF TimerInv
<1>8. ASSUME NEW k \in Starts, RampContinues(k) PROVE TimerInv'
  <2>1. /\ inFlight[k] > 0 /\ inFlight' = [inFlight EXCEPT ![k] = @ - 1]
        /\ ramping' = IF step[k] = Steps THEN ramping \ {rampInterval} ELSE ramping
        /\ UNCHANGED <<polling, rampInterval, statsIntervalId, step, overtaken, told, toClient>>
    BY <1>8 DEF RampContinues, serverVars, socketVars
  <2>2. /\ inFlight'[k] = inFlight[k] - 1
        /\ \A l \in Starts : l # k => inFlight'[l] = inFlight[l]
    BY <1>00, <2>1
  <2>3. ASSUME told # Starts
        PROVE  /\ ramping' \subseteq {rampInterval'} /\ polling' \subseteq {statsIntervalId'}
               /\ \A l \in Starts \ overtaken' : inFlight'[l] <= 1
               /\ \A l \in ramping' \ overtaken' :
                     step'[l] < Steps \/ (step'[l] = Steps /\ inFlight'[l] = 1)
    <3>1. \A l \in Starts \ overtaken : inFlight'[l] <= 1
      BY <1>0, <1>00, <2>1, <2>2, <2>3 DEF TimerInv
    <3>2. CASE step[k] = Steps
      <4>1. ramping' = {}
        BY <1>0, <2>1, <2>3, <3>2 DEF TimerInv
      <4> QED
        BY <1>0, <2>1, <2>3, <3>1, <4>1 DEF TimerInv
    <3>3. CASE step[k] # Steps
      BY <1>0, <2>1, <2>2, <2>3, <3>1, <3>3 DEF TimerInv, TypeOK
    <3> QED
      BY <3>2, <3>3
  <2> QED
    BY <1>0, <2>1, <2>3 DEF TimerInv
<1>6. ASSUME \A k \in Starts : ~TellStart(k) /\ ~RampTick(k) /\ ~RampContinues(k), ~OnStart
      PROVE  /\ polling' \subseteq polling /\ UNCHANGED <<overtaken, statsIntervalId>>
             /\ \/ UNCHANGED <<ramping, rampInterval, step, inFlight>>
                \/ /\ ramping' = ramping \ {rampInterval}
                   /\ \A l \in Starts : step'[l] \in {0, step[l]} /\ inFlight'[l] = 0
  <2>1. CASE ServerAlone
    BY <2>1 DEF ServerAlone
  <2>2. CASE OnOpen \/ OnOffer \/ OnCandidate \/ OnJoined
    BY <2>2 DEF OnOpen, OnOffer, OnCandidate, OnJoined, playerVars, timerVars, tickVars
  <2>3. CASE OnServerClose \/ OnClose \/ Breaks
    BY <2>3 DEF OnServerClose, OnClose, Breaks, StopRTC
  <2>4. CASE OnError \/ Stop
    BY <2>4 DEF OnError, Stop, StopWith, StopRTC, releasable
  <2>5. ASSUME NEW n \in Offers, MediaGranted(n) \/ MediaDenied(n) \/ SetOffer(n) \/ Answer(n)
        PROVE  UNCHANGED timerVars
    BY <2>5 DEF MediaGranted, MediaDenied, SetOffer, Answer
  <2> QED
    BY <1>6, <2>1, <2>2, <2>3, <2>4, <2>5, AloneStep DEF PlayerHandles, timerVars, tickVars
<1>7. ASSUME \A k \in Starts : ~TellStart(k) /\ ~RampTick(k) /\ ~RampContinues(k), ~OnStart
      PROVE  TimerInv'
  <2>1. CASE UNCHANGED <<ramping, rampInterval, step, inFlight>>
    BY <1>0, <1>1, <1>3, <1>6, <1>7, <2>1 DEF TimerInv
  <2>2. CASE /\ ramping' = ramping \ {rampInterval}
             /\ \A l \in Starts : step'[l] \in {0, step[l]} /\ inFlight'[l] = 0
    <3>1. told # Starts => ramping' = {}
      BY <1>0, <2>2 DEF TimerInv
    <3> QED
      BY <1>0, <1>1, <1>3, <1>6, <1>7, <2>2, <3>1 DEF TimerInv
  <2> QED
    BY <1>6, <1>7, <2>1, <2>2
<1> QED
  BY <1>2, <1>4, <1>5, <1>7, <1>8


LEMMA NothingStep == PlayerInv /\ [Next]_vars => NothingOutlivesPlayer'
<1> SUFFICES ASSUME PlayerInv, [Next]_vars PROVE NothingOutlivesPlayer'
  OBVIOUS
<1> DEFINE Released  == (stopped \/ readyState = "closed") /\ stream = "live" => late
           Cleared   == stopped \/ readyState = "closed" => ramping = {} /\ polling = {}
           Bounded   == \A k \in Starts \ overtaken : step[k] <= Steps
<1>0. TypeOK /\ NothingOutlivesPlayer /\ StopInv /\ TimerInv /\ ConsentInv /\ Steps \in Nat
  BY StepsAssumption DEF PlayerInv
<1>1. told' # Starts => told # Starts
  <2>1. told \subseteq Starts /\ told' \subseteq Starts
    BY <1>0, ToldGrows DEF TypeOK
  <2> QED
    BY <2>1, ToldGrows
<1>2. Released /\ (told # Starts => Cleared /\ Bounded)
  BY <1>0 DEF NothingOutlivesPlayer
<1>3. CASE ServerAlone
  BY <1>1, <1>2, <1>3 DEF ServerAlone, NothingOutlivesPlayer
<1>4. CASE OnOpen \/ OnOffer \/ OnCandidate \/ OnJoined
  <2>1. /\ UNCHANGED <<stopped, stream, late, ramping, polling, step, overtaken>>
        /\ readyState' = "closed" => readyState = "closed"
    BY <1>4 DEF OnOpen, OnOffer, OnCandidate, OnJoined, playerVars, rtcVars, timerVars, tickVars
  <2> QED
    BY <1>1, <1>2, <2>1 DEF NothingOutlivesPlayer
<1>5. CASE OnServerClose \/ OnClose \/ Breaks
  <2>1. StopRTC /\ UNCHANGED overtaken
    BY <1>5 DEF OnServerClose, OnClose, Breaks
  <2>2. /\ stream' # "live" /\ (told # Starts => ramping' = {} /\ polling' = {})
        /\ \A l \in Starts : step'[l] \in {0, step[l]}
    BY <1>0, <2>1 DEF StopRTC, TimerInv
  <2>3. told # Starts => \A l \in Starts \ overtaken' : step'[l] <= Steps
    BY <1>0, <1>2, <2>1, <2>2
  <2> QED
    BY <1>1, <1>2, <2>2, <2>3 DEF NothingOutlivesPlayer
<1>6. CASE OnError \/ Stop
  <2>1. CASE stopped
    <3>1. UNCHANGED <<stopped, stream, late, ramping, polling, step, overtaken, readyState>>
      BY <1>6, <2>1 DEF OnError, Stop, StopWith, releasable, rtcVars, tickVars
    <3> QED
      BY <1>1, <1>2, <3>1 DEF NothingOutlivesPlayer
  <2>2. CASE ~stopped
    <3>1. StopRTC /\ UNCHANGED overtaken
      BY <1>6, <2>2 DEF OnError, Stop, StopWith
    <3>2. /\ stream' # "live" /\ (told # Starts => ramping' = {} /\ polling' = {})
          /\ \A l \in Starts : step'[l] \in {0, step[l]}
      BY <1>0, <3>1 DEF StopRTC, TimerInv
    <3>3. told # Starts => \A l \in Starts \ overtaken' : step'[l] <= Steps
      BY <1>0, <1>2, <3>1, <3>2
    <3> QED
      BY <1>1, <1>2, <3>2, <3>3 DEF NothingOutlivesPlayer
  <2> QED
    BY <2>1, <2>2
<1>7. CASE OnStart
  <2>1. readyState = "open" /\ UNCHANGED <<readyState, stopped, step, overtaken>>
    BY <1>7 DEF OnStart, Receives, tickVars
  <2>2. ~stopped
    BY <1>0, <2>1 DEF StopInv
  <2> QED
    BY <1>1, <1>2, <2>1, <2>2 DEF NothingOutlivesPlayer
<1>8. ASSUME NEW n \in Offers, MediaGranted(n) PROVE NothingOutlivesPlayer'
  <2>1. UNCHANGED <<readyState, stopped, timerVars>>
    BY <1>8 DEF MediaGranted
  <2>2. CASE pc = "closed"
    BY <1>1, <1>2, <1>8, <2>1, <2>2 DEF MediaGranted, timerVars, tickVars, NothingOutlivesPlayer
  <2>3. CASE pc # "closed"
    <3>1. created > 0
      BY <1>0, <1>8 DEF MediaGranted, ConsentInv
    <3>2. pc = "open"
      BY <1>0, <2>3, <3>1 DEF TypeOK
    <3>3. ~stopped /\ readyState # "closed"
      BY <1>0, <3>2 DEF StopInv
    <3> QED
      BY <1>1, <1>2, <2>1, <3>3 DEF timerVars, tickVars, NothingOutlivesPlayer
  <2> QED
    BY <2>2, <2>3
<1>9. ASSUME NEW n \in Offers, MediaDenied(n) \/ SetOffer(n) \/ Answer(n) PROVE NothingOutlivesPlayer'
  BY <1>1, <1>2, <1>9 DEF MediaDenied, SetOffer, Answer, timerVars, tickVars, NothingOutlivesPlayer
<1>10. ASSUME NEW k \in Starts, RampTick(k) PROVE NothingOutlivesPlayer'
  <2>1. /\ k \in ramping /\ step' = [step EXCEPT ![k] = @ + 1]
        /\ overtaken' = IF inFlight[k] = 0 THEN overtaken ELSE overtaken \union {k}
        /\ UNCHANGED <<readyState, stopped, stream, late, ramping, polling>>
    BY <1>10 DEF RampTick, rtcVars
  <2>2. ASSUME told # Starts, NEW l \in Starts \ overtaken' PROVE step'[l] <= Steps
    <3>1. l # k => step'[l] = step[l]
      BY <1>0, <2>1 DEF TypeOK
    <3>2. l = k => step[l] < Steps /\ step[l] \in Nat /\ step'[l] = step[l] + 1
      BY <1>0, <2>1, <2>2 DEF TypeOK, TimerInv
    <3>3. l \notin overtaken
      BY <2>1, <2>2
    <3> QED
      BY <1>0, <1>2, <2>2, <3>1, <3>2, <3>3
  <2> QED
    BY <1>1, <1>2, <2>1, <2>2 DEF NothingOutlivesPlayer
<1>11. ASSUME NEW k \in Starts, RampContinues(k) PROVE NothingOutlivesPlayer'
  <2>1. /\ ramping' \subseteq ramping
        /\ UNCHANGED <<readyState, stopped, stream, late, polling, step, overtaken>>
    BY <1>11 DEF RampContinues, rtcVars
  <2> QED
    BY <1>1, <1>2, <2>1 DEF NothingOutlivesPlayer
<1> QED
  BY <1>3, <1>4, <1>5, <1>6, <1>7, <1>8, <1>9, <1>10, <1>11, AloneStep DEF PlayerHandles

----------------------------------------------------------------------------
(* The type invariant: of the server's variables, and of the player's.     *)
ServerTypes ==
    /\ reader \in {"reading", "sending", "done"}
    /\ estimatorCh \in {"empty", "full", "failed"}
    /\ run \in {"waiting", "joining", "connecting", "created", "uncreated",
               "offering", "attaching", "looping", "returned"}
    /\ ps \in {"none", "open", "closed"}
    /\ offers \in 0..MaxOffers /\ (ps = "none" => offers = 0)
    /\ pendingOffer \in {0, offers} /\ unsent \in [Agents -> {0, offers}]
    /\ wsOpen \in BOOLEAN /\ answered \in BOOLEAN

LEMMA ServerTypesStep == PlayerInv /\ [Next]_vars => ServerTypes' /\ offers' >= offers
<1> SUFFICES ASSUME PlayerInv, [Next]_vars PROVE ServerTypes' /\ offers' >= offers
  OBVIOUS
<1>0. ServerTypes /\ offers \in Nat /\ MaxOffers \in Nat
  BY OfferNumbers DEF PlayerInv, TypeOK, ServerTypes
<1> DEFINE Flow ==
        /\ reader' = reader /\ estimatorCh' = estimatorCh
        /\ run' \in {run, "connecting", "attaching", "looping", "returned"}
        /\ ps' = ps \/ ps' = "closed"
        /\ wsOpen' = wsOpen \/ wsOpen' = FALSE
        /\ UNCHANGED <<offers, unsent>>
        /\ pendingOffer' = pendingOffer \/ pendingOffer' = 0
        /\ answered' = answered \/ answered' = TRUE
<1>17. ASSUME Flow PROVE ServerTypes' /\ offers' >= offers
  <2>1. wsOpen' \in BOOLEAN /\ answered' \in BOOLEAN
    BY <1>0, <1>17 DEF ServerTypes
  <2>2. pendingOffer' \in {0, offers'} /\ unsent' \in [Agents -> {0, offers'}] /\ offers' >= offers
    BY <1>0, <1>17 DEF ServerTypes
  <2> QED
    BY <1>0, <1>17, <2>1, <2>2 DEF ServerTypes
<1> HIDE DEF Flow
<1>1. CASE UNCHANGED <<joinVars, run, ps, wsOpen, offerVars>>
  BY <1>0, <1>1 DEF ServerTypes, joinVars, offerVars
<1>2. CASE UNCHANGED vars \/ RoomEnds
  BY <1>1, <1>2 DEF vars, serverVars, RoomEnds
<1>3. CASE PlayerHandles \/ Stop \/ Breaks
  BY <1>1, <1>3 DEF PlayerHandles, OnOpen, OnOffer, OnCandidate, OnStart, OnError, OnJoined, OnServerClose,
         OnClose, Stop, StopWith, Breaks, serverVars
<1>4. ASSUME NEW n \in Offers, MediaGranted(n) \/ MediaDenied(n) \/ SetOffer(n) \/ Answer(n)
      PROVE  UNCHANGED <<joinVars, run, ps, wsOpen, offerVars>>
  BY <1>4 DEF MediaGranted, MediaDenied, SetOffer, Answer, serverVars
<1>5. ASSUME NEW k \in Starts, RampTick(k) \/ RampContinues(k) PROVE UNCHANGED <<joinVars, run, ps, wsOpen, offerVars>>
  BY <1>5 DEF RampTick, RampContinues, serverVars
<1>6. CASE ReadJoin \/ ReadJoinFails \/ JoinIsRead
  BY <1>0, <1>6 DEF ServerTypes, ReadJoin, ReadJoinFails, JoinIsRead, offerVars
<1>7. CASE JoinRoom \/ JoinTooLate
  <2>1. Flow
    BY <1>7 DEF Flow, JoinRoom, JoinTooLate, Refuse, CloseWs, joinVars, offerVars
  <2> QED
    BY <1>17, <2>1
<1>8. CASE CreatePeerConnection
  <2>1. estimatorCh' \in {"empty", "full", "failed"}
    BY <1>0, <1>8 DEF ServerTypes, CreatePeerConnection, Sent
  <2>2. /\ run' \in {"returned", "created", "uncreated"} /\ (wsOpen' = wsOpen \/ wsOpen' = FALSE)
        /\ UNCHANGED <<ps, reader, offerVars>>
    BY <1>8 DEF CreatePeerConnection, Refuse
  <2>3. wsOpen' \in BOOLEAN
    BY <1>0, <2>2 DEF ServerTypes
  <2> QED
    BY <1>0, <2>1, <2>2, <2>3 DEF ServerTypes, offerVars
<1>9. CASE AwaitEstimator
  <2>1. run' \in {"returned", "offering"} /\ (ps' = ps \/ ps' = "open") /\ wsOpen' \in BOOLEAN
    BY <1>0, <1>9 DEF AwaitEstimator, Refuse, ServerTypes
  <2> QED
    BY <1>0, <1>9, <2>1 DEF ServerTypes, AwaitEstimator, offerVars
<1>10. CASE FirstOfferRefused \/ AttachCallbacks \/ ReceiveFails
  BY <1>0, <1>10 DEF ServerTypes, FirstOfferRefused, AttachCallbacks, ReceiveFails, joinVars, offerVars
<1>11. CASE ReceiveAnswer
  <2>1. Flow
    BY <1>11 DEF Flow, ReceiveAnswer, ServerReceives, CloseWs, joinVars
  <2> QED
    BY <1>17, <2>1
<1>12. CASE ReceiveStop \/ ReceiveClose \/ LoopNoticesEnd \/ ConnectionFails
  <2>1. Flow
    BY <1>12 DEF Flow, ReceiveStop, ReceiveClose, LoopNoticesEnd, ConnectionFails, PsClose, CloseWs, joinVars,
           offerVars
  <2> QED
    BY <1>17, <2>1
<1>13. ASSUME NEW a \in Agents, CreateOffer(a) PROVE ServerTypes' /\ offers' >= offers
  <2>1. /\ pendingOffer = 0 /\ ps = "open" /\ offers < MaxOffers
        /\ offers' = offers + 1 /\ pendingOffer' = offers + 1
        /\ unsent' = [unsent EXCEPT ![a] = offers + 1]
        /\ UNCHANGED <<reader, estimatorCh, run, ps, wsOpen, answered>>
    BY <1>13 DEF CreateOffer, MayOffer, joinVars
  <2>2. \A b \in Agents : unsent[b] = 0
    BY <2>1 DEF PlayerInv, OfferInv
  <2>3. unsent' \in [Agents -> {0, offers'}]
    BY <1>0, <2>1, <2>2 DEF ServerTypes
  <2>4. offers' \in 0..MaxOffers /\ offers' >= offers
    BY <1>0, <2>1 DEF ServerTypes
  <2> QED
    BY <1>0, <2>1, <2>3, <2>4 DEF ServerTypes
<1>14. ASSUME NEW a \in Agents, SendOffer(a) PROVE ServerTypes' /\ offers' >= offers
  <2>1. /\ unsent' = [unsent EXCEPT ![a] = 0]
        /\ run' = run \/ run' = "attaching"
        /\ UNCHANGED <<reader, estimatorCh, offers, pendingOffer, answered>>
    BY <1>14 DEF SendOffer, joinVars
  <2>2. /\ ps' = ps \/ ps' = "closed"
        /\ wsOpen' = wsOpen \/ wsOpen' = FALSE
    BY <1>14 DEF SendOffer, Write, PsClose, CloseWs
  <2>3. unsent' \in [Agents -> {0, offers'}]
    BY <1>0, <2>1 DEF ServerTypes
  <2>4. offers' >= offers /\ (ps' = "none" => offers' = 0)
    BY <1>0, <2>1, <2>2 DEF ServerTypes
  <2>5. wsOpen' \in BOOLEAN /\ answered' \in BOOLEAN
    BY <1>0, <2>1, <2>2 DEF ServerTypes
  <2> QED
    BY <1>0, <2>1, <2>2, <2>3, <2>4, <2>5 DEF ServerTypes
<1>15. ASSUME NEW c \in Candidates, Gather(c) PROVE ServerTypes' /\ offers' >= offers
  <2>1. Flow
    BY <1>15 DEF Flow, Gather, Write, PsClose, CloseWs, joinVars, offerVars
  <2> QED
    BY <1>17, <2>1
<1>16. ASSUME NEW k \in Starts, TellStart(k) PROVE ServerTypes' /\ offers' >= offers
  <2>1. Flow
    BY <1>16 DEF Flow, TellStart, Write, PsClose, CloseWs, joinVars, offerVars
  <2> QED
    BY <1>17, <2>1
<1> QED
  BY <1>1, <1>2, <1>3, <1>4, <1>5, <1>6, <1>7, <1>8, <1>9, <1>10, <1>11, <1>12, <1>13, <1>14, <1>15,
     <1>16 DEF Next, PlayerContinues, ServerRuns

ConnectionTypes ==
    /\ pc \in {"none", "open", "closed"}
    /\ created \in 0..MaxOffers /\ (created = 0 <=> pc = "none")
    /\ handler \in [Offers -> {"none", "asking", "setting", "answering", "done", "failed"}]
    /\ remoteDescription \in 0..offers /\ (remoteDescription # 0 => startedRTC)
    /\ startedRTC \in BOOLEAN /\ late \in BOOLEAN

LEMMA ConnectionTypesStep == PlayerInv /\ [Next]_vars => ConnectionTypes'
<1> SUFFICES ASSUME PlayerInv, [Next]_vars PROVE ConnectionTypes'
  OBVIOUS
<1>0. /\ ConnectionTypes /\ TypeOK /\ offers \in Nat /\ MaxOffers \in Nat
      /\ offers' \in Nat /\ offers' >= offers
  BY OfferNumbers, ServerTypesStep, BoundsAssumption DEF PlayerInv, TypeOK, ConnectionTypes, ServerTypes
<1>1. CASE ServerAlone
  BY <1>0, <1>1 DEF ServerAlone, ConnectionTypes
<1>2. CASE OnOpen \/ OnCandidate \/ OnStart \/ OnJoined
  BY <1>0, <1>2 DEF OnOpen, OnCandidate, OnStart, OnJoined, playerVars, rtcVars, ConnectionTypes
<1>3. CASE OnServerClose \/ OnClose \/ Breaks
  <2>1. UNCHANGED rtcVars /\ pc' = (IF pc = "open" THEN "closed" ELSE pc)
    BY <1>3 DEF OnServerClose, OnClose, Breaks, StopRTC
  <2> QED
    BY <1>0, <2>1 DEF rtcVars, ConnectionTypes
<1>4. CASE OnError \/ Stop
  <2>1. UNCHANGED rtcVars /\ (pc' = pc \/ (pc = "open" /\ pc' = "closed"))
    BY <1>4 DEF OnError, Stop, StopWith, StopRTC, releasable
  <2> QED
    BY <1>0, <2>1 DEF rtcVars, ConnectionTypes
<1>5. CASE OnOffer
  <2>1. PICK n \in Offers : Head(toClient) = <<"offer", n>> /\ Head(toClient)[2] = n
    BY <1>0, <1>5, HeadIs DEF OnOffer, Receives
  <2>2. handler' = [handler EXCEPT ![n] = FirstAwait]
    BY <1>5, <2>1 DEF OnOffer
  <2>3. handler' \in [Offers -> {"none", "asking", "setting", "answering", "done", "failed"}]
    BY <1>0, <2>2 DEF ConnectionTypes, FirstAwait
  <2>4. CASE startedRTC
    BY <1>0, <1>5, <2>3, <2>4 DEF OnOffer, ConnectionTypes
  <2>5. CASE ~startedRTC
    <3>1. created = 0
      <4>1. <<"offer", n>> \in Messages(toClient)
        BY <1>0, <1>5, <2>1, TailMessages DEF OnOffer, Receives, TypeOK
      <4>2. n = pendingOffer /\ handler[pendingOffer] = "none"
        BY <4>1 DEF PlayerInv, OfferInv
      <4> QED
        BY <1>0, <2>5, <4>2 DEF PlayerInv, ConsentInv, ConnectionTypes
    <3>2. created + 1 \in 0..MaxOffers
      BY <1>0, <2>1, <3>1 DEF Offers
    <3> QED
      BY <1>0, <1>5, <2>3, <2>5, <3>1, <3>2 DEF OnOffer, ConnectionTypes
  <2> QED
    BY <2>4, <2>5
<1>6. ASSUME NEW n \in Offers, MediaGranted(n) PROVE ConnectionTypes'
  <2>1. /\ UNCHANGED <<pc, created, remoteDescription>>
        /\ startedRTC' = startedRTC \/ startedRTC' = TRUE
        /\ late' = late \/ late' = TRUE
    BY <1>6 DEF MediaGranted
  <2>2. handler' \in [Offers -> {"none", "asking", "setting", "answering", "done", "failed"}]
    BY <1>0, <1>6 DEF MediaGranted, ConnectionTypes
  <2>3. startedRTC' \in BOOLEAN /\ late' \in BOOLEAN
    BY <1>0, <2>1 DEF ConnectionTypes
  <2> QED
    BY <1>0, <2>1, <2>2, <2>3 DEF ConnectionTypes
<1>7. ASSUME NEW n \in Offers, MediaDenied(n) \/ Answer(n) PROVE ConnectionTypes'
  BY <1>0, <1>7 DEF MediaDenied, Answer, ConnectionTypes
<1>8. ASSUME NEW n \in Offers, SetOffer(n) PROVE ConnectionTypes'
  <2>1. n \in 0..offers /\ startedRTC
    <3>1. handler[n] = "setting"
      BY <1>8 DEF SetOffer
    <3>2. startedRTC /\ n = pendingOffer
      BY <3>1 DEF PlayerInv, ConsentInv, OfferInv
    <3> QED
      BY <1>0, <3>2, OfferNumbers
  <2> QED
    BY <1>0, <1>8, <2>1 DEF SetOffer, ConnectionTypes
<1>9. ASSUME NEW k \in Starts, RampTick(k) \/ RampContinues(k) PROVE ConnectionTypes'
  BY <1>0, <1>9 DEF RampTick, RampContinues, rtcVars, ConnectionTypes
<1> QED
  BY <1>1, <1>2, <1>3, <1>4, <1>5, <1>6, <1>7, <1>8, <1>9, AloneStep DEF PlayerHandles

MediaTypes ==
    /\ readyState \in {"connecting", "open", "closing", "closed"}
    /\ stream \in {"none", "live", "stopped"}
    /\ candidate \in [Candidates -> {"none", "sent", "unheard", "pending", "added", "lost"}]
    /\ stopped \in BOOLEAN /\ broken \in BOOLEAN

LEMMA MediaTypesStep == PlayerInv /\ [Next]_vars => MediaTypes'
<1> SUFFICES ASSUME PlayerInv, [Next]_vars PROVE MediaTypes'
  OBVIOUS
<1>0. MediaTypes
  BY DEF PlayerInv, TypeOK, MediaTypes
<1>1. CASE UNCHANGED <<readyState, stream, candidate, stopped, broken>>
  BY <1>0, <1>1 DEF MediaTypes
<1>2. CASE UNCHANGED vars
  BY <1>1, <1>2 DEF vars, playerVars, socketVars
<1>3. CASE OnOpen \/ OnOffer \/ OnStart \/ OnJoined
  BY <1>0, <1>3 DEF OnOpen, OnOffer, OnStart, OnJoined, playerVars, MediaTypes
<1>4. CASE OnCandidate
  BY <1>0, <1>4 DEF OnCandidate, CandidateGoesTo, playerVars, MediaTypes
<1>5. CASE OnServerClose \/ OnClose \/ Breaks
  <2>1. /\ readyState' = "closed" /\ StopRTC /\ UNCHANGED candidate
        /\ stopped' \in {stopped, TRUE} /\ broken' \in {broken, TRUE}
    BY <1>5 DEF OnServerClose, OnClose, Breaks
  <2>2. stopped' \in BOOLEAN /\ broken' \in BOOLEAN
    BY <1>0, <2>1 DEF MediaTypes
  <2> QED
    BY <1>0, <2>1, <2>2 DEF StopRTC, MediaTypes
<1>6. CASE OnError \/ Stop
  <2>1. /\ readyState' \in {readyState, "closed", "closing"} /\ UNCHANGED <<candidate, broken>>
        /\ stopped' \in {stopped, TRUE} /\ stream' \in {stream, "stopped"}
    BY <1>6 DEF OnError, Stop, StopWith, StopRTC, releasable
  <2>2. stopped' \in BOOLEAN
    BY <1>0, <2>1 DEF MediaTypes
  <2> QED
    BY <1>0, <2>1, <2>2 DEF MediaTypes
<1>7. ASSUME NEW n \in Offers, MediaGranted(n) \/ MediaDenied(n) \/ SetOffer(n) \/ Answer(n)
      PROVE  MediaTypes'
  BY <1>0, <1>7 DEF MediaGranted, MediaDenied, SetOffer, Answer, socketVars, MediaTypes
<1>8. ASSUME NEW k \in Starts, RampTick(k) \/ RampContinues(k) \/ TellStart(k) PROVE MediaTypes'
  BY <1>1, <1>8 DEF RampTick, RampContinues, TellStart, playerVars, socketVars
<1>9. ASSUME NEW c \in Candidates, Gather(c) PROVE MediaTypes'
  BY <1>0, <1>9 DEF Gather, playerVars, MediaTypes
<1>10. ASSUME NEW a \in Agents, CreateOffer(a) \/ SendOffer(a) PROVE MediaTypes'
  BY <1>1, <1>10 DEF CreateOffer, SendOffer, playerVars, socketVars
<1>11. CASE ServerRuns
  BY <1>1, <1>11 DEF ServerRuns, ReadJoin, ReadJoinFails, JoinIsRead, JoinRoom, CreatePeerConnection,
         AwaitEstimator, FirstOfferRefused, AttachCallbacks, ReceiveAnswer, ReceiveStop, ReceiveClose,
         ReceiveFails, playerVars, socketVars
<1>12. CASE JoinTooLate \/ RoomEnds \/ LoopNoticesEnd \/ ConnectionFails
  BY <1>1, <1>12 DEF JoinTooLate, RoomEnds, LoopNoticesEnd, ConnectionFails, playerVars, socketVars
<1> QED
  BY <1>2, <1>3, <1>4, <1>5, <1>6, <1>7, <1>8, <1>9, <1>10, <1>11, <1>12
     DEF Next, PlayerHandles, PlayerContinues

TimerTypes ==
    /\ ramping \subseteq told /\ polling \subseteq Starts /\ blind \subseteq Starts
    /\ rampInterval \in Starts \union {"none"} /\ statsIntervalId \in Starts \union {"none"}
    /\ step \in [Starts -> 0..Steps + 1] /\ inFlight \in [Starts -> 0..Steps + 1]
    /\ overtaken \subseteq Starts /\ \A k \in Starts : inFlight[k] <= step[k]
    /\ told \subseteq Starts

LEMMA TimerTypesStep == PlayerInv /\ [Next]_vars => TimerTypes'
<1> SUFFICES ASSUME PlayerInv, [Next]_vars PROVE TimerTypes'
  OBVIOUS
<1>0. TimerTypes /\ TypeOK /\ Steps \in Nat
  BY StepsAssumption DEF PlayerInv, TypeOK, TimerTypes
<1>1. told \subseteq told' /\ told' \subseteq Starts
  BY <1>0, ToldGrows DEF TimerTypes
<1>9. ASSUME StopRTC
      PROVE  /\ step' \in [Starts -> 0..Steps + 1] /\ inFlight' \in [Starts -> 0..Steps + 1]
             /\ \A k \in Starts : inFlight'[k] <= step'[k]
  <2>1. \A k \in Starts : step[k] \in 0..Steps + 1
    BY <1>0 DEF TimerTypes
  <2> QED
    BY <1>0, <1>9, <2>1 DEF StopRTC
<1>2. CASE ServerAlone
  BY <1>0, <1>1, <1>2 DEF ServerAlone, TimerTypes
<1>3. CASE OnOpen \/ OnOffer \/ OnCandidate \/ OnJoined
  BY <1>0, <1>1, <1>3 DEF OnOpen, OnOffer, OnCandidate, OnJoined, playerVars, timerVars, tickVars, TimerTypes
<1>4. CASE OnServerClose \/ OnClose \/ Breaks
  <2>1. StopRTC /\ UNCHANGED <<statsIntervalId, blind, overtaken>>
    BY <1>4 DEF OnServerClose, OnClose, Breaks
  <2> QED
    BY <1>0, <1>1, <2>1, <1>9 DEF StopRTC, TimerTypes
<1>5. CASE OnError \/ Stop
  <2>1. /\ \/ UNCHANGED <<ramping, polling, rampInterval, step, inFlight>>
           \/ StopRTC
        /\ UNCHANGED <<statsIntervalId, blind, overtaken>>
    BY <1>5 DEF OnError, Stop, StopWith, releasable
  <2> QED
    BY <1>0, <1>1, <1>9, <2>1 DEF StopRTC, TimerTypes
<1>6. CASE OnStart
  <2>1. PICK k \in Starts : Head(toClient) = <<"start", k>> /\ Head(toClient)[2] = k
    BY <1>0, <1>6, HeadIs DEF OnStart, Receives
  <2>2. k \in told
    <3>1. <<"start", k>> \in Messages(toClient)
      BY <1>0, <1>6, <2>1, TailMessages DEF OnStart, Receives, TypeOK
    <3> QED
      BY <3>1 DEF PlayerInv, TimerInv
  <2> QED
    BY <1>0, <1>1, <1>6, <2>1, <2>2 DEF OnStart, tickVars, TimerTypes
<1>7. ASSUME NEW n \in Offers, MediaGranted(n) \/ MediaDenied(n) \/ SetOffer(n) \/ Answer(n)
      PROVE  TimerTypes'
  BY <1>0, <1>1, <1>7 DEF MediaGranted, MediaDenied, SetOffer, Answer, timerVars, tickVars, TimerTypes
<1>8. ASSUME NEW k \in Starts, RampTick(k) \/ RampContinues(k) PROVE TimerTypes'
  <2>0. \A l \in Starts : step[l] \in 0..Steps + 1 /\ inFlight[l] \in 0..Steps + 1 /\ inFlight[l] <= step[l]
    BY <1>0 DEF TimerTypes
  <2>1. /\ ramping' \subseteq ramping /\ overtaken' \subseteq Starts
        /\ UNCHANGED <<polling, blind, rampInterval, statsIntervalId>>
    BY <1>0, <1>8 DEF RampTick, RampContinues, TimerTypes
  <2>2. /\ step' \in [Starts -> 0..Steps + 1] /\ inFlight' \in [Starts -> 0..Steps + 1]
        /\ \A l \in Starts : inFlight'[l] <= step'[l]
    <3>1. CASE RampTick(k)
      BY <1>0, <2>0, <3>1 DEF RampTick, TimerTypes
    <3>2. CASE RampContinues(k)
      BY <1>0, <2>0, <3>2 DEF RampContinues, TimerTypes
    <3> QED
      BY <1>8, <3>1, <3>2
  <2> QED
    BY <1>0, <1>1, <2>1, <2>2 DEF TimerTypes
<1> QED
  BY <1>2, <1>3, <1>4, <1>5, <1>6, <1>7, <1>8, AloneStep DEF PlayerHandles

LEMMA TypeStep == PlayerInv /\ [Next]_vars => TypeOK'
<1> SUFFICES ASSUME PlayerInv, [Next]_vars PROVE TypeOK'
  OBVIOUS
<1>1. toClient' \in Seq(ToClient) /\ toServer' \in Seq(ToServer)
  BY ClientHolds, ServerHolds
<1>2. ServerTypes' /\ ConnectionTypes' /\ MediaTypes' /\ TimerTypes'
  BY ServerTypesStep, ConnectionTypesStep, MediaTypesStep, TimerTypesStep
<1>3. ramping' \subseteq Starts
  BY <1>2 DEF TimerTypes
<1> QED
  BY <1>1, <1>2, <1>3 DEF TypeOK, ServerTypes, ConnectionTypes, MediaTypes, TimerTypes

----------------------------------------------------------------------------
LEMMA PlayerInit == Init => PlayerInv
<1> SUFFICES ASSUME Init PROVE PlayerInv
  OBVIOUS
<1>0. MaxOffers \in Nat /\ Steps \in Nat /\ Steps > 0
  BY BoundsAssumption, StepsAssumption
<1>1. TypeOK
  <2>1. toClient \in Seq(ToClient) /\ toServer \in Seq(ToServer)
    BY DEF Init
  <2>2. ServerTypes
    <3>1. unsent \in [Agents -> {0, offers}] /\ wsOpen \in BOOLEAN /\ answered \in BOOLEAN
      BY DEF Init
    <3>2. offers \in 0..MaxOffers /\ pendingOffer \in {0, offers}
      BY <1>0 DEF Init
    <3> QED
      BY <3>1, <3>2 DEF Init, ServerTypes
  <2>3. ConnectionTypes
    <3>1. handler \in [Offers -> {"none", "asking", "setting", "answering", "done", "failed"}]
      BY DEF Init
    <3>2. startedRTC \in BOOLEAN /\ late \in BOOLEAN
      BY DEF Init
    <3>3. created \in 0..MaxOffers /\ remoteDescription \in 0..offers
      BY <1>0 DEF Init
    <3> QED
      BY <3>1, <3>2, <3>3 DEF Init, ConnectionTypes
  <2>4. MediaTypes
    BY DEF Init, MediaTypes
  <2>5. TimerTypes /\ ramping \subseteq Starts
    BY <1>0 DEF Init, TimerTypes
  <2> QED
    BY <2>1, <2>2, <2>3, <2>4, <2>5 DEF TypeOK, ServerTypes, ConnectionTypes, MediaTypes, TimerTypes
<1>2. OfferInv
  BY <1>0, EmptyQueue DEF Init, OfferInv, Offers
<1>3. ConsentInv /\ FirstInv
  BY <1>0, EmptyQueue DEF Init, ConsentInv, FirstInv, Offers
<1>4. CandidateInv /\ StopInv /\ CandidatesReachPlayer
  BY EmptyQueue DEF Init, CandidateInv, StopInv, CandidatesReachPlayer
<1>5. TimerInv /\ NothingOutlivesPlayer
  BY <1>0, EmptyQueue DEF Init, TimerInv, NothingOutlivesPlayer
<1> QED
  BY <1>1, <1>2, <1>3, <1>4, <1>5 DEF PlayerInv

(* The inductive invariant: where the pending offer is, that it waits for  *)
(* the user's consent, what is ahead of a candidate, what runs after one   *)
(* start (Player.tla, its last section).                                   *)
THEOREM PlayerInvariance == Spec => []PlayerInv
<1>1. PlayerInv /\ [Next]_vars => PlayerInv'
  BY TypeStep, OfferStep, ConsentStep, FirstStep, CandidateStep, StopStep, TimerStep, LostStep, NothingStep
     DEF PlayerInv
<1> QED
  BY PlayerInit, <1>1, PTL DEF Spec

(* Whatever the messages, their order and the failures, every variable of  *)
(* the player, the websocket and the peer server keeps its type, and what  *)
(* exists only after something else does (ducksoup.js:226-242,             *)
(* peer_server.go:28-44).                                                  *)
THEOREM PlayerTypes == Spec => []TypeOK
BY PlayerInvariance, PTL DEF PlayerInv

(* Although #startRTCOnce waits for consent before it notes that it has    *)
(* started, one connection is made; and every answer on its way answers    *)
(* the pending offer, so that none ends the server's loop                  *)
(* (ducksoup.js:517-540, peer_server.go:182).                              *)
THEOREM OneConnection == Spec => []OneNegotiation
<1>1. PlayerInv => OneNegotiation
  <2> SUFFICES ASSUME PlayerInv, NEW i \in 1..Len(toServer), toServer[i][1] = "answer"
               PROVE  toServer[i][2] = pendingOffer
    BY DEF PlayerInv, ConsentInv, OneNegotiation
  <2>1. toServer[i] \in ToServer
    BY DEF PlayerInv, TypeOK
  <2>2. PICK n \in Offers : toServer[i] = <<"answer", n>> /\ toServer[i][2] = n
    BY <2>1 DEF ToServer
  <2>3. <<"answer", n>> \in Messages(toServer)
    BY <2>2 DEF Messages
  <2> QED
    BY <2>2, <2>3 DEF PlayerInv, OfferInv
<1> QED
  BY <1>1, PlayerInvariance, PTL

(* A candidate of the server is lost only if the mixer's signaling made    *)
(* the first offer (ducksoup.js:457-463, peer_server.go:71-79).             *)
THEOREM NoCandidateLost == Spec => []CandidatesReachPlayer
BY PlayerInvariance, PTL DEF PlayerInv

(* A player that has stopped, or whose websocket is closed, holds no       *)
(* stream and has no interval running, but for a consent that comes later  *)
(* and a start that came twice (README.md:145, ducksoup.js:317-325).       *)
THEOREM StoppedPlayerIsQuiet == Spec => []NothingOutlivesPlayer
BY PlayerInvariance, PTL DEF PlayerInv

----------------------------------------------------------------------------
(***************************************************************************)
(* Player implements Negotiation.                                          *)
(***************************************************************************)
(* The pending offer is in one place: of four, each excludes the others.   *)
OnePlace ==
    /\ Unsent   => pendingOffer # 0 /\ ~Offered /\ ~Handled /\ ~Answered
    /\ Offered  => pendingOffer # 0 /\ ~Unsent /\ ~Handled /\ ~Answered
    /\ Handled  => pendingOffer # 0 /\ ~Unsent /\ ~Offered /\ ~Answered
    /\ Answered => pendingOffer # 0 /\ ~Unsent /\ ~Offered /\ ~Handled

LEMMA PlayerOnePlace == PlayerInv => OnePlace
<1> SUFFICES ASSUME PlayerInv PROVE OnePlace
  OBVIOUS
<1>1. /\ 0 \notin Offers /\ OfferInv
      /\ \A a \in Agents : unsent[a] # 0 => unsent[a] \in Offers
  BY OfferNumbers, BoundsAssumption DEF PlayerInv, TypeOK, Offers
<1>2. ASSUME Offered PROVE pendingOffer # 0 /\ ~Unsent /\ ~Handled /\ ~Answered
  <2>1. PICK n \in Offers : <<"offer", n>> \in Messages(toClient)
    BY <1>2 DEF Offered
  <2>2. n = pendingOffer /\ handler[n] = "none" /\ \A a \in Agents : unsent[a] = 0
    BY <1>1, <2>1 DEF OfferInv
  <2> QED
    BY <1>1, <2>2 DEF OfferInv, Unsent, Handled, Answered
<1>3. ASSUME Unsent PROVE pendingOffer # 0 /\ ~Handled /\ ~Answered
  <2>1. PICK a \in Agents : unsent[a] # 0
    BY <1>3 DEF Unsent
  <2>2. unsent[a] = pendingOffer /\ handler[pendingOffer] = "none"
    BY <1>1, <2>1 DEF OfferInv
  <2> QED
    BY <1>1, <2>1, <2>2 DEF OfferInv, Handled, Answered
<1>4. Handled => pendingOffer # 0 /\ ~Answered
  BY <1>1 DEF OfferInv, Handled, Answered
<1>5. Answered => pendingOffer # 0
  BY <1>1 DEF OfferInv, Answered
<1> QED
  BY <1>2, <1>3, <1>4, <1>5 DEF OnePlace

LEMMA NextOnePlace == PlayerInv' => OnePlace'
BY PlayerOnePlace, PTL

(* What only SendOffer brings to the player, and only Answer to the server.*)
LEMMA OnTheirWay ==
    ASSUME PlayerInv, [Next]_vars
    PROVE  /\ (\A a \in Agents : ~SendOffer(a)) => (Offered' => Offered)
           /\ (\A n \in Offers : ~Answer(n)) => (Answered' => Answered)
BY ClientHolds, ServerHolds DEF Offered, Answered

Frame == UNCHANGED <<handler, pendingOffer, unsent, offers, startedRTC, created>>

(* A step that leaves the offer where it is can still lose it.             *)
LEMMA FrameNegotiation ==
    ASSUME PlayerInv, PlayerInv', [Next]_vars, Frame
    PROVE  Offering!Next \/ UNCHANGED Offering!vars
<1>1. \A a \in Agents : ~SendOffer(a)
  <2> SUFFICES ASSUME NEW a \in Agents, SendOffer(a) PROVE FALSE
    OBVIOUS
  <2> QED
    BY DEF SendOffer, Frame, PlayerInv, TypeOK
<1>2. \A n \in Offers : ~Answer(n)
  <2> SUFFICES ASSUME NEW n \in Offers, Answer(n) PROVE FALSE
    OBVIOUS
  <2> QED
    BY DEF Answer, Frame, PlayerInv, TypeOK
<1>3. (Offered' => Offered) /\ (Answered' => Answered)
  BY <1>1, <1>2, OnTheirWay
<1>4. Unsent' = Unsent /\ Handled' = Handled /\ ConsentOf' = ConsentOf
  BY DEF Frame, Unsent, Handled, ConsentOf
<1>5. CASE PlaceOf' = PlaceOf
  BY <1>4, <1>5 DEF Frame, Offering!vars
<1>6. CASE PlaceOf' # PlaceOf
  <2>1. PlaceOf \in {"toPlayer", "toServer"} /\ PlaceOf' = "lost"
    BY <1>3, <1>4, <1>6, PlayerOnePlace DEF OnePlace, Frame, PlaceOf
  <2>2. Offering!Lose
    BY <1>4, <2>1 DEF Offering!Lose, Offering!Goes, Offering!Places, Frame
  <2> QED
    BY <2>2 DEF Offering!Next
<1> QED
  BY <1>5, <1>6

LEMMA OnOfferNegotiates ==
    ASSUME PlayerInv, PlayerInv', OnOffer
    PROVE  Offering!Receive
<1>0. TypeOK /\ ConsentInv /\ [Next]_vars
  BY DEF PlayerInv, Next, PlayerHandles
<1>1. toClient # <<>> /\ Head(toClient)[1] = "offer"
  BY DEF OnOffer, Receives
<1>2. PICK n \in Offers : Head(toClient) = <<"offer", n>> /\ Head(toClient)[2] = n
  BY <1>0, <1>1, HeadIs
<1>3. <<"offer", n>> \in Messages(toClient)
  BY <1>0, <1>1, <1>2, TailMessages DEF TypeOK
<1>4. PlaceOf = "toPlayer" /\ pendingOffer # 0
  BY <1>3, PlayerOnePlace DEF OnePlace, Offered, PlaceOf
<1>5. /\ handler' = [handler EXCEPT ![n] = FirstAwait]
      /\ UNCHANGED <<offers, pendingOffer, startedRTC>>
      /\ IF startedRTC THEN UNCHANGED created ELSE created' = created + 1
  BY <1>2 DEF OnOffer, serverVars, offerVars
<1>6. PlaceOf' = "player"
  <2>1. Handled'
    BY <1>0, <1>5 DEF Handled, FirstAwait, TypeOK
  <2> QED
    BY <1>4, <1>5, <2>1, NextOnePlace DEF OnePlace, PlaceOf
<1>7. created \in Nat /\ (~startedRTC => created = 0)
  <2>1. n = pendingOffer /\ handler[n] = "none"
    BY <1>3 DEF PlayerInv, OfferInv
  <2> QED
    BY <1>0, <2>1, BoundsAssumption DEF ConsentInv, TypeOK
<1>8. /\ ConsentOf # "asked"
      /\ ConsentOf' = IF ConsentOf = "none" THEN "asked" ELSE ConsentOf
  BY <1>5, <1>7 DEF ConsentOf
<1> QED
  BY <1>4, <1>5, <1>6, <1>8 DEF Offering!Receive, Offering!Goes

LEMMA ConsentNegotiates ==
    ASSUME PlayerInv, PlayerInv', NEW n \in Offers, MediaGranted(n) \/ MediaDenied(n)
    PROVE  Offering!Next \/ UNCHANGED Offering!vars
<1>0. TypeOK /\ ConsentInv
  BY DEF PlayerInv
<1>1. /\ handler[n] = "asking" /\ n = pendingOffer /\ pendingOffer # 0
      /\ UNCHANGED <<toClient, toServer, offers, pendingOffer, unsent, created>>
  <2>1. handler[n] = "asking"
    BY DEF MediaGranted, MediaDenied
  <2>2. n = pendingOffer /\ n # 0
    <3>1. n = pendingOffer
      BY <2>1 DEF PlayerInv, OfferInv
    <3>2. n # 0
      BY BoundsAssumption DEF Offers
    <3> QED
      BY <3>1, <3>2
  <2>3. UNCHANGED <<toClient, toServer, offers, pendingOffer, unsent, created>>
    BY DEF MediaGranted, MediaDenied, socketVars, serverVars, offerVars
  <2> QED
    BY <2>1, <2>2, <2>3
<1>2. Handled /\ PlaceOf = "player" /\ ~Unsent' /\ ~Offered' /\ ~Answered'
  <2>1. Handled
    BY <1>1 DEF Handled
  <2> QED
    BY <1>1, <2>1, PlayerOnePlace DEF OnePlace, PlaceOf, Unsent, Offered, Answered
<1>3. created > 0
  BY <1>0, <1>1 DEF ConsentInv
<1>4. CASE handler' = [handler EXCEPT ![n] = "failed"] /\ UNCHANGED startedRTC
  <2>1. ~Handled'
    BY <1>0, <1>1, <1>4 DEF PlayerInv, OfferInv, Handled, TypeOK
  <2>2. PlaceOf' = "lost" /\ ConsentOf' = ConsentOf
    BY <1>1, <1>2, <1>4, <2>1 DEF PlaceOf, ConsentOf
  <2>3. Offering!Lose
    BY <1>1, <1>2, <2>2 DEF Offering!Lose, Offering!Goes, Offering!Places
  <2> QED
    BY <2>3 DEF Offering!Next
<1>5. CASE handler' = [handler EXCEPT ![n] = "setting"] /\ startedRTC' = TRUE
  <2>1. PlaceOf' = PlaceOf
    <3>1. Handled'
      BY <1>0, <1>5 DEF Handled, TypeOK
    <3> QED
      BY <1>1, <1>2, <3>1 DEF PlaceOf
  <2>2. ConsentOf' = "given" /\ ConsentOf \in {"asked", "given"}
    BY <1>3, <1>5 DEF ConsentOf
  <2>3. Offering!Consent \/ UNCHANGED Offering!vars
    BY <1>1, <1>2, <2>1, <2>2 DEF Offering!Consent, Offering!vars
  <2> QED
    BY <2>3 DEF Offering!Next
<1> QED
  BY <1>4, <1>5 DEF MediaGranted, MediaDenied

LEMMA SetOfferNegotiates ==
    ASSUME PlayerInv, PlayerInv', NEW n \in Offers, SetOffer(n)
    PROVE  Offering!Next \/ UNCHANGED Offering!vars
<1>0. TypeOK
  BY DEF PlayerInv
<1>1. /\ handler[n] = "setting" /\ n = pendingOffer /\ pendingOffer # 0
      /\ UNCHANGED <<toClient, toServer, offers, pendingOffer, unsent, created, startedRTC>>
  <2>1. handler[n] = "setting"
    BY DEF SetOffer
  <2>2. n = pendingOffer /\ n # 0
    <3>1. n = pendingOffer
      BY <2>1 DEF PlayerInv, OfferInv
    <3>2. n # 0
      BY BoundsAssumption DEF Offers
    <3> QED
      BY <3>1, <3>2
  <2>3. UNCHANGED <<toClient, toServer, offers, pendingOffer, unsent, created, startedRTC>>
    BY DEF SetOffer, socketVars, serverVars, offerVars
  <2> QED
    BY <2>1, <2>2, <2>3
<1>2. /\ Handled /\ PlaceOf = "player" /\ ~Unsent' /\ ~Offered' /\ ~Answered'
      /\ ConsentOf' = ConsentOf
  <2>1. Handled
    BY <1>1 DEF Handled
  <2> QED
    BY <1>1, <2>1, PlayerOnePlace DEF OnePlace, PlaceOf, Unsent, Offered, Answered, ConsentOf
<1>3. PlaceOf' \in {"player", "lost"}
  BY <1>1, <1>2 DEF PlaceOf
<1>4. Offering!Lose \/ UNCHANGED Offering!vars
  BY <1>1, <1>2, <1>3 DEF Offering!Lose, Offering!Goes, Offering!Places, Offering!vars
<1> QED
  BY <1>4 DEF Offering!Next

LEMMA AnswerNegotiates ==
    ASSUME PlayerInv, PlayerInv', NEW n \in Offers, Answer(n)
    PROVE  Offering!Next
<1>0. TypeOK
  BY DEF PlayerInv
<1>1. /\ handler[n] = "answering" /\ n = pendingOffer /\ pendingOffer # 0
      /\ UNCHANGED <<toClient, offers, pendingOffer, unsent, created, startedRTC>>
  <2>1. handler[n] = "answering"
    BY DEF Answer
  <2>2. n = pendingOffer /\ n # 0
    <3>1. n = pendingOffer
      BY <2>1 DEF PlayerInv, OfferInv
    <3>2. n # 0
      BY BoundsAssumption DEF Offers
    <3> QED
      BY <3>1, <3>2
  <2>3. UNCHANGED <<toClient, offers, pendingOffer, unsent, created, startedRTC>>
    BY DEF Answer, serverVars, offerVars
  <2> QED
    BY <2>1, <2>2, <2>3
<1>2. PlaceOf = "player" /\ ~Unsent' /\ ~Offered' /\ ConsentOf' = ConsentOf
  <2>1. Handled
    BY <1>1 DEF Handled
  <2> QED
    BY <1>1, <2>1, PlayerOnePlace DEF OnePlace, PlaceOf, Unsent, Offered, ConsentOf
<1>3. ~Handled'
  <2>1. /\ \A m \in Offers : m # n => handler'[m] = handler[m]
        /\ handler'[n] \in {"done", "failed"}
    BY <1>0 DEF Answer, TypeOK
  <2> QED
    BY <1>1, <2>1 DEF PlayerInv, OfferInv, Handled
<1>4. PlaceOf' \in {"toServer", "lost"}
  BY <1>1, <1>2, <1>3 DEF PlaceOf
<1>5. ConsentOf = "given"
  BY <1>1 DEF PlayerInv, ConsentInv, ConsentOf
<1>6. Offering!Answer \/ Offering!Lose
  BY <1>1, <1>2, <1>4, <1>5 DEF Offering!Answer, Offering!Lose, Offering!Goes, Offering!Places
<1> QED
  BY <1>6 DEF Offering!Next

LEMMA CreateOfferNegotiates ==
    ASSUME PlayerInv, PlayerInv', NEW a \in Agents, CreateOffer(a)
    PROVE  Offering!Begin
<1>0. TypeOK /\ offers \in Nat
  BY OfferNumbers DEF PlayerInv
<1>1. /\ pendingOffer = 0 /\ offers' = offers + 1 /\ pendingOffer' = offers + 1
      /\ unsent' = [unsent EXCEPT ![a] = offers + 1]
      /\ UNCHANGED <<startedRTC, created>>
  BY DEF CreateOffer, MayOffer, playerVars, rtcVars
<1>2. PlaceOf = "settled" /\ ConsentOf' = ConsentOf
  BY <1>1 DEF PlaceOf, ConsentOf
<1>3. PlaceOf' = "set"
  <2>1. pendingOffer' # 0 /\ unsent'[a] # 0
    BY <1>0, <1>1 DEF TypeOK
  <2> QED
    BY <2>1 DEF PlaceOf, Unsent
<1> QED
  BY <1>1, <1>2, <1>3 DEF Offering!Begin, Offering!Goes

LEMMA SendOfferNegotiates ==
    ASSUME PlayerInv, PlayerInv', NEW a \in Agents, SendOffer(a)
    PROVE  Offering!Next
<1>0. TypeOK
  BY DEF PlayerInv
<1>1. /\ unsent[a] # 0 /\ unsent' = [unsent EXCEPT ![a] = 0]
      /\ UNCHANGED <<handler, toServer, pendingOffer, offers, startedRTC, created>>
  BY DEF SendOffer, playerVars, rtcVars
<1>2. Unsent /\ PlaceOf = "set" /\ pendingOffer # 0 /\ ConsentOf' = ConsentOf
  <2>1. Unsent
    BY <1>1 DEF Unsent
  <2> QED
    BY <1>1, <2>1, PlayerOnePlace DEF OnePlace, PlaceOf, ConsentOf
<1>3. ~Unsent'
  <2>1. \A b \in Agents : unsent[b] # 0 => b = a
    BY <1>1 DEF PlayerInv, OfferInv
  <2> QED
    BY <1>0, <1>1, <2>1 DEF Unsent, TypeOK
<1>4. ~Handled' /\ ~Answered'
  BY <1>1, <1>2, PlayerOnePlace DEF OnePlace, Handled, Answered
<1>5. PlaceOf' \in {"toPlayer", "lost"}
  BY <1>1, <1>2, <1>3, <1>4 DEF PlaceOf
<1>6. Offering!Send \/ Offering!Lose
  BY <1>1, <1>2, <1>5 DEF Offering!Send, Offering!Lose, Offering!Goes, Offering!Places
<1> QED
  BY <1>6 DEF Offering!Next

LEMMA ReceiveAnswerNegotiates ==
    ASSUME PlayerInv, PlayerInv', ReceiveAnswer
    PROVE  Offering!Next
<1>0. TypeOK /\ [Next]_vars
  BY DEF PlayerInv, Next, ServerRuns
<1>1. toServer # <<>> /\ Head(toServer)[1] = "answer"
  BY DEF ReceiveAnswer, ServerReceives
<1>2. PICK n \in Offers : Head(toServer) = <<"answer", n>> /\ Head(toServer)[2] = n
  BY <1>0, <1>1, ServerHeadIs
<1>3. <<"answer", n>> \in Messages(toServer)
  BY <1>0, <1>1, <1>2, TailMessages DEF TypeOK
<1>4. /\ Answered /\ PlaceOf = "toServer" /\ pendingOffer # 0
      /\ ~Unsent /\ ~Offered /\ ~Handled
  <2>1. Answered
    BY <1>3 DEF Answered
  <2> QED
    BY <2>1, PlayerOnePlace DEF OnePlace, PlaceOf
<1>5. /\ UNCHANGED <<handler, unsent, offers, startedRTC, created>>
      /\ pendingOffer' \in {0, pendingOffer}
  BY DEF ReceiveAnswer, playerVars, rtcVars
<1>6. ~Unsent' /\ ~Handled' /\ ConsentOf' = ConsentOf
  BY <1>4, <1>5 DEF Unsent, Handled, ConsentOf
<1>7. \A a \in Agents : ~SendOffer(a)
  BY <1>4 DEF SendOffer, Unsent
<1>8. \A m \in Offers : ~Answer(m)
  BY <1>4 DEF Answer, Handled
<1>9. ~Offered'
  BY <1>0, <1>4, <1>7, OnTheirWay
<1>10. ~Answered'
  <2> SUFFICES ASSUME NEW m \in Offers, <<"answer", m>> \in Messages(toServer') PROVE FALSE
    BY DEF Answered
  <2>1. <<"answer", m>> \in Messages(toServer)
    BY <1>0, <1>8, ServerHolds
  <2>2. m = pendingOffer /\ n = pendingOffer
    BY <1>3, <2>1 DEF PlayerInv, OfferInv
  <2> QED
    BY <1>0, <1>2, <1>8, <2>2, ServerHolds
<1>11. PlaceOf' \in {"settled", "lost"}
  BY <1>6, <1>9, <1>10 DEF PlaceOf
<1>12. Offering!Settle \/ Offering!Lose
  BY <1>4, <1>5, <1>6, <1>11 DEF Offering!Settle, Offering!Lose, Offering!Goes, Offering!Places
<1> QED
  BY <1>12 DEF Offering!Next

LEMMA NegotiationStep ==
    ASSUME PlayerInv, PlayerInv', [Next]_vars
    PROVE  Offering!Next \/ UNCHANGED Offering!vars
<1>1. CASE \/ OnOpen \/ OnCandidate \/ OnStart \/ OnError \/ OnJoined \/ OnServerClose \/ OnClose
           \/ Stop \/ Breaks \/ \E k \in Starts : RampTick(k) \/ RampContinues(k) \/ TellStart(k)
  <2>1. Frame
    BY <1>1 DEF Frame, OnOpen, OnCandidate, OnStart, OnError, OnJoined, OnServerClose, OnClose, Stop,
                Breaks, StopWith, RampTick, RampContinues, TellStart, playerVars, rtcVars, serverVars, offerVars
  <2> QED
    BY <2>1, FrameNegotiation
<1>2. CASE \/ ReadJoin \/ ReadJoinFails \/ JoinIsRead \/ JoinRoom \/ CreatePeerConnection
           \/ AwaitEstimator \/ FirstOfferRefused \/ AttachCallbacks \/ JoinTooLate
           \/ ReceiveStop \/ ReceiveClose \/ ReceiveFails
           \/ RoomEnds \/ LoopNoticesEnd \/ ConnectionFails \/ \E c \in Candidates : Gather(c)
  <2>1. Frame
    BY <1>2 DEF Frame, ReadJoin, ReadJoinFails, JoinIsRead, JoinRoom, CreatePeerConnection,
           AwaitEstimator, FirstOfferRefused, AttachCallbacks, JoinTooLate, ReceiveStop, ReceiveClose,
           ReceiveFails, RoomEnds, LoopNoticesEnd, ConnectionFails, Gather, playerVars, rtcVars,
           offerVars
  <2> QED
    BY <2>1, FrameNegotiation
<1>3. CASE UNCHANGED vars
  <2>1. Frame
    BY <1>3 DEF Frame, vars, playerVars, rtcVars, serverVars, offerVars
  <2> QED
    BY <2>1, FrameNegotiation
<1>4. CASE OnOffer
  BY <1>4, OnOfferNegotiates DEF Offering!Next
<1>5. ASSUME NEW n \in Offers, MediaGranted(n) \/ MediaDenied(n) \/ SetOffer(n) \/ Answer(n)
      PROVE  Offering!Next \/ UNCHANGED Offering!vars
  BY <1>5, ConsentNegotiates, SetOfferNegotiates, AnswerNegotiates
<1>6. ASSUME NEW a \in Agents, CreateOffer(a) \/ SendOffer(a) PROVE Offering!Next
  BY <1>6, CreateOfferNegotiates, SendOfferNegotiates DEF Offering!Next
<1>7. CASE ReceiveAnswer
  BY <1>7, ReceiveAnswerNegotiates
<1> QED
  BY <1>1, <1>2, <1>3, <1>4, <1>5, <1>6, <1>7 DEF Next, PlayerHandles, PlayerContinues, ServerRuns

(* Whoever makes offers and whatever closes meanwhile, the peer server,    *)
(* the websocket, the three awaits of the handler and the player implement *)
(* Negotiation: one offer after the other, each received once, answered    *)
(* once and only with the user's consent, which is asked for once          *)
(* (peer_server.go:176-231, ducksoup.js:440-540).                          *)
THEOREM PlayerNegotiates == Spec => ImplementsNegotiation
<1>1. Init => Offering!Init
  BY BoundsAssumption DEF Init, Offering!Init, PlaceOf, ConsentOf
<1>2. PlayerInv /\ PlayerInv' /\ [Next]_vars => [Offering!Next]_(Offering!vars)
  BY NegotiationStep
<1> QED
  BY <1>1, <1>2, PlayerInvariance, PTL DEF Spec, ImplementsNegotiation, Offering!Spec
=============================================================================
