-------------------------- MODULE PlayerNegotiation --------------------------
(***************************************************************************)
(* How Player implements Negotiation.  The pending local description of    *)
(* the peer server is the negotiation under way; where it is follows from  *)
(* the agent that has set it and not sent it, the two queues of the        *)
(* websocket and the handler of the player.                                *)
(***************************************************************************)
EXTENDS Player

Unsent   == \E a \in Agents : unsent[a] # 0
Handled  == \E n \in Offers : handler[n] \in {"asking", "setting", "answering"}
Answered == \E n \in Offers : <<"answer", n>> \in Messages(toServer)

PlaceOf ==
    IF pendingOffer = 0 THEN "settled"
    ELSE IF Unsent      THEN "set"
    ELSE IF Offered     THEN "toPlayer"
    ELSE IF Handled     THEN "player"
    ELSE IF Answered    THEN "toServer"
                        ELSE "lost"

\* getUserMedia is called with the first connection, and startedRTC set after it.
ConsentOf == IF startedRTC THEN "given" ELSE IF created > 0 THEN "asked" ELSE "none"

Offering == INSTANCE Negotiation WITH
    made    <- offers,
    place   <- PlaceOf,
    consent <- ConsentOf

(* Offers cross goroutines, a queue, a handler with three awaits and a     *)
(* queue back (peer_server.go:176-231, ducksoup.js:440-540); whoever makes *)
(* them and whatever closes meanwhile, each step is one of Negotiation, or *)
(* none.                                                                   *)
ImplementsNegotiation == Offering!Spec
=============================================================================
