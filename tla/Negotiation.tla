---------------------------- MODULE Negotiation ----------------------------
(***************************************************************************)
(* What the server and a player promise each other about offers, without   *)
(* websocket, goroutines, handlers or connections: there is one            *)
(* negotiation after the other, the next only when the answer to the last  *)
(* one has come back; an offer reaches the player once and is answered     *)
(* once; the user is asked for her camera once, and nothing is answered    *)
(* before she consents.  What is lost is not made good: it holds up all    *)
(* that would come after it.  It is an abstract specification: no code is  *)
(* translated here; PlayerNegotiation says how the code implements it.     *)
(***************************************************************************)
EXTENDS Naturals

VARIABLES
    made,      \* how many negotiations there have been
    place,     \* where the last of them is
    consent    \* of the user: "none" | "asked" | "given"

vars == <<made, place, consent>>

Places ==
    {"settled",    \* there is none
     "set",        \* the server has set an offer
     "toPlayer",
     "player",     \* she has it, and has not answered
     "toServer",
     "lost"}

Init == made = 0 /\ place = "settled" /\ consent = "none"

Goes(from, to) == place = from /\ place' = to

Begin ==
    /\ Goes("settled", "set")
    /\ made' = made + 1
    /\ UNCHANGED consent

Send == Goes("set", "toPlayer") /\ UNCHANGED <<made, consent>>

\* The first offer asks the user.
Receive ==
    /\ Goes("toPlayer", "player")
    /\ consent' = IF consent = "none" THEN "asked" ELSE consent
    /\ consent # "asked"
    /\ UNCHANGED made

Consent ==
    /\ place = "player" /\ consent = "asked"
    /\ consent' = "given"
    /\ UNCHANGED <<made, place>>

Answer ==
    /\ Goes("player", "toServer")
    /\ consent = "given"
    /\ UNCHANGED <<made, consent>>

Settle == Goes("toServer", "settled") /\ UNCHANGED <<made, consent>>

\* A websocket closes, a write fails, the user refuses, somebody has gone.
Lose ==
    /\ \E from \in Places \ {"settled", "lost"} : Goes(from, "lost")
    /\ UNCHANGED <<made, consent>>

Next == Begin \/ Send \/ Receive \/ Consent \/ Answer \/ Settle \/ Lose

Spec == Init /\ [][Next]_vars
============================================================================
