--------------------------- MODULE RoomLifecycle ---------------------------
(***************************************************************************)
(* What an interaction id promises to those who use it, without locks,     *)
(* goroutines, channels or tracks: rooms are opened one after the other,   *)
(* users enter and leave them, and each room forms, runs and ends, or is   *)
(* given up, and is deleted.  It is an abstract specification: no code is  *)
(* translated here; InteractionLifecycle says how the code implements it.  *)
(***************************************************************************)
EXTENDS Integers, FiniteSets

CONSTANTS Users, Size, Rooms

VARIABLES
    opened,      \* how many rooms there have been
    phase,       \* per room: how far it went
    giveUp,      \* per room: "no" | "decided" | "done"
    known,       \* per room: the users who ever entered
    present,     \* per room: the users who are there
    deleted      \* per room: it takes no part any more

vars == <<opened, phase, giveUp, known, present, deleted>>

Init ==
    /\ opened = 0
    /\ phase = [g \in Rooms |-> "forming"]
    /\ giveUp = [g \in Rooms |-> "no"]
    /\ known = [g \in Rooms |-> {}]
    /\ present = [g \in Rooms |-> {}]
    /\ deleted = [g \in Rooms |-> FALSE]

Ended(g) == phase[g] = "over" \/ giveUp[g] = "done"

----------------------------------------------------------------------------
\* A user opens the next room and is its first member.
Open(g, u) ==
    /\ g = opened + 1
    /\ opened' = g
    /\ known' = [known EXCEPT ![g] = {u}]
    /\ present' = [present EXCEPT ![g] = {u}]
    /\ UNCHANGED <<phase, giveUp, deleted>>

\* Only the newest room is entered, by those it knows or while it has places;
\* never once it was deleted for being empty.
Enter(g, u) ==
    /\ g = opened
    /\ deleted[g] => Ended(g)
    /\ u \notin present[g]
    /\ u \in known[g] \/ Cardinality(known[g]) < Size
    /\ known' = [known EXCEPT ![g] = @ \union {u}]
    /\ present' = [present EXCEPT ![g] = @ \union {u}]
    /\ UNCHANGED <<opened, phase, giveUp, deleted>>

\* Whoever leaves keeps her place.  A room that is left empty while it forms is
\* deleted with the last one; one that ran or was given up may be.
Leave(g, u) ==
    /\ u \in present[g]
    /\ present' = [present EXCEPT ![g] = @ \ {u}]
    /\ \/ UNCHANGED deleted /\ (present'[g] = {} /\ phase[g] = "forming" => deleted[g])
       \/ /\ present'[g] = {}
          /\ phase[g] = "forming" \/ Ended(g)
          /\ deleted' = [deleted EXCEPT ![g] = TRUE]
    /\ UNCHANGED <<opened, phase, giveUp, known>>

\* The room goes from one phase to the next, and never back.
Advance(g, from, to) ==
    /\ g <= opened
    /\ phase[g] = from
    /\ phase' = [phase EXCEPT ![g] = to]
    /\ UNCHANGED <<opened, giveUp, known, present, deleted>>

\* It is given up only by a decision taken before it was ready, or after it ended.
DecideToGiveUp(g) ==
    /\ g <= opened
    /\ giveUp[g] = "no"
    /\ phase[g] \in {"forming", "over"}
    /\ giveUp' = [giveUp EXCEPT ![g] = "decided"]
    /\ UNCHANGED <<opened, phase, known, present, deleted>>

GiveUp(g) ==
    /\ giveUp[g] = "decided"
    /\ giveUp' = [giveUp EXCEPT ![g] = "done"]
    /\ UNCHANGED <<opened, phase, known, present, deleted>>

Delete(g) ==
    /\ Ended(g)
    /\ deleted' = [deleted EXCEPT ![g] = TRUE]
    /\ UNCHANGED <<opened, phase, giveUp, known, present>>

Next ==
    \E g \in Rooms :
        \/ \E u \in Users : Open(g, u) \/ Enter(g, u) \/ Leave(g, u)
        \/ Advance(g, "forming", "ready")
        \/ Advance(g, "ready", "running")
        \/ Advance(g, "running", "over")
        \/ DecideToGiveUp(g) \/ GiveUp(g) \/ Delete(g)

Spec == Init /\ [][Next]_vars
============================================================================
