------------------------ MODULE InteractionLifecycle ------------------------
(***************************************************************************)
(* How Interaction implements RoomLifecycle.  A room's phase is the last   *)
(* channel of readyCh, startedCh and doneCh that was closed; it is given   *)
(* up from the moment abortCountdown has found it not ready; its members   *)
(* are the users that connectedIndex marks.                                *)
(***************************************************************************)
EXTENDS Interaction

PhaseOf(g) ==
    CASE "done" \in closed[g] -> "over"
      [] "started" \in closed[g] /\ "done" \notin closed[g] -> "running"
      [] "ready" \in closed[g] /\ closed[g] \intersect {"started", "done"} = {} -> "ready"
      [] closed[g] \intersect {"ready", "started", "done"} = {} -> "forming"

GiveUpOf(g) ==
    CASE "aborted" \in closed[g] -> "done"
      [] "aborted" \notin closed[g] /\ stopper[g]["abort"] = "stopping" -> "decided"
      [] "aborted" \notin closed[g] /\ stopper[g]["abort"] # "stopping" -> "no"

Lifecycle == INSTANCE RoomLifecycle WITH
    opened  <- created,
    phase   <- [g \in Rooms |-> PhaseOf(g)],
    giveUp  <- [g \in Rooms |-> GiveUpOf(g)],
    known   <- [g \in Rooms |-> KnownUsers(g)],
    present <- [g \in Rooms |-> ConnectedUsers(g)],
    deleted <- deleted

(* The locks, goroutines, counters and channels of the code amount to the  *)
(* life of a room that RoomLifecycle describes: every step of a goroutine  *)
(* is one step of it or none (interaction_store.go, interaction.go).       *)
ImplementsLifecycle == Lifecycle!Spec

PlacesInv ==
    \A s \in Sessions :
        /\ session[s] # "idle" => user[s] \in Users
        /\ session[s] \notin {"idle", "joining", "refused"} => room[s] <= created

EndingInv ==
    \A g \in Rooms :
        /\ ready[g] => "ready" \in closed[g]
        /\ "ready" \in closed[g] => ready[g] \/ HasEnded(g)
        /\ g > created => closed[g] = {} /\ ~deleted[g]
        /\ index = g /\ deleted[g] => HasEnded(g) \/ mutex[g] # None

\* A signaling is only ever requested in a room that was created.
RequestedInv == \A g \in Rooms : signaling[g] # "none" => ~(g > created)

(* What the proof of that needs to know of every reachable state: the flag *)
(* ready and the channels agree up to the end of the room, a room that was *)
(* not created is untouched, and a room marked deleted before it ended is  *)
(* locked until it is no longer indexed.                                   *)
LifecycleInv ==
    /\ index \in {None, created}
    /\ PlacesInv
    /\ EndingInv
=================================================================================
