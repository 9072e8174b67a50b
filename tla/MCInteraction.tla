--------------------------- MODULE MCInteraction ---------------------------
(* Instances of Interaction for TLC. *)
EXTENDS InteractionLifecycle, TLC

\* Users are interchangeable; used only where no liveness is checked.
Symmetry == Permutations(Users)
============================================================================
