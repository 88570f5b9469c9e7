--------------------------- MODULE MCPhilosophers ---------------------------
(* An odd number of seats, so that a round ends next to where it began. *)
EXTENDS Philosophers
=============================================================================
