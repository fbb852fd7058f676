------------------------------ MODULE MCTicks ------------------------------
(* Small instances of Ticks.                                               *)
EXTENDS Ticks
=============================================================================
