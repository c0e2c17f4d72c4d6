------------------------------ MODULE MCSlots -------------------------------
(* The binary that the appliance came with, and one that does not start. *)
EXTENDS ABSlots
=============================================================================
