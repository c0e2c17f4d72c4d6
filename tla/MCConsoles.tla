----------------------------- MODULE MCConsoles -----------------------------
(* One page and the terminal, two requests of one reply and its last event    *)
(* each, and queues of one place, so that progress is dropped.                *)
EXTENDS ConsolesProperties
=============================================================================
