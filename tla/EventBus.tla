------------------------------ MODULE EventBus ------------------------------
(***************************************************************************)
(* The runtime's event bus (crates/event-bus): a tokio broadcast channel.  *)
(* A sender never waits; the channel keeps the newest BusCapacity          *)
(* envelopes, and a receiver that is further behind than that is told so   *)
(* (Lagged) and goes on from the oldest envelope still there.  `log` is    *)
(* everything published so far, `n` the index a receiver reads next.       *)
(***************************************************************************)
EXTENDS Naturals, Sequences

CONSTANT BusCapacity

ASSUME BusAssumption == BusCapacity \in Nat \ {0}

Oldest(log) == IF Len(log) > BusCapacity THEN Len(log) - BusCapacity + 1 ELSE 1

Lagged(log, n) == n < Oldest(log)

Readable(log, n) == n \in Oldest(log)..Len(log)
=============================================================================
