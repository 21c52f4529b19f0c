----------------------------- MODULE EventRing -----------------------------
(***************************************************************************)
(* The bounded event ring of shim/src/shim_event.cpp: every platform event *)
(* goes through it, from an active object's RunL to the Rust step that     *)
(* drains it. gHead, gTail and gCount index a circular buffer; here the    *)
(* ring is the sequence of the events between tail and head.               *)
(***************************************************************************)
EXTENDS Naturals, Sequences

CONSTANT Capacity       \* KQueueSize: 64 in the code
ASSUME CapacityAssumption == Capacity \in Nat \ {0}

FitsMutant(ring) == Len(ring) <= Capacity
Fits(ring) == Len(ring) < Capacity

\* ShimPushEvent: the newest event is the one a full ring loses
Pushed(ring, e) == IF Fits(ring) THEN Append(ring, e) ELSE ring
=============================================================================
