-------------------------- MODULE MCReconciliation --------------------------
(* Two overlapping runs; a market with a real and a shadow position and one  *)
(* with a single position.  A source may know nothing of a market, or be off *)
(* by the tolerance, so that sources may also differ from each other alone.  *)
EXTENDS Reconciliation

MCMarketOf == [p \in Position |-> IF p = "p3" THEN "m2" ELSE "m1"]
MCNotional == [p \in Position |-> 4]
=============================================================================
