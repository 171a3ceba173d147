----------------------------- MODULE MarketData -----------------------------
(***************************************************************************)
(* What the research side of the system shares: the thresholds of the      *)
(* settings and arithmetic on snapshots.  Prices, probabilities,           *)
(* confidences and edges are in 1/10000; liquidity and volume in dollars,  *)
(* stakes and profits in cents.                                            *)
(***************************************************************************)
EXTENDS Integers

CONSTANTS
  Market,
  MinConfidence, MinEdge, MaxSpread, MinLiquidity, MaxPosition

Side == {"yes", "no"}

\* 9500 is where boosted confidences end: a higher threshold would need them told apart.
ASSUME MarketAssumption ==
  /\ MinConfidence \in 0 .. 9500 /\ MinEdge \in Nat
  /\ MaxSpread \in Nat /\ MinLiquidity \in Nat /\ MaxPosition \in Nat

PriceOf(q, side) == IF side = "yes" THEN q.yes ELSE q.no

\* The two conditions on the book that every consumer of a signal repeats.
Tradable(q) == q.spread <= MaxSpread /\ q.liquidity >= MinLiquidity

Lesser(x, y)  == IF x < y THEN x ELSE y
Greater(x, y) == IF x < y THEN y ELSE x
Distance(x, y) == IF x < y THEN y - x ELSE x - y

Clamp(x, low, high) == Greater(low, Lesser(x, high))

\* int(): a quotient cut toward zero, for a positive divisor.
Trunc(x, d) == IF x >= 0 THEN x \div d ELSE 0 - ((0 - x) \div d)
=============================================================================
