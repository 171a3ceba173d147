----------------------------- MODULE Strategies -----------------------------
(***************************************************************************)
(* What the strategies say of a quote, given their features.  What may be  *)
(* missing (a signal, an estimate, a sentiment, closes_at) is a set with   *)
(* at most one element.  A quote has the fields yes, no, spread, liquidity *)
(* and volume (dollars), days (to closes_at, in tenths), category and      *)
(* sentiment (of the title).                                               *)
(***************************************************************************)
EXTENDS MarketData, Sequences, SequencesExt

CONSTANT MinDiscrepancy

ASSUME DiscrepancyAssumption == MinDiscrepancy \in Nat

Signal(side, confidence, edge) == [side |-> side, confidence |-> confidence, edge |-> edge]

Toward(side, difference) == IF side = "yes" THEN difference ELSE 0 - difference

\* The side to which a difference of probabilities points, if it exceeds the minimum.
Directed(difference, confidence) ==
  {Signal(s, confidence, Toward(s, difference)) :
     s \in {t \in Side : Toward(t, difference) > MinEdge}}

Pointing(estimate, q) == IF estimate.prob > q.yes THEN "yes" ELSE "no"

-----------------------------------------------------------------------------
(***************************************************************************)
(* The three strategies that ask a model for the probability.              *)
(***************************************************************************)

\* parse_probability_response: without a probability there is no estimate; without a
\* confidence it is one half.
Estimate(prob, confidence) ==
  [prob |-> Clamp(prob, 100, 9900), confidence |-> Clamp(confidence, 0, 10000)]

Parsed(answer) ==
  {Estimate(p, IF answer.confidence = {} THEN 5000 ELSE CHOOSE c \in answer.confidence : TRUE) :
     p \in answer.prob}

LLMSignal(q, estimates) ==
  UNION {Directed(e.prob - q.yes, e.confidence) :
           e \in {f \in estimates : f.confidence >= MinConfidence /\ Tradable(q)}}

\* No articles and a failed analysis look the same: the estimate stands alone.
Blended(e, sentiments) ==
  IF sentiments = {} THEN e
  ELSE LET s == CHOOSE s \in sentiments : TRUE
       IN  [prob |-> (6 * e.prob + 4 * s.adjusted) \div 10,
            confidence |-> Lesser(9500, e.confidence + s.magnitude \div 10)]

\* A neutral sentiment agrees with nothing.
Agree(e, sentiments, q) == \A s \in sentiments : s.direction = Pointing(e, q)

NewsSignal(q, estimates, sentiments) ==
  LLMSignal(q, {Blended(e, sentiments) : e \in {f \in estimates : Agree(f, sentiments, q)}})

\* The weights of what is held on either side: whales by size, tracked wallets by
\* half; the direction of unusual activity is unknown and weighs nothing.
Weight(side, whales, wallets) ==
  FoldSeq(LAMBDA w, sum : sum + IF w.side = side THEN Lesser(10000, w.size) ELSE 0, 0, whales)
  + 5000 * Len(SelectSeq(wallets, LAMBDA w : w = side))

Votes(whales, wallets) ==
  [yes |-> Weight("yes", whales, wallets), no |-> Weight("no", whales, wallets),
   count |-> Len(whales) + Len(wallets)]

Boosted(e, votes) ==
  LET magnitude == (10000 * Greater(votes.yes, votes.no)) \div (votes.yes + votes.no)
  IN  [prob |-> e.prob,
       confidence |-> Lesser(9500, e.confidence
                        + Lesser(1500, 300 * votes.count + magnitude \div 20))]

\* Against the model's own direction there is no signal; its confidence is checked
\* before the boost.
SmartMoneySignal(q, estimates, votes) ==
  LLMSignal(q, {Boosted(e, votes) : e \in {f \in estimates :
    /\ f.confidence >= MinConfidence
    /\ votes.yes + votes.no > 0
    /\ Pointing(f, q) = IF votes.yes > votes.no THEN "yes" ELSE "no"}})

-----------------------------------------------------------------------------
(***************************************************************************)
(* The strategies that do not.                                             *)
(***************************************************************************)

\* What a search of the other platforms returns: entries without a price are passed
\* over, and so are those whose title is too different.  Kalshi's price may be in cents.
Offered(entry, price) ==
  IF entry.platform = "kalshi"
  THEN Clamp(IF price > 10000 THEN price \div 100 ELSE price, 100, 9900)
  ELSE price

Matches(entries) ==
  LET kept == SelectSeq(entries, LAMBDA e : e.price # {} /\ e.similarity >= 3000)
  IN  [i \in DOMAIN kept |->
         [platform |-> kept[i].platform, similarity |-> kept[i].similarity,
          prob |-> Offered(kept[i], CHOOSE p \in kept[i].price : TRUE)]]

\* The consensus of other platforms, weighted by similarity.
Consensus(prices) ==
  LET total == FoldSeq(LAMBDA p, sum : sum + p.similarity, 0, prices)
  IN  IF total = 0 THEN {}
      ELSE {[prob |-> FoldSeq(LAMBDA p, sum : sum + p.prob * p.similarity, 0, prices) \div total,
             platforms |-> Cardinality({prices[i].platform : i \in DOMAIN prices})]}

\* The only strategy whose threshold is not MinEdge, and that asks for no confidence.
ArbSignal(q, consensus) ==
  {Signal(IF q.yes > c.prob THEN "no" ELSE "yes",
          Lesser(9000, 5000 + 800 * c.platforms + Distance(q.yes, c.prob)),
          Distance(q.yes, c.prob)) :
     c \in {d \in consensus : d.platforms >= 2 /\ Distance(q.yes, d.prob) >= MinDiscrepancy
                                /\ Tradable(q)}}

Surge(q) == IF q.liquidity <= 0 THEN 0 ELSE (10000 * q.volume) \div q.liquidity

PriceDeviation(q) == 2 * Distance(q.yes, 5000)

Conviction(q) ==
  4500 + (3 * Distance(q.sentiment, 0)) \div 10 + Surge(q) \div 10 + (3 * PriceDeviation(q)) \div 20
  + CASE q.category = "information_event" -> 1000
      [] q.category = "novelty" -> 0 - 1500
      [] OTHER -> 0

\* The features were computed from a quote that may be older than the one traded on.
EventCatalystSignal(q, was) ==
  LET confidence == Clamp(Conviction(was), 0, 9500)
      side  == IF was.sentiment > 0 THEN "yes" ELSE "no"
      model == Clamp(5000 + Distance(was.sentiment, 0), 300, 9700)   \* of that side
      edge  == model - PriceOf(q, side)
  IN  {s \in {Signal(side, confidence, edge)} :
         /\ \E d \in was.days : 30 <= d /\ d <= 300
         /\ confidence >= MinConfidence
         /\ Distance(was.sentiment, 0) >= 500
         /\ edge >= MinEdge
         /\ Tradable(q)}

\* calculate_liquidity_depth
Depth(liquidity) ==
  CASE liquidity >= 10000 -> liquidity
    [] liquidity >= 3000 /\ liquidity < 10000 -> (7 * liquidity) \div 10
    [] liquidity >= 1000 /\ liquidity < 3000 -> (3 * liquidity) \div 10
    [] OTHER -> 0

TimeQuality(days) ==
  CASE days < 10 -> 0 - 1000
    [] days >= 10 /\ days <= 450 -> 1000
    [] days > 450 /\ days <= 1200 -> 500
    [] OTHER -> 0

MomentumScore(q) ==
  Clamp((IF q.volume >= 5000 THEN 3000 ELSE IF q.volume >= 1000 THEN 1500 ELSE 0)
        + Lesser(2 * Surge(q), 3000)
        + (IF Distance(q.yes, 5000) >= 1500 THEN 2500
           ELSE IF Distance(q.yes, 5000) >= 500 THEN 1000 ELSE 0)
        + (IF 0 < q.spread /\ q.spread <= 150 THEN 1500 ELSE IF q.spread <= 400 THEN 500 ELSE 0)
        + (IF q.days = {} THEN 0 ELSE TimeQuality(CHOOSE d \in q.days : TRUE)),
        0, 10000)

\* The side that a price away from one half suggests, and the model's probability: of
\* that side's outcome when it is made, and of yes when the edge is taken.
MomentumSide(yes) == IF yes < 4500 THEN "no" ELSE "yes"

MomentumModel(yes, score) ==
  Clamp(IF yes > 5500 THEN yes + score \div 10
        ELSE IF yes < 4500 THEN 10000 - yes + score \div 10
        ELSE 5000 + (3 * score) \div 20,
        300, 9700)

MomentumEdge(q, score) ==
  IF MomentumSide(q.yes) = "yes" THEN MomentumModel(q.yes, score) - q.yes
  ELSE 10000 - MomentumModel(q.yes, score) - q.no

MomentumSignal(q, was) ==
  LET score == MomentumScore(was)
  IN  {s \in {Signal(MomentumSide(q.yes), Lesser(9500, 5000 + score \div 2), MomentumEdge(q, score))} :
         /\ Surge(was) >= 500
         /\ Depth(was.liquidity) >= 3000
         /\ score >= 3000
         /\ was.spread <= 400
         /\ q.yes < 4500 \/ q.yes > 5500 \/ score >= 5000
         /\ s.edge >= MinEdge}
=============================================================================
