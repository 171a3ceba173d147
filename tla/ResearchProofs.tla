--------------------------- MODULE ResearchProofs ---------------------------
(***************************************************************************)
(* What holds of the research side whatever the quotes, the estimates, the *)
(* history and the settings are.                                           *)
(***************************************************************************)
EXTENDS SignalDesk, LLMClient, Monitoring, ThresholdTuner, ReviewDesk, SumProofs

-----------------------------------------------------------------------------
(***************************************************************************)
(* The threshold tuner.                                                    *)
(***************************************************************************)

LEMMA PowersPositive ==
  ASSUME NEW k \in 0 .. Halvings
  PROVE  Pow[k] \in Nat
BY TunerAssumption

\* The interval has the width that is left to halve.
Searching ==
  /\ left \in 0 .. Halvings
  /\ lo \in Nat /\ hi \in Nat
  /\ hi = lo + Pow[left]
  /\ hi = One \/ Reaches(hi)
  /\ lo = 0 \/ ~Reaches(lo)

LEMMA SearchBegins == TunerInit => Searching
<1> SUFFICES ASSUME TunerInit PROVE Searching
  OBVIOUS
<1>1. left = Halvings /\ lo = 0 /\ hi = One
  BY DEF TunerInit
<1>2. One \in Nat
  BY PowersPositive, TunerAssumption DEF One
<1> QED
  BY <1>1, <1>2, TunerAssumption DEF Searching, One

LEMMA SearchGoesOn ==
  ASSUME Searching, [TunerNext]_tuner
  PROVE  Searching'
<1>1. CASE UNCHANGED <<shadow, target, lo, hi, left>>
  <2>1. Reaches(hi)' <=> Reaches(hi)
    BY <1>1 DEF Reaches, Right, Passed, Sample
  <2>2. Reaches(lo)' <=> Reaches(lo)
    BY <1>1 DEF Reaches, Right, Passed, Sample
  <2> QED
    BY <1>1, <2>1, <2>2 DEF Searching, One
<1>2. CASE Halve
  <2>1. left \in 1 .. Halvings /\ left' = left - 1 /\ UNCHANGED <<shadow, target>>
    BY <1>2 DEF Halve, Searching
  <2>2. Pow[left] = 2 * Pow[left - 1] /\ Pow[left - 1] \in Nat
    BY <2>1, TunerAssumption
  <2>3. lo \in Nat /\ hi = lo + 2 * Pow[left - 1]
    BY <2>2 DEF Searching
  <2>4. Middle = lo + Pow[left - 1]
    BY <2>2, <2>3 DEF Middle
  <2>5. CASE Reaches(Middle)
    <3>1. hi' = Middle /\ lo' = lo
      BY <1>2, <2>5 DEF Halve
    <3>2. Reaches(hi)'
      BY <2>1, <2>5, <3>1 DEF Reaches, Right, Passed, Sample
    <3>3. Reaches(lo)' <=> Reaches(lo)
      BY <2>1, <3>1 DEF Reaches, Right, Passed, Sample
    <3>4. lo' \in Nat /\ hi' \in Nat /\ hi' = lo' + Pow[left']
      BY <2>1, <2>2, <2>3, <2>4, <3>1
    <3>5. lo' = 0 \/ ~Reaches(lo)'
      BY <3>1, <3>3 DEF Searching
    <3>6. left' \in 0 .. Halvings
      BY <2>1, TunerAssumption
    <3> QED
      BY <3>2, <3>4, <3>5, <3>6 DEF Searching
  <2>6. CASE ~Reaches(Middle)
    <3>1. lo' = Middle /\ hi' = hi
      BY <1>2, <2>6 DEF Halve
    <3>2. ~Reaches(lo)'
      BY <2>1, <2>6, <3>1 DEF Reaches, Right, Passed, Sample
    <3>3. Reaches(hi)' <=> Reaches(hi)
      BY <2>1, <3>1 DEF Reaches, Right, Passed, Sample
    <3>4. lo' \in Nat /\ hi' \in Nat /\ hi' = lo' + Pow[left']
      BY <2>1, <2>2, <2>3, <2>4, <3>1
    <3>5. hi' = One' \/ Reaches(hi)'
      BY <3>1, <3>3 DEF Searching, One
    <3>6. left' \in 0 .. Halvings
      BY <2>1, TunerAssumption
    <3> QED
      BY <3>2, <3>4, <3>5, <3>6 DEF Searching
  <2> QED
    BY <2>5, <2>6
<1>3. CASE AskAgain
  <2>1. left' = Halvings /\ lo' = 0 /\ hi' = One
    BY <1>3 DEF AskAgain
  <2>2. One \in Nat
    BY PowersPositive, TunerAssumption DEF One
  <2> QED
    BY <2>1, <2>2, TunerAssumption DEF Searching, One
<1>4. CASE NoSample
  BY <1>1, <1>4 DEF NoSample
<1>5. CASE Suggest
  BY <1>1, <1>5 DEF Suggest
<1>6. CASE \E threshold \in suggested \cup {One} : Analyze(threshold)
  BY <1>1, <1>6 DEF Analyze
<1>7. CASE UNCHANGED tuner
  BY <1>1, <1>7 DEF tuner
<1> QED
  BY <1>2, <1>3, <1>4, <1>5, <1>6, <1>7 DEF TunerNext

\* Every step of suggest_threshold's bisection keeps the target reached at its upper end
\* and missed at its lower end, and it ends with neighbours, for every history.
THEOREM ThresholdReached == TunerSpec => []ThresholdReachesTarget
<1>1. TunerInit => Searching
  BY SearchBegins
<1>2. Searching /\ [TunerNext]_tuner => Searching'
  BY SearchGoesOn
<1>3. Searching => ThresholdReachesTarget
  BY TunerAssumption DEF Searching, ThresholdReachesTarget
<1> QED
  BY <1>1, <1>2, <1>3, PTL DEF TunerSpec

-----------------------------------------------------------------------------
(***************************************************************************)
(* The signal desk.                                                        *)
(***************************************************************************)

\* Features are stored when their computing ends, and are used within the time-to-live.
Entry(e) ==
  e.stored \in 0 .. deskTime
  /\ e.features.quoted \in Nat /\ e.features.took \in Nat
  /\ e.stored = e.features.quoted + e.features.took

Pass(p) ==
  \/ p.step = "lookup" /\ p.market \in Market
  \/ p.step = "compute" /\ p.began \in 0 .. deskTime
  \/ /\ p.step = "said" /\ p.looked \in Nat
     /\ p.features.quoted \in Nat /\ p.features.took \in Nat
     /\ p.looked <= p.features.quoted + p.features.took + Ttl

Recently ==
  /\ deskTime \in Nat
  /\ cache = [m \in Market |-> cache[m]]
  /\ pass = [r \in Reader |-> pass[r]]
  /\ \A m \in Market : cache[m] # NoEntry => Entry(cache[m])
  /\ \A r \in Reader : pass[r] # NoPass => Pass(pass[r])
LEMMA FeaturesDated ==
  ASSUME NEW q, NEW began, NEW f \in FeaturesFrom(q, began)
  PROVE  f.quoted = began /\ f.took = deskTime - began
<1>1. PICK x \in {{[quoted |-> began, was |-> q, took |-> deskTime - began, llm |-> l,
           news |-> n, sentiment |-> s, smart |-> w, held |-> h, prices |-> Matches(p)] :
            s \in SentimentsFor(n)} :
          l \in EstimatesFor("llm_probability"), n \in EstimatesFor("news_catalyst"),
          w \in EstimatesFor("smart_money"), h \in Holdings, p \in Listings} : f \in x
  BY DEF FeaturesFrom
<1>2. PICK l \in EstimatesFor("llm_probability"), n \in EstimatesFor("news_catalyst"),
           w \in EstimatesFor("smart_money"), h \in Holdings, p \in Listings :
        x = {[quoted |-> began, was |-> q, took |-> deskTime - began, llm |-> l,
              news |-> n, sentiment |-> s, smart |-> w, held |-> h, prices |-> Matches(p)] :
               s \in SentimentsFor(n)}
  BY <1>1
<1>3. PICK s \in SentimentsFor(n) :
        f = [quoted |-> began, was |-> q, took |-> deskTime - began, llm |-> l,
             news |-> n, sentiment |-> s, smart |-> w, held |-> h, prices |-> Matches(p)]
  BY <1>1, <1>2
<1> QED
  BY <1>3

LEMMA DeskBegins == DeskInit => Recently
BY DEF DeskInit, Recently

\* A step of one thread: what it leaves in the cache and what it goes on with.
LEMMA TurnKeepsRecent ==
  ASSUME Recently, NEW r \in Reader, NEW p, NEW m, NEW e,
         deskTime' = deskTime, Turns(r, p), cache' = [cache EXCEPT ![m] = e],
         p = NoPass \/ Pass(p),
         m \in Market => e = NoEntry \/ Entry(e)
  PROVE  Recently'
<1>1. cache' = [k \in Market |-> cache'[k]]
  BY DEF Recently
<1>2. pass' = [x \in Reader |-> pass'[x]]
  BY DEF Recently, Turns
<1>3. ASSUME NEW k \in Market, cache'[k] # NoEntry PROVE Entry(cache[k])'
  <2>1. cache'[k] = IF k = m THEN e ELSE cache[k]
    BY DEF Recently
  <2> QED
    BY <1>3, <2>1 DEF Recently, Entry
<1>4. ASSUME NEW x \in Reader, pass'[x] # NoPass PROVE Pass(pass[x])'
  <2>1. pass'[x] = IF x = r THEN p ELSE pass[x]
    BY DEF Recently, Turns
  <2> QED
    BY <1>4, <2>1 DEF Recently, Pass
<1> QED
  BY <1>1, <1>2, <1>3, <1>4 DEF Recently

LEMMA DeskGoesOn ==
  ASSUME Recently, [DeskNext]_desk
  PROVE  Recently'
<1>t. deskTime \in Nat /\ Ttl \in Nat
  BY DeskAssumption DEF Recently
<1>n. ASSUME NEW m, UNCHANGED cache PROVE cache' = [cache EXCEPT ![m] = cache[m]]
  BY <1>n DEF Recently
<1>1. CASE DeskTick
  <2>1. deskTime' = deskTime + 1 /\ UNCHANGED <<cache, pass>>
    BY <1>1 DEF DeskTick
  <2>2. ASSUME NEW k \in Market, cache'[k] # NoEntry PROVE Entry(cache[k])'
    BY <1>t, <2>1, <2>2 DEF Recently, Entry
  <2>3. ASSUME NEW x \in Reader, pass'[x] # NoPass PROVE Pass(pass[x])'
    <3>1. Pass(pass[x])
      BY <2>1, <2>3 DEF Recently
    <3> QED
      BY <1>t, <2>1, <3>1 DEF Pass
  <2> QED
    BY <1>t, <2>1, <2>2, <2>3 DEF Recently
<1>2. ASSUME NEW r \in Reader, Begin(r) PROVE Recently'
  <2>1. PICK m \in Market, q \in DeskQuotes :
          Turns(r, [step |-> "lookup", market |-> m, quote |-> q])
    BY <1>2 DEF Begin
  <2>2. UNCHANGED <<deskTime, cache>>
    BY <1>2 DEF Begin
  <2>3. cache[m] = NoEntry \/ Entry(cache[m])
    BY DEF Recently
  <2>4. Pass([step |-> "lookup", market |-> m, quote |-> q])
    BY DEF Pass
  <2> QED
    BY <1>n, <2>1, <2>2, <2>3, <2>4, TurnKeepsRecent
<1>3. ASSUME NEW r \in Reader, Hit(r) PROVE Recently'
  <2> DEFINE m == pass[r].market
             f == cache[m].features
  <2>1. pass[r] # NoPass /\ pass[r].step = "lookup" /\ Fresh(m) /\ UNCHANGED <<deskTime, cache>>
    BY <1>3 DEF Hit
  <2>2. m \in Market /\ cache[m] # NoEntry /\ deskTime - cache[m].stored <= Ttl
    BY <2>1 DEF Recently, Pass, Fresh
  <2>3. Entry(cache[m])
    BY <2>2 DEF Recently
  <2>4. Turns(r, Says(r, f))
    BY <1>3 DEF Hit
  <2>5. Pass(Says(r, f))
    <3>1. Says(r, f).step = "said" /\ Says(r, f).looked = deskTime /\ Says(r, f).features = f
      BY DEF Says
    <3>2. f.quoted \in Nat /\ f.took \in Nat /\ deskTime <= f.quoted + f.took + Ttl
      BY <1>t, <2>2, <2>3 DEF Entry
    <3> HIDE DEF f
    <3> QED
      BY <1>t, <3>1, <3>2 DEF Pass
  <2> QED
    BY <1>n, <2>1, <2>3, <2>4, <2>5, TurnKeepsRecent
<1>4. ASSUME NEW r \in Reader, Miss(r) PROVE Recently'
  <2> DEFINE p == [step |-> "compute", market |-> pass[r].market, quote |-> pass[r].quote,
                   began |-> deskTime]
  <2>1. Turns(r, p) /\ cache' = [cache EXCEPT ![pass[r].market] = NoEntry] /\ UNCHANGED deskTime
    BY <1>4 DEF Miss
  <2>2. Pass(p)
    BY <1>t DEF Pass
  <2> QED
    BY <2>1, <2>2, TurnKeepsRecent
<1>5. ASSUME NEW r \in Reader, Compute(r) PROVE Recently'
  <2>1. pass[r] # NoPass /\ pass[r].step = "compute" /\ UNCHANGED deskTime
    BY <1>5 DEF Compute
  <2>2. pass[r].began \in 0 .. deskTime
    BY <2>1 DEF Recently, Pass
  <2>3. PICK f \in FeaturesFrom(pass[r].quote, pass[r].began) :
          /\ cache' = [cache EXCEPT ![pass[r].market] = [stored |-> deskTime, features |-> f]]
          /\ Turns(r, Says(r, f))
    BY <1>5 DEF Compute
  <2>4. f.quoted = pass[r].began /\ f.took = deskTime - pass[r].began
    BY FeaturesDated
  <2>5. f.quoted \in Nat /\ f.took \in Nat /\ deskTime = f.quoted + f.took
    BY <1>t, <2>2, <2>4
  <2>6. Entry([stored |-> deskTime, features |-> f])
    BY <1>t, <2>5 DEF Entry
  <2>7. Says(r, f).step = "said" /\ Says(r, f).looked = deskTime /\ Says(r, f).features = f
    BY DEF Says
  <2>8. Pass(Says(r, f))
    BY <1>t, <2>5, <2>7 DEF Pass
  <2> QED
    BY <2>1, <2>3, <2>6, <2>8, TurnKeepsRecent
<1>6. ASSUME NEW r \in Reader, Breaks(r) \/ Done(r) PROVE Recently'
  <2>1. Turns(r, NoPass) /\ UNCHANGED <<deskTime, cache>>
    BY <1>6 DEF Breaks, Done
  <2>2. ASSUME NEW m \in Market PROVE cache[m] = NoEntry \/ Entry(cache[m])
    BY DEF Recently
  <2> QED
    BY <1>n, <2>1, <2>2, TurnKeepsRecent
<1>7. CASE UNCHANGED desk
  <2>1. UNCHANGED <<deskTime, cache, pass>>
    BY <1>7 DEF desk
  <2> QED
    BY <2>1 DEF Recently, Entry, Pass
<1> QED
  BY <1>1, <1>2, <1>3, <1>4, <1>5, <1>6, <1>7 DEF DeskNext

\* FeatureEngine's cache, whoever fills it and however often it answers: what a strategy
\* is told is no older than the time-to-live and the time that computing it took.
THEOREM FeaturesRecent == DeskSpec => []FeaturesAreRecent
<1>1. DeskInit => Recently
  BY DeskBegins
<1>2. Recently /\ [DeskNext]_desk => Recently'
  BY DeskGoesOn
<1>3. Recently => FeaturesAreRecent
  <2> SUFFICES ASSUME Recently, NEW r \in Reader, pass[r] # NoPass, pass[r].step = "said"
               PROVE  pass[r].looked - pass[r].features.quoted <= Ttl + pass[r].features.took
    BY DEF FeaturesAreRecent
  <2>1. Pass(pass[r])
    BY DEF Recently
  <2> QED
    BY <2>1, DeskAssumption DEF Pass
<1> QED
  BY <1>1, <1>2, <1>3, PTL DEF DeskSpec
-----------------------------------------------------------------------------
(***************************************************************************)
(* The strategies.                                                         *)
(***************************************************************************)

\* What a quote of a market says: what the strategies compute from.
Quote(q) ==
  /\ q.yes \in Nat /\ q.no \in Nat
  /\ q.spread \in Int /\ q.liquidity \in Nat /\ q.volume \in Nat
  /\ q.days \subseteq Int

LEMMA ClampBetween ==
  ASSUME NEW x \in Int, NEW low \in Int, NEW high \in Int, low <= high
  PROVE  Clamp(x, low, high) \in Int /\ low <= Clamp(x, low, high) /\ Clamp(x, low, high) <= high
         /\ (x <= high => x <= Clamp(x, low, high))
BY DEF Clamp, Greater, Lesser

LEMMA SurgeIsNat == ASSUME NEW q, Quote(q) PROVE Surge(q) \in Int
<1>1. q.volume \in Nat /\ q.liquidity \in Nat
  BY DEF Quote
<1>2. CASE q.liquidity <= 0
  BY <1>2 DEF Surge
<1>3. CASE q.liquidity > 0
  <2> DEFINE v == 10000 * q.volume
  <2>1. v \in Int
    BY <1>1
  <2> HIDE DEF v
  <2>2. v \div q.liquidity \in Int
    BY <1>1, <1>3, <2>1
  <2> QED
    BY <1>1, <1>3, <2>2 DEF Surge, v
<1> QED
  BY <1>1, <1>2, <1>3

LEMMA ScoreIsNat == ASSUME NEW q, Quote(q) PROVE MomentumScore(q) \in Nat
<1> DEFINE a == IF q.volume >= 5000 THEN 3000 ELSE IF q.volume >= 1000 THEN 1500 ELSE 0
           b == Lesser(2 * Surge(q), 3000)
           c == IF Distance(q.yes, 5000) >= 1500 THEN 2500
                ELSE IF Distance(q.yes, 5000) >= 500 THEN 1000 ELSE 0
           d == IF 0 < q.spread /\ q.spread <= 150 THEN 1500 ELSE IF q.spread <= 400 THEN 500 ELSE 0
           e == IF q.days = {} THEN 0 ELSE TimeQuality(CHOOSE t \in q.days : TRUE)
<1>1. a \in Int /\ c \in Int /\ d \in Int
  OBVIOUS
<1>2. b \in Int
  BY SurgeIsNat DEF Lesser
<1>3. e \in Int
  <2>1. ASSUME NEW t \in Int PROVE TimeQuality(t) \in Int
    BY DEF TimeQuality
  <2>2. q.days # {} => (CHOOSE t \in q.days : TRUE) \in q.days
    OBVIOUS
  <2> QED
    BY <2>1, <2>2 DEF Quote
<1>4. MomentumScore(q) = Clamp(a + b + c + d + e, 0, 10000)
  BY DEF MomentumScore
<1> HIDE DEF a, b, c, d, e
<1>5. a + b + c + d + e \in Int
  BY <1>1, <1>2, <1>3
<1> QED
  BY <1>4, <1>5, ClampBetween

\* The probability that the momentum strategy gives a falling price is that of "no" when
\* it is made and that of "yes" when its edge is taken.  So for the two prices of a
\* snapshot, which nothing makes add up, it says "no" only where "no" is cheaper than a
\* "yes" that is below 45 cents already, or all but worthless: two prices that leave a
\* tenth of a dollar unexplained at least.
THEOREM MomentumSaysNoBelowYes ==
  ASSUME NEW q, NEW was, Quote(q), Quote(was), NEW s \in MomentumSignal(q, was), s.side = "no"
  PROVE  /\ q.yes < 4500
         /\ q.no + MinEdge <= q.yes \/ q.no + MinEdge <= 300
         /\ q.yes + q.no < 9000
<1> DEFINE score == MomentumScore(was)
           model == MomentumModel(q.yes, score)
           gain == score \div 10
<1>1. s = Signal(MomentumSide(q.yes), Lesser(9500, 5000 + score \div 2), MomentumEdge(q, score))
      /\ s.edge >= MinEdge
  BY DEF MomentumSignal
<1>2. s.side = MomentumSide(q.yes) /\ s.edge = MomentumEdge(q, score)
  BY <1>1 DEF Signal
<1>3. q.yes \in Nat /\ q.no \in Nat /\ MinEdge \in Nat
  BY MarketAssumption DEF Quote
<1>4. q.yes < 4500
  BY <1>2, <1>3 DEF MomentumSide
<1>5. s.edge = 10000 - model - q.no
  BY <1>2, <1>4 DEF MomentumEdge, MomentumSide
<1>6. gain \in Nat
  <2>1. score \in Nat
    BY ScoreIsNat
  <2> HIDE DEF score
  <2> QED
    BY <2>1
<1>7. model = Clamp(10000 - q.yes + gain, 300, 9700)
  BY <1>3, <1>4 DEF MomentumModel
<1> HIDE DEF model, gain
<1>8. model \in Int /\ (model >= 10000 - q.yes \/ model = 9700)
  BY <1>3, <1>4, <1>6, <1>7 DEF Clamp, Greater, Lesser
<1>9. q.no + MinEdge <= q.yes \/ q.no + MinEdge <= 300
  BY <1>1, <1>3, <1>5, <1>8
<1> QED
  BY <1>3, <1>4, <1>9

-----------------------------------------------------------------------------
LEMMA DirectedSignals ==
  ASSUME NEW difference, NEW confidence, NEW s \in Directed(difference, confidence)
  PROVE  /\ s.side \in Side /\ s.confidence = confidence
         /\ s.edge = Toward(s.side, difference) /\ s.edge > MinEdge
<1>1. PICK t \in {u \in Side : Toward(u, difference) > MinEdge} :
        s = Signal(t, confidence, Toward(t, difference))
  BY DEF Directed
<1> QED
  BY <1>1 DEF Signal

LEMMA ModelSignals ==
  ASSUME NEW q, NEW estimates, NEW s \in LLMSignal(q, estimates)
  PROVE  /\ Tradable(q) /\ s.side \in Side
         /\ \E e \in estimates : /\ s.confidence = e.confidence
                                 /\ s.edge = Toward(s.side, e.prob - q.yes)
         /\ s.confidence >= MinConfidence /\ s.edge > MinEdge
<1>1. PICK e \in {f \in estimates : f.confidence >= MinConfidence /\ Tradable(q)} :
        s \in Directed(e.prob - q.yes, e.confidence)
  BY DEF LLMSignal
<1> QED
  BY <1>1, DirectedSignals

\* Whatever the articles and the whales add to a model's estimate, a signal of the three
\* strategies that ask it is for a tradable market, confident enough and worth more than
\* the least edge.
THEOREM SignalsMeetThresholds ==
  ASSUME NEW q, NEW estimates, NEW sentiments, NEW votes,
         NEW s \in LLMSignal(q, estimates) \cup NewsSignal(q, estimates, sentiments)
                    \cup SmartMoneySignal(q, estimates, votes)
  PROVE  Tradable(q) /\ s.side \in Side /\ s.confidence >= MinConfidence /\ s.edge > MinEdge
<1>1. CASE s \in LLMSignal(q, estimates)
  BY <1>1, ModelSignals
<1>2. CASE s \in NewsSignal(q, estimates, sentiments)
  BY <1>2, ModelSignals DEF NewsSignal
<1>3. CASE s \in SmartMoneySignal(q, estimates, votes)
  BY <1>3, ModelSignals DEF SmartMoneySignal
<1> QED
  BY <1>1, <1>2, <1>3

\* The smart-money boost raises the confidence of a signal that the model alone would
\* have given: never its side or its edge.
THEOREM VotesOnlyConfirm ==
  ASSUME NEW q, NEW estimates, NEW votes, NEW s \in SmartMoneySignal(q, estimates, votes)
  PROVE  \E t \in LLMSignal(q, estimates) : t.side = s.side /\ t.edge = s.edge
<1> DEFINE E == {f \in estimates :
                   /\ f.confidence >= MinConfidence
                   /\ votes.yes + votes.no > 0
                   /\ Pointing(f, q) = IF votes.yes > votes.no THEN "yes" ELSE "no"}
<1>1. s \in LLMSignal(q, {Boosted(e, votes) : e \in E})
  BY DEF SmartMoneySignal
<1>2. PICK b \in {f \in {Boosted(e, votes) : e \in E} : f.confidence >= MinConfidence /\ Tradable(q)} :
        s \in Directed(b.prob - q.yes, b.confidence)
  BY <1>1 DEF LLMSignal
<1>3. PICK e \in E : b = Boosted(e, votes)
  BY <1>2
<1>4. b.prob = e.prob /\ e \in estimates /\ e.confidence >= MinConfidence /\ Tradable(q)
  BY <1>2, <1>3 DEF Boosted
<1>5. s.side \in Side /\ s.edge = Toward(s.side, e.prob - q.yes) /\ s.edge > MinEdge
  BY <1>2, <1>4, DirectedSignals
<1> DEFINE t == Signal(s.side, e.confidence, Toward(s.side, e.prob - q.yes))
<1>6. t \in Directed(e.prob - q.yes, e.confidence)
  BY <1>5 DEF Directed
<1>7. t \in LLMSignal(q, estimates)
  BY <1>4, <1>6 DEF LLMSignal
<1>8. t.side = s.side /\ t.edge = s.edge
  BY <1>5 DEF Signal
<1> QED
  BY <1>7, <1>8

-----------------------------------------------------------------------------
(***************************************************************************)
(* Monitoring.                                                             *)
(***************************************************************************)

\* Further than three deviations from their mean takes eleven numbers.
LEMMA DeviatesAmongMany ==
  ASSUME NEW D, IsFiniteSet(D), \A d \in D : sums[d] \in Int, NEW a \in D, Deviates(sums[a], D)
  PROVE  Cardinality(D) >= 11
<1> DEFINE n == Cardinality(D)
           x == sums[a]
           squares == [d \in D |-> sums[d] * sums[d]]
           s == Sum(sums, D \ {a})
           q == Sum(squares, D \ {a})
<1>1. n \in Nat /\ n >= 2
  BY FS_CardinalityType DEF Deviates
<1>2. IsFiniteSet(D \ {a}) /\ Cardinality(D \ {a}) = n - 1
  BY FS_RemoveElement
<1>3. \A d \in D : squares[d] \in Nat
  BY SquareNat
<1>4. SumOver(D) = x + s /\ s \in Int /\ x \in Int
  <2>1. SumOver(D) = Sum(sums, D)
    BY DEF SumOver, Sum
  <2> QED
    BY <1>2, <2>1, SumRemove, SumType
<1>5. SquaresOver(D) = x * x + q /\ q \in Nat
  <2> DEFINE Table(h) == h = [t \in SUBSET D |-> IF t = {} THEN 0 ELSE
               sums[CHOOSE z \in t : TRUE] * sums[CHOOSE z \in t : TRUE] + h[t \ {CHOOSE z \in t : TRUE}]]
  <2>1. SquaresOver(D) = (CHOOSE h : Table(h))[D]
    BY DEF SquaresOver, MapThenSumSet, MapThenFoldSet
  <2>2. PICK g : SumTable(squares, D, g)
    BY SumTableExists
  <2>3. \A h : Table(h) <=> SumTable(squares, D, h)
    BY DEF SumTable, Pick
  <2> HIDE DEF Table
  <2>4. SumTable(squares, D, CHOOSE h : Table(h))
    BY <2>2, <2>3
  <2>5. SquaresOver(D) = Sum(squares, D)
    BY <2>1, <2>4, SumFrom
  <2>6. Sum(squares, D) = squares[a] + q
    BY <1>3, SumRemove
  <2>7. q \in Nat
    BY <1>2, <1>3, SumNat
  <2> QED
    BY <2>5, <2>6, <2>7
<1>6. s * s <= (n - 1) * q
  BY <1>2, Cauchy
<1>7. n * (x * x + q) > (x + s) * (x + s)
      /\ (n * x - (x + s)) * (n * x - (x + s)) * (n - 1)
           > 9 * n * (n * (x * x + q) - (x + s) * (x + s))
  BY <1>4, <1>5 DEF Deviates
<1> HIDE DEF n, x, s, q
<1>8. x * x + q = q + x * x /\ x + s = s + x
  BY <1>4, <1>5
<1>9. n * (q + x * x) > (s + x) * (s + x)
      /\ (n * x - (s + x)) * (n * x - (s + x)) * (n - 1)
           > 9 * n * (n * (q + x * x) - (s + x) * (s + x))
  BY <1>7, <1>8
<1>10. n >= 1
  BY <1>1
<1>11. n >= 11
  BY <1>1, <1>4, <1>5, <1>6, <1>9, <1>10, Outlier
<1> QED
  BY <1>11 DEF n

\* Each channel has answered for at most what was audited, and not yet for the alert that
\* is being sent.
Observed ==
  /\ today \in 0 .. MaxDay
  /\ sums \in [0 .. MaxDay -> Nat]
  /\ audits \in Nat
  /\ outcomes \in [Channel -> [taken : Nat, failed : Nat]]
  /\ \A c \in Channel : outcomes[c].taken + outcomes[c].failed <= audits
  /\ stage = "alert" => \A c \in Channel : outcomes[c].taken + outcomes[c].failed < audits

LEMMA SpikeAmongMany == ASSUME Observed, Spike PROVE Cardinality(DaysWithOrders) >= 11
<1>1. today \in Nat /\ DaysWithOrders \in SUBSET (0 .. today) /\ DaysWithOrders # {}
  BY MonitoringAssumption DEF Observed, Spike, DaysWithOrders
<1>2. \E d \in DaysWithOrders : \A e \in DaysWithOrders : e <= d
  BY <1>1, GreatestBelow
<1>3. LastDay \in DaysWithOrders
  BY <1>2 DEF LastDay
<1>4. IsFiniteSet(DaysWithOrders)
  <2>1. IsFiniteSet(0 .. today)
    BY <1>1, FS_Interval
  <2> QED
    BY <1>1, <2>1, FS_Subset
<1>5. \A d \in DaysWithOrders : sums[d] \in Int
  BY <1>1, MonitoringAssumption DEF Observed
<1> QED
  BY <1>3, <1>4, <1>5, DeviatesAmongMany DEF Spike

LEMMA MonitoringBegins == MonitoringInit => Observed /\ AlertsAreAudited
<1> SUFFICES ASSUME MonitoringInit PROVE Observed /\ AlertsAreAudited
  OBVIOUS
<1>1. today \in 0 .. MaxDay
  BY MonitoringAssumption DEF MonitoringInit
<1>2. sums \in [0 .. MaxDay -> Nat]
  BY MonitoringAssumption DEF MonitoringInit
<1>3. outcomes \in [Channel -> [taken : Nat, failed : Nat]]
  BY DEF MonitoringInit
<1> QED
  BY <1>1, <1>2, <1>3 DEF MonitoringInit, Observed, AlertsAreAudited

LEMMA MonitoringGoesOn ==
  ASSUME Observed, AlertsAreAudited, [MonitoringNext]_monitoring
  PROVE  Observed' /\ AlertsAreAudited'
<1> USE DEF Observed, AlertsAreAudited
<1>1. CASE NextDay
  <2>1. today' \in 0 .. MaxDay
    BY <1>1, MonitoringAssumption DEF NextDay
  <2> QED
    BY <1>1, <2>1 DEF NextDay
<1>2. CASE DetectSpike
  <2>1. Cardinality(DaysWithOrders) >= 11
    BY <1>2, SpikeAmongMany DEF DetectSpike
  <2>2. audits' = audits + 1 /\ stage' = "alert" /\ UNCHANGED <<today, sums, rows, outcomes>>
    BY <1>2 DEF DetectSpike
  <2>3. alarms' = {[detector |-> "pnl_spike", market |-> {}, days |-> Cardinality(DaysWithOrders)]}
    BY <1>2 DEF DetectSpike
  <2>4. \A c \in Channel : outcomes[c].taken \in Nat /\ outcomes[c].failed \in Nat
    OBVIOUS
  <2>5. \A c \in Channel : outcomes'[c].taken + outcomes'[c].failed < audits'
    BY <2>2, <2>4
  <2>6. \A a \in alarms' : a.detector = "pnl_spike" => a.days >= 11
    BY <2>1, <2>3
  <2> QED
    BY <2>2, <2>4, <2>5, <2>6
<1>3. CASE DetectNothing
  BY <1>3 DEF DetectNothing
<1>4. CASE SendCritical
  <2>1. PICK reached \in SUBSET configured :
          outcomes' = [c \in Channel |->
            IF c \in reached THEN [outcomes[c] EXCEPT !.taken = @ + 1]
            ELSE [outcomes[c] EXCEPT !.failed = @ + 1]]
    BY <1>4 DEF SendCritical
  <2>2. stage = "alert" /\ stage' = "markets" /\ UNCHANGED <<today, sums, rows, alarms, audits>>
    BY <1>4 DEF SendCritical
  <2>3. ASSUME NEW c \in Channel
        PROVE  /\ outcomes'[c] \in [taken : Nat, failed : Nat]
               /\ outcomes'[c].taken + outcomes'[c].failed = outcomes[c].taken + outcomes[c].failed + 1
    <3>1. outcomes[c].taken \in Nat /\ outcomes[c].failed \in Nat
          /\ outcomes[c] = [taken |-> outcomes[c].taken, failed |-> outcomes[c].failed]
      OBVIOUS
    <3>2. CASE c \in reached
      <4>1. outcomes'[c] = [taken |-> outcomes[c].taken + 1, failed |-> outcomes[c].failed]
        BY <2>1, <3>1, <3>2
      <4> QED
        BY <3>1, <4>1
    <3>3. CASE c \notin reached
      <4>1. outcomes'[c] = [taken |-> outcomes[c].taken, failed |-> outcomes[c].failed + 1]
        BY <2>1, <3>1, <3>3
      <4> QED
        BY <3>1, <4>1
    <3> QED
      BY <3>2, <3>3
  <2>4. outcomes' \in [Channel -> [taken : Nat, failed : Nat]]
    BY <2>1, <2>3
  <2>5. \A c \in Channel : outcomes'[c].taken + outcomes'[c].failed <= audits'
    BY <2>2, <2>3
  <2> QED
    BY <2>2, <2>4, <2>5
<1>5. CASE DetectInMarkets
  <2>1. \A a \in MarketAlarms : a.detector # "pnl_spike"
    BY DEF MarketAlarms, MarketAlarm, DetectorOf
  <2> QED
    BY <1>5, <2>1 DEF DetectInMarkets
<1>6. CASE RunBreaks
  BY <1>6 DEF RunBreaks
<1>7. ASSUME NEW s \in Sums, Ordered(s) PROVE Observed' /\ AlertsAreAudited'
  <2>1. sums' \in [0 .. MaxDay -> Nat]
    BY <1>7, MonitoringAssumption DEF Ordered
  <2> QED
    BY <1>7, <2>1 DEF Ordered
<1>8. ASSUME NEW m \in Market, NEW reading \in Readings, UpsertMarket(m, reading)
      PROVE  Observed' /\ AlertsAreAudited'
  BY <1>8 DEF UpsertMarket
<1>9. CASE \E d, a, c, k \in BOOLEAN : HealthCheck(d, a, c, k)
  BY <1>9 DEF HealthCheck
<1>10. CASE UNCHANGED monitoring
  BY <1>10 DEF monitoring
<1> QED
  BY <1>1, <1>2, <1>3, <1>4, <1>5, <1>6, <1>7, <1>8, <1>9, <1>10 DEF MonitoringNext

\* AnomalyDetector.run_all, whatever is ordered, and however runs break off: a spike is
\* one among eleven days or more, by Samuelson's inequality, and no channel has answered
\* for an alert that was not written to the audit log.
THEOREM AlertsAlwaysAudited == MonitoringSpec => []AlertsAreAudited
<1>1. MonitoringInit => Observed /\ AlertsAreAudited
  BY MonitoringBegins
<1>2. Observed /\ AlertsAreAudited /\ [MonitoringNext]_monitoring => Observed' /\ AlertsAreAudited'
  BY MonitoringGoesOn
<1> QED
  BY <1>1, <1>2, PTL DEF MonitoringSpec

-----------------------------------------------------------------------------
(***************************************************************************)
(* The review desk.  A market that is not excused has one proposal, active *)
(* or on its way to the table: what a session may not see of the others is *)
(* exactly what excuses a market.                                          *)
(***************************************************************************)

\* What the handlers use of a list.
Listing(s) == Len(s) \in Nat /\ s = [i \in 1 .. Len(s) |-> s[i]]

Clerk(r) ==
  /\ DOMAIN r = {"step", "left", "added"}
  /\ Listing(r.added) /\ Len(r.added) <= Limit
  /\ r.step = "persist" => Listing(r.left) /\ Len(r.left) + Len(r.added) <= Limit
  /\ r.step # "persist" => r.added = <<>>

Clerks == request = [c \in Client |-> request[c]] /\ \A c \in Client : Clerk(request[c])

Rows ==
  /\ Listing(proposals)
  /\ \A i \in DOMAIN proposals :
       DOMAIN proposals[i] = {"market", "status"}

\* One proposal at most of a market, active or on its way.
Alone(m) ==
  /\ \A i, j \in ActiveIn(proposals, m) : i = j
  /\ \A u, v \in Underway(m, request) : u = v
  /\ ActiveIn(proposals, m) = {} \/ Underway(m, request) = {}

Unexcused == \A m \in Market \ excused : Alone(m)

LEMMA ListingTyped ==
  ASSUME NEW s, Listing(s)
  PROVE  \E T : s \in Seq(T) /\ \A i \in 1 .. Len(s) : s[i] \in T
<1> DEFINE T == {s[i] : i \in 1 .. Len(s)}
<1>1. [i \in 1 .. Len(s) |-> s[i]] \in [1 .. Len(s) -> T]
  OBVIOUS
<1>2. s \in [1 .. Len(s) -> T]
  BY <1>1 DEF Listing
<1>3. s \in Seq(T)
  BY <1>2 DEF Listing
<1> QED
  BY <1>2, <1>3

LEMMA TypedListing ==
  ASSUME NEW T, NEW s \in Seq(T)
  PROVE  Listing(s)
BY DEF Listing

LEMMA ListingAppended ==
  ASSUME NEW s, Listing(s), NEW e
  PROVE  /\ Listing(Append(s, e)) /\ Len(Append(s, e)) = Len(s) + 1
         /\ \A i \in 1 .. Len(s) : Append(s, e)[i] = s[i]
         /\ Append(s, e)[Len(s) + 1] = e
<1>1. PICK T : s \in Seq(T)
  BY ListingTyped
<1> DEFINE U == T \cup {e}
<1>2. s \in Seq(U) /\ e \in U
  BY <1>1
<1> HIDE DEF U
<1>3. Append(s, e) \in Seq(U)
  BY <1>2
<1>4. Listing(Append(s, e))
  BY <1>3, TypedListing
<1>5. /\ Len(Append(s, e)) = Len(s) + 1
      /\ \A i \in 1 .. Len(s) : Append(s, e)[i] = s[i]
      /\ Append(s, e)[Len(s) + 1] = e
  BY <1>2
<1> QED
  BY <1>4, <1>5

LEMMA ListingTail ==
  ASSUME NEW s, Listing(s), s # <<>>
  PROVE  Listing(Tail(s)) /\ Len(Tail(s)) = Len(s) - 1
<1>1. PICK T : s \in Seq(T)
  BY ListingTyped
<1>2. Tail(s) \in Seq(T) /\ Len(Tail(s)) = Len(s) - 1
  BY <1>1
<1> QED
  BY <1>2, TypedListing

LEMMA ListingJoined ==
  ASSUME NEW s, Listing(s), NEW t, Listing(t)
  PROVE  /\ Listing(s \o t) /\ Len(s \o t) = Len(s) + Len(t)
         /\ \A i \in 1 .. Len(s) : (s \o t)[i] = s[i]
         /\ \A i \in 1 .. Len(t) : (s \o t)[Len(s) + i] = t[i]
<1>1. PICK T : s \in Seq(T)
  BY ListingTyped
<1>2. PICK U : t \in Seq(U)
  BY ListingTyped
<1> DEFINE V == T \cup U
<1>3. s \in Seq(V) /\ t \in Seq(V)
  BY <1>1, <1>2
<1> HIDE DEF V
<1>4. s \o t \in Seq(V)
  BY <1>3
<1>5. Listing(s \o t)
  BY <1>4, TypedListing
<1>6. /\ Len(s \o t) = Len(s) + Len(t)
      /\ \A i \in 1 .. Len(s) : (s \o t)[i] = s[i]
      /\ \A i \in 1 .. Len(t) : (s \o t)[Len(s) + i] = t[i]
  BY <1>3
<1> QED
  BY <1>5, <1>6

\* Fewer than two.
LEMMA FewAreAlone ==
  ASSUME NEW S, IsFiniteSet(S), ~(Cardinality(S) >= 2), NEW x \in S, NEW y \in S
  PROVE  x = y
<1> SUFFICES ASSUME x # y PROVE FALSE
  OBVIOUS
<1>1. IsFiniteSet({x}) /\ Cardinality({x}) = 1
  BY FS_Singleton
<1>2. Cardinality({x} \cup {y}) = 2
  BY <1>1, FS_AddElement
<1>3. Cardinality({x} \cup {y}) <= Cardinality(S) /\ Cardinality(S) \in Nat
  BY FS_Subset, FS_CardinalityType
<1> QED
  BY <1>2, <1>3

LEMMA AloneIsOne ==
  ASSUME NEW S, \A x, y \in S : x = y
  PROVE  Cardinality(S) <= 1
<1>1. CASE S = {}
  BY <1>1, FS_EmptySet
<1>2. CASE S # {}
  <2>1. PICK x \in S : TRUE
    BY <1>2
  <2>2. S = {x}
    BY <2>1
  <2> QED
    BY <2>2, FS_Singleton
<1> QED
  BY <1>1, <1>2

LEMMA ActiveFinite ==
  ASSUME NEW table, Listing(table), NEW m
  PROVE  IsFiniteSet(ActiveIn(table, m)) /\ ActiveIn(table, m) \in SUBSET (1 .. Len(table))
<1>1. DOMAIN table = 1 .. Len(table) /\ Len(table) \in Nat
  BY DEF Listing
<1>2. IsFiniteSet(1 .. Len(table))
  BY <1>1, FS_Interval
<1>3. ActiveIn(table, m) \in SUBSET (1 .. Len(table))
  BY <1>1 DEF ActiveIn
<1> QED
  BY <1>2, <1>3, FS_Subset

LEMMA UnderwayFinite ==
  ASSUME NEW m, NEW requests
  PROVE  IsFiniteSet(Underway(m, requests))
<1>1. IsFiniteSet(Client \X (1 .. Limit))
  <2>1. IsFiniteSet(1 .. Limit)
    BY ReviewAssumption, FS_Interval
  <2> QED
    BY <2>1, ReviewAssumption, FS_Product
<1>2. Underway(m, requests) \in SUBSET (Client \X (1 .. Limit))
  BY DEF Underway
<1> QED
  BY <1>1, <1>2, FS_Subset

\* Whoever is no longer excused is alone; the others are as they were.
LEMMA ExcusedOrAlone ==
  ASSUME Excuse, Unexcused, Rows',
         \A m \in Market : Alone(m) /\ ~(Cardinality(Underway(m, request)') >= 2) => Alone(m)'
  PROVE  Unexcused'
<1> SUFFICES ASSUME NEW m \in Market, m \notin excused' PROVE Alone(m)'
  BY DEF Unexcused
<1>1. ~(Cardinality(Underway(m, request)') >= 2)
      /\ (m \in excused => Underway(m, request)' = {} /\ ~(Cardinality(ActiveIn(proposals, m)') >= 2))
  BY DEF Excuse, Underway, ActiveIn
<1>2. CASE m \notin excused
  BY <1>1, <1>2 DEF Unexcused
<1>3. CASE m \in excused
  <2>1. IsFiniteSet(ActiveIn(proposals, m)')
    BY ActiveFinite DEF Rows, ActiveIn
  <2> QED
    BY <1>1, <1>3, <2>1, FewAreAlone DEF Alone
<1> QED
  BY <1>2, <1>3

LEMMA ReviewBegins == ReviewInit => Clerks /\ Rows /\ Unexcused
<1> SUFFICES ASSUME ReviewInit PROVE Clerks /\ Rows /\ Unexcused
  OBVIOUS
<1>1. Listing(<<>>)
  BY DEF Listing
<1>2. Clerk(Idle)
  BY <1>1, ReviewAssumption DEF Clerk, Idle
<1>3. Clerks /\ Rows
  BY <1>1, <1>2 DEF ReviewInit, Clerks, Rows
<1>4. ASSUME NEW m PROVE ActiveIn(proposals, m) = {} /\ Underway(m, request) = {}
  <2>1. ActiveIn(proposals, m) = {}
    BY DEF ReviewInit, ActiveIn
  <2>2. \A c \in Client : DOMAIN request[c].added = {}
    BY DEF ReviewInit, Idle
  <2> QED
    BY <2>1, <2>2 DEF Underway
<1> QED
  BY <1>3, <1>4 DEF Unexcused, Alone

\* A request whose batch is drawn up, that looks for one market or gives up.
LEMMA TurnKeepsClerks ==
  ASSUME Clerks, NEW c \in Client, NEW r, Turn(c, r), Clerk(r)
  PROVE  /\ Clerks' /\ request'[c] = r
         /\ \A o \in Client : o # c => request'[o] = request[o]
<1>1. request' = [request EXCEPT ![c] = r]
  BY DEF Turn
<1>2. request'[c] = r /\ (\A o \in Client : o # c => request'[o] = request[o])
      /\ request' = [o \in Client |-> request'[o]]
  BY <1>1 DEF Clerks
<1>3. \A o \in Client : Clerk(request[o])'
  <2> SUFFICES ASSUME NEW o \in Client PROVE Clerk(request'[o])
    BY DEF Clerk
  <2> QED
    BY <1>2 DEF Clerks
<1> QED
  BY <1>2, <1>3 DEF Clerks

\* What a batch is cut from.
LEMMA BatchCut ==
  ASSUME NEW d \in DOMAIN Days
  PROVE  LET best == Ranked(Days[d])
             batch == SubSeq(best, 1, Lesser(Limit, Len(best)))
             chosen == [k \in DOMAIN batch |-> batch[k].market]
         IN  Listing(chosen) /\ Len(chosen) <= Limit
<1> DEFINE best == Ranked(Days[d])
           n == Lesser(Limit, Len(best))
           batch == SubSeq(best, 1, n)
           chosen == [k \in DOMAIN batch |-> batch[k].market]
<1>1. Len(Days[d]) \in Nat /\ DOMAIN Days[d] = 1 .. Len(Days[d]) /\ Limit \in Nat
  BY ReviewAssumption
<1>2. best = [k \in 1 .. Len(Days[d]) |-> best[k]]
  BY <1>1 DEF Ranked
<1> HIDE DEF best
<1> DEFINE T == {best[k] : k \in 1 .. Len(Days[d])}
<1>3. best \in Seq(T) /\ Len(best) = Len(Days[d])
  <2>1. [k \in 1 .. Len(Days[d]) |-> best[k]] \in [1 .. Len(Days[d]) -> T]
    OBVIOUS
  <2>2. best \in [1 .. Len(Days[d]) -> T]
    BY <1>2, <2>1
  <2> HIDE DEF T
  <2> QED
    BY <1>1, <2>2
<1>4. n \in 0 .. Len(best) /\ n <= Limit
  BY <1>1, <1>3 DEF Lesser
<1> HIDE DEF n, T
<1>5. batch \in Seq(T) /\ Len(batch) = n
  BY <1>3, <1>4
<1>6. DOMAIN batch = 1 .. n /\ n \in Nat
  BY <1>4, <1>5
<1> HIDE DEF batch
<1>7. chosen = [k \in 1 .. n |-> batch[k].market]
  BY <1>6
<1>8. Len(chosen) = n
  BY <1>6, <1>7
<1>9. Listing(chosen) /\ Len(chosen) <= Limit
  BY <1>4, <1>6, <1>7, <1>8 DEF Listing
<1> QED
  BY <1>9 DEF batch, n, best

\* Who is alone stays alone when nothing is added.
LEMMA LessIsAlone ==
  ASSUME NEW m, Alone(m), ActiveIn(proposals, m)' \in SUBSET ActiveIn(proposals, m),
         Underway(m, request)' \in SUBSET Underway(m, request)
  PROVE  Alone(m)'
BY DEF Alone

\* A request that adds nothing has no more on its way.
LEMMA NothingAdded ==
  ASSUME NEW m, NEW c \in Client,
         \A o \in Client : o # c => request'[o] = request[o],
         request'[c].added = request[c].added \/ request'[c].added = <<>>
  PROVE  Underway(m, request)' \in SUBSET Underway(m, request)
<1> SUFFICES ASSUME NEW u \in Underway(m, request)' PROVE u \in Underway(m, request)
  OBVIOUS
<1>1. u \in Client \X (1 .. Limit) /\ u[2] \in DOMAIN request'[u[1]].added
      /\ request'[u[1]].added[u[2]] = m /\ u[1] \in Client
  BY DEF Underway
<1>2. request'[u[1]].added = request[u[1]].added
  BY <1>1
<1> QED
  BY <1>1, <1>2 DEF Underway

LEMMA SameRows ==
  ASSUME UNCHANGED proposals, Rows
  PROVE  Rows' /\ \A m : ActiveIn(proposals, m)' = ActiveIn(proposals, m)
BY DEF Rows, Listing, ActiveIn

LEMMA TakesOne ==
  ASSUME NEW q, DOMAIN q = {"step", "left", "added"}, NEW free \in BOOLEAN, NEW b
  PROVE  LET r == [q EXCEPT !.left = Tail(@), !.added = IF free THEN Append(@, b) ELSE @]
         IN  /\ r.step = q.step /\ r.left = Tail(q.left)
             /\ r.added = IF free THEN Append(q.added, b) ELSE q.added
             /\ DOMAIN r = {"step", "left", "added"}
OBVIOUS

LEMMA PersistNextKeeps ==
  ASSUME Clerks, Rows, Unexcused, NEW c \in Client, PersistNext(c)
  PROVE  Clerks' /\ Rows' /\ Unexcused'
<1> DEFINE b == Head(request[c].left)
           free == ActiveIn(proposals, b) = {}
           old == request[c].added
           new == IF free THEN Append(old, b) ELSE old
           r == [request[c] EXCEPT !.left = Tail(@), !.added = IF free THEN Append(@, b) ELSE @]
<1>1. /\ request[c].step = "persist" /\ request[c].left # <<>> /\ Turn(c, r)
      /\ UNCHANGED <<proposals, book, exhibits, decided>> /\ Excuse
  BY DEF PersistNext
<1>2. /\ Clerk(request[c]) /\ Listing(request[c].left) /\ Listing(old)
      /\ Len(request[c].left) + Len(old) <= Limit
      /\ DOMAIN request[c] = {"step", "left", "added"}
  BY <1>1 DEF Clerks, Clerk
<1>3. Listing(Tail(request[c].left)) /\ Len(Tail(request[c].left)) = Len(request[c].left) - 1
  BY <1>1, <1>2, ListingTail
<1>4. /\ Listing(Append(old, b)) /\ Len(Append(old, b)) = Len(old) + 1
      /\ \A i \in 1 .. Len(old) : Append(old, b)[i] = old[i]
      /\ Append(old, b)[Len(old) + 1] = b
  BY <1>2, ListingAppended
<1> HIDE DEF free, b
<1>5. /\ r.step = "persist" /\ r.left = Tail(request[c].left) /\ r.added = new
      /\ DOMAIN r = {"step", "left", "added"}
  <2>1. free \in BOOLEAN
    BY DEF free
  <2> QED
    BY <1>1, <1>2, <2>1, TakesOne
<1>6. Clerk(r) /\ r.added = new
  <2> DEFINE n == Len(request[c].left)
             rest == Len(Tail(request[c].left))
             k == Len(old)
  <2>1. n \in Nat /\ rest \in Nat /\ k \in Nat /\ rest = n - 1 /\ n + k <= Limit
    BY <1>2, <1>3 DEF Listing
  <2>2. Listing(new) /\ (Len(new) = Len(old) \/ Len(new) = Len(old) + 1)
    <3>1. CASE free
      BY <1>4, <3>1
    <3>2. CASE ~free
      BY <1>2, <3>2
    <3> QED
      BY <3>1, <3>2
  <2>3. Len(Tail(request[c].left)) + Len(new) <= Limit /\ Len(new) <= Limit
    <3>1. Len(new) = k \/ Len(new) = k + 1
      BY <2>2
    <3>2. Limit \in Nat
      BY ReviewAssumption
    <3> HIDE DEF n, k, new
    <3>3. rest + Len(new) <= Limit /\ Len(new) <= Limit
      <4> HIDE DEF rest
      <4> QED
        BY <2>1, <3>1, <3>2
    <3> QED
      BY <3>3
  <2> HIDE DEF new, r
  <2> QED
    BY <1>3, <1>5, <2>2, <2>3 DEF Clerk
<1> HIDE DEF r
<1>7. Clerks' /\ request'[c] = r /\ \A o \in Client : o # c => request'[o] = request[o]
  BY <1>1, <1>6, TurnKeepsClerks
<1>8. Rows' /\ \A m : ActiveIn(proposals, m)' = ActiveIn(proposals, m)
  BY <1>1, SameRows
<1>9. ASSUME NEW m \in Market, Alone(m), ~(Cardinality(Underway(m, request)') >= 2)
      PROVE  Alone(m)'
  <2>1. CASE ~free \/ m # b
    <3>1. Underway(m, request)' \in SUBSET Underway(m, request)
      <4> SUFFICES ASSUME NEW u \in Underway(m, request)' PROVE u \in Underway(m, request)
        OBVIOUS
      <4>1. u \in Client \X (1 .. Limit) /\ u[1] \in Client /\ u[2] \in DOMAIN request'[u[1]].added
            /\ request'[u[1]].added[u[2]] = m
        BY DEF Underway
      <4>2. u[2] \in DOMAIN request[u[1]].added /\ request[u[1]].added[u[2]] = m
        <5>1. CASE u[1] # c
          BY <1>7, <4>1, <5>1
        <5>2. CASE u[1] = c
          <6>1. u[2] \in DOMAIN new /\ new[u[2]] = m
            BY <1>6, <1>7, <4>1, <5>2
          <6>2. CASE ~free
            BY <5>2, <6>1, <6>2
          <6>3. CASE free /\ m # b
            <7>1. u[2] \in 1 .. Len(old) + 1 /\ Append(old, b)[u[2]] = m
              BY <1>4, <6>1, <6>3 DEF Listing
            <7>2. u[2] \in 1 .. Len(old)
              BY <1>2, <1>4, <6>3, <7>1 DEF Listing
            <7> QED
              BY <1>2, <1>4, <5>2, <7>1, <7>2 DEF Listing
          <6> QED
            BY <2>1, <6>2, <6>3
        <5> QED
          BY <5>1, <5>2
      <4> QED
        BY <4>1, <4>2 DEF Underway
    <3> QED
      BY <1>8, <1>9, <3>1, LessIsAlone
  <2>2. CASE free /\ m = b
    <3>1. ActiveIn(proposals, m)' = {}
      BY <1>8, <2>2 DEF free
    <3>2. IsFiniteSet(Underway(m, request)')
      BY UnderwayFinite DEF Underway
    <3> QED
      BY <1>9, <3>1, <3>2, FewAreAlone DEF Alone
  <2> QED
    BY <2>1, <2>2
<1> QED
  BY <1>1, <1>7, <1>8, <1>9, ExcusedOrAlone

LEMMA PersistBeginsKeeps ==
  ASSUME Clerks, Rows, Unexcused, NEW c \in Client, PersistBegins(c)
  PROVE  Clerks' /\ Rows' /\ Unexcused'
<1> DEFINE Left(d) ==
             LET best == Ranked(Days[d])
                 batch == SubSeq(best, 1, Lesser(Limit, Len(best)))
             IN  [k \in DOMAIN batch |-> batch[k].market]
<1>1. PICK d \in DOMAIN Days :
        Turn(c, [step |-> "persist", left |-> Left(d), added |-> <<>>])
  BY DEF PersistBegins
<1>2. Listing(Left(d)) /\ Len(Left(d)) <= Limit
  BY BatchCut
<1> DEFINE r == [step |-> "persist", left |-> Left(d), added |-> <<>>]
<1> HIDE DEF Left
<1>3. Clerk(r)
  <2>1. Listing(<<>>) /\ Len(<<>>) = 0
    BY DEF Listing
  <2>2. Len(Left(d)) \in Nat
    BY <1>2 DEF Listing
  <2> QED
    BY <1>2, <2>1, <2>2, ReviewAssumption DEF Clerk
<1>4. r.added = <<>>
  OBVIOUS
<1> HIDE DEF r
<1>5. Clerks' /\ request'[c] = r /\ \A o \in Client : o # c => request'[o] = request[o]
  BY <1>1, <1>3, TurnKeepsClerks DEF r
<1>6. UNCHANGED proposals /\ UNCHANGED excused
  BY DEF PersistBegins
<1>7. Rows' /\ \A m : ActiveIn(proposals, m)' = ActiveIn(proposals, m)
  BY <1>6, SameRows
<1>8. \A m : Underway(m, request)' \in SUBSET Underway(m, request)
  BY <1>4, <1>5, NothingAdded
<1>9. \A m \in Market \ excused : Alone(m)'
  BY <1>7, <1>8, LessIsAlone DEF Unexcused
<1> QED
  BY <1>5, <1>6, <1>7, <1>9 DEF Unexcused

LEMMA IdleClerk == Clerk(Idle) /\ Idle.added = <<>>
<1>1. Listing(<<>>) /\ Len(<<>>) = 0
  BY DEF Listing
<1> QED
  BY <1>1, ReviewAssumption DEF Clerk, Idle

LEMMA NewRows ==
  ASSUME NEW a, Listing(a)
  PROVE  LET new == [k \in DOMAIN a |-> [market |-> a[k], status |-> "new"]]
         IN  /\ Listing(new) /\ Len(new) = Len(a)
             /\ \A k \in 1 .. Len(a) : /\ new[k].market = a[k] /\ new[k].status = "new"
                                       /\ DOMAIN new[k] = {"market", "status"}
<1> DEFINE new == [k \in DOMAIN a |-> [market |-> a[k], status |-> "new"]]
<1>1. Len(a) \in Nat /\ DOMAIN a = 1 .. Len(a)
  BY DEF Listing
<1>2. DOMAIN new = 1 .. Len(a)
  BY <1>1
<1>3. Len(new) = Len(a)
  BY <1>1, <1>2
<1>4. Listing(new)
  BY <1>1, <1>2, <1>3 DEF Listing
<1> QED
  BY <1>1, <1>3, <1>4

LEMMA PersistCommitsKeeps ==
  ASSUME Clerks, Rows, Unexcused, NEW c \in Client, PersistCommits(c)
  PROVE  Clerks' /\ Rows' /\ Unexcused'
<1> DEFINE a == request[c].added
           n == Len(proposals)
           fresh == [k \in DOMAIN a |-> [market |-> a[k], status |-> "new"]]
<1>1. proposals' = proposals \o fresh /\ Turn(c, Idle) /\ Excuse
  BY DEF PersistCommits
<1>2. Listing(a) /\ Len(a) <= Limit /\ Len(a) \in Nat /\ DOMAIN a = 1 .. Len(a)
  BY DEF Clerks, Clerk, Listing
<1>3. /\ Listing(fresh) /\ Len(fresh) = Len(a)
      /\ \A k \in 1 .. Len(a) : /\ fresh[k].market = a[k] /\ fresh[k].status = "new"
                                /\ DOMAIN fresh[k] = {"market", "status"}
  BY <1>2, NewRows
<1>4. Clerks' /\ request'[c] = Idle /\ \A o \in Client : o # c => request'[o] = request[o]
  BY <1>1, IdleClerk, TurnKeepsClerks
<1> HIDE DEF fresh
<1>5. Listing(proposals) /\ n \in Nat /\ DOMAIN proposals = 1 .. n
  BY DEF Rows, Listing
<1>6. /\ Listing(proposals') /\ Len(proposals') = n + Len(a)
      /\ \A i \in 1 .. n : proposals'[i] = proposals[i]
      /\ \A k \in 1 .. Len(a) : proposals'[n + k] = fresh[k]
  <2>1. /\ Listing(proposals \o fresh) /\ Len(proposals \o fresh) = Len(proposals) + Len(fresh)
        /\ \A i \in 1 .. Len(proposals) : (proposals \o fresh)[i] = proposals[i]
        /\ \A i \in 1 .. Len(fresh) : (proposals \o fresh)[Len(proposals) + i] = fresh[i]
    <3>1. Listing(proposals) /\ Listing(fresh)
      BY <1>3, <1>5
    <3> HIDE DEF Listing
    <3> QED
      BY <3>1, ListingJoined
  <2>2. proposals' = proposals \o fresh /\ Len(fresh) = Len(a)
    BY <1>1, <1>3
  <2> QED
    BY <2>1, <2>2
<1>7. DOMAIN proposals' = 1 .. n + Len(a)
  BY <1>6 DEF Listing
<1>8. ASSUME NEW i \in DOMAIN proposals', i \notin DOMAIN proposals
      PROVE  i - n \in 1 .. Len(a) /\ i = n + (i - n)
  BY <1>2, <1>5, <1>7, <1>8
<1>9. Rows'
  <2> SUFFICES ASSUME NEW i \in DOMAIN proposals' PROVE DOMAIN proposals'[i] = {"market", "status"}
    BY <1>6 DEF Rows, Listing
  <2>1. CASE i \in DOMAIN proposals
    BY <1>5, <1>6, <2>1 DEF Rows
  <2>2. CASE i \notin DOMAIN proposals
    <3>1. i - n \in 1 .. Len(a) /\ i = n + (i - n)
      BY <1>8, <2>2
    <3>2. proposals'[n + (i - n)] = fresh[i - n]
      BY <1>6, <3>1
    <3> QED
      BY <1>3, <3>1, <3>2
  <2> QED
    BY <2>1, <2>2
<1> HIDE DEF n, a
<1>10. ASSUME NEW m \in Market, Alone(m) PROVE Alone(m)'
  <2>1. Underway(m, request)' \in SUBSET Underway(m, request)
    BY <1>4, IdleClerk, NothingAdded
  <2>2. ASSUME NEW i \in ActiveIn(proposals, m)'
        PROVE  i \in ActiveIn(proposals, m) \/ (i - n \in 1 .. Len(a) /\ a[i - n] = m /\ i = n + (i - n))
    <3>1. i \in DOMAIN proposals' /\ proposals'[i].market = m
          /\ proposals'[i].status \in ActiveStatuses
      BY DEF ActiveIn
    <3>2. CASE i \in DOMAIN proposals
      BY <1>5, <1>6, <3>1, <3>2 DEF ActiveIn
    <3>3. CASE i \notin DOMAIN proposals
      BY <1>3, <1>6, <1>8, <3>1, <3>3
    <3> QED
      BY <3>2, <3>3
  <2>3. CASE \A k \in 1 .. Len(a) : a[k] # m
    BY <1>10, <2>1, <2>2, <2>3, LessIsAlone
  <2>4. CASE \E k \in 1 .. Len(a) : a[k] = m
    <3>1. PICK k \in 1 .. Len(a) : a[k] = m
      BY <2>4
    <3>2. \A j \in 1 .. Len(a) : a[j] = m => <<c, j>> \in Underway(m, request)
      BY <1>2, ReviewAssumption DEF Underway, a
    <3>3. ActiveIn(proposals, m) = {} /\ \A u \in Underway(m, request) : u = <<c, k>>
      BY <1>10, <3>1, <3>2 DEF Alone
    <3>4. Underway(m, request)' = {}
      <4> SUFFICES ASSUME NEW u \in Underway(m, request)' PROVE FALSE
        OBVIOUS
      <4>1. u = <<c, k>>
        BY <2>1, <3>3
      <4>2. u[2] \in DOMAIN request'[u[1]].added
        BY DEF Underway
      <4>3. DOMAIN Idle.added = {}
        BY DEF Idle
      <4> QED
        BY <1>4, <4>1, <4>2, <4>3
    <3>5. ASSUME NEW i \in ActiveIn(proposals, m)' PROVE i = n + k
      <4>1. i - n \in 1 .. Len(a) /\ a[i - n] = m /\ i = n + (i - n)
        BY <2>2, <3>3
      <4>2. <<c, i - n>> = <<c, k>>
        BY <3>2, <3>3, <4>1
      <4> QED
        BY <4>1, <4>2
    <3> QED
      BY <3>4, <3>5 DEF Alone
  <2> QED
    BY <2>3, <2>4
<1> QED
  BY <1>1, <1>4, <1>9, <1>10, ExcusedOrAlone

LEMMA RequestFailsKeeps ==
  ASSUME Clerks, Rows, Unexcused, NEW c \in Client, RequestFails(c)
  PROVE  Clerks' /\ Rows' /\ Unexcused'
<1>1. UNCHANGED proposals /\ Turn(c, Idle) /\ Excuse
  BY DEF RequestFails
<1>2. Clerks' /\ request'[c] = Idle /\ \A o \in Client : o # c => request'[o] = request[o]
  BY <1>1, IdleClerk, TurnKeepsClerks
<1>3. Rows' /\ \A m : ActiveIn(proposals, m)' = ActiveIn(proposals, m)
  BY <1>1, SameRows
<1>4. \A m : Underway(m, request)' \in SUBSET Underway(m, request)
  BY <1>2, IdleClerk, NothingAdded
<1>5. \A m \in Market : Alone(m) => Alone(m)'
  BY <1>3, <1>4, LessIsAlone
<1> QED
  BY <1>1, <1>2, <1>3, <1>5, ExcusedOrAlone

\* Where the excuses stay as they are, who was alone must be.
LEMMA ExcusesStay ==
  ASSUME Unexcused, UNCHANGED excused, \A m \in Market : Alone(m) => Alone(m)'
  PROVE  Unexcused'
BY DEF Unexcused

LEMMA MaterializeKeeps ==
  ASSUME Clerks, Rows, Unexcused, NEW c \in Client, MaterializeBegins(c) \/ Materialize(c)
  PROVE  Clerks' /\ Rows' /\ Unexcused'
<1>1. UNCHANGED proposals /\ UNCHANGED excused
  BY DEF MaterializeBegins, Materialize
<1>2. \E r : Turn(c, r) /\ Clerk(r) /\ r.added = <<>>
  <2>1. CASE MaterializeBegins(c)
    <3>1. PICK t : Turn(c, [step |-> "materialize", left |-> t, added |-> <<>>])
      BY <2>1 DEF MaterializeBegins
    <3>2. Listing(<<>>) /\ Len(<<>>) = 0
      BY DEF Listing
    <3>3. Clerk([step |-> "materialize", left |-> t, added |-> <<>>])
      BY <3>2, ReviewAssumption DEF Clerk
    <3> QED
      BY <3>1, <3>3
  <2>2. CASE Materialize(c)
    BY <2>2, IdleClerk DEF Materialize
  <2> QED
    BY <2>1, <2>2
<1>3. Clerks' /\ request'[c].added = <<>> /\ \A o \in Client : o # c => request'[o] = request[o]
  BY <1>2, TurnKeepsClerks
<1>4. Rows' /\ \A m : ActiveIn(proposals, m)' = ActiveIn(proposals, m)
  BY <1>1, SameRows
<1>5. \A m : Underway(m, request)' \in SUBSET Underway(m, request)
  BY <1>3, NothingAdded
<1>6. \A m \in Market : Alone(m) => Alone(m)'
  BY <1>4, <1>5, LessIsAlone
<1> QED
  BY <1>1, <1>3, <1>4, <1>6, ExcusesStay

LEMMA SameDesk ==
  ASSUME Clerks, Rows, Unexcused, UNCHANGED <<proposals, request, excused>>
  PROVE  Clerks' /\ Rows' /\ Unexcused'
<1>1. \A m \in Market : Alone(m) => Alone(m)'
  BY DEF Alone, ActiveIn, Underway
<1> QED
  BY <1>1, ExcusesStay DEF Clerks, Clerk, Rows, Listing

LEMMA SetStatusKeeps ==
  ASSUME Clerks, Rows, Unexcused, NEW id, NEW status, SetStatus(id, status)
  PROVE  Clerks' /\ Rows' /\ Unexcused'
<1> DEFINE m0 == proposals[id].market
           again == /\ proposals[id].status \notin ActiveStatuses /\ status \in ActiveStatuses
                    /\ ActiveIn(proposals, m0) # {} \/ Underway(m0, request) # {}
<1>1. /\ id \in DOMAIN proposals /\ UNCHANGED request
      /\ proposals' = [proposals EXCEPT ![id].status = status]
      /\ IF again THEN excused' = excused \cup {m0} ELSE Excuse
  BY DEF SetStatus
<1>2. Clerks'
  BY <1>1 DEF Clerks, Clerk, Listing
<1>3. Listing(proposals) /\ DOMAIN proposals = 1 .. Len(proposals) /\ Len(proposals) \in Nat
      /\ \A i \in DOMAIN proposals : DOMAIN proposals[i] = {"market", "status"}
  BY DEF Rows, Listing
<1>4. /\ DOMAIN proposals' = DOMAIN proposals
      /\ \A i \in DOMAIN proposals : i # id => proposals'[i] = proposals[i]
      /\ proposals'[id] = [proposals[id] EXCEPT !.status = status]
      /\ proposals' = [i \in DOMAIN proposals' |-> proposals'[i]]
  BY <1>1
<1>5. /\ proposals'[id].market = m0 /\ proposals'[id].status = status
      /\ DOMAIN proposals'[id] = {"market", "status"}
  BY <1>1, <1>3, <1>4
<1>6. Rows'
  <2>1. Len(proposals') = Len(proposals)
    BY <1>3, <1>4
  <2>2. Listing(proposals')
    BY <1>3, <1>4, <2>1 DEF Listing
  <2>3. \A i \in DOMAIN proposals' : DOMAIN proposals'[i] = {"market", "status"}
    BY <1>3, <1>4, <1>5
  <2> QED
    BY <2>2, <2>3 DEF Rows, Listing
<1> HIDE DEF m0
<1>7. \A m : Underway(m, request)' = Underway(m, request)
  BY <1>1 DEF Underway
<1>8. ASSUME NEW m, m # m0 PROVE ActiveIn(proposals, m)' = ActiveIn(proposals, m)
  BY <1>1, <1>4, <1>5, <1>8 DEF ActiveIn, m0
<1>9. ASSUME NEW m \in Market, Alone(m), ~again \/ m # m0 PROVE Alone(m)'
  <2>1. CASE m # m0
    BY <1>7, <1>8, <1>9, <2>1, LessIsAlone
  <2>2. CASE m = m0 /\ (status \notin ActiveStatuses \/ proposals[id].status \in ActiveStatuses)
    <3>1. ActiveIn(proposals, m)' \in SUBSET ActiveIn(proposals, m)
      BY <1>1, <1>4, <1>5, <2>2 DEF ActiveIn, m0
    <3> QED
      BY <1>7, <1>9, <3>1, LessIsAlone
  <2>3. CASE /\ m = m0 /\ status \in ActiveStatuses
             /\ proposals[id].status \notin ActiveStatuses
    <3>1. ActiveIn(proposals, m) = {} /\ Underway(m, request) = {}
      BY <1>9, <2>3
    <3>2. ASSUME NEW i \in ActiveIn(proposals, m)' PROVE i = id
      <4> SUFFICES ASSUME i # id PROVE FALSE
        OBVIOUS
      <4>1. i \in DOMAIN proposals /\ proposals[i].market = m
            /\ proposals[i].status \in ActiveStatuses
        BY <1>4 DEF ActiveIn
      <4> QED
        BY <3>1, <4>1 DEF ActiveIn
    <3> QED
      BY <1>7, <3>1, <3>2 DEF Alone
  <2> QED
    BY <2>1, <2>2, <2>3
<1>10. CASE again
  <2> SUFFICES ASSUME NEW m \in Market, m \notin excused' PROVE Alone(m)'
    BY <1>2, <1>6 DEF Unexcused
  <2>1. m \notin excused /\ m # m0
    BY <1>1, <1>10
  <2> QED
    BY <1>9, <2>1 DEF Unexcused
<1>11. CASE ~again
  <2>1. \A m \in Market : Alone(m) => Alone(m)'
    BY <1>9, <1>11
  <2> QED
    BY <1>1, <1>2, <1>6, <1>11, <2>1, ExcusedOrAlone
<1> QED
  BY <1>10, <1>11

LEMMA ReviewGoesOn ==
  ASSUME Clerks, Rows, Unexcused, [ReviewNext]_review
  PROVE  Clerks' /\ Rows' /\ Unexcused'
<1>1. ASSUME NEW c \in Client, PersistBegins(c) PROVE Clerks' /\ Rows' /\ Unexcused'
  BY <1>1, PersistBeginsKeeps
<1>2. ASSUME NEW c \in Client, PersistNext(c) PROVE Clerks' /\ Rows' /\ Unexcused'
  BY <1>2, PersistNextKeeps
<1>3. ASSUME NEW c \in Client, PersistCommits(c) PROVE Clerks' /\ Rows' /\ Unexcused'
  BY <1>3, PersistCommitsKeeps
<1>4. ASSUME NEW c \in Client, RequestFails(c) PROVE Clerks' /\ Rows' /\ Unexcused'
  BY <1>4, RequestFailsKeeps
<1>5. ASSUME NEW c \in Client, MaterializeBegins(c) \/ Materialize(c)
      PROVE  Clerks' /\ Rows' /\ Unexcused'
  BY <1>5, MaterializeKeeps
<1>6. ASSUME NEW d \in DOMAIN Days, ScanCommits(Days[d])
      PROVE  Clerks' /\ Rows' /\ Unexcused'
  BY <1>6, SameDesk DEF ScanCommits
<1>7. ASSUME NEW id, NEW status, SetStatus(id, status) PROVE Clerks' /\ Rows' /\ Unexcused'
  BY <1>7, SetStatusKeeps
<1>8. CASE UNCHANGED review
  BY <1>8, SameDesk DEF review
<1> QED
  BY <1>1, <1>2, <1>3, <1>4, <1>5, <1>6, <1>7, <1>8 DEF ReviewNext

\* A market that nobody has excused has one active proposal at most, whatever the days list,
\* however many requests persist at once and whichever statuses reviewers set: the look
\* before the proposal is added is enough there (workflow.py).
THEOREM OneProposal == ReviewSpec => []OneActiveProposal
<1>1. ReviewInit => Clerks /\ Rows /\ Unexcused
  BY ReviewBegins
<1>2. Clerks /\ Rows /\ Unexcused /\ [ReviewNext]_review => (Clerks /\ Rows /\ Unexcused)'
  BY ReviewGoesOn
<1>3. Clerks /\ Rows /\ Unexcused => OneActiveProposal
  <2> SUFFICES ASSUME Unexcused PROVE OneActiveProposal
    OBVIOUS
  <2>1. ASSUME NEW m \in Market \ excused PROVE Cardinality(ActiveIn(proposals, m)) <= 1
    <3>1. \A i, j \in ActiveIn(proposals, m) : i = j
      BY <2>1 DEF Unexcused, Alone
    <3> QED
      BY <3>1, AloneIsOne
  <2> QED
    BY <2>1 DEF OneActiveProposal
<1> QED
  BY <1>1, <1>2, <1>3, PTL DEF ReviewSpec

-----------------------------------------------------------------------------
(***************************************************************************)
(* The rate limiter.                                                       *)
(***************************************************************************)

Times == 0 .. MaxNow

\* The times since two threads met.
Undisturbed == {n \in 0 .. now : n > now - unshared}

LimiterTypes ==
  /\ now \in 0 .. MaxNow /\ unshared \in 0 .. CallWindow
  /\ stamps \in [Times -> Nat] /\ admitted \in [Times -> Nat]
  /\ kept \in [Thread -> [Times -> Nat]]
  /\ asked \in [Thread -> Times] /\ \A t \in Thread : asked[t] <= now
  /\ step = [t \in Thread |-> step[t]]
  /\ \A n \in Times : n > now => admitted[n] = 0

AtMostOne ==
  unshared > 0 => \A t, u \in Thread : {step[t], step[u]} \subseteq Acquiring => t = u

\* Since then no call let through has lost its timestamp.
Counted ==
  \A n \in Undisturbed :
    /\ admitted[n] <= stamps[n]
    /\ \A t \in Thread : step[t] = "install" => admitted[n] <= kept[t][n]

\* Whoever is about to be let through, and began since then, has still found the place.
PlaceLeft ==
  \A t \in Thread :
    step[t] = "append" /\ asked[t] > now - unshared => Stamped(stamps) < MaxCalls

FewAdmitted == Sum(admitted, Undisturbed) <= MaxCalls

Limited == LimiterTypes /\ AtMostOne /\ Counted /\ PlaceLeft /\ FewAdmitted

LEMMA TimesFinite ==
  ASSUME now \in 0 .. MaxNow
  PROVE  /\ IsFiniteSet(Times) /\ IsFiniteSet(Undisturbed)
         /\ Undisturbed \in SUBSET Times
<1>1. IsFiniteSet(Times)
  BY LimiterAssumption, FS_Interval DEF Times
<1>2. Undisturbed \in SUBSET Times
  BY LimiterAssumption DEF Undisturbed, Times
<1> QED
  BY <1>1, <1>2, FS_Subset

LEMMA StampedIsSum == ASSUME NEW list PROVE Stamped(list) = Sum(list, Times)
BY DEF Stamped, Sum, Times

LEMMA LimiterBegins == LimiterInit => Limited
<1> SUFFICES ASSUME LimiterInit PROVE Limited
  OBVIOUS
<1>1. LimiterTypes
  BY LimiterAssumption DEF LimiterInit, LimiterTypes, NoStamps, Times
<1>2. AtMostOne /\ PlaceLeft
  BY DEF LimiterInit, AtMostOne, PlaceLeft, Acquiring
<1>3. Undisturbed \in SUBSET Times /\ IsFiniteSet(Undisturbed)
  BY <1>1, TimesFinite DEF LimiterTypes
<1>4. Counted
  BY <1>3 DEF LimiterInit, Counted, NoStamps, Times
<1>5. \A n \in Undisturbed : admitted[n] = 0
  BY <1>3 DEF LimiterInit, NoStamps, Times
<1>6. FewAdmitted
  <2>1. Sum(admitted, Undisturbed) = 0
    BY <1>3, <1>5, SumOfZeros
  <2> QED
    BY <2>1, LimiterAssumption DEF FewAdmitted
<1> QED
  BY <1>1, <1>2, <1>4, <1>6 DEF Limited

\* What a step leaves as it was, when two threads do not meet after it.
LEMMA Unmet ==
  ASSUME ~Met
  PROVE  \A t, u \in Thread : {step'[t], step'[u]} \subseteq Acquiring => t = u
BY DEF Met

\* Two threads that meet start the count again, and nothing is claimed of the calls before.
LEMMA MetIsLimited ==
  ASSUME LimiterTypes', unshared' = 0
  PROVE  Limited'
<1>1. Undisturbed' = {}
  BY DEF Undisturbed, LimiterTypes
<1>2. Sum(admitted', {}) = 0
  BY SumOfNone
<1>3. FewAdmitted'
  BY <1>1, <1>2, LimiterAssumption DEF FewAdmitted
<1>4. AtMostOne' /\ Counted'
  BY <1>1 DEF AtMostOne, Counted
<1>5. \A t \in Thread : asked'[t] \in Int /\ ~(asked'[t] > now' - unshared')
  BY LimiterAssumption DEF LimiterTypes, Times
<1>6. PlaceLeft'
  BY <1>5 DEF PlaceLeft
<1> QED
  BY <1>3, <1>4, <1>6 DEF Limited

LEMMA OneTimeMore ==
  \A a, b, m, u, v \in Nat : b = a + 1 /\ a < m /\ v <= u + 1 =>
    \A n \in 0 .. b : n > b - v =>
      n \in 0 .. m /\ ((n \in 0 .. a /\ n > a - u) \/ n = a + 1)
OBVIOUS

LEMMA TickKeepsLimited ==
  ASSUME Limited, Tick
  PROVE  Limited'
<1>1. /\ now \in 0 .. MaxNow /\ now < MaxNow /\ now' = now + 1 /\ MaxNow \in Nat
      /\ CallWindow \in Nat /\ unshared \in 0 .. CallWindow
  BY LimiterAssumption DEF Tick, Limited, LimiterTypes
<1>a. stamps' = stamps /\ step' = step /\ asked' = asked /\ kept' = kept
  BY DEF Tick
<1>b. admitted' = [n \in Times |-> IF n > now + 1 - CallWindow THEN admitted[n] ELSE 0]
  BY DEF Tick, Times
<1>c. unshared' = IF Met THEN 0 ELSE IF unshared < CallWindow THEN unshared + 1 ELSE unshared
  BY DEF Tick
<1>2. unshared' \in 0 .. CallWindow /\ unshared' <= unshared + 1
  BY <1>1, <1>c
<1>3. LimiterTypes'
  <2>1. admitted' \in [Times -> Nat]
    BY <1>b DEF Limited, LimiterTypes
  <2>2. \A n \in Times : n > now' => n > now /\ n \in Int
    BY <1>1 DEF Times
  <2>3. \A n \in Times : n > now' => admitted'[n] = 0
    BY <1>b, <2>2 DEF Limited, LimiterTypes
  <2>4. \A t \in Thread : asked'[t] <= now'
    BY <1>1, <1>a DEF Limited, LimiterTypes, Times
  <2>5. now' \in 0 .. MaxNow
    BY <1>1
  <2> QED
    BY <1>2, <1>a, <2>1, <2>3, <2>4, <2>5 DEF Limited, LimiterTypes
<1>4. CASE Met
  BY <1>3, <1>4, <1>c, MetIsLimited
<1>5. CASE ~Met
  <2>1. AtMostOne'
    BY <1>5, Unmet DEF AtMostOne
  <2>2. ASSUME NEW n \in Undisturbed'
        PROVE  /\ n \in Times /\ admitted'[n] <= admitted[n]
               /\ n \in Undisturbed \/ (n = now + 1 /\ admitted[n] = 0)
    <3>1. n \in 0 .. now' /\ n > now' - unshared'
      BY DEF Undisturbed
    <3>2. n \in Times /\ ((n \in 0 .. now /\ n > now - unshared) \/ n = now + 1)
      <4> DEFINE a == now
                 b == now'
                 u == unshared
                 v == unshared'
      <4>1. a \in Nat /\ b \in Nat /\ u \in Nat /\ v \in Nat /\ MaxNow \in Nat
            /\ b = a + 1 /\ a < MaxNow /\ v <= u + 1
        BY <1>1, <1>2
      <4>2. n \in 0 .. b /\ n > b - v
        BY <3>1
      <4> HIDE DEF a, b, u, v
      <4>3. n \in 0 .. MaxNow /\ ((n \in 0 .. a /\ n > a - u) \/ n = a + 1)
        BY <4>1, <4>2, OneTimeMore
      <4> QED
        BY <4>3 DEF Times, a, u
    <3>3. admitted[n] \in Nat /\ (n = now + 1 => admitted[n] = 0)
      BY <1>1, <3>2 DEF Limited, LimiterTypes
    <3>4. admitted'[n] <= admitted[n]
      BY <1>b, <3>2, <3>3
    <3> QED
      BY <3>2, <3>3, <3>4 DEF Undisturbed
  <2>3. Counted'
    <3> SUFFICES ASSUME NEW n \in Undisturbed'
                 PROVE  /\ admitted'[n] <= stamps'[n]
                        /\ \A t \in Thread : step'[t] = "install" => admitted'[n] <= kept'[t][n]
      BY DEF Counted
    <3>1. /\ n \in Times /\ admitted'[n] <= admitted[n]
          /\ n \in Undisturbed \/ admitted[n] = 0
      BY <2>2
    <3>2. admitted[n] \in Nat /\ admitted'[n] \in Nat /\ stamps[n] \in Nat
          /\ \A t \in Thread : kept[t][n] \in Nat
      BY <1>3, <3>1 DEF Limited, LimiterTypes
    <3>3. admitted[n] <= stamps[n]
          /\ \A t \in Thread : step[t] = "install" => admitted[n] <= kept[t][n]
      BY <3>1, <3>2 DEF Limited, Counted
    <3>4. admitted'[n] <= stamps[n]
      BY <3>1, <3>2, <3>3
    <3>5. \A t \in Thread : step[t] = "install" => admitted'[n] <= kept[t][n]
      BY <3>1, <3>2, <3>3
    <3> QED
      BY <1>a, <3>4, <3>5
  <2>4. PlaceLeft'
    <3> SUFFICES ASSUME NEW t \in Thread, step'[t] = "append", asked'[t] > now' - unshared'
                 PROVE  Stamped(stamps') < MaxCalls
      BY DEF PlaceLeft
    <3>1. asked[t] \in Nat /\ asked[t] > now - unshared
      <4>1. asked[t] \in Nat
        BY <1>1 DEF Limited, LimiterTypes, Times
      <4>2. asked[t] > now' - unshared'
        BY <1>a
      <4> QED
        BY <1>1, <1>2, <4>1, <4>2
    <3> QED
      BY <1>a, <3>1 DEF Limited, PlaceLeft
  <2>5. FewAdmitted'
    <3> DEFINE W == Undisturbed
               V == Undisturbed'
    <3>1. IsFiniteSet(W) /\ W \in SUBSET Times
      BY <1>1, TimesFinite
    <3>2. IsFiniteSet(V) /\ V \in SUBSET Times
      <4>1. V \in SUBSET Times
        BY <2>2
      <4> QED
        BY <4>1, <1>1, TimesFinite, FS_Subset
    <3>3. now + 1 \notin W /\ now + 1 \in Times /\ V \in SUBSET (W \cup {now + 1})
      BY <1>1, <2>2 DEF Undisturbed, Times
    <3>4. admitted[now + 1] = 0 /\ \A n \in Times : admitted[n] \in Nat /\ admitted'[n] \in Nat
      BY <1>1, <1>3, <3>3 DEF Limited, LimiterTypes
    <3>5. IsFiniteSet(W \cup {now + 1})
      BY <3>1, FS_AddElement
    <3>6. \A n \in V : admitted'[n] <= admitted[n]
      BY <2>2
    <3> HIDE DEF V, W
    <3>7. Sum(admitted', V) <= Sum(admitted, V)
      BY <3>2, <3>4, <3>6, SumOrdered
    <3>8. Sum(admitted, V) <= Sum(admitted, W \cup {now + 1})
      BY <3>1, <3>3, <3>4, <3>5, SumPart
    <3>9. Sum(admitted, W \cup {now + 1}) = Sum(admitted, W)
      <4> DEFINE b == now + 1
      <4> HIDE DEF b
      <4>b. b \notin W /\ b \in Times
        BY <3>3 DEF b
      <4>1. Sum(admitted, W \cup {b}) = admitted[b] + Sum(admitted, W)
        BY <3>1, <3>4, <4>b, SumAdd
      <4>2. Sum(admitted, W) \in Int
        BY <3>1, <3>4, SumType
      <4> QED
        BY <3>4, <4>1, <4>2 DEF b
    <3>10. Sum(admitted', V) \in Int /\ Sum(admitted, V) \in Int /\ Sum(admitted, W) \in Int
      BY <3>1, <3>2, <3>4, SumType
    <3>11. Sum(admitted, W) <= MaxCalls
      BY DEF Limited, FewAdmitted, W
    <3>12. Sum(admitted', V) <= MaxCalls
      BY <3>7, <3>8, <3>9, <3>10, <3>11, LimiterAssumption
    <3> QED
      BY <3>12 DEF FewAdmitted, V
  <2> QED
    BY <1>3, <2>1, <2>3, <2>4, <2>5 DEF Limited
<1> QED
  BY <1>4, <1>5

LEMMA TurnTaken ==
  ASSUME LimiterTypes, NEW t \in Thread, NEW s, Goes(t, s)
  PROVE  /\ step' = [o \in Thread |-> step'[o]] /\ step'[t] = s
         /\ \A o \in Thread : o # t => step'[o] = step[o]
BY DEF LimiterTypes, Goes

\* Where two threads meet nothing is left to show; elsewhere time has not moved.
LEMMA ThreadStep ==
  ASSUME Limited, LimiterTypes', now' = now, unshared' = IF Met THEN 0 ELSE unshared,
         ~Met => /\ \A n \in Undisturbed :
                      /\ admitted'[n] <= stamps'[n]
                      /\ \A o \in Thread : step'[o] = "install" => admitted'[n] <= kept'[o][n]
                 /\ \A o \in Thread :
                      step'[o] = "append" /\ asked'[o] > now - unshared => Stamped(stamps') < MaxCalls
                 /\ Sum(admitted', Undisturbed) <= MaxCalls
  PROVE  Limited'
<1>1. CASE Met
  BY <1>1, MetIsLimited
<1>2. CASE ~Met
  <2>1. unshared' = unshared
    BY <1>2
  <2>2. Undisturbed' = Undisturbed
    BY <2>1 DEF Undisturbed
  <2>3. AtMostOne'
    BY <1>2, Unmet DEF AtMostOne
  <2>4. Counted'
    BY <1>2, <2>2 DEF Counted
  <2>5. PlaceLeft'
    BY <1>2, <2>1 DEF PlaceLeft
  <2>6. FewAdmitted'
    BY <1>2, <2>2 DEF FewAdmitted
  <2> QED
    BY <2>3, <2>4, <2>5, <2>6 DEF Limited
<1> QED
  BY <1>1, <1>2

\* A thread in acquire of whose time something is claimed is alone there.
LEMMA AloneInAcquire ==
  ASSUME Limited, NEW t \in Thread, step[t] \in Acquiring, NEW o \in Thread, o # t,
         step[o] \in Acquiring
  PROVE  unshared = 0 /\ Undisturbed = {} /\ \A k \in Times : k <= now => ~(k > now - unshared)
<1>1. unshared = 0
  BY DEF Limited, LimiterTypes, AtMostOne
<1>2. now \in Int
  BY DEF Limited, LimiterTypes
<1>3. \A k \in Int : k <= now => ~(k > now - 0)
  BY <1>2
<1>4. Undisturbed = {}
  BY <1>1, <1>3 DEF Undisturbed
<1> QED
  BY <1>1, <1>3, <1>4 DEF Times

LEMMA OthersKeepLimited ==
  ASSUME Limited, unshared' = IF Met THEN 0 ELSE unshared, NEW t \in Thread,
         Ask(t) \/ Check(t) \/ CallFails(t) \/ CallAnswers(t)
  PROVE  Limited'
<1>1. now' = now /\ stamps' = stamps /\ kept' = kept /\ admitted' = admitted
  BY DEF Ask, Check, CallFails, CallAnswers
<1>2. asked' = IF Ask(t) THEN [asked EXCEPT ![t] = now] ELSE asked
  BY DEF Ask, Check, CallFails, CallAnswers
<1>3. unshared' \in 0 .. CallWindow
  BY LimiterAssumption DEF Limited, LimiterTypes
<1>4. /\ step' = [o \in Thread |-> step'[o]]
      /\ \A o \in Thread : o # t => step'[o] = step[o]
      /\ step'[t] # "install"
      /\ step'[t] = "append" => Check(t) /\ Stamped(stamps) < MaxCalls
  <2>1. CASE Ask(t)
    BY <2>1, TurnTaken DEF Ask, Limited
  <2>2. CASE Check(t)
    <3>1. Stamped(stamps) \in Int
      <4>1. IsFiniteSet(Times)
        BY TimesFinite DEF Limited, LimiterTypes
      <4>2. \A n \in Times : stamps[n] \in Int
        BY DEF Limited, LimiterTypes
      <4> QED
        BY <4>1, <4>2, SumType, StampedIsSum
    <3>2. Goes(t, IF Stamped(stamps) >= MaxCalls THEN "idle" ELSE "append")
      BY <2>2 DEF Check
    <3> DEFINE s == IF Stamped(stamps) >= MaxCalls THEN "idle" ELSE "append"
    <3>3. s \in {"idle", "append"} /\ (s = "append" => Stamped(stamps) < MaxCalls)
      BY <3>1, LimiterAssumption
    <3> HIDE DEF s
    <3>4. Goes(t, s)
      BY <3>2 DEF s
    <3> QED
      BY <2>2, <3>3, <3>4, TurnTaken DEF Limited
  <2>3. CASE CallFails(t)
    <3>1. step[t] = "call" /\ (UNCHANGED step \/ Goes(t, "idle"))
      BY <2>3 DEF CallFails
    <3>2. CASE UNCHANGED step
      BY <3>1, <3>2 DEF Limited, LimiterTypes
    <3> QED
      BY <3>1, <3>2, TurnTaken DEF Limited
  <2>4. CASE CallAnswers(t)
    BY <2>4, TurnTaken DEF CallAnswers, Limited
  <2> QED
    BY <2>1, <2>2, <2>3, <2>4
<1>5. LimiterTypes'
  <2>1. asked' \in [Thread -> Times] /\ \A o \in Thread : asked'[o] <= now
    BY <1>2 DEF Limited, LimiterTypes, Times
  <2> QED
    BY <1>1, <1>3, <1>4, <2>1 DEF Limited, LimiterTypes
<1>6. \A n \in Undisturbed :
        /\ admitted'[n] <= stamps'[n]
        /\ \A o \in Thread : step'[o] = "install" => admitted'[n] <= kept'[o][n]
  BY <1>1, <1>4 DEF Limited, Counted
<1>7. ASSUME NEW o \in Thread, step'[o] = "append", asked'[o] > now - unshared
      PROVE  Stamped(stamps') < MaxCalls
  <2>1. CASE o = t
    BY <1>1, <1>4, <1>7, <2>1
  <2>2. CASE o # t
    <3>1. step[o] = "append" /\ asked'[o] = asked[o]
      BY <1>2, <1>4, <1>7, <2>2 DEF Limited, LimiterTypes
    <3> QED
      BY <1>1, <1>7, <3>1 DEF Limited, PlaceLeft
  <2> QED
    BY <2>1, <2>2
<1>8. Sum(admitted', Undisturbed) <= MaxCalls
  BY <1>1 DEF Limited, FewAdmitted
<1> QED
  BY <1>1, <1>5, <1>6, <1>7, <1>8, ThreadStep

LEMMA PruneKeepsLimited ==
  ASSUME Limited, unshared' = IF Met THEN 0 ELSE unshared, NEW t \in Thread, Prune(t)
  PROVE  Limited'
<1> DEFINE left_over == [n \in Times |-> IF n > asked[t] - CallWindow THEN stamps[n] ELSE 0]
<1>1. /\ now' = now /\ stamps' = stamps /\ asked' = asked /\ admitted' = admitted
      /\ step[t] = "prune" /\ Goes(t, "install")
  BY DEF Prune
<1>2. kept' = [kept EXCEPT ![t] = left_over]
  BY DEF Prune, Times
<1>3. left_over \in [Times -> Nat]
  BY DEF Limited, LimiterTypes
<1>4. unshared' \in 0 .. CallWindow
  BY LimiterAssumption DEF Limited, LimiterTypes
<1>5. ASSUME NEW n \in Undisturbed PROVE left_over[n] = stamps[n]
  <2>1. n \in Times
    BY TimesFinite DEF Limited, LimiterTypes
  <2> DEFINE a == asked[t]
  <2>2. a \in Int /\ a <= now /\ now \in Int /\ unshared \in Int /\ unshared <= CallWindow
        /\ CallWindow \in Int /\ n \in Int /\ n > now - unshared
    BY <2>1, LimiterAssumption DEF Limited, LimiterTypes, Times, Undisturbed
  <2> HIDE DEF a
  <2>3. n > a - CallWindow
    BY <2>2
  <2> QED
    BY <2>1, <2>3 DEF a
<1> HIDE DEF left_over
<1>6. /\ step' = [o \in Thread |-> step'[o]] /\ step'[t] = "install"
      /\ \A o \in Thread : o # t => step'[o] = step[o]
  BY <1>1, TurnTaken DEF Limited
<1>7. kept' \in [Thread -> [Times -> Nat]] /\ kept'[t] = left_over
      /\ \A o \in Thread : o # t => kept'[o] = kept[o]
  BY <1>2, <1>3 DEF Limited, LimiterTypes
<1>8. LimiterTypes'
  BY <1>1, <1>4, <1>6, <1>7 DEF Limited, LimiterTypes
<1>9. \A n \in Undisturbed :
        /\ admitted'[n] <= stamps'[n]
        /\ \A o \in Thread : step'[o] = "install" => admitted'[n] <= kept'[o][n]
  BY <1>1, <1>5, <1>6, <1>7 DEF Limited, Counted
<1>10. \A o \in Thread :
         step'[o] = "append" /\ asked'[o] > now - unshared => Stamped(stamps') < MaxCalls
  BY <1>1, <1>6 DEF Limited, PlaceLeft
<1>11. Sum(admitted', Undisturbed) <= MaxCalls
  BY <1>1 DEF Limited, FewAdmitted
<1> QED
  BY <1>1, <1>8, <1>9, <1>10, <1>11, ThreadStep

LEMMA InstallKeepsLimited ==
  ASSUME Limited, unshared' = IF Met THEN 0 ELSE unshared, NEW t \in Thread, Install(t)
  PROVE  Limited'
<1>1. /\ now' = now /\ stamps' = kept[t] /\ asked' = asked /\ admitted' = admitted
      /\ step[t] = "install" /\ Goes(t, "check")
  BY DEF Install
<1>2. kept' = [kept EXCEPT ![t] = NoStamps] /\ NoStamps \in [Times -> Nat]
  BY DEF Install, NoStamps, Times
<1>3. unshared' \in 0 .. CallWindow
  BY LimiterAssumption DEF Limited, LimiterTypes
<1>4. /\ step' = [o \in Thread |-> step'[o]] /\ step'[t] = "check"
      /\ \A o \in Thread : o # t => step'[o] = step[o]
  BY <1>1, TurnTaken DEF Limited
<1>5. kept' \in [Thread -> [Times -> Nat]] /\ stamps' \in [Times -> Nat]
  BY <1>1, <1>2 DEF Limited, LimiterTypes
<1>6. LimiterTypes'
  BY <1>1, <1>3, <1>4, <1>5 DEF Limited, LimiterTypes
<1>7. ASSUME NEW o \in Thread, step'[o] \in {"install", "append"}
      PROVE  Undisturbed = {} /\ \A k \in Times : k <= now => ~(k > now - unshared)
  <2>1. o # t /\ step[o] \in Acquiring /\ step[t] \in Acquiring
    BY <1>1, <1>4, <1>7 DEF Acquiring
  <2> QED
    BY <2>1, AloneInAcquire
<1>8. \A n \in Undisturbed :
        /\ admitted'[n] <= stamps'[n]
        /\ \A o \in Thread : step'[o] = "install" => admitted'[n] <= kept'[o][n]
  BY <1>1, <1>7 DEF Limited, Counted
<1>9. \A o \in Thread :
        step'[o] = "append" /\ asked'[o] > now - unshared => Stamped(stamps') < MaxCalls
  BY <1>1, <1>7 DEF Limited, LimiterTypes
<1>10. Sum(admitted', Undisturbed) <= MaxCalls
  BY <1>1 DEF Limited, FewAdmitted
<1> QED
  BY <1>1, <1>6, <1>8, <1>9, <1>10, ThreadStep

\* One more at one place adds one to the sum.
LEMMA OneMore ==
  ASSUME NEW S, IsFiniteSet(S), NEW f, NEW g, \A x \in S : f[x] \in Nat /\ g[x] \in Nat,
         NEW a \in S, g[a] <= f[a] + 1, \A x \in S : x # a => g[x] = f[x]
  PROVE  Sum(g, S) <= Sum(f, S) + 1
<1> DEFINE R == S \ {a}
<1>1. IsFiniteSet(R) /\ \A x \in R : x \in S /\ x # a
  BY FS_Subset
<1>2. Sum(g, S) = g[a] + Sum(g, R) /\ Sum(f, S) = f[a] + Sum(f, R)
  BY SumRemove
<1> HIDE DEF R
<1>3. Sum(g, R) = Sum(f, R)
  BY <1>1, SumsEqual
<1>4. Sum(f, R) \in Int
  BY <1>1, SumType
<1>5. f[a] \in Nat /\ g[a] \in Nat
  OBVIOUS
<1> QED
  BY <1>2, <1>3, <1>4, <1>5

LEMMA AppendKeepsLimited ==
  ASSUME Limited, unshared' = IF Met THEN 0 ELSE unshared, NEW t \in Thread, AppendStamp(t)
  PROVE  Limited'
<1> DEFINE a == asked[t]
           W == Undisturbed
<1>1. /\ now' = now /\ asked' = asked /\ kept' = kept
      /\ step[t] = "append" /\ Goes(t, "call")
      /\ stamps' = [stamps EXCEPT ![a] = @ + 1]
      /\ admitted' = [admitted EXCEPT ![a] = IF @ > MaxCalls THEN @ ELSE @ + 1]
  BY DEF AppendStamp
<1>2. a \in Times /\ a <= now /\ \A n \in Times : stamps[n] \in Nat /\ admitted[n] \in Nat
  BY DEF Limited, LimiterTypes
<1>3. IsFiniteSet(Times) /\ IsFiniteSet(W) /\ W \in SUBSET Times
  BY TimesFinite DEF Limited, LimiterTypes
<1>4. unshared' \in 0 .. CallWindow
  BY LimiterAssumption DEF Limited, LimiterTypes
<1>5. /\ step' = [o \in Thread |-> step'[o]] /\ step'[t] = "call"
      /\ \A o \in Thread : o # t => step'[o] = step[o]
  BY <1>1, TurnTaken DEF Limited
<1>6. /\ stamps'[a] = stamps[a] + 1 /\ admitted'[a] \in Nat /\ admitted'[a] <= admitted[a] + 1
      /\ \A n \in Times : n # a => stamps'[n] = stamps[n] /\ admitted'[n] = admitted[n]
  BY <1>1, <1>2 DEF Limited, LimiterTypes
<1>7. stamps' \in [Times -> Nat] /\ admitted' \in [Times -> Nat]
  BY <1>1, <1>2 DEF Limited, LimiterTypes
<1>8. \A n \in Times : n > now => n # a
  BY <1>2 DEF Times, Limited, LimiterTypes
<1> HIDE DEF a, W
<1>9. LimiterTypes'
  <2>1. \A n \in Times : n > now' => admitted'[n] = 0
    BY <1>1, <1>6, <1>8 DEF Limited, LimiterTypes
  <2> QED
    BY <1>1, <1>4, <1>5, <1>7, <2>1 DEF Limited, LimiterTypes
<1>10. ASSUME NEW o \in Thread, step'[o] \in {"install", "append"}
       PROVE  Undisturbed = {} /\ \A k \in Times : k <= now => ~(k > now - unshared)
  <2>1. o # t /\ step[o] \in Acquiring /\ step[t] \in Acquiring
    BY <1>1, <1>5, <1>10 DEF Acquiring
  <2> QED
    BY <2>1, AloneInAcquire
<1>11. ASSUME NEW n \in Undisturbed
       PROVE  /\ admitted'[n] <= stamps'[n]
              /\ \A o \in Thread : step'[o] = "install" => admitted'[n] <= kept'[o][n]
  <2>1. n \in Times /\ admitted[n] <= stamps[n]
    BY <1>3 DEF Limited, Counted, W
  <2>2. admitted'[n] <= stamps'[n]
    BY <1>2, <1>6, <2>1
  <2> QED
    BY <1>10, <2>2
<1>12. \A o \in Thread :
         step'[o] = "append" /\ asked'[o] > now - unshared => Stamped(stamps') < MaxCalls
  BY <1>1, <1>10 DEF Limited, LimiterTypes
<1>13. Sum(admitted', W) <= MaxCalls
  <2>1. CASE a \notin W
    <3>1. \A n \in W : admitted'[n] = admitted[n]
      BY <1>3, <1>6, <2>1
    <3>2. Sum(admitted', W) = Sum(admitted, W)
      BY <1>3, <3>1, SumsEqual
    <3> QED
      BY <3>2 DEF Limited, FewAdmitted, W
  <2>2. CASE a \in W
    <3>1. Stamped(stamps) < MaxCalls
      BY <1>1, <2>2 DEF Limited, PlaceLeft, W, a, Undisturbed
    <3>2. \A n \in W : admitted[n] <= stamps[n]
      BY DEF Limited, Counted, W
    <3>3. Sum(admitted, W) <= Sum(stamps, W)
      BY <1>2, <1>3, <3>2, SumOrdered
    <3>4. Sum(stamps, W) <= Sum(stamps, Times)
      BY <1>2, <1>3, SumPart
    <3>5. Sum(admitted', W) <= Sum(admitted, W) + 1
      <4>1. \A n \in W : admitted[n] \in Nat /\ admitted'[n] \in Nat
        BY <1>2, <1>3, <1>7
      <4>2. \A n \in W : n # a => admitted'[n] = admitted[n]
        BY <1>3, <1>6
      <4>3. admitted'[a] <= admitted[a] + 1
        BY <1>6
      <4> QED
        BY <1>3, <2>2, <4>1, <4>2, <4>3, OneMore
    <3>6. Sum(admitted, W) \in Int /\ Sum(stamps, W) \in Int /\ Sum(stamps, Times) \in Int
          /\ Sum(admitted', W) \in Int
      <4>1. \A n \in W : admitted[n] \in Int /\ stamps[n] \in Int /\ admitted'[n] \in Int
        BY <1>2, <1>3, <1>7
      <4> QED
        BY <1>2, <1>3, <4>1, SumType
    <3>7. Sum(stamps, Times) < MaxCalls /\ MaxCalls \in Int
      BY <3>1, StampedIsSum, LimiterAssumption
    <3> QED
      BY <3>3, <3>4, <3>5, <3>6, <3>7
  <2> QED
    BY <2>1, <2>2
<1> QED
  BY <1>1, <1>9, <1>11, <1>12, <1>13, ThreadStep DEF W

LEMMA LimiterGoesOn == ASSUME Limited, [LimiterNext]_limiter PROVE Limited'
<1>1. CASE Tick
  BY <1>1, TickKeepsLimited
<1>2. ASSUME NEW t \in Thread, unshared' = IF Met THEN 0 ELSE unshared,
             \/ Ask(t) \/ Prune(t) \/ Install(t) \/ Check(t) \/ AppendStamp(t)
             \/ CallFails(t) \/ CallAnswers(t)
      PROVE  Limited'
  BY <1>2, OthersKeepLimited, PruneKeepsLimited, InstallKeepsLimited, AppendKeepsLimited
<1>3. CASE UNCHANGED limiter
  BY <1>3 DEF limiter, Limited, LimiterTypes, AtMostOne, Counted, PlaceLeft, FewAdmitted,
              Undisturbed
<1> QED
  BY <1>1, <1>2, <1>3 DEF LimiterNext

\* RateLimiter.acquire without a lock, for any number of threads, any limit and any window:
\* once no two threads have met in it for a window, the calls let through in the window
\* are at most the limit, although timestamps may have been lost before.
THEOREM CallsLimited == LimiterSpec => []CallsWithinLimit
<1>1. LimiterInit => Limited
  BY LimiterBegins
<1>2. Limited /\ [LimiterNext]_limiter => Limited'
  BY LimiterGoesOn
<1>3. Limited => CallsWithinLimit
  <2> SUFFICES ASSUME Limited, unshared = CallWindow PROVE CallsInWindow <= MaxCalls
    BY DEF CallsWithinLimit
  <2>1. CallsInWindow = Sum(admitted, Undisturbed)
    BY DEF CallsInWindow, Sum, Undisturbed
  <2> QED
    BY <2>1 DEF Limited, FewAdmitted
<1> QED
  BY <1>1, <1>2, <1>3, PTL DEF LimiterSpec

=============================================================================
