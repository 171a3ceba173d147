----------------------------- MODULE SignalDesk -----------------------------
(***************************************************************************)
(* A pass of AnalysisService over a market: a scan or a preview brings a   *)
(* fresh quote, FeatureEngine answers with the features of its cache or    *)
(* lets every strategy compute its own, which may take long, and the       *)
(* strategies say what they make of the fresh quote and those features.    *)
(* Threads share the cache.  A model that does not answer, is not asked    *)
(* because of the rate limit, or cannot be parsed leaves no estimate, and  *)
(* that is cached as well.                                                 *)
(***************************************************************************)
EXTENDS Strategies, FiniteSets

CONSTANTS
  Reader,            \* the threads that scan or preview
  DeskQuotes,
  Registries,        \* the sets of strategies that the settings may register
  Answers,           \* of the model: [prob, confidence], each with at most one element
  Sentiments,        \* of the news: [direction, magnitude, adjusted]
  Holdings,          \* on the chain: [whales, wallets]
  Listings,          \* of other platforms: sequences of [platform, price, similarity]
  Ttl,               \* 60 seconds
  MaxDeskTime,       \* bound
  NoEntry, NoPass

ASSUME DeskAssumption == Ttl \in Nat /\ MaxDeskTime \in Nat

VARIABLES
  deskTime,
  registry,          \* the strategies that are registered
  cache,             \* FeatureCache: a market's features, and when they were stored
  pass               \* what each thread is doing

desk == <<deskTime, registry, cache, pass>>

DeskInit ==
  /\ deskTime = 0
  /\ registry \in Registries
  /\ cache = [m \in Market |-> NoEntry]
  /\ pass = [r \in Reader |-> NoPass]

-----------------------------------------------------------------------------
(***************************************************************************)
(* Features and signals.                                                   *)
(***************************************************************************)

NoEstimate == {}

EstimatesFor(strategy) ==
  {NoEstimate} \cup (IF strategy \in registry THEN {Parsed(a) : a \in Answers} ELSE {})

\* Without an estimate the news are not read; without an answer there is no sentiment.
SentimentsFor(estimate) ==
  {{}} \cup (IF estimate = NoEstimate THEN {} ELSE {{s} : s \in Sentiments})

\* compute_features of every strategy; `took` is how long that was, in the end.
FeaturesFrom(q, began) ==
  UNION {{[quoted |-> began, was |-> q, took |-> deskTime - began, llm |-> l,
           news |-> n, sentiment |-> s, smart |-> w, held |-> h, prices |-> Matches(p)] :
            s \in SentimentsFor(n)} :
          l \in EstimatesFor("llm_probability"), n \in EstimatesFor("news_catalyst"),
          w \in EstimatesFor("smart_money"), h \in Holdings, p \in Listings}

SignalsOf(strategy, q, f) ==
  CASE strategy = "llm_probability" -> LLMSignal(q, f.llm)
    [] strategy = "news_catalyst" -> NewsSignal(q, f.news, f.sentiment)
    [] strategy = "smart_money" -> SmartMoneySignal(q, f.smart, Votes(f.held.whales, f.held.wallets))
    [] strategy = "cross_platform_arb" -> ArbSignal(q, Consensus(f.prices))
    [] strategy = "event_catalyst" -> EventCatalystSignal(q, f.was)
    [] strategy = "liquidity_momentum" -> MomentumSignal(q, f.was)

\* The proposals of a market, with their stakes.
Proposals(q, f) ==
  {[strategy |-> x[1], side |-> x[2].side, confidence |-> x[2].confidence, edge |-> x[2].edge,
    stake |-> Lesser(MaxPosition, 1000 + x[2].edge)] :
     x \in UNION {{g} \X SignalsOf(g, q, f) : g \in registry}}

\* A preview keeps the first of the largest edges.
Best(proposals) == {p \in proposals : \A o \in proposals : o.edge <= p.edge}

-----------------------------------------------------------------------------
(***************************************************************************)
(* Passes.                                                                 *)
(***************************************************************************)

Turns(r, p) == pass' = [pass EXCEPT ![r] = p]

DeskTick == deskTime < MaxDeskTime /\ deskTime' = deskTime + 1 /\ UNCHANGED <<registry, cache, pass>>

Begin(r) ==
  /\ pass[r] = NoPass
  /\ \E m \in Market, q \in DeskQuotes :
       Turns(r, [step |-> "lookup", market |-> m, quote |-> q])
  /\ UNCHANGED <<deskTime, registry, cache>>

Fresh(m) == cache[m] # NoEntry /\ deskTime - cache[m].stored <= Ttl

Says(r, f) ==
  [step |-> "said", market |-> pass[r].market, quote |-> pass[r].quote, looked |-> deskTime,
   features |-> f, proposals |-> Proposals(pass[r].quote, f),
   preview |-> Best(Proposals(pass[r].quote, f))]

\* Variant: an entry that is used is young again.
HitRenews(r) ==
  /\ pass[r] # NoPass /\ pass[r].step = "lookup" /\ Fresh(pass[r].market)
  /\ Turns(r, Says(r, cache[pass[r].market].features))
  /\ cache' = [cache EXCEPT ![pass[r].market].stored = deskTime]
  /\ UNCHANGED <<deskTime, registry>>

Hit(r) ==
  /\ pass[r] # NoPass /\ pass[r].step = "lookup" /\ Fresh(pass[r].market)
  /\ Turns(r, Says(r, cache[pass[r].market].features))
  /\ UNCHANGED <<deskTime, registry, cache>>

\* An entry that has expired is deleted.
Miss(r) ==
  /\ pass[r] # NoPass /\ pass[r].step = "lookup" /\ ~Fresh(pass[r].market)
  /\ cache' = [cache EXCEPT ![pass[r].market] = NoEntry]
  /\ Turns(r, [step |-> "compute", market |-> pass[r].market, quote |-> pass[r].quote,
               began |-> deskTime])
  /\ UNCHANGED <<deskTime, registry>>

\* The features are stored when the last strategy has computed its own.
Compute(r) ==
  /\ pass[r] # NoPass /\ pass[r].step = "compute"
  /\ \E f \in FeaturesFrom(pass[r].quote, pass[r].began) :
       /\ cache' = [cache EXCEPT ![pass[r].market] = [stored |-> deskTime, features |-> f]]
       /\ Turns(r, Says(r, f))
  /\ UNCHANGED <<deskTime, registry>>

\* A sentiment whose magnitude is not a number raises, and the whole scan with it.
Breaks(r) ==
  /\ pass[r] # NoPass /\ pass[r].step = "compute" /\ "news_catalyst" \in registry
  /\ Turns(r, NoPass)
  /\ UNCHANGED <<deskTime, registry, cache>>

Done(r) ==
  /\ pass[r] # NoPass /\ pass[r].step = "said"
  /\ Turns(r, NoPass)
  /\ UNCHANGED <<deskTime, registry, cache>>

DeskNext ==
  \/ DeskTick
  \/ \E r \in Reader : Begin(r) \/ Hit(r) \/ Miss(r) \/ Compute(r) \/ Breaks(r) \/ Done(r)

DeskSpec == DeskInit /\ [][DeskNext]_desk

-----------------------------------------------------------------------------
\* Whoever stored them and however often they were used, the features behind a
\* proposal were computed from a quote that is no older than the time-to-live and the
\* time that the computing took.
FeaturesAreRecent ==
  \A r \in Reader :
    pass[r] # NoPass /\ pass[r].step = "said" =>
      pass[r].looked - pass[r].features.quoted <= Ttl + pass[r].features.took
=============================================================================
