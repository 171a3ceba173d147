------------------------------ MODULE Backtest ------------------------------
(***************************************************************************)
(* BacktestRunner.run: the timestamps of a history in order; at each of    *)
(* them every strategy visits every market seen so far, then sweeps the    *)
(* open positions; then the equity curve gets a sample.  A market's quote  *)
(* is the last one up to the timestamp, and may be stale: it is traded on, *)
(* and its own fetched_at is the time of an exit, while an entry's time is *)
(* the timestamp.                                                          *)
(*                                                                         *)
(* The history is generated as it is consumed, which a runner that looks   *)
(* at nothing after the timestamp cannot tell.  A strategy is any choice   *)
(* of signals.  The Sharpe ratio and the wording of a trade are left out.  *)
(***************************************************************************)
EXTENDS MarketData, Sequences, FiniteSets, FiniteSetsExt, SequencesExt

CONSTANTS
  Quotes,          \* what a snapshot may say: [yes, no, spread, liquidity]
  Timestamps,      \* the days at which a quote may have been fetched
  ClosingDays,     \* what a market's closes_at may be
  StrategyCount,   \* how many strategies the runner has
  Signals,         \* what a strategy may say: [side, confidence, edge]
  MaxExposure,
  MaxHolding,      \* 7 days
  BigMove,         \* 5 percent
  NoQuote

ASSUME BacktestAssumption ==
  /\ IsFiniteSet(Market)
  /\ Timestamps \subseteq Nat \ {0} /\ ClosingDays \subseteq Nat
  /\ StrategyCount \in Nat \ {0} /\ MaxExposure \in Nat
  /\ MaxHolding \in Nat /\ BigMove \in Nat
  /\ \A q \in Quotes : q.yes \in Nat /\ q.no \in Nat
  /\ \A s \in Signals : s.side \in Side /\ s.edge \in Int

VARIABLES
  phase,           \* "data", "visit", "record", "final", "done"
  clock,           \* the timestamp being simulated, 0 before the first
  closes,          \* closes_at of each market
  seen,            \* the markets that have a quote, in order of appearance
  quote,           \* the current snapshot of each, with its fetched_at
  turn, at,        \* the strategy and the market that are visited next
  positions, trades,
  equity,          \* the curve, less the initial capital
  counted          \* trades that the curve has already

backtest == <<phase, clock, closes, seen, quote, turn, at, positions, trades, equity, counted>>

BacktestInit ==
  /\ phase = "data" /\ clock = 0
  /\ closes \in [Market -> ClosingDays]
  /\ seen = <<>> /\ quote = [m \in Market |-> NoQuote]
  /\ turn = 1 /\ at = 1
  /\ positions = <<>> /\ trades = <<>>
  /\ equity = <<0>> /\ counted = 0

-----------------------------------------------------------------------------
(***************************************************************************)
(* Opening and closing.                                                    *)
(***************************************************************************)

Held == {i \in DOMAIN positions : positions[i].open}

HeldIn(m) == {i \in Held : positions[i].market = m}

\* Variant: a strategy looks for its own positions only.
OwnHeldIn(m) == {i \in HeldIn(m) : positions[i].strategy = turn}

Existing(m) == HeldIn(m)

Resolved(p) == quote[p.market].at >= closes[p.market]
Expired(p)  == quote[p.market].at - p.at >= MaxHolding
Moved(p)    == Distance(PriceOf(quote[p.market], p.side), p.entry) > BigMove
Exits(p)    == Resolved(p) \/ Expired(p) \/ Moved(p)

\* A resolved market pays its yes price to either side.
ExitPrice(p) ==
  IF Resolved(p) THEN quote[p.market].yes ELSE PriceOf(quote[p.market], p.side)

\* A price of zero buys nothing.
PnlAt(p, exit) ==
  LET delta == IF p.side = "yes" THEN exit - p.entry ELSE p.entry - exit
  IN  IF p.entry = 0 THEN 0 ELSE Trunc(delta * p.stake, p.entry)

\* The k-th position of S in the order in which they were opened.
Nth(S, k) == CHOOSE i \in S : Cardinality({j \in S : j < i}) = k - 1

\* Closes the positions of S, position i at Price(i) and Time(i).
CloseAt(S, Price(_), Time(_)) ==
  /\ positions' = [i \in DOMAIN positions |->
                     IF i \in S THEN [positions[i] EXCEPT !.open = FALSE] ELSE positions[i]]
  /\ trades' = trades \o [k \in 1 .. Cardinality(S) |->
                 LET i == Nth(S, k)
                 IN  [position |-> i, pnl |-> PnlAt(positions[i], Price(i)), exited |-> Time(i)]]

\* _maybe_close_position, of the positions of S.
MaybeClose(S) ==
  LET Price(i) == ExitPrice(positions[i])
      Time(i)  == quote[positions[i].market].at
  IN  CloseAt({i \in S : Exits(positions[i])}, Price, Time)

Stake(signal) == Lesser(signal.edge + 1000, MaxPosition)

StakesOf(S) == MapThenSumSet(LAMBDA i : positions[i].stake, S)

RiskCheck(q, signal) ==
  /\ Tradable(q)
  /\ signal.confidence >= MinConfidence
  /\ signal.edge >= MinEdge
  /\ StakesOf(Held) + Stake(signal) <= MaxExposure

Open(m, signal) ==
  positions' = Append(positions,
    [market |-> m, side |-> signal.side, entry |-> PriceOf(quote[m], signal.side),
     stake |-> Stake(signal), at |-> clock, strategy |-> turn, open |-> TRUE])

-----------------------------------------------------------------------------
(***************************************************************************)
(* The run.                                                                *)
(***************************************************************************)

\* A market without data is not visited; the others keep their last snapshot.
NextTimestamp ==
  /\ phase = "data"
  /\ \E t \in Timestamps, M \in SUBSET Market \ {{}} :
       /\ t > clock /\ clock' = t
       /\ \E new \in [M -> Quotes] :
            quote' = [m \in Market |->
              IF m \in M
              THEN [yes |-> new[m].yes, no |-> new[m].no, spread |-> new[m].spread,
                    liquidity |-> new[m].liquidity, at |-> t]
              ELSE quote[m]]
       /\ \E s \in SetToSeqs(M \ Range(seen)) : seen' = seen \o s
  /\ phase' = "visit" /\ turn' = 1 /\ at' = 1
  /\ UNCHANGED <<closes, positions, trades, equity, counted>>

Visiting == phase = "visit" /\ at <= Len(seen)

\* A position that the market already has may be closed; the strategy does not
\* open another one in its place.
VisitHeld ==
  /\ Visiting /\ Existing(seen[at]) # {}
  /\ MaybeClose(HeldIn(seen[at]))
  /\ at' = at + 1
  /\ UNCHANGED <<phase, clock, closes, seen, quote, turn, equity, counted>>

\* No signal, or one that the risk check refuses.
VisitIdle ==
  /\ Visiting /\ Existing(seen[at]) = {}
  /\ at' = at + 1
  /\ UNCHANGED <<phase, clock, closes, seen, quote, turn, positions, trades, equity, counted>>

VisitSignal ==
  /\ Visiting /\ Existing(seen[at]) = {}
  /\ \E signal \in Signals :
       RiskCheck(quote[seen[at]], signal) /\ Open(seen[at], signal)
  /\ at' = at + 1
  /\ UNCHANGED <<phase, clock, closes, seen, quote, turn, trades, equity, counted>>

\* After the markets of a strategy, every open position.
Sweep ==
  /\ phase = "visit" /\ at > Len(seen)
  /\ MaybeClose(Held)
  /\ turn' = turn + 1 /\ at' = 1
  /\ phase' = IF turn < StrategyCount THEN "visit" ELSE "record"
  /\ UNCHANGED <<clock, closes, seen, quote, equity, counted>>

\* The pnl of the trades after the k-th.
PnlAfter(k) == MapThenSumSet(LAMBDA j : trades[j].pnl, k + 1 .. Len(trades))

\* Variant: the trades that were counted are not remembered.
UpdateForgets ==
  /\ equity' = Append(equity, Last(equity) + PnlAfter(counted))
  /\ UNCHANGED counted

UpdateEquity ==
  /\ equity' = Append(equity, Last(equity) + PnlAfter(counted))
  /\ counted' = Len(trades)

Record ==
  /\ phase \in {"record", "final"}
  /\ UpdateEquity
  /\ phase' = IF phase = "record" THEN "data" ELSE "done"
  /\ UNCHANGED <<clock, closes, seen, quote, turn, at, positions, trades>>

\* What is left at the end is closed at one half.
Finish ==
  /\ phase = "data" /\ clock > 0
  /\ LET Half(i) == 5000
         Now(i)  == clock
     IN  CloseAt(Held, Half, Now)
  /\ phase' = "final"
  /\ UNCHANGED <<clock, closes, seen, quote, turn, at, equity, counted>>

\* The next window of a validation has a runner of its own.
NextWindow ==
  /\ phase = "done"
  /\ phase' = "data" /\ clock' = 0
  /\ closes' \in [Market -> ClosingDays]
  /\ seen' = <<>> /\ quote' = [m \in Market |-> NoQuote]
  /\ turn' = 1 /\ at' = 1
  /\ positions' = <<>> /\ trades' = <<>>
  /\ equity' = <<0>> /\ counted' = 0

BacktestNext ==
  \/ NextTimestamp \/ VisitHeld \/ VisitIdle \/ VisitSignal
  \/ Sweep \/ Record \/ Finish \/ NextWindow

BacktestSpec == BacktestInit /\ [][BacktestNext]_backtest

-----------------------------------------------------------------------------
(***************************************************************************)
(* Properties.                                                             *)
(***************************************************************************)

\* Whatever order strategies, visits and sweeps come in, the curve between two
\* timestamps is exactly the trades closed so far; a position is closed by one trade,
\* and at the end nothing is open.
BooksBalance ==
  /\ \A j, k \in DOMAIN trades : trades[j].position = trades[k].position => j = k
  /\ {trades[j].position : j \in DOMAIN trades} = DOMAIN positions \ Held
  /\ phase \in {"data", "done"} => Last(equity) = PnlAfter(0)
  /\ phase = "done" => Held = {}

\* When a timestamp has been simulated, no position is open in a market whose snapshot
\* says that it is over, none that a fresh snapshot shows was held for seven days, no
\* market has two, and together they stay within the exposure.
NothingOutlivesItsMarket ==
  /\ phase = "record" => \A i \in Held :
       LET p == positions[i] IN
       /\ quote[p.market].at < closes[p.market]
       /\ quote[p.market].at = clock => clock - p.at < MaxHolding
  /\ \A m \in Market : Cardinality(HeldIn(m)) <= 1
  /\ StakesOf(Held) <= MaxExposure
=============================================================================
