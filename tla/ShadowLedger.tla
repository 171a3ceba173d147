---------------------------- MODULE ShadowLedger ----------------------------
(***************************************************************************)
(* Shadow mode's books: process_shadow_signals and the shadow lane of the  *)
(* execution service open, for every signal, a shadow position and an      *)
(* unresolved shadow result, in one commit; SignalAccuracyMonitor.update   *)
(* resolves the results of a market and closes shadow positions;           *)
(* POST /shadow/reset and the reconciliation's auto-close, which does not  *)
(* ask whether a position is a shadow, close positions too.                *)
(*                                                                         *)
(* An update is a read of the unresolved results, one query for an open    *)
(* shadow position per result, and a commit that writes what it read then, *)
(* whatever others have committed meanwhile.  SessionLocal turns autoflush *)
(* off, so that the queries do not see what the update itself has closed.  *)
(* The ORM writes the columns that differ from what was read: a prediction *)
(* that failed writes neither its accuracy nor its pnl.                    *)
(*                                                                         *)
(* Prices are in 1/10000, pnl in 1/10000 of a dollar for a quantity of one.*)
(* Definitions commented "Variant" are mistakes the code might have made,  *)
(* kept to see that the properties notice them.                            *)
(***************************************************************************)
EXTENDS Integers, FiniteSets, FiniteSetsExt

CONSTANTS
  Market,
  YesPrices, NoPrices,      \* of a snapshot, which nothing makes add up
  Stakes, Liquidities,
  Updater,        \* sessions that resolve markets
  NoUpdate,       \* of a session that is not resolving one
  Never,          \* resolved_at of an unresolved result
  NoTrade,        \* an id that has not been given out
  Window,         \* days of the rolling accuracy
  MaxTrades, MaxBatch, MaxDay    \* bounds

ASSUME LedgerAssumption ==
  /\ YesPrices \subseteq Nat /\ NoPrices \subseteq Nat
  /\ Stakes \subseteq Nat /\ Liquidities \subseteq Nat
  /\ Window \in Nat /\ MaxDay \in Nat /\ MaxTrades \in Nat /\ MaxBatch \in Nat
  /\ Never \notin Nat

VARIABLES
  day,
  created,      \* how many trades there are: ids are given out in order
  trade,        \* what was signalled: market, side, fill price, day
  isOpen,       \* positions.is_open
  outcome,      \* shadow_results.actual_outcome, "" until resolved
  accurate,     \* shadow_results.accuracy
  resolvedAt,
  pnl,
  update,       \* of each session: the update it is making
  overlapped    \* markets with updates that overlap, until the last of them ends

results == <<outcome, accurate, resolvedAt, pnl>>
updates == <<update, overlapped>>
ledger  == <<created, trade, isOpen, results, updates>>

Side  == {"yes", "no"}
Id    == 1 .. MaxTrades
Trade == [market : Market, side : Side, fill : Nat, opened : 0 .. MaxDay]

\* The rows an update has found, the queries it has still to make for their positions,
\* the positions these returned, and the time it will write.
Update == [market : Market, outcome : Side, at : 0 .. MaxDay, found : SUBSET Id,
           left : 0 .. MaxTrades, closing : SUBSET Id]

-----------------------------------------------------------------------------
(***************************************************************************)
(* ShadowModeEngine's fill price.                                          *)
(***************************************************************************)

Least(x, y) == IF x < y THEN x ELSE y

MidPrice(yes, no) == (yes + no) \div 2

\* Half a percent at most, or if the liquidity is not known.
Slippage(mid, stake, liquidity) ==
  LET cap == (mid * 50) \div 10000
  IN  IF liquidity = 0 THEN cap ELSE Least(cap, (mid * stake) \div liquidity)

FillPrice(side, yes, no, stake, liquidity) ==
  LET mid  == MidPrice(yes, no)
      slip == Slippage(mid, stake, liquidity)
  IN  IF side = "yes" THEN mid + slip ELSE mid - slip

-----------------------------------------------------------------------------
(***************************************************************************)
(* Opening and resolving.                                                  *)
(***************************************************************************)

LedgerInit ==
  /\ day = 0 /\ created = 0
  /\ trade = [t \in Id |-> NoTrade]
  /\ isOpen = [t \in Id |-> FALSE]
  /\ outcome = [t \in Id |-> ""]
  /\ accurate = [t \in Id |-> FALSE]
  /\ resolvedAt = [t \in Id |-> Never]
  /\ pnl = [t \in Id |-> 0]
  /\ update = [u \in Updater |-> NoUpdate]
  /\ overlapped = {}

Tick == day < MaxDay /\ day' = day + 1 /\ UNCHANGED ledger

Fills(side) ==
  {FillPrice(side, y, n, k, l) : y \in YesPrices, n \in NoPrices, k \in Stakes, l \in Liquidities}

Entries ==
  UNION {[market : Market, side : {s}, fill : Fills(s), opened : {day}] : s \in Side}

\* The signals that have a snapshot; the others only leave an audit row.  One
\* commit ends the batch: if it fails the batch never was.
ProcessSignals(k) ==
  /\ created + k <= MaxTrades
  /\ \E new \in [created + 1 .. created + k -> Entries] :
       trade' = [t \in Id |-> IF t \in created + 1 .. created + k THEN new[t] ELSE trade[t]]
  /\ isOpen' = [t \in Id |-> isOpen[t] \/ t \in created + 1 .. created + k]
  /\ created' = created + k
  /\ UNCHANGED <<day, results, updates>>

Of(m)         == {t \in 1 .. created : trade[t].market = m}
Unresolved(m) == {t \in Of(m) : outcome[t] = ""}
OpenOf(m)     == {t \in Of(m) : isOpen[t]}

\* The first row that is found, if there is one.
First(S) == {t \in S : \A u \in S : t <= u}

-----------------------------------------------------------------------------
(***************************************************************************)
(* SignalAccuracyMonitor.update.                                           *)
(***************************************************************************)

Updating(u) == update[u] # NoUpdate

OthersOn(u, m) == {v \in Updater \ {u} : Updating(v) /\ update[v].market = m}

\* Variant: results that are resolved already are found too.
FindAny(u, m, o) ==
  /\ ~Updating(u) /\ Of(m) # {}
  /\ update' = [update EXCEPT ![u] =
       [market |-> m, outcome |-> o, at |-> day, found |-> Of(m),
        left |-> Cardinality(Of(m)), closing |-> {}]]
  /\ overlapped' = IF OthersOn(u, m) = {} THEN overlapped ELSE overlapped \cup {m}
  /\ UNCHANGED <<day, created, trade, isOpen, results>>

\* A market without unresolved results is no update.
FindUnresolved(u, m, o) ==
  /\ ~Updating(u) /\ Unresolved(m) # {}
  /\ update' = [update EXCEPT ![u] =
       [market |-> m, outcome |-> o, at |-> day, found |-> Unresolved(m),
        left |-> Cardinality(Unresolved(m)), closing |-> {}]]
  /\ overlapped' = IF OthersOn(u, m) = {} THEN overlapped ELSE overlapped \cup {m}
  /\ UNCHANGED <<day, created, trade, isOpen, results>>

\* Variant: an update closes every position of the market.
FindAllPositions(u) ==
  /\ Updating(u) /\ update[u].left > 0
  /\ update' = [update EXCEPT ![u].left = @ - 1, ![u].closing = @ \cup OpenOf(update[u].market)]
  /\ UNCHANGED <<day, created, trade, isOpen, results, overlapped>>

\* The same row every time, unless somebody else closes it.
FindPosition(u) ==
  /\ Updating(u) /\ update[u].left > 0
  /\ update' = [update EXCEPT ![u].left = @ - 1,
                              ![u].closing = @ \cup First(OpenOf(update[u].market))]
  /\ UNCHANGED <<day, created, trade, isOpen, results, overlapped>>

Correct(t, o) == trade[t].side = o

\* Only a prediction that comes true has its pnl written.
PnlOf(t, o) == IF Correct(t, o) THEN 10000 - trade[t].fill ELSE pnl[t]

\* Nobody is overlapped on a market when the last update on it ends.
Ends(u) ==
  /\ update' = [update EXCEPT ![u] = NoUpdate]
  /\ overlapped' = IF OthersOn(u, update[u].market) = {}
                   THEN overlapped \ {update[u].market} ELSE overlapped

CommitUpdate(u) ==
  /\ Updating(u) /\ update[u].left = 0
  /\ LET mine == update[u].found
         o    == update[u].outcome
     IN  /\ outcome' = [t \in Id |-> IF t \in mine THEN o ELSE outcome[t]]
         /\ accurate' = [t \in Id |-> accurate[t] \/ (t \in mine /\ Correct(t, o))]
         /\ resolvedAt' = [t \in Id |-> IF t \in mine THEN update[u].at ELSE resolvedAt[t]]
         /\ pnl' = [t \in Id |-> IF t \in mine THEN PnlOf(t, o) ELSE pnl[t]]
         /\ isOpen' = [t \in Id |-> isOpen[t] /\ t \notin update[u].closing]
  /\ Ends(u)
  /\ UNCHANGED <<day, created, trade>>

\* A query or the commit raises, and the session is rolled back.
UpdateFails(u) ==
  /\ Updating(u) /\ Ends(u)
  /\ UNCHANGED <<day, created, trade, isOpen, results>>

\* The process dies.
UpdatesLost ==
  /\ update' = [u \in Updater |-> NoUpdate] /\ overlapped' = {}
  /\ UNCHANGED <<day, created, trade, isOpen, results>>

-----------------------------------------------------------------------------
(***************************************************************************)
(* Positions that are closed without a resolution.                         *)
(***************************************************************************)

ShadowReset ==
  /\ isOpen' = [t \in Id |-> FALSE]
  /\ UNCHANGED <<day, created, trade, results, updates>>

\* _submit_close_order: an open position of the market, though it may be a shadow.
ReconciliationCloses(m) ==
  /\ OpenOf(m) # {}
  /\ isOpen' = [t \in Id |-> isOpen[t] /\ t \notin First(OpenOf(m))]
  /\ UNCHANGED <<day, created, trade, results, updates>>

UpdateNext(u) ==
  \/ \E m \in Market, o \in Side : FindUnresolved(u, m, o)
  \/ FindPosition(u) \/ CommitUpdate(u) \/ UpdateFails(u)

LedgerNext ==
  \/ \E k \in 1 .. MaxBatch : ProcessSignals(k)
  \/ \E u \in Updater : UpdateNext(u)
  \/ ShadowReset
  \/ \E m \in Market : ReconciliationCloses(m)

-----------------------------------------------------------------------------
(***************************************************************************)
(* What is read from the results.                                          *)
(***************************************************************************)

\* get_accuracy: the resolved results of the window, and the share of them that
\* was predicted well, compared in whole numbers.
InWindow == {t \in 1 .. created :
               outcome[t] # "" /\ resolvedAt[t] # Never /\ resolvedAt[t] + Window >= day}

Accurate == {t \in InWindow : accurate[t]}

AccuracyAbove(percent) ==
  100 * Cardinality(Accurate) > percent * Cardinality(InWindow)

-----------------------------------------------------------------------------
(***************************************************************************)
(* Properties.                                                             *)
(***************************************************************************)

\* Types of the rows of shadow_positions and shadow_results and of what the updates hold.
LedgerTypeOK ==
  /\ day \in 0 .. MaxDay
  /\ created \in 0 .. MaxTrades
  /\ trade \in [Id -> Trade \cup {NoTrade}]
  /\ \A t \in 1 .. created : trade[t] \in Trade
  /\ isOpen \in [Id -> BOOLEAN]
  /\ outcome \in [Id -> Side \cup {""}]
  /\ accurate \in [Id -> BOOLEAN]
  /\ resolvedAt \in [Id -> 0 .. MaxDay \cup {Never}]
  /\ pnl \in [Id -> Int]
  /\ update \in [Updater -> Update \cup {NoUpdate}]
  /\ overlapped \subseteq Market

\* A market may be reported resolved more than once, and by feeds that disagree: the
\* first report stands, and what it earned is never booked again, while no updates of
\* the market overlap.  Nothing guards the write of those that do: the later one
\* overwrites the earlier, until the last of them has ended.
ResolvedOnce ==
  [][\A t \in Id : outcome[t] # "" =>
       \/ trade[t].market \in overlapped
       \/ /\ outcome'[t] = outcome[t] /\ accurate'[t] = accurate[t]
          /\ resolvedAt'[t] = resolvedAt[t] /\ pnl'[t] = pnl[t]]_<<day, ledger>>

\* How many more positions than unresolved results a market has.
Surplus(m) == Cardinality(OpenOf(m)) - Cardinality(Unresolved(m))

\* An update that overlaps no other takes no position from a result it does not resolve,
\* though signals, resets and auto-closes come between its queries: what shrinks the
\* surplus of a market is a step that ends no update, a reset or an auto-close.
UpdatesCloseNoMore ==
  [][\A m \in Market :
       Surplus(m)' >= Surplus(m) \/ m \in overlapped \/ update' = update]_<<day, ledger>>
=============================================================================
