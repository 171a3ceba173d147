---------------------------- MODULE GoLiveProofs ----------------------------
(***************************************************************************)
(* What holds of the books of shadow mode, of the ladder of stages and of  *)
(* the circuit breakers for any number of trades, sessions and strategies. *)
(***************************************************************************)
EXTENDS LiveTransition, CircuitBreakers, FiniteSetTheorems, TLAPS

-----------------------------------------------------------------------------
(***************************************************************************)
(* The books.                                                              *)
(***************************************************************************)

\* Slippage is at most half a percent of the mid price.
LEMMA SlippageBounded ==
  ASSUME NEW m \in Nat, NEW k \in Nat, NEW l \in Nat
  PROVE  Slippage(m, k, l) \in Nat /\ Slippage(m, k, l) <= m
<1> DEFINE walk == (m * k) \div l
           cap  == (m * 50) \div 10000
<1>1. cap \in Nat /\ cap <= m
  OBVIOUS
<1>2. CASE l = 0
  BY <1>1, <1>2 DEF Slippage
<1>3. CASE l # 0
  <2>1. m * k \in Nat /\ l \in Nat \ {0}
    BY <1>3
  <2>2. walk \in Nat
    BY <2>1
  <2>3. Slippage(m, k, l) = Least(cap, walk)
    BY <1>3 DEF Slippage
  <2> HIDE DEF walk, cap
  <2> QED BY <1>1, <2>2, <2>3 DEF Least
<1> QED BY <1>2, <1>3

LEMMA FillIsPrice ==
  ASSUME NEW s \in Side, NEW y \in Nat, NEW n \in Nat, NEW k \in Nat, NEW l \in Nat
  PROVE  FillPrice(s, y, n, k, l) \in Nat
<1> DEFINE m == MidPrice(y, n)
<1>1. m \in Nat
  BY DEF MidPrice
<1>2. Slippage(m, k, l) \in Nat /\ Slippage(m, k, l) <= m
  BY <1>1, SlippageBounded
<1>3. \/ FillPrice(s, y, n, k, l) = m + Slippage(m, k, l)
      \/ FillPrice(s, y, n, k, l) = m - Slippage(m, k, l)
  BY DEF FillPrice
<1> HIDE DEF m
<1> QED BY <1>1, <1>2, <1>3

LEMMA Bounds == MaxDay \in Nat /\ MaxTrades \in Nat /\ MaxBatch \in Nat
BY LedgerAssumption

LEMMA Counts ==
  ASSUME LedgerTypeOK
  PROVE  /\ day \in 0 .. MaxDay /\ created \in 0 .. MaxTrades
         /\ \A t \in 1 .. created : t \in Id /\ trade[t] \in Trade
<1>1. day \in 0 .. MaxDay /\ created \in 0 .. MaxTrades
  BY DEF LedgerTypeOK
<1>2. \A t \in 1 .. created : trade[t] \in Trade
  BY DEF LedgerTypeOK
<1>3. \A t \in 1 .. created : t \in Id
  BY <1>1, Bounds DEF Id
<1> QED BY <1>1, <1>2, <1>3

LEMMA EntriesTyped ==
  ASSUME LedgerTypeOK, NEW e \in Entries
  PROVE  e \in Trade
<1>1. ASSUME NEW s \in Side, NEW f \in Fills(s) PROVE f \in Nat
  <2>1. PICK y \in YesPrices, n \in NoPrices, k \in Stakes, l \in Liquidities :
          f = FillPrice(s, y, n, k, l)
    BY DEF Fills
  <2>2. y \in Nat /\ n \in Nat /\ k \in Nat /\ l \in Nat
    BY LedgerAssumption
  <2> QED BY <2>1, <2>2, FillIsPrice
<1>2. day \in 0 .. MaxDay
  BY DEF LedgerTypeOK
<1>3. PICK s \in Side : e \in [market : Market, side : {s}, fill : Fills(s), opened : {day}]
  BY DEF Entries
<1> QED BY <1>1, <1>2, <1>3 DEF Trade

LEMMA ProcessTyped ==
  ASSUME LedgerTypeOK, NEW k \in 1 .. MaxBatch, ProcessSignals(k)
  PROVE  LedgerTypeOK'
<1> DEFINE K == created + 1 .. created + k
<1>1. PICK new \in [K -> Entries] :
        trade' = [t \in Id |-> IF t \in K THEN new[t] ELSE trade[t]]
  BY DEF ProcessSignals
<1>2. \A t \in K : new[t] \in Trade
  BY EntriesTyped
<1>3. created \in 0 .. MaxTrades /\ k \in Nat /\ MaxTrades \in Nat
  BY Bounds, Counts
<1>4. created' = created + k /\ created + k <= MaxTrades
  BY DEF ProcessSignals
<1>5. created' \in 0 .. MaxTrades
  BY <1>3, <1>4
<1>6. K \subseteq Id /\ 1 .. created' = (1 .. created) \cup K
  BY <1>3, <1>4 DEF Id
<1>7. trade' \in [Id -> Trade \cup {NoTrade}]
  <2>1. trade \in [Id -> Trade \cup {NoTrade}]
    BY DEF LedgerTypeOK
  <2> HIDE DEF K
  <2> QED BY <1>1, <1>2, <2>1
<1>8. \A t \in 1 .. created' : trade'[t] \in Trade
  <2>1. \A t \in 1 .. created : trade[t] \in Trade /\ t \in Id
    BY Counts
  <2> HIDE DEF K
  <2> QED BY <1>1, <1>2, <1>6, <2>1
<1>9. isOpen' \in [Id -> BOOLEAN]
  BY DEF LedgerTypeOK, ProcessSignals
<1>10. UNCHANGED <<day, outcome, accurate, resolvedAt, pnl, update, overlapped>>
  BY DEF ProcessSignals, results, updates
<1> QED BY <1>5, <1>7, <1>8, <1>9, <1>10 DEF LedgerTypeOK, Trade, Update

LEMMA UpdateStays == Update' = Update /\ Trade' = Trade
BY DEF Update, Trade

LEMMA UnresolvedCounts ==
  ASSUME LedgerTypeOK, NEW m \in Market
  PROVE  /\ Unresolved(m) \in SUBSET Id /\ OpenOf(m) \in SUBSET Id
         /\ IsFiniteSet(Unresolved(m)) /\ IsFiniteSet(OpenOf(m))
         /\ Cardinality(Unresolved(m)) \in 0 .. MaxTrades
<1>1. created \in 0 .. MaxTrades /\ \A t \in 1 .. created : t \in Id
  BY Counts
<1>2. Unresolved(m) \subseteq 1 .. created /\ OpenOf(m) \subseteq 1 .. created
  BY DEF Unresolved, OpenOf, Of
<1>3. IsFiniteSet(1 .. created) /\ Cardinality(1 .. created) = created
  BY <1>1, Bounds, FS_Interval
<1>4. /\ IsFiniteSet(Unresolved(m)) /\ IsFiniteSet(OpenOf(m))
      /\ Cardinality(Unresolved(m)) <= created
  BY <1>2, <1>3, FS_Subset
<1>5. Cardinality(Unresolved(m)) \in Nat
  BY <1>4, FS_CardinalityType
<1> QED BY <1>1, <1>2, <1>4, <1>5, Bounds

LEMMA FindTyped ==
  ASSUME LedgerTypeOK, NEW u \in Updater, NEW m \in Market, NEW o \in Side,
         FindUnresolved(u, m, o)
  PROVE  LedgerTypeOK'
<1> DEFINE new == [market |-> m, outcome |-> o, at |-> day, found |-> Unresolved(m),
                   left |-> Cardinality(Unresolved(m)), closing |-> {}]
<1>1. day \in 0 .. MaxDay
  BY DEF LedgerTypeOK
<1>2. new \in Update
  BY <1>1, UnresolvedCounts DEF Update
<1>3. update' = [update EXCEPT ![u] = new]
  BY DEF FindUnresolved
<1> HIDE DEF new
<1>4. update' \in [Updater -> Update \cup {NoUpdate}]
  BY <1>2, <1>3 DEF LedgerTypeOK
<1>5. overlapped' \subseteq Market
  BY DEF FindUnresolved, LedgerTypeOK
<1>6. UNCHANGED <<day, created, trade, isOpen, outcome, accurate, resolvedAt, pnl>>
  BY DEF FindUnresolved, results
<1> QED BY <1>4, <1>5, <1>6, UpdateStays DEF LedgerTypeOK

LEMMA QueryTyped ==
  ASSUME LedgerTypeOK, NEW u \in Updater, FindPosition(u)
  PROVE  LedgerTypeOK'
<1> DEFINE was == update[u]
           now == [was EXCEPT !.left = was.left - 1,
                              !.closing = was.closing \cup First(OpenOf(was.market))]
<1>1. was \in Update /\ was.left > 0
  BY DEF FindPosition, Updating, LedgerTypeOK
<1>2. was.left - 1 \in 0 .. MaxTrades
  BY <1>1, Bounds DEF Update
<1>3. First(OpenOf(was.market)) \in SUBSET Id
  BY <1>1, UnresolvedCounts DEF Update, First
<1>4. update' = [update EXCEPT ![u] = now]
  BY DEF FindPosition
<1>5. now \in Update
  BY <1>1, <1>2, <1>3 DEF Update
<1> HIDE DEF now, was
<1>6. update' \in [Updater -> Update \cup {NoUpdate}]
  BY <1>4, <1>5 DEF LedgerTypeOK
<1>7. UNCHANGED <<day, created, trade, isOpen, outcome, accurate, resolvedAt, pnl, overlapped>>
  BY DEF FindPosition, results
<1> QED BY <1>6, <1>7, UpdateStays DEF LedgerTypeOK

LEMMA EndTyped ==
  ASSUME LedgerTypeOK, NEW u \in Updater, Ends(u)
  PROVE  update' \in [Updater -> Update \cup {NoUpdate}] /\ overlapped' \subseteq Market
BY DEF LedgerTypeOK, Ends

LEMMA PnlOfIsInt ==
  ASSUME LedgerTypeOK, NEW t \in 1 .. created, NEW o \in Side
  PROVE  PnlOf(t, o) \in Int
<1>1. t \in Id /\ trade[t] \in Trade
  BY Counts
<1>2. trade[t].fill \in Nat /\ pnl[t] \in Int
  BY <1>1 DEF Trade, LedgerTypeOK
<1> QED BY <1>2 DEF PnlOf

\* What an update has found are trades that exist, of its market, and so are the positions
\* it is about to close: no more of them than queries it has made.
Found ==
  \A u \in Updater : Updating(u) =>
    /\ update[u].found \subseteq Of(update[u].market)
    /\ update[u].closing \subseteq Of(update[u].market)
    /\ Cardinality(update[u].closing) + update[u].left <= Cardinality(update[u].found)

LEMMA CommitTyped ==
  ASSUME LedgerTypeOK, Found, NEW u \in Updater, CommitUpdate(u)
  PROVE  LedgerTypeOK'
<1> DEFINE mine == update[u].found
           o == update[u].outcome
<1>0. update[u] \in Update /\ Updating(u)
  BY DEF CommitUpdate, Updating, LedgerTypeOK
<1>1. mine \subseteq 1 .. created /\ o \in Side /\ update[u].at \in 0 .. MaxDay
  BY <1>0 DEF Found, Of, Update
<1>2. outcome' = [t \in Id |-> IF t \in mine THEN o ELSE outcome[t]]
  BY DEF CommitUpdate
<1>3. resolvedAt' = [t \in Id |-> IF t \in mine THEN update[u].at ELSE resolvedAt[t]]
  BY DEF CommitUpdate
<1>4. pnl' = [t \in Id |-> IF t \in mine THEN PnlOf(t, o) ELSE pnl[t]]
  BY DEF CommitUpdate
<1>5. \A t \in mine : PnlOf(t, o) \in Int
  BY <1>1, PnlOfIsInt
<1>6. accurate' \in [Id -> BOOLEAN] /\ isOpen' \in [Id -> BOOLEAN]
  BY DEF CommitUpdate, LedgerTypeOK
<1> HIDE DEF mine, o
<1>7. outcome' \in [Id -> Side \cup {""}]
  BY <1>1, <1>2 DEF LedgerTypeOK
<1>8. resolvedAt' \in [Id -> 0 .. MaxDay \cup {Never}]
  BY <1>1, <1>3 DEF LedgerTypeOK
<1>9. pnl' \in [Id -> Int]
  BY <1>4, <1>5 DEF LedgerTypeOK
<1>10. update' \in [Updater -> Update \cup {NoUpdate}] /\ overlapped' \subseteq Market
  BY EndTyped DEF CommitUpdate
<1>11. UNCHANGED <<day, created, trade>>
  BY DEF CommitUpdate
<1> QED BY <1>6, <1>7, <1>8, <1>9, <1>10, <1>11, UpdateStays DEF LedgerTypeOK

LEMMA BooksTyped ==
  ASSUME LedgerTypeOK, Found, LedgerNext \/ Tick \/ UpdatesLost
  PROVE  LedgerTypeOK'
<1>1. ASSUME NEW k \in 1 .. MaxBatch, ProcessSignals(k) PROVE LedgerTypeOK'
  BY <1>1, ProcessTyped
<1>2. ASSUME NEW u \in Updater, UpdateNext(u) PROVE LedgerTypeOK'
  <2>1. CASE UpdateFails(u)
    <3>1. update' \in [Updater -> Update \cup {NoUpdate}] /\ overlapped' \subseteq Market
      BY <2>1, EndTyped DEF UpdateFails
    <3> QED BY <2>1, <3>1, UpdateStays DEF LedgerTypeOK, UpdateFails, results
  <2> QED BY <1>2, <2>1, FindTyped, QueryTyped, CommitTyped DEF UpdateNext
<1>3. CASE ShadowReset \/ \E m \in Market : ReconciliationCloses(m)
  <2>1. isOpen' \in [Id -> BOOLEAN]
    BY <1>3 DEF ShadowReset, ReconciliationCloses, LedgerTypeOK
  <2>2. UNCHANGED <<day, created, trade, outcome, accurate, resolvedAt, pnl, update, overlapped>>
    BY <1>3 DEF ShadowReset, ReconciliationCloses, results, updates
  <2> QED BY <2>1, <2>2, UpdateStays DEF LedgerTypeOK
<1>4. CASE Tick
  <2>1. day \in 0 .. MaxDay /\ day < MaxDay /\ day' = day + 1
    BY <1>4, Counts DEF Tick
  <2>2. day' \in 0 .. MaxDay
    BY <2>1, Bounds
  <2>3. UNCHANGED <<created, trade, isOpen, outcome, accurate, resolvedAt, pnl, update, overlapped>>
    BY <1>4 DEF Tick, ledger, results, updates
  <2> QED BY <2>2, <2>3, UpdateStays DEF LedgerTypeOK
<1>5. CASE UpdatesLost
  <2>1. update' \in [Updater -> Update \cup {NoUpdate}] /\ overlapped' \subseteq Market
    BY <1>5 DEF UpdatesLost
  <2>2. UNCHANGED <<day, created, trade, isOpen, outcome, accurate, resolvedAt, pnl>>
    BY <1>5 DEF UpdatesLost, results
  <2> QED BY <2>1, <2>2, UpdateStays DEF LedgerTypeOK
<1> QED BY <1>1, <1>2, <1>3, <1>4, <1>5 DEF LedgerNext

LEMMA LedgerStutter == LedgerTypeOK /\ UNCHANGED <<day, ledger>> => LedgerTypeOK'
<1> SUFFICES ASSUME LedgerTypeOK, UNCHANGED <<day, ledger>> PROVE LedgerTypeOK'
  OBVIOUS
<1>1. UNCHANGED <<day, created, trade, isOpen, outcome, accurate, resolvedAt, pnl, update, overlapped>>
  BY DEF ledger, results, updates
<1> QED BY <1>1, UpdateStays DEF LedgerTypeOK

-----------------------------------------------------------------------------
(***************************************************************************)
(* Types.  A session that has read the stage has read one below the top,   *)
(* since the check in AdvanceReads comes between: without it, two sessions *)
(* would write a stage 5.                                                  *)
(***************************************************************************)

ReadBelowTop == \A s \in Session : pc[s] = "read" => seen[s] < MaxStage

TInv == TypeOK /\ ReadBelowTop /\ Found

ControlTypeOK ==
  /\ live \in BOOLEAN /\ tripped \in BOOLEAN /\ undone \in BOOLEAN
  /\ stage \in Stage
  /\ pc \in [Session -> {"idle", "cleared", "read"}]
  /\ seen \in [Session -> Stage]
  /\ earned \in Nat
  /\ overtaken \subseteq Session

LEMMA StageIs == Stage = 0 .. 4 /\ MaxStage = 4 /\ Configured \in Stage /\ 0 \in Stage
<1>1. Configured \in Stage
  BY TransitionAssumption
<1> QED BY <1>1 DEF Stage, MaxStage

LEMMA LedgerInitTyped == LedgerInit => LedgerTypeOK
<1> SUFFICES ASSUME LedgerInit PROVE LedgerTypeOK
  OBVIOUS
<1>0. day = 0 /\ created = 0
  BY DEF LedgerInit
<1>1. day \in 0 .. MaxDay /\ created \in 0 .. MaxTrades
  BY <1>0, Bounds
<1>2. \A t \in 1 .. created : trade[t] \in Trade
  BY <1>0
<1>3. trade \in [Id -> Trade \cup {NoTrade}]
  BY DEF LedgerInit
<1>4. isOpen \in [Id -> BOOLEAN] /\ outcome \in [Id -> Side \cup {""}] /\ accurate \in [Id -> BOOLEAN]
  BY DEF LedgerInit
<1>5. resolvedAt = [t \in Id |-> Never] /\ pnl = [t \in Id |-> 0]
  BY DEF LedgerInit
<1>6. resolvedAt \in [Id -> 0 .. MaxDay \cup {Never}]
  BY <1>5
<1>7. pnl \in [Id -> Int]
  BY <1>5
<1>8. update \in [Updater -> Update \cup {NoUpdate}] /\ overlapped \subseteq Market
  BY DEF LedgerInit
<1> QED BY <1>1, <1>2, <1>3, <1>4, <1>6, <1>7, <1>8 DEF LedgerTypeOK

LEMMA InitTyped == Init => TInv
<1> SUFFICES ASSUME Init PROVE TInv
  OBVIOUS
<1>1. LedgerTypeOK
  BY LedgerInitTyped DEF Init
<1>2. Configured \in Nat
  BY StageIs
<1>3. ControlTypeOK
  BY <1>2, StageIs DEF Init, ControlTypeOK
<1>4. ReadBelowTop
  BY DEF Init, ReadBelowTop
<1>5. Found
  BY DEF Init, LedgerInit, Found, Updating
<1> QED BY <1>1, <1>3, <1>4, <1>5 DEF TInv, TypeOK, ControlTypeOK

LEMMA ControlTyped ==
  ASSUME ControlTypeOK, ReadBelowTop, Next
  PROVE  ControlTypeOK' /\ ReadBelowTop'
<1> USE DEF ControlTypeOK
<1>1. CASE Books
  BY <1>1 DEF Books, control, ReadBelowTop
<1>2. ASSUME NEW s \in Session, AdvanceChecks(s) PROVE ControlTypeOK' /\ ReadBelowTop'
  BY <1>2 DEF AdvanceChecks, ReadBelowTop
<1>3. ASSUME NEW s \in Session, AdvanceReads(s) PROVE ControlTypeOK' /\ ReadBelowTop'
  <2>1. pc' \in [Session -> {"idle", "cleared", "read"}]
    BY <1>3 DEF AdvanceReads
  <2>2. seen' \in [Session -> Stage]
    BY <1>3, StageIs DEF AdvanceReads
  <2>3. ReadBelowTop'
    <3>1. \A r \in Session : r # s => pc'[r] = pc[r] /\ seen'[r] = seen[r]
      BY <1>3 DEF AdvanceReads
    <3>2. pc'[s] = "read" => stage < MaxStage /\ seen'[s] = stage
      BY <1>3 DEF AdvanceReads
    <3> QED BY <3>1, <3>2 DEF ReadBelowTop, MaxStage
  <2> QED BY <1>3, <2>1, <2>2, <2>3 DEF AdvanceReads
<1>4. ASSUME NEW s \in Session, AdvanceWrites(s) PROVE ControlTypeOK' /\ ReadBelowTop'
  <2>1. pc' \in [Session -> {"idle", "cleared", "read"}]
    BY <1>4 DEF AdvanceWrites
  <2>2. seen' \in [Session -> Stage]
    BY <1>4, StageIs DEF AdvanceWrites
  <2>3. stage' \in Stage
    <3>1. seen[s] \in 0 .. 4 /\ seen[s] < 4
      BY <1>4, StageIs DEF AdvanceWrites, ReadBelowTop
    <3>2. stage' = seen[s] + 1
      BY <1>4 DEF AdvanceWrites
    <3> QED BY <3>1, <3>2, StageIs
  <2>4. ReadBelowTop'
    BY <1>4 DEF AdvanceWrites, ReadBelowTop, MaxStage
  <2> QED BY <1>4, <2>1, <2>2, <2>3, <2>4 DEF AdvanceWrites
<1>5. CASE TriggerLive \/ LiveRollback
  BY <1>5 DEF TriggerLive, LiveRollback, ReadBelowTop
<1>6. CASE StageRollback
  BY <1>6, StageIs DEF StageRollback, ReadBelowTop
<1>7. CASE Breaker
  BY <1>7 DEF Breaker, TripGlobal, ResetGlobal, ReadBelowTop
<1>8. CASE RestartProcess
  <2>1. Configured \in Nat
    BY StageIs
  <2> QED BY <1>8, <2>1, StageIs DEF RestartProcess, ReadBelowTop
<1> QED BY <1>1, <1>2, <1>3, <1>4, <1>5, <1>6, <1>7, <1>8 DEF Next, Advance

LEMMA NextLedger ==
  ASSUME Next
  PROVE  LedgerNext \/ Tick \/ UpdatesLost \/ UNCHANGED <<day, ledger>>
BY DEF Next, Books, Advance, AdvanceChecks, AdvanceReads, AdvanceWrites, TriggerLive,
       LiveRollback, StageRollback, Breaker, RestartProcess

\* One row, or none.
LEMMA FirstIsOne ==
  ASSUME NEW S \in SUBSET Nat
  PROVE  /\ First(S) \subseteq S /\ IsFiniteSet(First(S))
         /\ Cardinality(First(S)) \in Nat /\ Cardinality(First(S)) <= 1
<1>1. First(S) \subseteq S
  BY DEF First
<1>2. CASE First(S) = {}
  BY <1>1, <1>2, FS_EmptySet
<1>3. ASSUME NEW x \in First(S) PROVE First(S) = {x}
  <2>1. \A y \in First(S) : x \in Nat /\ y \in Nat /\ x <= y /\ y <= x
    BY <1>1 DEF First
  <2>2. \A y \in First(S) : y = x
    BY <2>1
  <2> QED BY <2>2
<1>4. CASE First(S) # {}
  <2>1. PICK x \in First(S) : TRUE
    BY <1>4
  <2>2. First(S) = {x}
    BY <1>3
  <2>3. IsFiniteSet({x}) /\ Cardinality({x}) = 1
    BY FS_Singleton
  <2> QED BY <1>1, <2>2, <2>3
<1> QED BY <1>2, <1>4

LEMMA FoundStep ==
  ASSUME LedgerTypeOK, Found, LedgerNext \/ Tick \/ UpdatesLost \/ UNCHANGED <<day, ledger>>
  PROVE  Found'
<1>0. created \in Nat /\ \A t \in 1 .. created : t \in Id
  BY Counts, Bounds
<1>1. ASSUME UNCHANGED update, created' \in Nat, created <= created',
             \A t \in 1 .. created : trade'[t] = trade[t]
      PROVE  Found'
  <2>1. 1 .. created \subseteq 1 .. created'
    BY <1>0, <1>1
  <2>2. \A m : Of(m) \subseteq Of(m)'
    BY <1>1, <2>1 DEF Of
  <2> QED BY <1>1, <2>2 DEF Found, Updating
<1>2. ASSUME NEW u \in Updater, UNCHANGED <<created, trade>>,
             \A v \in Updater \ {u} : update'[v] = update[v],
             Updating(u)' => /\ update'[u].found \subseteq Of(update'[u].market)
                             /\ update'[u].closing \subseteq Of(update'[u].market)
                             /\ Cardinality(update'[u].closing) + update'[u].left
                                  <= Cardinality(update'[u].found)
      PROVE  Found'
  <2>1. \A m : Of(m)' = Of(m)
    BY <1>2 DEF Of
  <2> QED BY <1>2, <2>1 DEF Found, Updating
<1>3. ASSUME NEW k \in 1 .. MaxBatch, ProcessSignals(k) PROVE Found'
  <2>1. created' = created + k /\ k \in Nat /\ UNCHANGED update
    BY <1>3 DEF ProcessSignals, updates
  <2>2. \A t \in 1 .. created : trade'[t] = trade[t]
    <3>1. \A t \in 1 .. created : t \in Id /\ t \notin created + 1 .. created + k
      BY <1>0
    <3> QED BY <1>3, <3>1 DEF ProcessSignals
  <2>3. created' \in Nat /\ created <= created'
    BY <1>0, <2>1
  <2> QED BY <1>1, <2>1, <2>2, <2>3
<1>4. ASSUME NEW u \in Updater, NEW m \in Market, NEW o \in Side, FindUnresolved(u, m, o)
      PROVE  Found'
  <2>1. /\ update'[u] = [market |-> m, outcome |-> o, at |-> day, found |-> Unresolved(m),
                         left |-> Cardinality(Unresolved(m)), closing |-> {}]
        /\ \A v \in Updater \ {u} : update'[v] = update[v]
        /\ UNCHANGED <<created, trade>>
    BY <1>4 DEF FindUnresolved, LedgerTypeOK
  <2>2. Cardinality({}) = 0 /\ Cardinality(Unresolved(m)) \in Nat
    BY UnresolvedCounts, FS_EmptySet, Bounds
  <2>3. Unresolved(m) \subseteq Of(m)
    BY DEF Unresolved
  <2>4. /\ update'[u].market = m /\ update'[u].found = Unresolved(m)
        /\ update'[u].left = Cardinality(Unresolved(m)) /\ update'[u].closing = {}
    BY <2>1
  <2>5. Cardinality({}) + Cardinality(Unresolved(m)) <= Cardinality(Unresolved(m))
    BY <2>2
  <2> QED BY <1>2, <2>1, <2>3, <2>4, <2>5
<1>5. ASSUME NEW u \in Updater, FindPosition(u) PROVE Found'
  <2> DEFINE was == update[u]
             f == First(OpenOf(was.market))
  <2>1. was \in Update /\ Updating(u) /\ was.left \in Nat /\ was.left > 0
    <3>1. Updating(u) /\ was.left > 0 /\ was \in Update
      BY <1>5 DEF FindPosition, Updating, LedgerTypeOK
    <3>2. was.left \in 0 .. MaxTrades
      BY <3>1 DEF Update
    <3> QED BY <3>1, <3>2, Bounds
  <2>2. /\ update'[u] = [was EXCEPT !.left = was.left - 1, !.closing = was.closing \cup f]
        /\ \A v \in Updater \ {u} : update'[v] = update[v]
        /\ UNCHANGED <<created, trade>>
    BY <1>5 DEF FindPosition, LedgerTypeOK
  <2>3. f \subseteq Of(was.market) /\ IsFiniteSet(f) /\ Cardinality(f) \in Nat /\ Cardinality(f) <= 1
    <3>1. OpenOf(was.market) \subseteq Of(was.market) /\ Of(was.market) \subseteq Nat
      BY DEF OpenOf, Of
    <3>2. OpenOf(was.market) \in SUBSET Nat
      BY <3>1
    <3> QED BY <3>1, <3>2, FirstIsOne
  <2>4. /\ was.found \subseteq Of(was.market) /\ was.closing \subseteq Of(was.market)
        /\ Cardinality(was.closing) + was.left <= Cardinality(was.found)
    BY <2>1 DEF Found
  <2>5. IsFiniteSet(was.closing) /\ Cardinality(was.closing) \in Nat
        /\ IsFiniteSet(was.found) /\ Cardinality(was.found) \in Nat
    <3>1. IsFiniteSet(1 .. created)
      BY <1>0, FS_Interval
    <3>2. Of(was.market) \subseteq 1 .. created
      BY DEF Of
    <3> QED BY <2>4, <3>1, <3>2, FS_Subset, FS_CardinalityType
  <2>6. /\ update'[u].market = was.market /\ update'[u].found = was.found
        /\ update'[u].left = was.left - 1 /\ update'[u].closing = was.closing \cup f
    BY <2>1, <2>2 DEF Update
  <2> HIDE DEF was, f
  <2>7. Cardinality(was.closing \cup f) <= Cardinality(was.closing) + 1
        /\ Cardinality(was.closing \cup f) \in Nat
    <3>1. IsFiniteSet(was.closing \cup f) /\ IsFiniteSet(was.closing \cap f)
          /\ Cardinality(was.closing \cup f) =
               Cardinality(was.closing) + Cardinality(f) - Cardinality(was.closing \cap f)
      BY <2>3, <2>5, FS_Union, FS_Intersection
    <3>2. Cardinality(was.closing \cap f) \in Nat /\ Cardinality(was.closing \cup f) \in Nat
      BY <3>1, FS_CardinalityType
    <3> QED BY <2>3, <2>5, <3>1, <3>2
  <2>8. Cardinality(was.closing \cup f) + (was.left - 1) <= Cardinality(was.found)
    BY <2>1, <2>4, <2>5, <2>7
  <2> QED BY <1>2, <2>2, <2>3, <2>4, <2>6, <2>8
<1>6. ASSUME NEW u \in Updater, CommitUpdate(u) \/ UpdateFails(u) PROVE Found'
  <2>1. UNCHANGED <<created, trade>> /\ update' = [update EXCEPT ![u] = NoUpdate]
    BY <1>6 DEF CommitUpdate, UpdateFails, Ends
  <2>2. update'[u] = NoUpdate /\ \A v \in Updater \ {u} : update'[v] = update[v]
    BY <2>1 DEF LedgerTypeOK
  <2> QED BY <1>2, <2>1, <2>2 DEF Updating
<1>7. ASSUME UNCHANGED <<created, trade, update>> PROVE Found'
  BY <1>0, <1>1, <1>7
<1>8. CASE ShadowReset \/ Tick \/ UNCHANGED <<day, ledger>> \/ \E m \in Market : ReconciliationCloses(m)
  BY <1>7, <1>8 DEF ShadowReset, Tick, ReconciliationCloses, ledger, updates
<1>9. CASE UpdatesLost
  BY <1>9 DEF UpdatesLost, Found, Updating
<1> QED BY <1>3, <1>4, <1>5, <1>6, <1>8, <1>9 DEF LedgerNext, UpdateNext

LEMMA NextTyped == TInv /\ [Next]_vars => TInv'
<1> SUFFICES ASSUME TInv, [Next]_vars PROVE TInv'
  OBVIOUS
<1>0. LedgerTypeOK /\ ControlTypeOK /\ ReadBelowTop /\ Found
  BY DEF TInv, TypeOK, ControlTypeOK
<1>1. CASE Next
  <2>1. LedgerTypeOK' /\ Found'
    BY <1>0, <1>1, NextLedger, BooksTyped, LedgerStutter, FoundStep
  <2>2. ControlTypeOK' /\ ReadBelowTop'
    BY <1>0, <1>1, ControlTyped
  <2> QED BY <2>1, <2>2 DEF TInv, TypeOK, ControlTypeOK
<1>2. CASE UNCHANGED vars
  <2>1. UNCHANGED <<day, ledger>> /\ UNCHANGED control
    BY <1>2 DEF vars
  <2>2. LedgerTypeOK' /\ Found'
    BY <1>0, <2>1, LedgerStutter, FoundStep
  <2>3. ControlTypeOK' /\ ReadBelowTop'
    BY <1>0, <2>1 DEF control, ControlTypeOK, ReadBelowTop
  <2> QED BY <2>2, <2>3 DEF TInv, TypeOK, ControlTypeOK
<1> QED BY <1>1, <1>2

\* The books, the live flag and the ladder keep their types: no stage above the fourth
\* is ever written, though every session reads the stage apart from writing it.
THEOREM LiveTypeCorrect == Spec => []TypeOK
<1>1. TInv => TypeOK
  BY DEF TInv
<1> QED BY <1>1, InitTyped, NextTyped, PTL DEF Spec

-----------------------------------------------------------------------------
(***************************************************************************)
(* Rollbacks.  The sessions past their check share what the checks have    *)
(* earned: if each of them writes one above what it read, the stage stays  *)
(* below.                                                                  *)
(***************************************************************************)

Pending == {s \in Session : pc[s] # "idle"} \ overtaken

Earning ==
  /\ \A s \in overtaken : pc[s] # "idle"
  /\ undone \/ stage + Cardinality(Pending) <= earned
  /\ undone \/ \A s \in Pending :
                  pc[s] = "read" => seen[s] + Cardinality(Pending) <= earned

LEMMA PendingFinite == IsFiniteSet(Pending) /\ Cardinality(Pending) \in Nat
<1>1. Pending \subseteq Session
  BY DEF Pending
<1>2. IsFiniteSet(Session)
  BY TransitionAssumption
<1> QED BY <1>1, <1>2, FS_Subset, FS_CardinalityType

LEMMA EarningInit == Init => Earning
<1> SUFFICES ASSUME Init PROVE Earning
  OBVIOUS
<1>1. Pending = {} /\ stage = Configured /\ earned = Configured /\ overtaken = {}
  BY DEF Init, Pending
<1>2. Cardinality({}) = 0
  BY FS_EmptySet
<1>3. Configured \in Nat
  BY StageIs
<1> QED BY <1>1, <1>2, <1>3 DEF Earning

\* What an action on one session does to the sessions past their check.
LEMMA PendingLoses ==
  ASSUME NEW s \in Session, pc[s] # "idle", pc \in [Session -> {"idle", "cleared", "read"}],
         pc' = [pc EXCEPT ![s] = "idle"], overtaken' = overtaken \ {s}
  PROVE  /\ Pending' = Pending \ {s}
         /\ Cardinality(Pending') =
              IF s \in overtaken THEN Cardinality(Pending) ELSE Cardinality(Pending) - 1
<1>1. Pending' = Pending \ {s}
  BY DEF Pending
<1>2. s \in Pending <=> s \notin overtaken
  BY DEF Pending
<1> QED BY <1>1, <1>2, PendingFinite, FS_RemoveElement

LEMMA EarningStep == TInv /\ Earning /\ [Next]_vars => Earning'
<1> SUFFICES ASSUME TInv, Earning, [Next]_vars PROVE Earning'
  OBVIOUS
<1>0. /\ pc \in [Session -> {"idle", "cleared", "read"}] /\ overtaken \subseteq Session
      /\ earned \in Nat /\ stage \in Nat /\ undone \in BOOLEAN
      /\ \A s \in Session : seen[s] \in Nat
  BY StageIs DEF TInv, TypeOK
<1>p. Cardinality(Pending) \in Nat
  BY PendingFinite
<1>1. ASSUME UNCHANGED <<stage, pc, seen, earned, overtaken, undone>> PROVE Earning'
  <2>1. Pending' = Pending
    BY <1>1 DEF Pending
  <2> QED BY <1>1, <2>1 DEF Earning
<1>2. ASSUME NEW s \in Session, AdvanceChecks(s) PROVE Earning'
  <2>1. pc[s] = "idle" /\ pc' = [pc EXCEPT ![s] = "cleared"] /\ earned' = earned + 1
        /\ UNCHANGED <<stage, seen, overtaken, undone>>
    BY <1>2 DEF AdvanceChecks
  <2>2. s \notin Pending /\ s \notin overtaken
    BY <2>1 DEF Pending, Earning
  <2>3. Pending' = Pending \cup {s}
    BY <1>0, <2>1, <2>2 DEF Pending
  <2>4. Cardinality(Pending') = Cardinality(Pending) + 1
    BY <2>2, <2>3, PendingFinite, FS_AddElement
  <2>5. \A t \in Pending' : pc'[t] = "read" => t \in Pending /\ pc[t] = "read"
    BY <1>0, <2>1, <2>3
  <2>6. \A t \in overtaken' : pc'[t] # "idle"
    BY <1>0, <2>1 DEF Earning
  <2>7. undone' \/ stage' + Cardinality(Pending') <= earned'
    BY <1>0, <1>p, <2>1, <2>4 DEF Earning
  <2>8. \A t \in Pending : t \in Session
    BY DEF Pending
  <2>9. undone' \/ \A t \in Pending' :
          pc'[t] = "read" => seen'[t] + Cardinality(Pending') <= earned'
    <3> SUFFICES ASSUME ~undone, NEW t \in Pending', pc'[t] = "read"
                 PROVE  seen'[t] + Cardinality(Pending') <= earned'
      BY <2>1
    <3>1. t \in Pending /\ pc[t] = "read" /\ seen[t] \in Nat
      BY <1>0, <2>5, <2>8
    <3>2. seen[t] + Cardinality(Pending) <= earned
      BY <3>1 DEF Earning
    <3> QED BY <1>0, <1>p, <2>1, <2>4, <3>1, <3>2
  <2> QED BY <2>6, <2>7, <2>9 DEF Earning
<1>3. ASSUME NEW s \in Session, AdvanceReads(s) PROVE Earning'
  <2>1. CASE stage < MaxStage
    <3>1. pc[s] = "cleared" /\ pc' = [pc EXCEPT ![s] = "read"]
          /\ seen' = [seen EXCEPT ![s] = stage]
          /\ UNCHANGED <<stage, earned, overtaken, undone>>
      BY <1>3, <2>1 DEF AdvanceReads
    <3>2. Pending' = Pending
      BY <1>0, <3>1 DEF Pending
    <3>3. \A t \in overtaken' : pc'[t] # "idle"
      BY <1>0, <3>1 DEF Earning
    <3>4. undone' \/ stage' + Cardinality(Pending') <= earned'
      BY <3>1, <3>2 DEF Earning
    <3>5. seen'[s] = stage /\ \A t \in Session : t # s => seen'[t] = seen[t] /\ pc'[t] = pc[t]
      BY <3>1 DEF TInv, TypeOK
    <3>6. \A t \in Pending : t \in Session
      BY DEF Pending
    <3>7. undone' \/ \A t \in Pending' :
            pc'[t] = "read" => seen'[t] + Cardinality(Pending') <= earned'
      BY <3>1, <3>2, <3>5, <3>6 DEF Earning
    <3> QED BY <3>3, <3>4, <3>7 DEF Earning
  <2>2. CASE ~(stage < MaxStage)
    <3>1. pc[s] = "cleared" /\ pc' = [pc EXCEPT ![s] = "idle"]
          /\ seen' = [seen EXCEPT ![s] = 0] /\ overtaken' = overtaken \ {s}
          /\ UNCHANGED <<stage, earned, undone>>
      BY <1>3, <2>2 DEF AdvanceReads
    <3>2. Pending' = Pending \ {s} /\ Cardinality(Pending') <= Cardinality(Pending)
          /\ Cardinality(Pending') \in Nat
      <4>1. /\ Pending' = Pending \ {s}
            /\ Cardinality(Pending') =
                 IF s \in overtaken THEN Cardinality(Pending) ELSE Cardinality(Pending) - 1
        BY <1>0, <3>1, PendingLoses
      <4>2. s \notin overtaken => s \in Pending
        BY <3>1 DEF Pending
      <4>3. IsFiniteSet(Pending')
        BY <4>1, PendingFinite, FS_RemoveElement
      <4>4. Cardinality(Pending') \in Nat
        BY <4>3, FS_CardinalityType
      <4> QED BY <1>p, <4>1, <4>4
    <3>3. \A t \in overtaken' : pc'[t] # "idle"
      BY <1>0, <3>1 DEF Earning
    <3>4. undone' \/ stage' + Cardinality(Pending') <= earned'
      BY <1>0, <1>p, <3>1, <3>2 DEF Earning
    <3>5. \A t \in Pending' : t \in Pending /\ seen'[t] = seen[t] /\ pc'[t] = pc[t] /\ seen[t] \in Nat
      BY <1>0, <3>1, <3>2 DEF Pending, TInv, TypeOK
    <3>6. undone' \/ \A t \in Pending' :
            pc'[t] = "read" => seen'[t] + Cardinality(Pending') <= earned'
      <4> SUFFICES ASSUME ~undone, NEW t \in Pending', pc'[t] = "read"
                   PROVE  seen'[t] + Cardinality(Pending') <= earned'
        BY <3>1
      <4>1. seen[t] + Cardinality(Pending) <= earned
        BY <3>5 DEF Earning
      <4>2. seen'[t] = seen[t] /\ seen[t] \in Nat /\ earned' = earned
        BY <3>1, <3>5
      <4> QED BY <1>0, <1>p, <3>2, <4>1, <4>2
    <3> QED BY <3>3, <3>4, <3>6 DEF Earning
  <2> QED BY <2>1, <2>2
<1>4. ASSUME NEW s \in Session, AdvanceWrites(s) PROVE Earning'
  <2>1. pc[s] = "read" /\ pc' = [pc EXCEPT ![s] = "idle"] /\ stage' = seen[s] + 1
        /\ seen' = [seen EXCEPT ![s] = 0] /\ undone' = (undone \/ s \in overtaken)
        /\ overtaken' = overtaken \ {s} /\ UNCHANGED earned
    BY <1>4 DEF AdvanceWrites
  <2>2. \A t \in overtaken' : pc'[t] # "idle"
    BY <1>0, <2>1 DEF Earning
  <2>3. CASE undone \/ s \in overtaken
    BY <2>1, <2>2, <2>3 DEF Earning
  <2>4. CASE ~undone /\ s \notin overtaken
    <3>1. /\ Pending' = Pending \ {s} /\ Cardinality(Pending') = Cardinality(Pending) - 1
      BY <1>0, <2>1, <2>4, PendingLoses
    <3>2. s \in Pending
      BY <2>1, <2>4 DEF Pending
    <3>3. seen[s] + Cardinality(Pending) <= earned
      BY <2>1, <2>4, <3>2 DEF Earning
    <3>4. stage' + Cardinality(Pending') <= earned'
      BY <1>0, <1>p, <2>1, <3>1, <3>3
    <3>5. \A t \in Pending' : t \in Pending /\ seen'[t] = seen[t] /\ pc'[t] = pc[t] /\ seen[t] \in Nat
      BY <1>0, <2>1, <3>1 DEF Pending, TInv, TypeOK
    <3>6. ASSUME NEW t \in Pending', pc'[t] = "read"
          PROVE  seen'[t] + Cardinality(Pending') <= earned'
      <4>1. seen[t] + Cardinality(Pending) <= earned
        BY <2>4, <3>5, <3>6 DEF Earning
      <4>2. seen'[t] = seen[t] /\ seen[t] \in Nat /\ earned' = earned
        BY <2>1, <3>5
      <4> QED BY <1>0, <1>p, <3>1, <4>1, <4>2
    <3> QED BY <2>2, <3>4, <3>6 DEF Earning
  <2> QED BY <2>3, <2>4
<1>5. ASSUME Pending' = {}, stage' \in Nat, stage' = earned', \A s \in overtaken' : pc'[s] # "idle"
      PROVE  Earning'
  <2>1. Cardinality({}) = 0
    BY FS_EmptySet
  <2> QED BY <1>5, <2>1 DEF Earning
<1>6. CASE StageRollback
  <2>1. overtaken' = {s \in Session : pc[s] # "idle"} /\ stage' = 0 /\ earned' = 0 /\ pc' = pc
    BY <1>6 DEF StageRollback
  <2>2. Pending' = {}
    BY <2>1 DEF Pending
  <2> QED BY <1>5, <2>1, <2>2
<1>7. CASE RestartProcess
  <2>1. overtaken' = {} /\ stage' = Configured /\ earned' = Configured
        /\ pc' = [s \in Session |-> "idle"]
    BY <1>7 DEF RestartProcess
  <2>2. Pending' = {}
    BY <2>1 DEF Pending
  <2>3. Configured \in Nat
    BY StageIs
  <2> QED BY <1>5, <2>1, <2>2, <2>3
<1>8. CASE Books \/ TriggerLive \/ LiveRollback \/ Breaker \/ UNCHANGED vars
  BY <1>1, <1>8 DEF Books, TriggerLive, LiveRollback, Breaker, vars, control
<1> QED BY <1>2, <1>3, <1>4, <1>6, <1>7, <1>8 DEF Next, Advance

\* A rollback to stage 0 is undone only by a session that was past its gates when it
\* came.  Otherwise, however many sessions advance at once and whatever each of them read,
\* each stage is one check that passed since.
THEOREM RollbacksStick == Spec => []RollbackSticks
<1>1. TInv /\ Earning => RollbackSticks
  <2> SUFFICES ASSUME TInv, Earning, ~undone PROVE stage <= earned
    BY DEF RollbackSticks
  <2>1. stage \in Nat /\ earned \in Nat
    BY StageIs DEF TInv, TypeOK
  <2>2. stage + Cardinality(Pending) <= earned
    BY DEF Earning
  <2> QED BY <2>1, <2>2, PendingFinite
<1> QED BY <1>1, InitTyped, NextTyped, EarningInit, EarningStep, PTL DEF Spec

-----------------------------------------------------------------------------
(***************************************************************************)
(* Gates.                                                                  *)
(***************************************************************************)

LEMMA SetsOfTrades ==
  ASSUME LedgerTypeOK
  PROVE  /\ IsFiniteSet(Positions) /\ Cardinality(Positions) = created /\ created \in Nat
         /\ \A S \in SUBSET Positions :
              /\ IsFiniteSet(S) /\ Cardinality(S) \in Nat /\ Cardinality(S) <= created
              /\ Cardinality(S) > 0 => S # {}
<1>1. created \in Nat
  BY Counts, Bounds
<1>2. IsFiniteSet(Positions) /\ Cardinality(Positions) = created
  <2>1. IsFiniteSet(1 .. created) /\ Cardinality(1 .. created) =
          IF 1 > created THEN 0 ELSE created - 1 + 1
    BY <1>1, FS_Interval
  <2> QED BY <1>1, <2>1 DEF Positions
<1>3. ASSUME NEW S \in SUBSET Positions
      PROVE  /\ IsFiniteSet(S) /\ Cardinality(S) \in Nat /\ Cardinality(S) <= created
             /\ Cardinality(S) > 0 => S # {}
  <2>1. IsFiniteSet(S) /\ Cardinality(S) <= created
    BY <1>2, FS_Subset
  <2>2. Cardinality(S) \in Nat
    BY <2>1, FS_CardinalityType
  <2>3. S = {} => Cardinality(S) = 0
    BY FS_EmptySet
  <2> QED BY <2>1, <2>2, <2>3
<1> QED BY <1>1, <1>2, <1>3

Evidence == 2 * created > MinPaper /\ \E t \in Positions : outcome[t] # ""

\* Every session past its check, and every stage above the configured one, has seen it.
EvidenceInv ==
  /\ (\E s \in Session : pc[s] # "idle") => Evidence
  /\ stage > Configured => Evidence

LEMMA Arithmetic ==
  /\ \A a, b \in Nat : a * b \in Nat
  /\ \A a, b \in Nat : 100 * a > b => a > 0
  /\ \A a, b, c \in Nat : a <= b /\ 2 * a > c => 2 * b > c
OBVIOUS

LEMMA CheckNeedsEvidence ==
  ASSUME LedgerTypeOK, CanAdvance
  PROVE  Evidence
<1>1. InWindow \in SUBSET Positions /\ Accurate \in SUBSET Positions
  BY DEF InWindow, Positions, Accurate
<1>2. /\ Cardinality(InWindow) \in Nat /\ Cardinality(InWindow) <= created
      /\ Cardinality(Accurate) \in Nat
      /\ Cardinality(Accurate) > 0 => Accurate # {}
  BY <1>1, SetsOfTrades
<1>3. Cardinality(Positions) = created /\ created \in Nat
  BY SetsOfTrades
<1>4. 2 * created > MinPaper
  <2>1. Cardinality(InWindow) + Cardinality(Positions) > MinPaper /\ MinPaper \in Nat
    BY TransitionAssumption DEF CanAdvance, PaperTrades
  <2> QED BY <1>2, <1>3, <2>1
<1>5. Accurate # {}
  <2>1. 100 * Cardinality(Accurate) > MinAccuracy * Cardinality(InWindow)
    BY DEF CanAdvance, AccuracyAbove
  <2>2. MinAccuracy * Cardinality(InWindow) \in Nat
    <3>1. MinAccuracy \in Nat
      BY TransitionAssumption
    <3> QED BY <1>2, <3>1, Arithmetic
  <2>3. Cardinality(Accurate) \in Nat
    BY <1>2
  <2>4. Cardinality(Accurate) > 0
    BY <2>1, <2>2, <2>3, Arithmetic
  <2> QED BY <1>2, <2>4
<1>6. \E t \in Positions : outcome[t] # ""
  <2>1. PICK t \in Accurate : TRUE
    BY <1>5
  <2>2. t \in Positions /\ outcome[t] # ""
    BY <1>1, <2>1 DEF InWindow, Accurate
  <2> QED BY <2>2
<1> QED BY <1>4, <1>6 DEF Evidence

LEMMA OutcomesStay ==
  ASSUME LedgerTypeOK, [Next]_vars
  PROVE  /\ created' \in Nat /\ created <= created'
         /\ \A t \in Id : outcome[t] # "" => outcome'[t] # ""
<1>0. created \in Nat
  BY Counts, Bounds
<1>1. ASSUME NEW k \in 1 .. MaxBatch, ProcessSignals(k)
      PROVE  created' \in Nat /\ created <= created' /\ UNCHANGED outcome
  <2>1. created' = created + k /\ k \in Nat /\ UNCHANGED outcome
    BY <1>1 DEF ProcessSignals, results
  <2> QED BY <1>0, <2>1
<1>2. ASSUME NEW u \in Updater, CommitUpdate(u), NEW t \in Id, outcome[t] # ""
      PROVE  UNCHANGED created /\ outcome'[t] # ""
  <2>1. update[u].outcome # ""
    BY <1>2 DEF CommitUpdate, Updating, LedgerTypeOK, Update, Side
  <2> QED BY <1>2, <2>1 DEF CommitUpdate
<1>3. ASSUME NEW u \in Updater, CommitUpdate(u) PROVE UNCHANGED created
  BY <1>3 DEF CommitUpdate
<1>4. ASSUME NEW u \in Updater, UpdateNext(u), ~CommitUpdate(u) PROVE UNCHANGED <<created, outcome>>
  BY <1>4 DEF UpdateNext, FindUnresolved, FindPosition, UpdateFails, results
<1>5. ASSUME \/ ShadowReset \/ Tick \/ UpdatesLost \/ UNCHANGED <<day, ledger>>
             \/ \E m \in Market : ReconciliationCloses(m)
      PROVE  UNCHANGED <<created, outcome>>
  BY <1>5 DEF ShadowReset, Tick, UpdatesLost, ReconciliationCloses, ledger, results
<1>6. LedgerNext \/ Tick \/ UpdatesLost \/ UNCHANGED <<day, ledger>>
  BY NextLedger DEF vars
<1>7. created' \in Nat /\ created <= created'
  BY <1>0, <1>1, <1>3, <1>4, <1>5, <1>6 DEF LedgerNext
<1>8. \A t \in Id : outcome[t] # "" => outcome'[t] # ""
  BY <1>1, <1>2, <1>4, <1>5, <1>6 DEF LedgerNext
<1> QED BY <1>7, <1>8

LEMMA EvidenceStays ==
  ASSUME LedgerTypeOK, Evidence, [Next]_vars
  PROVE  Evidence'
<1>0. created \in Nat
  BY Counts, Bounds
<1>1. created' \in Nat /\ created <= created'
  BY OutcomesStay
<1>2. MinPaper \in Nat /\ 2 * created > MinPaper
  BY TransitionAssumption DEF Evidence
<1>3. 2 * created' > MinPaper
  BY <1>0, <1>1, <1>2, Arithmetic
<1>4. PICK t \in 1 .. created : outcome[t] # ""
  BY DEF Evidence, Positions
<1>5. t \in Id /\ t \in 1 .. created'
  BY <1>0, <1>1, Counts
<1>6. outcome'[t] # ""
  BY <1>4, <1>5, OutcomesStay
<1>7. \E u \in 1 .. created' : outcome'[u] # ""
  BY <1>4, <1>5, <1>6
<1> QED BY <1>3, <1>7 DEF Evidence, Positions

LEMMA EvidenceStep == TInv /\ EvidenceInv /\ [Next]_vars => EvidenceInv'
<1> SUFFICES ASSUME TInv, EvidenceInv, [Next]_vars PROVE EvidenceInv'
  OBVIOUS
<1>0. LedgerTypeOK /\ pc \in [Session -> {"idle", "cleared", "read"}] /\ Configured \in Nat
  BY StageIs DEF TInv, TypeOK
<1>1. Evidence => EvidenceInv'
  BY <1>0, EvidenceStays DEF EvidenceInv
<1>2. ASSUME NEW s \in Session, AdvanceChecks(s) PROVE Evidence
  BY <1>0, <1>2, CheckNeedsEvidence DEF AdvanceChecks
<1>3. ASSUME NEW s \in Session, AdvanceReads(s) \/ AdvanceWrites(s) PROVE Evidence
  <2>1. pc[s] # "idle"
    BY <1>3 DEF AdvanceReads, AdvanceWrites
  <2> QED BY <2>1 DEF EvidenceInv
<1>4. ASSUME UNCHANGED <<pc, stage>>, ~Evidence PROVE EvidenceInv'
  <2>1. (\A s \in Session : pc[s] = "idle") /\ ~(stage > Configured)
    BY <1>4 DEF EvidenceInv
  <2> QED BY <1>4, <2>1 DEF EvidenceInv
<1>5. ASSUME StageRollback, ~Evidence PROVE EvidenceInv'
  <2>1. pc' = pc /\ stage' = 0 /\ \A s \in Session : pc[s] = "idle"
    BY <1>5 DEF StageRollback, EvidenceInv
  <2>2. ~(stage' > Configured)
    BY <1>0, <2>1
  <2> QED BY <2>1, <2>2 DEF EvidenceInv
<1>6. ASSUME RestartProcess PROVE EvidenceInv'
  <2>1. pc' = [s \in Session |-> "idle"] /\ stage' = Configured
    BY <1>6 DEF RestartProcess
  <2>2. ~(stage' > Configured)
    BY <1>0, <2>1
  <2> QED BY <2>1, <2>2 DEF EvidenceInv
<1>7. CASE Books \/ TriggerLive \/ LiveRollback \/ Breaker \/ UNCHANGED vars
  <2>1. UNCHANGED <<pc, stage>>
    BY <1>7 DEF Books, TriggerLive, LiveRollback, Breaker, vars, control
  <2> QED BY <1>1, <1>4, <2>1
<1> QED BY <1>1, <1>2, <1>3, <1>5, <1>6, <1>7 DEF Next, Advance

LEMMA EvidenceInit == Init => EvidenceInv
<1> SUFFICES ASSUME Init PROVE EvidenceInv
  OBVIOUS
<1>1. pc = [s \in Session |-> "idle"] /\ stage = Configured /\ Configured \in Nat
  BY StageIs DEF Init
<1>2. ~(stage > Configured)
  BY <1>1
<1> QED BY <1>1, <1>2 DEF EvidenceInv

\* However the sessions interleave with each other, with the books and with updates that
\* overlap, a stage above the configured one had a resolved result and half the paper
\* trades asked for behind it.
THEOREM StagesStandForEvidence == Spec => []StageHasEvidence
<1>1. TInv /\ EvidenceInv => StageHasEvidence
  BY DEF StageHasEvidence, EvidenceInv, Evidence
<1> QED BY <1>1, InitTyped, NextTyped, EvidenceInit, EvidenceStep, PTL DEF Spec

-----------------------------------------------------------------------------
(***************************************************************************)
(* Updates that do not overlap.  On a market that is not marked, there is  *)
(* one update at most, and what it found is unresolved still: nobody else  *)
(* has resolved it.                                                        *)
(***************************************************************************)

Alone ==
  \A u \in Updater : Updating(u) /\ update[u].market \notin overlapped =>
    /\ update[u].found \subseteq Unresolved(update[u].market)
    /\ OthersOn(u, update[u].market) = {}

LEMMA AlonePrimed ==
  ASSUME \A v \in Updater : \A n : Updating(v)' /\ n = update'[v].market /\ n \notin overlapped' =>
           update'[v].found \subseteq Unresolved(n)' /\ OthersOn(v, n)' = {}
  PROVE  Alone'
<1> SUFFICES ASSUME NEW v \in Updater, Updating(v)', (update[v].market \notin overlapped)'
             PROVE  /\ (update[v].found \subseteq Unresolved(update[v].market))'
                    /\ (OthersOn(v, update[v].market) = {})'
  BY DEF Alone
<1> QED BY DEF Unresolved, Of, OthersOn, Updating

LEMMA AloneInit == LedgerInit => Alone
BY DEF LedgerInit, Alone, Updating

\* The end of an update, which leaves what the others found as it is.
LEMMA AloneEnds ==
  ASSUME LedgerTypeOK, Found, Alone, NEW u \in Updater, Updating(u), Ends(u),
         \A n : n # update[u].market => Unresolved(n)' = Unresolved(n)
  PROVE  Alone'
<1> SUFFICES ASSUME NEW v \in Updater, Updating(v)', NEW n, n = update'[v].market,
                    n \notin overlapped'
             PROVE  update'[v].found \subseteq Unresolved(n)' /\ OthersOn(v, n)' = {}
  BY AlonePrimed
<1>1. update'[u] = NoUpdate /\ \A w \in Updater \ {u} : update'[w] = update[w]
  BY DEF Ends, LedgerTypeOK
<1>2. v # u /\ update'[v] = update[v] /\ Updating(v)
  BY <1>1 DEF Updating
<1>3. update[v].market # update[u].market
  <2> SUFFICES ASSUME update[v].market = update[u].market PROVE FALSE
    OBVIOUS
  <2>1. v \in OthersOn(u, update[u].market)
    BY <1>2 DEF OthersOn
  <2>2. overlapped' = overlapped
    BY <2>1 DEF Ends
  <2> QED BY <1>2, <2>1, <2>2 DEF Alone
<1>4. n = update[v].market /\ n \notin overlapped
  BY <1>2, <1>3 DEF Ends
<1>5. update[v].found \subseteq Unresolved(n) /\ OthersOn(v, n) = {}
  BY <1>2, <1>4 DEF Alone
<1>6. OthersOn(v, n)' \subseteq OthersOn(v, n)
  BY <1>1, <1>2 DEF OthersOn, Updating
<1>7. Unresolved(n)' = Unresolved(n)
  BY <1>3, <1>4
<1> QED BY <1>2, <1>5, <1>6, <1>7

LEMMA AloneStep ==
  ASSUME LedgerTypeOK, Found, Alone, LedgerNext \/ Tick \/ UpdatesLost \/ UNCHANGED <<day, ledger>>
  PROVE  Alone'
<1>0. created \in Nat /\ \A t \in 1 .. created : t \in Id
  BY Counts, Bounds
<1>1. ASSUME UNCHANGED updates, \A m : Unresolved(m) \subseteq Unresolved(m)' PROVE Alone'
  <2>1. UNCHANGED <<update, overlapped>>
    BY <1>1 DEF updates
  <2>2. \A u, m : OthersOn(u, m)' = OthersOn(u, m)
    BY <2>1 DEF OthersOn, Updating
  <2> QED BY <1>1, <2>1, <2>2 DEF Alone, Updating
<1>2. ASSUME NEW k \in 1 .. MaxBatch, ProcessSignals(k) PROVE Alone'
  <2>1. created' = created + k /\ k \in Nat /\ outcome' = outcome /\ UNCHANGED updates
    BY <1>2 DEF ProcessSignals, results
  <2>2. 1 .. created \subseteq 1 .. created'
    BY <1>0, <2>1
  <2>3. \A t \in 1 .. created : trade'[t] = trade[t]
    <3>1. \A t \in 1 .. created : t \in Id /\ t \notin created + 1 .. created + k
      BY <1>0
    <3> QED BY <1>2, <3>1 DEF ProcessSignals
  <2>4. \A m : Unresolved(m) \subseteq Unresolved(m)'
    BY <2>1, <2>2, <2>3 DEF Unresolved, Of
  <2> QED BY <1>1, <2>1, <2>4
<1>3. ASSUME NEW u \in Updater, NEW m \in Market, NEW o \in Side, FindUnresolved(u, m, o)
      PROVE  Alone'
  <2> SUFFICES ASSUME NEW v \in Updater, Updating(v)', NEW n, n = update'[v].market,
                      n \notin overlapped'
               PROVE  update'[v].found \subseteq Unresolved(n)' /\ OthersOn(v, n)' = {}
    BY AlonePrimed
  <2>1. /\ update'[u] = [market |-> m, outcome |-> o, at |-> day, found |-> Unresolved(m),
                         left |-> Cardinality(Unresolved(m)), closing |-> {}]
        /\ \A w \in Updater \ {u} : update'[w] = update[w]
        /\ ~Updating(u)
    BY <1>3 DEF FindUnresolved, LedgerTypeOK
  <2>2. Unresolved(n)' = Unresolved(n) /\ Unresolved(m)' = Unresolved(m)
    BY <1>3 DEF FindUnresolved, results, Unresolved, Of
  <2>3. overlapped' = IF OthersOn(u, m) = {} THEN overlapped ELSE overlapped \cup {m}
    BY <1>3 DEF FindUnresolved
  <2>4. CASE v = u
    <3>1. OthersOn(u, m) = {}
      BY <2>1, <2>3, <2>4
    <3>2. OthersOn(u, m)' = {}
      BY <2>1, <3>1 DEF OthersOn, Updating
    <3>3. n = m /\ update'[v].found = Unresolved(m)
      BY <2>1, <2>4
    <3> QED BY <2>2, <2>4, <3>2, <3>3
  <2>5. CASE v # u
    <3>1. update'[v] = update[v] /\ Updating(v)
      BY <2>1, <2>5 DEF Updating
    <3>2. update[v].market # m
      <4> SUFFICES ASSUME update[v].market = m PROVE FALSE
        OBVIOUS
      <4>1. v \in OthersOn(u, m)
        BY <2>5, <3>1 DEF OthersOn
      <4> QED BY <2>3, <3>1, <4>1
    <3>3. n = update[v].market /\ n \notin overlapped
      BY <2>3, <3>1
    <3>4. update[v].found \subseteq Unresolved(n) /\ OthersOn(v, n) = {}
      BY <3>1, <3>3 DEF Alone
    <3>5. OthersOn(v, n)' = {}
      BY <2>1, <3>1, <3>2, <3>3, <3>4 DEF OthersOn, Updating
    <3> QED BY <2>2, <3>1, <3>4, <3>5
  <2> QED BY <2>4, <2>5
<1>4. ASSUME NEW u \in Updater, FindPosition(u) PROVE Alone'
  <2>1. update[u] \in Update /\ Updating(u) /\ UNCHANGED <<created, trade, outcome, overlapped>>
    BY <1>4 DEF FindPosition, Updating, LedgerTypeOK, results
  <2>2. /\ update'[u].market = update[u].market /\ update'[u].found = update[u].found
        /\ \A w \in Updater \ {u} : update'[w] = update[w]
    BY <1>4, <2>1 DEF FindPosition, LedgerTypeOK, Update
  <2>3. \A n : Unresolved(n)' = Unresolved(n)
    BY <2>1 DEF Unresolved, Of
  <2>4. \A w \in Updater : Updating(w)' => /\ Updating(w)
                                         /\ update'[w].market = update[w].market
                                         /\ update'[w].found = update[w].found
    BY <2>1, <2>2 DEF Updating
  <2>5. \A w \in Updater : \A n : OthersOn(w, n)' \subseteq OthersOn(w, n)
    BY <2>4 DEF OthersOn
  <2> QED BY <2>1, <2>3, <2>4, <2>5 DEF Alone
<1>5. ASSUME NEW u \in Updater, CommitUpdate(u) PROVE Alone'
  <2>1. Updating(u) /\ Ends(u) /\ UNCHANGED <<created, trade>>
        /\ outcome' = [t \in Id |-> IF t \in update[u].found THEN update[u].outcome ELSE outcome[t]]
    BY <1>5 DEF CommitUpdate
  <2>2. \A n : n # update[u].market => \A t \in Of(n) : t \in Id /\ t \notin update[u].found
    BY <1>0, <2>1 DEF Found, Of
  <2>3. \A n : n # update[u].market => Unresolved(n)' = Unresolved(n)
    BY <2>1, <2>2 DEF Unresolved, Of
  <2> QED BY <2>1, <2>3, AloneEnds
<1>6. ASSUME NEW u \in Updater, UpdateFails(u) PROVE Alone'
  <2>1. Updating(u) /\ Ends(u) /\ \A n : Unresolved(n)' = Unresolved(n)
    BY <1>6 DEF UpdateFails, Unresolved, Of, results
  <2> QED BY <2>1, AloneEnds
<1>7. CASE ShadowReset \/ Tick \/ UNCHANGED <<day, ledger>> \/ \E m \in Market : ReconciliationCloses(m)
  <2>1. UNCHANGED updates /\ \A m : Unresolved(m)' = Unresolved(m)
    BY <1>7 DEF ShadowReset, Tick, ReconciliationCloses, ledger, results, Unresolved, Of
  <2> QED BY <1>1, <2>1
<1>8. CASE UpdatesLost
  BY <1>8 DEF UpdatesLost, Alone, Updating
<1> QED BY <1>2, <1>3, <1>4, <1>5, <1>6, <1>7, <1>8 DEF LedgerNext, UpdateNext

LEMMA ResolvedStays ==
  ASSUME LedgerTypeOK, Found, Alone, [Next]_vars, NEW t \in Id, outcome[t] # "",
         trade[t].market \notin overlapped
  PROVE  /\ outcome'[t] = outcome[t] /\ accurate'[t] = accurate[t]
         /\ resolvedAt'[t] = resolvedAt[t] /\ pnl'[t] = pnl[t]
<1>1. ASSUME NEW u \in Updater, CommitUpdate(u) PROVE t \notin update[u].found
  <2> SUFFICES ASSUME t \in update[u].found PROVE FALSE
    OBVIOUS
  <2>1. trade[t].market = update[u].market
    BY <1>1 DEF CommitUpdate, Found, Of
  <2>2. t \in Unresolved(update[u].market)
    BY <1>1, <2>1 DEF CommitUpdate, Alone
  <2> QED BY <2>2 DEF Unresolved
<1>2. ASSUME NEW u \in Updater, CommitUpdate(u)
      PROVE  /\ outcome'[t] = outcome[t] /\ accurate'[t] = accurate[t]
             /\ resolvedAt'[t] = resolvedAt[t] /\ pnl'[t] = pnl[t]
  <2>1. t \notin update[u].found /\ accurate[t] \in BOOLEAN
    BY <1>1, <1>2 DEF LedgerTypeOK
  <2> QED BY <1>2, <2>1 DEF CommitUpdate
<1>3. ASSUME \A u \in Updater : ~CommitUpdate(u) PROVE UNCHANGED results
  <2>1. LedgerNext \/ Tick \/ UpdatesLost \/ UNCHANGED <<day, ledger>>
    BY NextLedger DEF vars
  <2> QED BY <1>3, <2>1 DEF LedgerNext, UpdateNext, ProcessSignals, FindUnresolved, FindPosition,
                         UpdateFails, ShadowReset, ReconciliationCloses, Tick, UpdatesLost, ledger
<1> QED BY <1>2, <1>3 DEF results

\* A market resolved twice, or by feeds that disagree, is booked once, however its updates
\* fall between signals, resets, auto-closes and restarts; only while updates of that very
\* market overlap is a result rewritten.
THEOREM NoSecondResolution == Spec => ResolvedOnce
<1>1. TInv /\ Alone /\ [Next]_vars =>
        [\A t \in Id : outcome[t] # "" =>
           \/ trade[t].market \in overlapped
           \/ /\ outcome'[t] = outcome[t] /\ accurate'[t] = accurate[t]
              /\ resolvedAt'[t] = resolvedAt[t] /\ pnl'[t] = pnl[t]]_<<day, ledger>>
  BY ResolvedStays DEF TInv, TypeOK
<1>2. Init => Alone
  BY AloneInit DEF Init
<1>3. TInv /\ Alone /\ [Next]_vars => Alone'
  BY AloneStep, NextLedger DEF TInv, TypeOK, vars
<1> QED BY <1>1, <1>2, <1>3, InitTyped, NextTyped, PTL DEF Spec, ResolvedOnce

\* The commit of an update that is alone: as many results resolved as it found, and no
\* more positions closed.
LEMMA CommitKeepsSurplus ==
  ASSUME LedgerTypeOK, Found, Alone, NEW u \in Updater, CommitUpdate(u),
         NEW m \in Market, m \notin overlapped
  PROVE  Surplus(m)' >= Surplus(m)
<1> DEFINE mine == update[u].found
           mark == update[u].closing
           r == update[u].market
<1>1. /\ outcome' = [t \in Id |-> IF t \in mine THEN update[u].outcome ELSE outcome[t]]
      /\ isOpen' = [t \in Id |-> isOpen[t] /\ t \notin mark]
      /\ UNCHANGED <<created, trade>>
  BY DEF CommitUpdate
<1>2. /\ update[u] \in Update /\ Updating(u) /\ update[u].left = 0
      /\ update[u].outcome # ""
  BY DEF CommitUpdate, Updating, LedgerTypeOK, Update, Side
<1>3. /\ mine \subseteq Of(r) /\ mark \subseteq Of(r)
      /\ Cardinality(mark) + 0 <= Cardinality(mine)
  BY <1>2 DEF Found
<1>4. Of(m)' = Of(m) /\ \A t \in Of(m) : t \in Id
  BY <1>1, Counts DEF Of
<1>5. /\ IsFiniteSet(OpenOf(m)) /\ IsFiniteSet(Unresolved(m))
      /\ Cardinality(OpenOf(m)) \in Nat /\ Cardinality(Unresolved(m)) \in Nat
  BY UnresolvedCounts, FS_CardinalityType
<1> HIDE DEF mine, mark
<1>6. OpenOf(m)' = OpenOf(m) \ mark
  BY <1>1, <1>4 DEF OpenOf
<1>7. Unresolved(m)' = Unresolved(m) \ mine
  BY <1>1, <1>2, <1>4 DEF Unresolved
<1>8. CASE m # r
  <2>1. OpenOf(m) \ mark = OpenOf(m) /\ Unresolved(m) \ mine = Unresolved(m)
    BY <1>3, <1>8 DEF OpenOf, Unresolved, Of
  <2>2. Cardinality(OpenOf(m))' = Cardinality(OpenOf(m))
        /\ Cardinality(Unresolved(m))' = Cardinality(Unresolved(m))
    BY <1>6, <1>7, <2>1
  <2>3. Surplus(m)' = Cardinality(OpenOf(m))' - Cardinality(Unresolved(m))'
    BY DEF Surplus
  <2>4. Surplus(m)' = Surplus(m) /\ Surplus(m) \in Int
    BY <1>5, <2>2, <2>3 DEF Surplus
  <2> QED BY <2>4
<1>9. CASE m = r
  <2>1. mine \subseteq Unresolved(m)
    BY <1>2, <1>9 DEF Alone, mine
  <2>2. IsFiniteSet(mine) /\ Cardinality(mine) \in Nat
    BY <1>5, <2>1, FS_Subset, FS_CardinalityType
  <2>3. Cardinality(Unresolved(m) \ mine) = Cardinality(Unresolved(m)) - Cardinality(mine)
    <3>1. Unresolved(m) \cap mine = mine
      BY <2>1
    <3> QED BY <1>5, <3>1, FS_Difference
  <2>4. IsFiniteSet(mark) /\ Cardinality(mark) \in Nat
    <3>1. created \in Nat /\ Of(r) \subseteq 1 .. created
      BY Counts, Bounds DEF Of
    <3>2. IsFiniteSet(1 .. created) /\ mark \subseteq 1 .. created
      BY <1>3, <3>1, FS_Interval
    <3> QED BY <3>2, FS_Subset, FS_CardinalityType
  <2>5. Cardinality(OpenOf(m) \ mark) \in Nat
        /\ Cardinality(OpenOf(m) \ mark) >= Cardinality(OpenOf(m)) - Cardinality(mark)
    <3>1. OpenOf(m) \cap mark \subseteq mark
      OBVIOUS
    <3>2. /\ IsFiniteSet(OpenOf(m) \ mark)
          /\ Cardinality(OpenOf(m) \ mark) =
               Cardinality(OpenOf(m)) - Cardinality(OpenOf(m) \cap mark)
      BY <1>5, FS_Difference
    <3>3. Cardinality(OpenOf(m) \cap mark) <= Cardinality(mark)
          /\ IsFiniteSet(OpenOf(m) \cap mark)
      BY <2>4, <3>1, FS_Subset
    <3>4. Cardinality(OpenOf(m) \cap mark) \in Nat /\ Cardinality(OpenOf(m) \ mark) \in Nat
      BY <3>2, <3>3, FS_CardinalityType
    <3> QED BY <1>5, <2>4, <3>2, <3>3, <3>4
  <2> QED BY <1>3, <1>5, <1>6, <1>7, <2>2, <2>3, <2>4, <2>5 DEF Surplus
<1> QED BY <1>8, <1>9

\* However signals, resets and auto-closes fall between its queries, an update that is alone
\* on its market takes no position from a result it leaves unresolved.
THEOREM UpdatesTakeNoPosition == Spec => UpdatesCloseNoMore
<1>1. TInv /\ Alone /\ [Next]_vars =>
        [\A m \in Market :
           Surplus(m)' >= Surplus(m) \/ m \in overlapped \/ update' = update]_<<day, ledger>>
  <2> SUFFICES ASSUME LedgerTypeOK, Found, Alone, [Next]_vars, NEW m \in Market,
                      m \notin overlapped, update' # update
               PROVE  Surplus(m)' >= Surplus(m)
    BY DEF TInv, TypeOK
  <2>1. Surplus(m) \in Int
    BY UnresolvedCounts, FS_CardinalityType DEF Surplus
  <2>2. CASE \E u \in Updater : CommitUpdate(u)
    BY <2>2, CommitKeepsSurplus
  <2>3. CASE \A u \in Updater : ~CommitUpdate(u)
    <3>1. LedgerNext \/ Tick \/ UpdatesLost \/ UNCHANGED <<day, ledger>>
      BY NextLedger DEF vars
    <3>2. UNCHANGED <<created, trade, isOpen, outcome>>
      BY <2>3, <3>1 DEF LedgerNext, UpdateNext, ProcessSignals, FindUnresolved, FindPosition,
           UpdateFails, ShadowReset, ReconciliationCloses, Tick, UpdatesLost, ledger, results, updates
    <3>3. Surplus(m)' = Surplus(m)
      BY <3>2 DEF Surplus, OpenOf, Unresolved, Of
    <3> QED BY <2>1, <3>3
  <2> QED BY <2>2, <2>3
<1>2. Init => Alone
  BY AloneInit DEF Init
<1>3. TInv /\ Alone /\ [Next]_vars => Alone'
  BY AloneStep, NextLedger DEF TInv, TypeOK, vars
<1> QED BY <1>1, <1>2, <1>3, InitTyped, NextTyped, PTL DEF Spec, UpdatesCloseNoMore

-----------------------------------------------------------------------------
(***************************************************************************)
(* Circuit breakers.                                                       *)
(***************************************************************************)

Hours == 0 .. MaxHour \cup {NotTripped}

LEMMA ReasonIsOne ==
  ASSUME NEW d, NEW n, NEW l, NEW f, NEW k
  PROVE  GlobalReason(d, n, l, f, k) \in Reasons \cup {NotTripped}
BY DEF GlobalReason, Reasons

LEMMA BreakerInitTyped == BreakerInit => BreakerTypeOK
<1> SUFFICES ASSUME BreakerInit PROVE BreakerTypeOK
  OBVIOUS
<1>1. hour \in 0 .. MaxHour
  BY BreakerAssumption DEF BreakerInit
<1> QED BY <1>1 DEF BreakerInit, BreakerTypeOK

LEMMA BreakerStepTyped == BreakerTypeOK /\ [BreakerNext]_breakers => BreakerTypeOK'
<1> SUFFICES ASSUME BreakerTypeOK, [BreakerNext]_breakers PROVE BreakerTypeOK'
  OBVIOUS
<1>0. hour \in Hours /\ NotTripped \in Hours
  BY DEF BreakerTypeOK, Hours
<1>1. CASE GlobalCheck
  <2>1. halt' \in Reasons \cup {NotTripped}
    BY <1>1, ReasonIsOne DEF GlobalCheck, BreakerTypeOK
  <2> QED BY <1>1, <2>1 DEF GlobalCheck, BreakerTypeOK
<1>2. CASE GlobalTrigger \/ GlobalReset
  BY <1>2 DEF GlobalTrigger, GlobalReset, BreakerTypeOK, Reasons
<1>3. ASSUME NEW s \in Strategy, StrategyCheck(s) PROVE BreakerTypeOK'
  <2>1. triggered' \in [Strategy -> BOOLEAN]
    BY <1>3 DEF StrategyCheck, BreakerTypeOK
  <2>2. trippedAt' \in [Strategy -> Hours]
    BY <1>0, <1>3 DEF StrategyCheck, BreakerTypeOK, TripTime, Hours
  <2>3. review' \in [Strategy -> BOOLEAN]
    BY <1>3 DEF StrategyCheck, BreakerTypeOK
  <2> QED BY <1>3, <2>1, <2>2, <2>3 DEF StrategyCheck, BreakerTypeOK, Hours
<1>4. ASSUME NEW s \in Strategy, StrategyTrigger(s) PROVE BreakerTypeOK'
  BY <1>0, <1>4 DEF StrategyTrigger, BreakerTypeOK, TripTime, Hours
<1>5. ASSUME NEW s \in Strategy, StrategyReset(s) PROVE BreakerTypeOK'
  BY <1>5 DEF StrategyReset, BreakerTypeOK
<1>6. CASE HourPasses
  <2>1. hour' \in 0 .. MaxHour
    <3>1. hour \in 0 .. MaxHour /\ hour < MaxHour /\ hour' = hour + 1
      BY <1>6 DEF HourPasses, BreakerTypeOK
    <3> QED BY <3>1, BreakerAssumption
  <2> QED BY <1>6, <2>1 DEF HourPasses, BreakerTypeOK
<1>7. CASE BreakersRestart \/ UNCHANGED breakers
  BY <1>7 DEF BreakersRestart, breakers, BreakerTypeOK
<1> QED BY <1>1, <1>2, <1>3, <1>4, <1>5, <1>6, <1>7 DEF BreakerNext

\* No check, trip or reset leaves a reason, a time or a flag that the breakers do not have,
\* whatever a check is told.
THEOREM BreakerTypeCorrect == BreakerSpec => []BreakerTypeOK
BY BreakerInitTyped, BreakerStepTyped, PTL DEF BreakerSpec

ResetIsLate ==
  actor' = "code" =>
    /\ halt # NotTripped => halt' # NotTripped
    /\ \A s \in Strategy :
         /\ CheckAndAllow(s) /\ ~CheckAndAllow(s)' => trippedAt'[s] = hour
         /\ ~CheckAndAllow(s) /\ CheckAndAllow(s)' => AutoResetDue(s)

\* Whatever the checks are told and however often they are made, a strategy that was
\* tripped trades again without an operator or a restart only AutoResetAfter hours after
\* its latest trip, and the global breaker never lets go.
THEOREM BreakersResetLate == BreakerSpec => AutoResetIsLate
<1>1. BreakerTypeOK /\ [BreakerNext]_breakers => [ResetIsLate]_breakers
  <2> SUFFICES ASSUME BreakerTypeOK, BreakerNext PROVE ResetIsLate
    OBVIOUS
  <2>1. CASE GlobalCheck
    BY <2>1 DEF GlobalCheck, ResetIsLate, CheckAndAllow
  <2>2. ASSUME NEW s \in Strategy, StrategyCheck(s) PROVE ResetIsLate
    <3>1. \A r \in Strategy : r # s => triggered'[r] = triggered[r] /\ trippedAt'[r] = trippedAt[r]
      BY <2>2 DEF StrategyCheck, BreakerTypeOK
    <3>2. halt' = halt
      BY <2>2 DEF StrategyCheck
    <3>3. ~AutoResetDue(s) => (triggered[s] => triggered'[s])
      BY <2>2 DEF StrategyCheck, BreakerTypeOK
    <3>4. triggered[s] \/ ~triggered'[s] \/ trippedAt'[s] = hour
      BY <2>2 DEF StrategyCheck, BreakerTypeOK, TripTime
    <3> QED BY <3>1, <3>2, <3>3, <3>4 DEF ResetIsLate, CheckAndAllow
  <2>3. CASE HourPasses
    BY <2>3 DEF HourPasses, ResetIsLate, CheckAndAllow
  <2>4. CASE GlobalTrigger \/ GlobalReset \/ BreakersRestart
    BY <2>4 DEF GlobalTrigger, GlobalReset, BreakersRestart, ResetIsLate
  <2>5. ASSUME NEW s \in Strategy, StrategyTrigger(s) \/ StrategyReset(s) PROVE ResetIsLate
    BY <2>5 DEF StrategyTrigger, StrategyReset, ResetIsLate
  <2> QED BY <2>1, <2>2, <2>3, <2>4, <2>5 DEF BreakerNext
<1> QED BY <1>1, BreakerInitTyped, BreakerStepTyped, PTL
        DEF BreakerSpec, AutoResetIsLate, ResetIsLate
=============================================================================
