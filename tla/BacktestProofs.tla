--------------------------- MODULE BacktestProofs ---------------------------
(***************************************************************************)
(* What holds of BacktestRunner.run for every history, every choice of     *)
(* signals and any number of strategies.                                   *)
(***************************************************************************)
EXTENDS Backtest, SumProofs

-----------------------------------------------------------------------------
(***************************************************************************)
(* The order in which positions are closed.                                *)
(***************************************************************************)

Below(S, i) == {j \in S : j < i}

LEMMA RanksDiffer ==
  ASSUME NEW S \in SUBSET Nat, IsFiniteSet(S), NEW i \in S
  PROVE  /\ Cardinality(Below(S, i)) \in 0 .. Cardinality(S) - 1
         /\ \A j \in S : j < i => Cardinality(Below(S, j)) < Cardinality(Below(S, i))
<1>1. Cardinality(S) \in Nat /\ IsFiniteSet(S \ {i}) /\ Cardinality(S \ {i}) = Cardinality(S) - 1
  BY FS_CardinalityType, FS_RemoveElement
<1>2. Below(S, i) \in SUBSET (S \ {i})
  BY DEF Below
<1>3. IsFiniteSet(Below(S, i)) /\ Cardinality(Below(S, i)) <= Cardinality(S) - 1
  BY <1>1, <1>2, FS_Subset
<1>4. Cardinality(Below(S, i)) \in Nat
  BY <1>3, FS_CardinalityType
<1>5. ASSUME NEW j \in S, j < i PROVE Cardinality(Below(S, j)) < Cardinality(Below(S, i))
  <2>1. j \notin Below(S, j) /\ Below(S, j) \cup {j} \in SUBSET Below(S, i)
    <3>1. j \notin Below(S, j) /\ j \in Below(S, i)
      BY <1>5 DEF Below
    <3>2. ASSUME NEW k \in Below(S, j) PROVE k \in Below(S, i)
      BY <1>5 DEF Below
    <3> QED
      BY <3>1, <3>2
  <2>2. Below(S, j) \in SUBSET S
    BY DEF Below
  <2>3. IsFiniteSet(Below(S, j)) /\ Cardinality(Below(S, j)) \in Nat
    <3>1. IsFiniteSet(Below(S, j))
      BY <2>2, FS_Subset
    <3> QED
      BY <3>1, FS_CardinalityType
  <2>4. Cardinality(Below(S, j) \cup {j}) = Cardinality(Below(S, j)) + 1
    BY <2>1, <2>3, FS_AddElement
  <2>5. Cardinality(Below(S, j) \cup {j}) <= Cardinality(Below(S, i))
    BY <1>3, <2>1, FS_Subset
  <2> QED
    BY <1>4, <2>3, <2>4, <2>5
<1> QED
  BY <1>1, <1>3, <1>4, <1>5

\* Every element of S is the k-th for one k.
LEMMA NthCounts ==
  ASSUME NEW S \in SUBSET Nat, IsFiniteSet(S)
  PROVE  /\ \A k \in 1 .. Cardinality(S) : Nth(S, k) \in S
         /\ \A k, l \in 1 .. Cardinality(S) : Nth(S, k) = Nth(S, l) => k = l
         /\ \A i \in S : \E k \in 1 .. Cardinality(S) : Nth(S, k) = i
<1> DEFINE n == Cardinality(S)
           rank == [i \in S |-> Cardinality(Below(S, i)) + 1]
<1>1. n \in Nat /\ IsFiniteSet(1 .. n) /\ Cardinality(1 .. n) = n
  BY FS_CardinalityType, FS_Interval
<1>2. \A i \in S : rank[i] \in 1 .. n
  BY <1>1, RanksDiffer
<1>3. ASSUME NEW i \in S, NEW j \in S, i # j PROVE rank[i] # rank[j]
  <2>1. i < j \/ j < i
    BY <1>3
  <2>2. Cardinality(Below(S, i)) \in Nat /\ Cardinality(Below(S, j)) \in Nat
    BY <1>1, RanksDiffer
  <2>3. Cardinality(Below(S, i)) # Cardinality(Below(S, j))
    BY <2>1, <2>2, RanksDiffer
  <2> QED
    BY <2>2, <2>3
<1>4. rank \in Injection(S, 1 .. n)
  BY <1>2, <1>3 DEF Injection, IsInjective
<1>5. rank \in Surjection(S, 1 .. n)
  BY <1>1, <1>4, FS_Injection
<1>6. ASSUME NEW k \in 1 .. n PROVE Nth(S, k) \in S /\ rank[Nth(S, k)] = k
  <2>1. PICK i \in S : rank[i] = k
    BY <1>5 DEF Surjection
  <2>2. Cardinality(Below(S, i)) \in Nat
    BY <1>1, RanksDiffer
  <2>3. Cardinality({j \in S : j < i}) = k - 1
    BY <2>1, <2>2 DEF Below
  <2>4. Nth(S, k) \in S /\ Cardinality({j \in S : j < Nth(S, k)}) = k - 1
    BY <2>3 DEF Nth
  <2> QED
    BY <2>4 DEF Below
<1>7. ASSUME NEW i \in S PROVE Nth(S, rank[i]) = i
  <2>1. Nth(S, rank[i]) \in S /\ rank[Nth(S, rank[i])] = rank[i]
    BY <1>2, <1>6
  <2> QED
    BY <1>3, <2>1
<1> HIDE DEF rank, n
<1> QED
  BY <1>2, <1>6, <1>7 DEF n

-----------------------------------------------------------------------------
(***************************************************************************)
(* The state of a run.                                                     *)
(***************************************************************************)

\* A snapshot that a strategy is shown.
Known(q) == q.yes \in Nat /\ q.no \in Nat /\ q.at \in Nat

Position == [market : Market, side : Side, entry : Nat, stake : Nat, at : Nat,
             strategy : Nat, open : BOOLEAN]
Trade    == [position : Nat, pnl : Int, exited : Nat]

Running ==
  /\ clock \in Nat /\ turn \in Nat /\ at \in Nat \ {0}
  /\ closes \in [Market -> Nat]
  /\ seen \in Seq(Market)
  /\ \A m \in Range(seen) : Known(quote[m])
  /\ positions \in Seq(Position)
  /\ \A i \in DOMAIN positions : positions[i].market \in Range(seen)

\* A market has one position, and what is at stake is within the exposure.
WithinLimits ==
  /\ \A i, j \in Held : positions[i].market = positions[j].market => i = j
  /\ StakesOf(Held) <= MaxExposure

\* A sweep leaves nothing that is over.
Swept ==
  phase = "record" => \A i \in Held :
    /\ quote[positions[i].market].at < closes[positions[i].market]
    /\ quote[positions[i].market].at - positions[i].at < MaxHolding

\* The trades are of different positions, those that are not open, and the curve has
\* the first of them.
Booked ==
  /\ trades \in Seq(Trade)
  /\ \A j, k \in DOMAIN trades : trades[j].position = trades[k].position => j = k
  /\ {trades[j].position : j \in DOMAIN trades} = DOMAIN positions \ Held
  /\ counted \in 0 .. Len(trades)
  /\ equity \in Seq(Int) /\ equity # <<>>
  /\ Last(equity) = Sum([j \in DOMAIN trades |-> trades[j].pnl], 1 .. counted)

\* Between timestamps the curve has them all; the end leaves nothing open.
Settled ==
  /\ phase \in {"data", "done"} => counted = Len(trades)
  /\ phase \in {"final", "done"} => Held = {}

LEMMA HeldFinite ==
  ASSUME Running
  PROVE  /\ DOMAIN positions = 1 .. Len(positions) /\ Len(positions) \in Nat
         /\ Held \in SUBSET Nat /\ Held \in SUBSET DOMAIN positions /\ IsFiniteSet(Held)
<1>1. DOMAIN positions = 1 .. Len(positions) /\ Len(positions) \in Nat
  BY DEF Running
<1>2. IsFiniteSet(1 .. Len(positions))
  BY <1>1, FS_Interval
<1>3. Held \in SUBSET DOMAIN positions
  BY DEF Held
<1>4. IsFiniteSet(Held)
  BY <1>1, <1>2, <1>3, FS_Subset
<1> QED
  BY <1>1, <1>3, <1>4

StakesIn(list, S) == MapThenSumSet(LAMBDA i : list[i].stake, S)

\* What is at stake, as a sum of a function.
LEMMA StakesAreSums ==
  ASSUME NEW S, IsFiniteSet(S), NEW list, NEW f, \A i \in S : f[i] = list[i].stake
  PROVE  StakesIn(list, S) = Sum(f, S)
<1> DEFINE Table(h) == h = [t \in SUBSET S |-> IF t = {} THEN 0 ELSE
             list[CHOOSE z \in t : TRUE].stake + h[t \ {CHOOSE z \in t : TRUE}]]
<1>1. StakesIn(list, S) = (CHOOSE h : Table(h))[S]
  BY DEF StakesIn, MapThenSumSet, MapThenFoldSet
<1>2. PICK g : SumTable(f, S, g)
  BY SumTableExists
<1>3. \A h : Table(h) <=> SumTable(f, S, h)
  BY DEF SumTable, Pick
<1> HIDE DEF Table
<1>4. SumTable(f, S, CHOOSE h : Table(h))
  BY <1>2, <1>3
<1> QED
  BY <1>1, <1>4, SumFrom

LEMMA StakesHeld ==
  ASSUME IsFiniteSet(Held), NEW f, \A i \in Held : f[i] = positions[i].stake
  PROVE  StakesOf(Held) = Sum(f, Held)
<1>1. StakesOf(Held) = StakesIn(positions, Held)
  BY DEF StakesOf, StakesIn
<1> QED
  BY <1>1, StakesAreSums

LEMMA StakesHeldNext ==
  ASSUME IsFiniteSet(Held'), NEW f, \A i \in Held' : f[i] = positions'[i].stake
  PROVE  StakesOf(Held)' = Sum(f, Held')
<1>1. StakesOf(Held)' = StakesIn(positions', Held')
  BY DEF StakesOf, StakesIn, MapThenSumSet, MapThenFoldSet
<1> QED
  BY <1>1, StakesAreSums

-----------------------------------------------------------------------------
(***************************************************************************)
(* Closing.                                                                *)
(***************************************************************************)

LEMMA TruncIsInt ==
  ASSUME NEW x \in Int, NEW d \in Nat \ {0}
  PROVE  Trunc(x, d) \in Int
<1>1. CASE x >= 0
  BY <1>1 DEF Trunc
<1>2. CASE x < 0
  <2> DEFINE y == 0 - x
  <2>1. y \in Int
    OBVIOUS
  <2> HIDE DEF y
  <2>2. y \div d \in Int
    BY <2>1
  <2>3. Trunc(x, d) = 0 - (y \div d)
    BY <1>2 DEF Trunc, y
  <2> QED
    BY <2>2, <2>3
<1> QED
  BY <1>1, <1>2

LEMMA PnlIsInt ==
  ASSUME NEW p \in Position, NEW exit \in Int
  PROVE  PnlAt(p, exit) \in Int
<1> DEFINE delta == IF p.side = "yes" THEN exit - p.entry ELSE p.entry - exit
           x == delta * p.stake
<1>1. p.entry \in Nat /\ p.stake \in Nat
  BY DEF Position
<1>2. delta \in Int
  BY <1>1
<1> HIDE DEF delta
<1>3. x \in Int
  BY <1>1, <1>2
<1>4. PnlAt(p, exit) = IF p.entry = 0 THEN 0 ELSE Trunc(x, p.entry)
  BY DEF PnlAt, delta
<1> HIDE DEF x
<1>5. CASE p.entry = 0
  BY <1>4, <1>5
<1>6. CASE p.entry # 0
  <2>1. p.entry \in Nat \ {0}
    BY <1>1, <1>6
  <2> QED
    BY <1>3, <1>4, <1>6, <2>1, TruncIsInt
<1> QED
  BY <1>5, <1>6

\* What closing the positions of S does to the positions.
LEMMA CloseMarks ==
  ASSUME Running, NEW S \in SUBSET Held,
         positions' = [i \in DOMAIN positions |->
           IF i \in S THEN [positions[i] EXCEPT !.open = FALSE] ELSE positions[i]]
  PROVE  /\ positions' \in Seq(Position) /\ DOMAIN positions' = DOMAIN positions
         /\ \A i \in DOMAIN positions :
              /\ positions'[i].market = positions[i].market /\ positions'[i].stake = positions[i].stake
              /\ positions'[i].at = positions[i].at
         /\ Held' = Held \ S
<1>1. DOMAIN positions = 1 .. Len(positions) /\ Len(positions) \in Nat
  BY HeldFinite
<1>2. \A i \in DOMAIN positions : positions[i] \in Position
  BY <1>1 DEF Running
<1>3. ASSUME NEW i \in DOMAIN positions
      PROVE  /\ positions'[i] \in Position /\ positions'[i].market = positions[i].market
             /\ positions'[i].stake = positions[i].stake /\ positions'[i].at = positions[i].at
             /\ positions'[i].open <=> (positions[i].open /\ i \notin S)
  <2>1. CASE i \in S
    <3>1. positions'[i] = [positions[i] EXCEPT !.open = FALSE]
      BY <2>1
    <3> QED
      BY <1>2, <2>1, <3>1 DEF Position
  <2>2. CASE i \notin S
    <3>1. positions'[i] = positions[i]
      BY <2>2
    <3> QED
      BY <1>2, <2>2, <3>1 DEF Position
  <2> QED
    BY <2>1, <2>2
<1>4. DOMAIN positions' = DOMAIN positions
  OBVIOUS
<1>5. positions' \in Seq(Position)
  <2>1. positions' \in [1 .. Len(positions) -> Position]
    BY <1>1, <1>3
  <2> QED
    BY <1>1, <2>1
<1>6. Held' = Held \ S
  BY <1>3, <1>4 DEF Held
<1> QED
  BY <1>3, <1>4, <1>5, <1>6

LEMMA CloseRuns ==
  ASSUME Running, WithinLimits, NEW S \in SUBSET Held,
         positions' = [i \in DOMAIN positions |->
           IF i \in S THEN [positions[i] EXCEPT !.open = FALSE] ELSE positions[i]],
         turn' \in Nat, at' \in Nat \ {0}, UNCHANGED <<clock, closes, seen, quote>>
  PROVE  Running' /\ WithinLimits'
<1> DEFINE f == [i \in DOMAIN positions |-> positions[i].stake]
<1>1. /\ positions' \in Seq(Position) /\ DOMAIN positions' = DOMAIN positions
      /\ \A i \in DOMAIN positions :
           positions'[i].market = positions[i].market /\ positions'[i].stake = positions[i].stake
      /\ Held' = Held \ S
  BY CloseMarks
<1>2. Running'
  BY <1>1 DEF Running, Range
<1>3. Held \in SUBSET DOMAIN positions /\ Held' \in SUBSET Held /\ IsFiniteSet(Held)
  BY <1>1, HeldFinite
<1>4. IsFiniteSet(Held')
  BY <1>3, FS_Subset
<1>5. \A i \in DOMAIN positions : f[i] \in Nat /\ f[i] = positions'[i].stake
  <2>1. \A i \in DOMAIN positions : positions[i] \in Position
    BY HeldFinite DEF Running
  <2>2. \A i \in DOMAIN positions : positions[i].stake \in Nat
    BY <2>1 DEF Position
  <2> QED
    BY <1>1, <2>2
<1> HIDE DEF f
<1>6. StakesOf(Held) = Sum(f, Held)
  <2>1. \A i \in Held : f[i] = positions[i].stake
    BY <1>3 DEF f
  <2> QED
    BY <1>3, <2>1, StakesHeld
<1>7. StakesOf(Held)' = Sum(f, Held')
  BY <1>3, <1>4, <1>5, StakesHeldNext
<1>8. Sum(f, Held') <= Sum(f, Held) /\ Sum(f, Held') \in Nat /\ Sum(f, Held) \in Nat
  BY <1>3, <1>4, <1>5, SumPart, SumNat
<1>9. StakesOf(Held)' <= MaxExposure
  BY <1>6, <1>7, <1>8, BacktestAssumption DEF WithinLimits
<1>10. \A i, j \in Held' : positions'[i].market = positions'[j].market => i = j
  BY <1>1, <1>3 DEF WithinLimits
<1> QED
  BY <1>2, <1>9, <1>10 DEF WithinLimits

\* The summands of the curve, and the sum of the first of them, when trades are added.
LEMMA CountedStays ==
  ASSUME NEW old \in Seq(Trade), NEW new \in Seq(Trade), Len(old) <= Len(new),
         \A j \in DOMAIN old : new[j] = old[j], NEW c \in 0 .. Len(old)
  PROVE  Sum([j \in DOMAIN new |-> new[j].pnl], 1 .. c) = Sum([j \in DOMAIN old |-> old[j].pnl], 1 .. c)
<1>1. Len(old) \in Nat /\ DOMAIN old = 1 .. Len(old) /\ Len(new) \in Nat /\ DOMAIN new = 1 .. Len(new)
  OBVIOUS
<1>2. \A j \in 1 .. c : j \in DOMAIN old /\ j \in DOMAIN new
  BY <1>1
<1>3. IsFiniteSet(1 .. c)
  BY <1>1, FS_Interval
<1> DEFINE f == [j \in DOMAIN new |-> new[j].pnl]
           g == [j \in DOMAIN old |-> old[j].pnl]
<1>4. \A j \in 1 .. c : f[j] = g[j]
  BY <1>2
<1> HIDE DEF f, g
<1>5. Sum(f, 1 .. c) = Sum(g, 1 .. c)
  BY <1>3, <1>4, SumsEqual
<1> QED
  BY <1>5 DEF f, g

LEMMA Concatenated ==
  ASSUME NEW T, NEW s \in Seq(T), NEW t \in Seq(T)
  PROVE  /\ s \o t \in Seq(T) /\ Len(s \o t) = Len(s) + Len(t)
         /\ DOMAIN (s \o t) = 1 .. Len(s) + Len(t)
         /\ \A j \in 1 .. Len(s) : (s \o t)[j] = s[j]
         /\ \A k \in 1 .. Len(t) : (s \o t)[Len(s) + k] = t[k]
OBVIOUS

\* One trade for each position of S, in their order.
LEMMA CloseBooks ==
  ASSUME Running, Booked, NEW S \in SUBSET Held,
         positions' = [i \in DOMAIN positions |->
           IF i \in S THEN [positions[i] EXCEPT !.open = FALSE] ELSE positions[i]],
         NEW booked \in [1 .. Cardinality(S) -> Trade],
         \A k \in 1 .. Cardinality(S) : booked[k].position = Nth(S, k),
         trades' = trades \o booked, UNCHANGED <<equity, counted>>
  PROVE  Booked'
<1> DEFINE n == Cardinality(S)
           l == Len(trades)
<1>1. S \in SUBSET Nat /\ IsFiniteSet(S) /\ S \in SUBSET DOMAIN positions
  BY HeldFinite, FS_Subset
<1>2. n \in Nat
  BY <1>1, FS_CardinalityType
<1>3. l \in Nat /\ DOMAIN trades = 1 .. l /\ trades \in Seq(Trade)
  BY DEF Booked
<1>4. booked \in Seq(Trade) /\ Len(booked) = n
  BY <1>2
<1>5. trades' \in Seq(Trade) /\ Len(trades') = l + n /\ DOMAIN trades' = 1 .. l + n
  BY <1>3, <1>4, Concatenated
<1>6. \A j \in 1 .. l : trades'[j] = trades[j]
  BY <1>3, <1>4, Concatenated
<1>7. \A k \in 1 .. n : l + k \in 1 .. l + n /\ trades'[l + k] = booked[k]
  <2>1. \A k \in 1 .. n : trades'[l + k] = booked[k]
    BY <1>3, <1>4, Concatenated
  <2> QED
    BY <1>2, <1>3, <2>1
<1>8. \A j \in 1 .. l + n : j \in 1 .. l \/ \E k \in 1 .. n : j = l + k
  <2> SUFFICES ASSUME NEW j \in 1 .. l + n, j \notin 1 .. l PROVE \E k \in 1 .. n : j = l + k
    OBVIOUS
  <2>1. j - l \in 1 .. n /\ j = l + (j - l)
    BY <1>2, <1>3
  <2> QED
    BY <2>1
<1>9. \A k \in 1 .. n : Nth(S, k) \in S
  BY <1>1, NthCounts
<1>10. \A j \in 1 .. l : trades[j].position \in DOMAIN positions \ Held
  BY <1>3 DEF Booked
<1>11. Held' = Held \ S /\ DOMAIN positions' = DOMAIN positions
  BY CloseMarks
<1> HIDE DEF n, l
<1>12. ASSUME NEW j \in DOMAIN trades', NEW k \in DOMAIN trades',
              trades'[j].position = trades'[k].position
       PROVE  j = k
  <2>2. ASSUME NEW x \in 1 .. l, NEW y \in 1 .. n PROVE trades'[x].position # trades'[l + y].position
    <3>1. trades'[x].position \notin Held
      BY <1>6, <1>10
    <3>2. trades'[l + y].position \in Held
      BY <1>7, <1>9 DEF n
    <3> QED
      BY <3>1, <3>2
  <2>3. ASSUME NEW x \in 1 .. n, NEW y \in 1 .. n, trades'[l + x].position = trades'[l + y].position
        PROVE  x = y
    <3>1. Nth(S, x) = Nth(S, y)
      BY <1>7, <2>3 DEF n
    <3> QED
      BY <1>1, <3>1, NthCounts DEF n
  <2>4. ASSUME NEW x \in 1 .. l, NEW y \in 1 .. l, trades'[x].position = trades'[y].position
        PROVE  x = y
    BY <1>3, <1>6, <2>4 DEF Booked
  <2>5. CASE j \in 1 .. l
    <3>1. CASE k \in 1 .. l
      BY <1>12, <2>4, <2>5, <3>1
    <3>2. ASSUME NEW y \in 1 .. n, k = l + y PROVE FALSE
      BY <1>12, <2>2, <2>5, <3>2
    <3> QED
      BY <1>5, <1>8, <3>1, <3>2
  <2>6. ASSUME NEW x \in 1 .. n, j = l + x PROVE j = k
    <3>1. CASE k \in 1 .. l
      BY <1>12, <2>2, <2>6, <3>1
    <3>2. ASSUME NEW y \in 1 .. n, k = l + y PROVE j = k
      BY <1>12, <2>3, <2>6, <3>2
    <3> QED
      BY <1>5, <1>8, <3>1, <3>2
  <2> QED
    BY <1>5, <1>8, <2>5, <2>6
<1>13. {trades'[j].position : j \in DOMAIN trades'} = DOMAIN positions' \ Held'
  <2>1. ASSUME NEW j \in DOMAIN trades' PROVE trades'[j].position \in DOMAIN positions' \ Held'
    <3>1. CASE j \in 1 .. l
      BY <1>6, <1>10, <1>11, <3>1
    <3>2. ASSUME NEW k \in 1 .. n, j = l + k PROVE trades'[j].position \in DOMAIN positions' \ Held'
      <4>1. trades'[j].position = Nth(S, k)
        BY <1>7, <3>2 DEF n
      <4> QED
        BY <1>1, <1>9, <1>11, <4>1
    <3> QED
      BY <1>5, <1>8, <3>1, <3>2
  <2>2. ASSUME NEW i \in DOMAIN positions' \ Held' PROVE \E j \in DOMAIN trades' : trades'[j].position = i
    <3>1. CASE i \in S
      <4>1. PICK k \in 1 .. n : Nth(S, k) = i
        BY <1>1, <3>1, NthCounts DEF n
      <4>2. l + k \in DOMAIN trades' /\ trades'[l + k].position = i
        <5>1. booked[k].position = Nth(S, k)
          BY DEF n
        <5> QED
          BY <1>5, <1>7, <4>1, <5>1
      <4> QED
        BY <4>2
    <3>2. CASE i \notin S
      <4>1. i \in DOMAIN positions \ Held
        BY <1>11, <3>2
      <4>2. PICK j \in DOMAIN trades : trades[j].position = i
        <5>1. i \in {trades[j].position : j \in DOMAIN trades}
          BY <4>1 DEF Booked
        <5> QED
          BY <5>1
      <4>3. j \in 1 .. l /\ j \in 1 .. l + n
        BY <1>2, <1>3
      <4>4. j \in DOMAIN trades' /\ trades'[j].position = i
        BY <1>5, <1>6, <4>2, <4>3
      <4> QED
        BY <4>4
    <3> QED
      BY <3>1, <3>2
  <2> QED
    BY <2>1, <2>2
<1>14. counted' \in 0 .. l /\ counted' \in 0 .. Len(trades')
  BY <1>2, <1>3, <1>5 DEF Booked, l
<1>15. Sum([j \in DOMAIN trades' |-> trades'[j].pnl], 1 .. counted)
         = Sum([j \in DOMAIN trades |-> trades[j].pnl], 1 .. counted)
  <2>1. Len(trades) <= Len(trades') /\ \A j \in DOMAIN trades : trades'[j] = trades[j]
    BY <1>2, <1>3, <1>5, <1>6 DEF l
  <2>2. counted \in 0 .. Len(trades)
    BY DEF Booked
  <2> QED
    BY <1>3, <1>5, <2>1, <2>2, CountedStays
<1>16. equity' \in Seq(Int) /\ equity' # <<>> /\ Last(equity)' = Last(equity)
  BY DEF Booked, Last
<1>17. Last(equity)' = Sum([j \in DOMAIN trades' |-> trades'[j].pnl], 1 .. counted')
  BY <1>15, <1>16 DEF Booked
<1> QED
  BY <1>5, <1>12, <1>13, <1>14, <1>16, <1>17 DEF Booked

\* _maybe_close_position of some of the open positions.
LEMMA ClosingKeeps ==
  ASSUME Running, WithinLimits, Booked, NEW S \in SUBSET Held, MaybeClose(S),
         turn' \in Nat, at' \in Nat \ {0}, UNCHANGED <<clock, closes, seen, quote, equity, counted>>
  PROVE  /\ Running' /\ WithinLimits' /\ Booked'
         /\ Held' = Held \ {i \in S : Exits(positions[i])}
         /\ \A i \in Held : positions'[i].market = positions[i].market /\ positions'[i].at = positions[i].at
<1> DEFINE R == {i \in S : Exits(positions[i])}
           booked == [k \in 1 .. Cardinality(R) |->
             [position |-> Nth(R, k), pnl |-> PnlAt(positions[Nth(R, k)], ExitPrice(positions[Nth(R, k)])),
              exited |-> quote[positions[Nth(R, k)].market].at]]
<1>1. positions' = [i \in DOMAIN positions |->
        IF i \in R THEN [positions[i] EXCEPT !.open = FALSE] ELSE positions[i]]
  BY DEF MaybeClose, CloseAt
<1>2. trades' = trades \o booked
  BY DEF MaybeClose, CloseAt
<1>3. R \in SUBSET Held
  OBVIOUS
<1> HIDE DEF R
<1>4. /\ IsFiniteSet(R) /\ R \in SUBSET Nat /\ R \in SUBSET DOMAIN positions
      /\ Held \in SUBSET DOMAIN positions
  BY <1>3, HeldFinite, FS_Subset
<1>5. ASSUME NEW i \in R
      PROVE  PnlAt(positions[i], ExitPrice(positions[i])) \in Int /\ quote[positions[i].market].at \in Nat
  <2>1. positions[i] \in Position
    BY <1>4 DEF Running
  <2>2. Known(quote[positions[i].market])
    BY <1>4 DEF Running
  <2>3. ExitPrice(positions[i]) \in Int /\ quote[positions[i].market].at \in Nat
    BY <2>2 DEF ExitPrice, PriceOf, Known
  <2> QED
    BY <2>1, <2>3, PnlIsInt
<1>6. booked \in [1 .. Cardinality(R) -> Trade] /\ \A k \in 1 .. Cardinality(R) : booked[k].position = Nth(R, k)
  <2>1. ASSUME NEW k \in 1 .. Cardinality(R)
        PROVE  booked[k] \in Trade /\ booked[k].position = Nth(R, k)
    <3>1. Nth(R, k) \in R
      BY <1>4, NthCounts
    <3> QED
      BY <1>4, <1>5, <3>1 DEF Trade
  <2> QED
    BY <2>1
<1> HIDE DEF booked
<1>7. Running' /\ WithinLimits'
  BY <1>1, <1>3, CloseRuns
<1>8. Booked'
  BY <1>1, <1>2, <1>3, <1>6, CloseBooks
<1>9. /\ Held' = Held \ R
      /\ \A i \in DOMAIN positions :
           positions'[i].market = positions[i].market /\ positions'[i].at = positions[i].at
  BY <1>1, <1>3, CloseMarks
<1> QED
  BY <1>4, <1>7, <1>8, <1>9 DEF R

\* What is left at the end.
LEMMA FinishKeeps ==
  ASSUME Running, WithinLimits, Booked, Finish
  PROVE  Running' /\ WithinLimits' /\ Booked' /\ Held' = {}
<1> DEFINE booked == [k \in 1 .. Cardinality(Held) |->
             [position |-> Nth(Held, k), pnl |-> PnlAt(positions[Nth(Held, k)], 5000), exited |-> clock]]
<1>1. positions' = [i \in DOMAIN positions |->
        IF i \in Held THEN [positions[i] EXCEPT !.open = FALSE] ELSE positions[i]]
  BY DEF Finish, CloseAt
<1>2. trades' = trades \o booked
  BY DEF Finish, CloseAt
<1>3. UNCHANGED <<clock, closes, seen, quote, turn, at, equity, counted>>
  BY DEF Finish
<1>4. /\ IsFiniteSet(Held) /\ Held \in SUBSET Nat /\ Held \in SUBSET DOMAIN positions
      /\ \A i \in Held : positions[i] \in Position
  BY HeldFinite DEF Running
<1>5. booked \in [1 .. Cardinality(Held) -> Trade]
      /\ \A k \in 1 .. Cardinality(Held) : booked[k].position = Nth(Held, k)
  <2>1. ASSUME NEW k \in 1 .. Cardinality(Held)
        PROVE  booked[k] \in Trade /\ booked[k].position = Nth(Held, k)
    <3>1. Nth(Held, k) \in Held
      BY <1>4, NthCounts
    <3>2. positions[Nth(Held, k)] \in Position
      BY <1>4, <3>1
    <3>3. PnlAt(positions[Nth(Held, k)], 5000) \in Int
      BY <3>2, PnlIsInt
    <3>4. clock \in Nat /\ Nth(Held, k) \in Nat
      BY <1>4, <3>1 DEF Running
    <3> QED
      BY <3>3, <3>4 DEF Trade
  <2> QED
    BY <2>1
<1> HIDE DEF booked
<1>6. Running' /\ WithinLimits'
  BY <1>1, <1>3, CloseRuns DEF Running
<1>7. Booked'
  BY <1>1, <1>2, <1>3, <1>5, CloseBooks
<1>8. Held' = {}
  BY <1>1, CloseMarks
<1> QED
  BY <1>6, <1>7, <1>8

-----------------------------------------------------------------------------
(***************************************************************************)
(* The steps of a run.                                                     *)
(***************************************************************************)

Inv == Running /\ WithinLimits /\ Swept /\ Booked /\ Settled

LEMMA BacktestBegins == BacktestInit => Inv
<1> SUFFICES ASSUME BacktestInit PROVE Inv
  OBVIOUS
<1> USE DEF BacktestInit
<1>1. Held = {} /\ DOMAIN positions = {} /\ DOMAIN trades = {} /\ Len(trades) = 0
  BY DEF Held
<1>2. Running
  <2>1. Range(seen) = {}
    BY DEF Range
  <2>2. closes \in [Market -> Nat]
    <3>1. \A d \in ClosingDays : d \in Nat
      BY BacktestAssumption
    <3> QED
      BY <3>1
  <2>3. seen \in Seq(Market) /\ positions \in Seq(Position)
    OBVIOUS
  <2> QED
    BY <1>1, <2>1, <2>2, <2>3 DEF Running
<1>3. WithinLimits
  <2>1. IsFiniteSet(Held)
    BY <1>1, FS_EmptySet
  <2>2. StakesOf(Held) = Sum(<<>>, Held)
    BY <1>1, <2>1, StakesHeld
  <2>3. StakesOf(Held) = 0
    BY <1>1, <2>2, SumOfNone
  <2> QED
    BY <1>1, <2>3, BacktestAssumption DEF WithinLimits
<1>4. Booked
  <2>1. 1 .. counted = {}
    OBVIOUS
  <2>2. Sum([j \in DOMAIN trades |-> trades[j].pnl], 1 .. counted) = 0
    BY <2>1, SumOfNone
  <2> QED
    BY <1>1, <2>2 DEF Booked, Last
<1>5. Swept /\ Settled
  BY <1>1 DEF Swept, Settled
<1> QED
  BY <1>2, <1>3, <1>4, <1>5 DEF Inv

\* A position is opened in a market that has none, within the exposure.
LEMMA OpeningKeeps ==
  ASSUME Running, WithinLimits, Booked, VisitSignal
  PROVE  Running' /\ WithinLimits' /\ Booked'
<1>1. PICK signal \in Signals :
        RiskCheck(quote[seen[at]], signal) /\ Open(seen[at], signal)
  BY DEF VisitSignal
<1> DEFINE m == seen[at]
           p == [market |-> m, side |-> signal.side, entry |-> PriceOf(quote[m], signal.side),
                 stake |-> Stake(signal), at |-> clock, strategy |-> turn, open |-> TRUE]
           l == Len(positions)
<1>2. /\ UNCHANGED <<phase, clock, closes, seen, quote, turn, trades, equity, counted>>
      /\ HeldIn(m) = {} /\ at <= Len(seen)
  BY DEF VisitSignal, Existing, Visiting
<1>3. positions' = Append(positions, p)
  BY <1>1 DEF Open
<1>4. l \in Nat /\ DOMAIN positions = 1 .. l /\ Held \in SUBSET DOMAIN positions /\ IsFiniteSet(Held)
      /\ Held \in SUBSET Nat
  BY HeldFinite
<1>5. /\ m \in Range(seen) /\ m \in Market /\ Known(quote[m])
      /\ \A i \in DOMAIN positions : positions[i] \in Position /\ positions[i].market \in Range(seen)
  BY <1>2, <1>4 DEF Running, Range
<1>6. Stake(signal) \in Nat /\ signal.side \in Side
  <2>1. signal.edge \in Int /\ signal.side \in Side /\ signal.edge >= MinEdge
    BY <1>1, BacktestAssumption DEF RiskCheck
  <2> QED
    BY <2>1, MarketAssumption DEF Stake, Lesser
<1>7. p \in Position /\ p.market = m /\ p.stake = Stake(signal) /\ p.open = TRUE
  <2>1. PriceOf(quote[m], signal.side) \in Nat /\ clock \in Nat /\ turn \in Nat
    BY <1>5 DEF PriceOf, Known, Running
  <2> QED
    BY <1>5, <1>6, <2>1 DEF Position
<1> HIDE DEF p, m, l
<1>8. /\ positions' \in Seq(Position) /\ DOMAIN positions' = 1 .. l + 1
      /\ \A i \in 1 .. l : positions'[i] = positions[i]
      /\ positions'[l + 1] = p
  <2>1. positions \in Seq(Position)
    BY DEF Running
  <2> QED
    BY <1>3, <1>7, <2>1 DEF l
<1>9. \A i \in DOMAIN positions' : i \in 1 .. l \/ i = l + 1
  BY <1>4, <1>8
<1>10. l + 1 \in DOMAIN positions' /\ l + 1 \notin 1 .. l /\ 1 .. l \in SUBSET DOMAIN positions'
  BY <1>4, <1>8
<1>11. Held' = Held \cup {l + 1}
  <2>1. ASSUME NEW i \in Held' PROVE i \in Held \cup {l + 1}
    BY <1>4, <1>8, <1>9 DEF Held
  <2>2. ASSUME NEW i \in Held PROVE i \in Held'
    BY <1>4, <1>8, <1>10 DEF Held
  <2>3. l + 1 \in Held'
    BY <1>7, <1>8, <1>10 DEF Held
  <2> QED
    BY <2>1, <2>2, <2>3
<1>12. Running'
  <2>1. \A i \in DOMAIN positions' : positions'[i].market \in Range(seen)
    BY <1>4, <1>5, <1>7, <1>8, <1>9
  <2>2. Range(seen)' = Range(seen)
    BY <1>2 DEF Range
  <2>3. at' \in Nat \ {0}
    BY DEF VisitSignal, Running
  <2> QED
    BY <1>2, <1>8, <2>1, <2>2, <2>3 DEF Running
<1>13. \A i, j \in Held' : positions'[i].market = positions'[j].market => i = j
  <2>1. \A i \in Held : positions[i].market # m
    BY <1>2 DEF HeldIn
  <2>2. \A i \in Held : positions'[i] = positions[i]
    BY <1>4, <1>8
  <2>3. positions'[l + 1].market = m
    BY <1>7, <1>8
  <2> QED
    BY <1>11, <2>1, <2>2, <2>3 DEF WithinLimits
<1>14. StakesOf(Held)' <= MaxExposure
  <2> DEFINE f == [i \in DOMAIN positions' |-> positions'[i].stake]
  <2>1. \A i \in DOMAIN positions' : f[i] \in Nat
    <3> HIDE DEF f
    <3>1. \A i \in 1 .. l : positions'[i] \in Position
      BY <1>4, <1>5, <1>8
    <3>2. \A i \in DOMAIN positions' : positions'[i] \in Position
      BY <1>7, <1>8, <1>9, <3>1
    <3> QED
      BY <3>2 DEF Position, f
  <2>2. \A i \in Held' : f[i] = positions'[i].stake
    BY DEF Held
  <2>3. \A i \in Held : f[i] = positions[i].stake
    BY <1>4, <1>8, <1>10
  <2>4. f[l + 1] = Stake(signal)
    BY <1>7, <1>8, <1>10
  <2> HIDE DEF f
  <2>5. IsFiniteSet(Held')
    BY <1>4, <1>11, FS_AddElement
  <2>6. StakesOf(Held)' = Sum(f, Held')
    BY <2>2, <2>5, StakesHeldNext
  <2>7. StakesOf(Held) = Sum(f, Held)
    BY <1>4, <2>3, StakesHeld
  <2>8. Sum(f, Held \cup {l + 1}) = f[l + 1] + Sum(f, Held)
    <3>1. \A i \in Held \cup {l + 1} : f[i] \in Int
      <4>1. Held' \in SUBSET DOMAIN positions'
        BY DEF Held
      <4> QED
        BY <1>11, <2>1, <4>1
    <3>2. l + 1 \notin Held
      BY <1>4, <1>10
    <3> QED
      BY <1>4, <3>1, <3>2, SumAdd
  <2>9. Sum(f, Held) \in Nat
    <3>1. \A i \in Held : f[i] \in Nat
      BY <1>4, <1>8, <1>10, <2>1
    <3> QED
      BY <1>4, <3>1, SumNat
  <2>10. StakesOf(Held) + Stake(signal) <= MaxExposure
    BY <1>1 DEF RiskCheck
  <2> QED
    BY <1>6, <1>11, <2>4, <2>6, <2>7, <2>8, <2>9, <2>10
<1>15. DOMAIN positions' \ Held' = DOMAIN positions \ Held
  <2>1. DOMAIN positions' = DOMAIN positions \cup {l + 1}
    BY <1>4, <1>8
  <2> QED
    BY <1>4, <1>10, <1>11, <2>1
<1>16. Booked'
  <2>1. {trades'[j].position : j \in DOMAIN trades'} = DOMAIN positions' \ Held'
    BY <1>2, <1>15 DEF Booked
  <2>2. Last(equity)' = Last(equity)
    BY <1>2 DEF Last
  <2>3. Last(equity)' = Sum([j \in DOMAIN trades' |-> trades'[j].pnl], 1 .. counted')
    BY <1>2, <2>2 DEF Booked
  <2> QED
    BY <1>2, <2>1, <2>3 DEF Booked
<1> QED
  BY <1>12, <1>13, <1>14, <1>16 DEF WithinLimits

\* New snapshots: a market that is seen has one.
LEMMA DataKeeps ==
  ASSUME Running, NextTimestamp
  PROVE  Running'
<1>1. PICK t \in Timestamps, M \in SUBSET Market \ {{}} :
        /\ t > clock /\ clock' = t
        /\ \E new \in [M -> Quotes] :
             quote' = [m \in Market |->
               IF m \in M
               THEN [yes |-> new[m].yes, no |-> new[m].no, spread |-> new[m].spread,
                     liquidity |-> new[m].liquidity, at |-> t]
               ELSE quote[m]]
        /\ \E s \in SetToSeqs(M \ Range(seen)) : seen' = seen \o s
  BY DEF NextTimestamp
<1>2. PICK new \in [M -> Quotes] :
        quote' = [m \in Market |->
          IF m \in M
          THEN [yes |-> new[m].yes, no |-> new[m].no, spread |-> new[m].spread,
                liquidity |-> new[m].liquidity, at |-> t]
          ELSE quote[m]]
  BY <1>1
<1>3. PICK s \in SetToSeqs(M \ Range(seen)) : seen' = seen \o s
  BY <1>1
<1> DEFINE New == M \ Range(seen)
<1>4. M \in SUBSET Market /\ t \in Nat
  BY BacktestAssumption
<1>5. IsFiniteSet(New) /\ Cardinality(New) \in Nat
  BY <1>4, BacktestAssumption, FS_Subset, FS_CardinalityType
<1>6. s \in [1 .. Cardinality(New) -> New]
  BY DEF SetToSeqs
<1> HIDE DEF New
<1>7. s \in Seq(New) /\ New \in SUBSET Market
  <2>1. New \in SUBSET Market
    BY <1>4 DEF New
  <2>2. s \in Seq(New)
    BY <1>5, <1>6
  <2> QED
    BY <2>1, <2>2
<1>8. seen \in Seq(Market) /\ s \in Seq(Market)
  <2>1. \A i \in 1 .. Cardinality(New) : s[i] \in Market
    BY <1>6, <1>7
  <2> QED
    BY <1>5, <1>6, <2>1 DEF Running
<1>9. seen' \in Seq(Market) /\ Len(seen') = Len(seen) + Len(s) /\ DOMAIN seen' = 1 .. Len(seen) + Len(s)
      /\ (\A j \in 1 .. Len(seen) : seen'[j] = seen[j])
      /\ \A k \in 1 .. Len(s) : seen'[Len(seen) + k] = s[k]
  BY <1>3, <1>8, Concatenated
<1>10. Len(seen) \in Nat /\ Len(s) \in Nat /\ DOMAIN seen = 1 .. Len(seen) /\ DOMAIN s = 1 .. Len(s)
  BY <1>8
<1>11. \A m \in Range(seen)' : m \in Range(seen) \/ m \in M
  <2> SUFFICES ASSUME NEW j \in DOMAIN seen' PROVE seen'[j] \in Range(seen) \/ seen'[j] \in M
    BY DEF Range
  <2>1. CASE j <= Len(seen)
    <3>1. j \in 1 .. Len(seen)
      BY <1>9, <1>10, <2>1
    <3> QED
      BY <1>9, <1>10, <3>1 DEF Range
  <2>2. CASE j > Len(seen)
    <3> DEFINE k == j - Len(seen)
    <3>1. k \in 1 .. Len(s) /\ j = Len(seen) + k
      BY <1>9, <1>10, <2>2
    <3> HIDE DEF k
    <3>2. s[k] \in New
      BY <1>7, <1>10, <3>1
    <3> QED
      BY <1>9, <3>1, <3>2 DEF New
  <2> QED
    BY <1>9, <1>10, <2>1, <2>2
<1>12. Range(seen) \in SUBSET Range(seen)'
  <2> SUFFICES ASSUME NEW j \in DOMAIN seen PROVE seen[j] \in Range(seen)'
    BY DEF Range
  <2>1. j \in DOMAIN seen' /\ seen'[j] = seen[j]
    BY <1>9, <1>10
  <2> QED
    BY <2>1 DEF Range
<1>13. \A m \in Range(seen)' : Known(quote[m])'
  <2> SUFFICES ASSUME NEW m \in Range(seen)' PROVE Known(quote[m])'
    OBVIOUS
  <2>1. m \in Market
    BY <1>9 DEF Range
  <2>2. CASE m \in M
    <3>1. new[m].yes \in Nat /\ new[m].no \in Nat
      BY <1>2, <2>2, BacktestAssumption
    <3>2. quote'[m] = [yes |-> new[m].yes, no |-> new[m].no, spread |-> new[m].spread,
                       liquidity |-> new[m].liquidity, at |-> t]
      BY <1>2, <2>1, <2>2
    <3> QED
      BY <1>4, <3>1, <3>2 DEF Known
  <2>3. CASE m \notin M
    <3>1. quote'[m] = quote[m] /\ m \in Range(seen)
      BY <1>2, <1>11, <2>1, <2>3
    <3> QED
      BY <3>1 DEF Known, Running
  <2> QED
    BY <2>2, <2>3
<1>14. /\ UNCHANGED <<closes, positions>> /\ turn' = 1 /\ at' = 1
  BY DEF NextTimestamp
<1>15. positions' \in Seq(Position) /\ \A i \in DOMAIN positions' : positions'[i].market \in Range(seen)'
  BY <1>12, <1>14 DEF Running
<1>16. clock' \in Nat /\ turn' \in Nat /\ at' \in Nat \ {0} /\ closes' \in [Market -> Nat]
  BY <1>1, <1>4, <1>14 DEF Running
<1>17. seen' \in Seq(Market)
  BY <1>9
<1> QED
  BY <1>13, <1>15, <1>16, <1>17 DEF Running

\* What the curve is given, as a sum of a function.
LEMMA PnlIsSum ==
  ASSUME trades \in Seq(Trade), NEW k \in Nat
  PROVE  PnlAfter(k) = Sum([j \in DOMAIN trades |-> trades[j].pnl], k + 1 .. Len(trades))
<1> DEFINE f == [j \in DOMAIN trades |-> trades[j].pnl]
           S == k + 1 .. Len(trades)
           Table(h) == h = [t \in SUBSET S |-> IF t = {} THEN 0 ELSE
             trades[CHOOSE z \in t : TRUE].pnl + h[t \ {CHOOSE z \in t : TRUE}]]
<1>1. IsFiniteSet(S) /\ S \in SUBSET DOMAIN trades
  BY FS_Interval
<1>2. PnlAfter(k) = (CHOOSE h : Table(h))[S]
  BY DEF PnlAfter, MapThenSumSet, MapThenFoldSet
<1>3. \A x \in S : f[x] = trades[x].pnl
  BY <1>1
<1> HIDE DEF f, S
<1>4. PICK g : SumTable(f, S, g)
  BY <1>1, SumTableExists
<1>5. \A h : Table(h) <=> SumTable(f, S, h)
  BY <1>3 DEF SumTable, Pick
<1> HIDE DEF Table
<1>6. SumTable(f, S, CHOOSE h : Table(h))
  BY <1>4, <1>5
<1>7. PnlAfter(k) = Sum(f, S)
  BY <1>1, <1>2, <1>6, SumFrom
<1> QED
  BY <1>7 DEF f, S

\* A sample of the curve: what came since the last one.
LEMMA RecordKeeps ==
  ASSUME Booked, UpdateEquity, UNCHANGED <<positions, trades>>
  PROVE  Booked' /\ counted' = Len(trades)
<1> DEFINE f == [j \in DOMAIN trades |-> trades[j].pnl]
           l == Len(trades)
           S == counted + 1 .. l
<1>1. l \in Nat /\ DOMAIN trades = 1 .. l /\ counted \in 0 .. l /\ counted \in Nat
      /\ \A j \in 1 .. l : f[j] \in Int
  <2>1. \A j \in DOMAIN trades : trades[j] \in Trade
    BY DEF Booked
  <2> QED
    BY <2>1 DEF Booked, Trade
<1>2. S \in SUBSET (1 .. l) /\ IsFiniteSet(S) /\ IsFiniteSet(1 .. counted)
  BY <1>1, FS_Interval
<1>3. PnlAfter(counted) = Sum(f, S)
  BY <1>1, PnlIsSum DEF Booked
<1>4. Sum(f, 1 .. l) = Sum(f, 1 .. counted) + Sum(f, S)
  <2>1. 1 .. l = (1 .. counted) \cup S /\ (1 .. counted) \cap S = {}
    BY <1>1
  <2> HIDE DEF f, S, l
  <2>2. \A x \in (1 .. counted) \cup S : f[x] \in Int
    BY <1>1, <2>1
  <2> QED
    BY <1>2, <2>1, <2>2, SumUnion
<1>5. PnlAfter(counted) \in Int
  <2> HIDE DEF f
  <2>1. \A x \in S : f[x] \in Int
    BY <1>1, <1>2
  <2> QED
    BY <1>2, <1>3, <2>1, SumType
<1>6. equity \in Seq(Int) /\ equity # <<>> /\ Last(equity) = Sum(f, 1 .. counted)
  BY DEF Booked
<1>7. Last(equity) \in Int
  BY <1>6 DEF Last
<1>8. equity' = Append(equity, Last(equity) + PnlAfter(counted)) /\ counted' = l
  BY DEF UpdateEquity
<1>9. equity' \in Seq(Int) /\ equity' # <<>> /\ Last(equity)' = Last(equity) + PnlAfter(counted)
  <2> DEFINE x == Last(equity) + PnlAfter(counted)
  <2>1. x \in Int /\ equity' = Append(equity, x)
    BY <1>5, <1>7, <1>8
  <2> HIDE DEF x
  <2>2. equity' \in Seq(Int) /\ equity' # <<>> /\ equity'[Len(equity')] = x
    BY <1>6, <2>1
  <2> QED
    BY <2>2 DEF Last, x
<1>10. Last(equity)' = Sum(f, 1 .. counted')
  <2> HIDE DEF f, S, l
  <2> QED
    BY <1>3, <1>4, <1>6, <1>8, <1>9
<1>11. [j \in DOMAIN trades' |-> trades'[j].pnl] = f
  OBVIOUS
<1>12. counted' \in 0 .. Len(trades')
  BY <1>1, <1>8
<1>13. {trades'[j].position : j \in DOMAIN trades'} = DOMAIN positions' \ Held'
  BY DEF Booked, Held
<1> QED
  BY <1>8, <1>9, <1>10, <1>11, <1>12, <1>13 DEF Booked

\* A step that changes neither what is open nor what is at stake.
LEMMA StakesStay ==
  ASSUME WithinLimits, UNCHANGED positions
  PROVE  WithinLimits' /\ Held' = Held
<1>1. Held' = Held
  BY DEF Held
<1>2. StakesOf(Held)' = StakesOf(Held)
  BY DEF Held, StakesOf, MapThenSumSet, MapThenFoldSet
<1> QED
  BY <1>1, <1>2 DEF WithinLimits

LEMMA BooksStay ==
  ASSUME Booked, UNCHANGED <<positions, trades, equity, counted>>
  PROVE  Booked'
<1>1. Held' = Held /\ Last(equity)' = Last(equity)
  BY DEF Held, Last
<1>2. {trades'[j].position : j \in DOMAIN trades'} = DOMAIN positions' \ Held'
  BY <1>1 DEF Booked
<1>3. Last(equity)' = Sum([j \in DOMAIN trades' |-> trades'[j].pnl], 1 .. counted')
  BY <1>1 DEF Booked
<1> QED
  BY <1>2, <1>3 DEF Booked

LEMMA RunningStays ==
  ASSUME Running, UNCHANGED <<clock, closes, seen, quote, turn, positions>>, at' \in Nat \ {0}
  PROVE  Running'
<1>1. Range(seen)' = Range(seen) /\ \A m : Known(quote[m])' <=> Known(quote[m])
  BY DEF Range, Known
<1> QED
  BY <1>1 DEF Running

LEMMA BacktestGoesOn == Inv /\ [BacktestNext]_backtest => Inv'
<1> SUFFICES ASSUME Inv, [BacktestNext]_backtest PROVE Inv'
  OBVIOUS
<1>a. Running /\ WithinLimits /\ Swept /\ Booked /\ Settled
  BY DEF Inv
<1>1. CASE NextTimestamp
  <2>1. UNCHANGED <<positions, trades, equity, counted>> /\ phase' = "visit"
    BY <1>1 DEF NextTimestamp
  <2>2. Swept' /\ Settled'
    BY <2>1 DEF Swept, Settled
  <2> QED
    BY <1>a, <1>1, <2>1, <2>2, DataKeeps, StakesStay, BooksStay DEF Inv
<1>2. CASE VisitHeld
  <2>1. UNCHANGED <<phase, clock, closes, seen, quote, turn, equity, counted>> /\ at' = at + 1
        /\ phase = "visit" /\ MaybeClose(HeldIn(seen[at]))
    BY <1>2 DEF VisitHeld, Visiting
  <2>2. HeldIn(seen[at]) \in SUBSET Held /\ turn' \in Nat /\ at' \in Nat \ {0}
    BY <1>a, <2>1 DEF HeldIn, Running
  <2>3. Running' /\ WithinLimits' /\ Booked'
    BY <1>a, <2>1, <2>2, ClosingKeeps
  <2>4. Swept' /\ Settled'
    BY <2>1 DEF Swept, Settled
  <2> QED
    BY <2>3, <2>4 DEF Inv
<1>3. CASE VisitIdle
  <2>1. UNCHANGED <<phase, clock, closes, seen, quote, turn, positions, trades, equity, counted>>
        /\ at' = at + 1 /\ phase = "visit"
    BY <1>3 DEF VisitIdle, Visiting
  <2>2. at' \in Nat \ {0}
    BY <1>a, <2>1 DEF Running
  <2>3. Swept' /\ Settled'
    BY <2>1 DEF Swept, Settled
  <2> QED
    BY <1>a, <2>1, <2>2, <2>3, RunningStays, StakesStay, BooksStay DEF Inv
<1>4. CASE VisitSignal
  <2>1. phase' = "visit"
    BY <1>4 DEF VisitSignal, Visiting
  <2>2. Swept' /\ Settled'
    BY <2>1 DEF Swept, Settled
  <2> QED
    BY <1>a, <1>4, <2>2, OpeningKeeps DEF Inv
<1>5. CASE Sweep
  <2>1. /\ UNCHANGED <<clock, closes, seen, quote, equity, counted>>
        /\ turn' = turn + 1 /\ at' = 1 /\ MaybeClose(Held) /\ phase' \in {"visit", "record"}
    BY <1>5 DEF Sweep
  <2>2. turn' \in Nat /\ at' \in Nat \ {0} /\ Held \in SUBSET Held
    BY <1>a, <2>1 DEF Running
  <2>3. /\ Running' /\ WithinLimits' /\ Booked'
        /\ Held' = Held \ {i \in Held : Exits(positions[i])}
        /\ \A i \in Held : positions'[i].market = positions[i].market /\ positions'[i].at = positions[i].at
    BY <1>a, <2>1, <2>2, ClosingKeeps
  <2>4. ASSUME NEW i \in Held'
        PROVE  /\ quote'[positions'[i].market].at < closes'[positions'[i].market]
               /\ quote'[positions'[i].market].at - positions'[i].at < MaxHolding
    <3> DEFINE m == positions[i].market
    <3>1. i \in Held /\ ~ Exits(positions[i])
      BY <2>3
    <3>2. positions[i] \in Position /\ Known(quote[m]) /\ m \in Market
      <4>1. i \in DOMAIN positions
        BY <3>1 DEF Held
      <4>2. positions[i] \in Position /\ Known(quote[m])
        BY <1>a, <4>1 DEF Running
      <4> QED
        BY <4>2 DEF Position
    <3>3. quote[m].at \in Nat /\ positions[i].at \in Nat /\ closes[m] \in Nat /\ MaxHolding \in Nat
      BY <1>a, <3>2, BacktestAssumption DEF Position, Known, Running
    <3>4. ~ (quote[m].at >= closes[m]) /\ ~ (quote[m].at - positions[i].at >= MaxHolding)
      BY <3>1 DEF Exits, Resolved, Expired
    <3>5. positions'[i].market = m /\ positions'[i].at = positions[i].at
      BY <2>3, <3>1
    <3> HIDE DEF m
    <3> QED
      BY <2>1, <3>3, <3>4, <3>5
  <2>5. Swept' /\ Settled'
    BY <2>1, <2>4 DEF Swept, Settled
  <2> QED
    BY <2>3, <2>5 DEF Inv
<1>6. CASE Record
  <2>1. /\ UNCHANGED <<clock, closes, seen, quote, turn, at, positions, trades>> /\ UpdateEquity
        /\ phase \in {"record", "final"}
        /\ phase' = IF phase = "record" THEN "data" ELSE "done"
    BY <1>6 DEF Record
  <2>2. Booked' /\ counted' = Len(trades)
    BY <1>a, <2>1, RecordKeeps
  <2>3. at' \in Nat \ {0}
    BY <1>a, <2>1 DEF Running
  <2>4. Running' /\ WithinLimits' /\ Held' = Held
    BY <1>a, <2>1, <2>3, RunningStays, StakesStay
  <2>5. Swept' /\ Settled'
    BY <1>a, <2>1, <2>2, <2>4 DEF Swept, Settled
  <2> QED
    BY <2>2, <2>4, <2>5 DEF Inv
<1>7. CASE Finish
  <2>1. Running' /\ WithinLimits' /\ Booked' /\ Held' = {}
    BY <1>a, <1>7, FinishKeeps
  <2>2. phase' = "final"
    BY <1>7 DEF Finish
  <2>3. Swept' /\ Settled'
    BY <2>1, <2>2 DEF Swept, Settled
  <2> QED
    BY <2>1, <2>3 DEF Inv
<1>8. CASE NextWindow
  <2>1. BacktestInit'
    BY <1>8 DEF NextWindow, BacktestInit
  <2> QED
    BY <2>1, BacktestBegins, PTL
<1>9. CASE UNCHANGED backtest
  <2>1. UNCHANGED <<phase, clock, closes, seen, quote, turn, at, positions, trades, equity, counted>>
    BY <1>9 DEF backtest
  <2>2. at' \in Nat \ {0}
    BY <1>a, <2>1 DEF Running
  <2>3. Running' /\ WithinLimits' /\ Held' = Held /\ Booked'
    BY <1>a, <2>1, <2>2, RunningStays, StakesStay, BooksStay
  <2>4. Swept' /\ Settled'
    BY <1>a, <2>1, <2>3 DEF Swept, Settled
  <2> QED
    BY <2>3, <2>4 DEF Inv
<1> QED
  BY <1>1, <1>2, <1>3, <1>4, <1>5, <1>6, <1>7, <1>8, <1>9 DEF BacktestNext

LEMMA BacktestInvariant == BacktestSpec => []Inv
  BY BacktestBegins, BacktestGoesOn, PTL DEF BacktestSpec

\* When a timestamp has been simulated, no open position of any strategy is in a market
\* that is over or was held for seven days on fresh data; a market has one position, and
\* the exposure is kept, though it is only checked when a position is opened.
THEOREM PositionsEnd == BacktestSpec => []NothingOutlivesItsMarket
<1>1. ASSUME Inv PROVE NothingOutlivesItsMarket
  <2>a. Running /\ WithinLimits /\ Swept
    BY <1>1 DEF Inv
  <2>1. ASSUME phase = "record", NEW i \in Held
        PROVE  LET p == positions[i] IN
               /\ quote[p.market].at < closes[p.market]
               /\ quote[p.market].at = clock => clock - p.at < MaxHolding
    BY <2>a, <2>1 DEF Swept
  <2>2. ASSUME NEW m \in Market PROVE Cardinality(HeldIn(m)) <= 1
    <3>1. CASE HeldIn(m) = {}
      BY <3>1, FS_EmptySet
    <3>2. CASE HeldIn(m) # {}
      <4>1. PICK i \in HeldIn(m) : TRUE
        BY <3>2
      <4>2. \A j \in HeldIn(m) : j = i
        BY <2>a, <4>1 DEF HeldIn, WithinLimits
      <4>3. HeldIn(m) = {i}
        BY <4>1, <4>2
      <4> QED
        BY <4>3, FS_Singleton
    <3> QED
      BY <3>1, <3>2
  <2> QED
    BY <2>a, <2>1, <2>2 DEF NothingOutlivesItsMarket, WithinLimits
<1> QED
  BY <1>1, BacktestInvariant, PTL

\* The curve between timestamps is exactly the trades closed so far, whatever strategies,
\* visits and sweeps did; every closed position has one trade, and nothing stays open.
THEOREM CurveIsTrades == BacktestSpec => []BooksBalance
<1>1. ASSUME Inv PROVE BooksBalance
  <2>a. Running /\ Booked /\ Settled
    BY <1>1 DEF Inv
  <2>1. ASSUME phase \in {"data", "done"} PROVE Last(equity) = PnlAfter(0)
    <3>1. PnlAfter(0) = Sum([j \in DOMAIN trades |-> trades[j].pnl], 0 + 1 .. Len(trades))
      BY <2>a, PnlIsSum DEF Booked
    <3> QED
      BY <2>a, <2>1, <3>1 DEF Booked, Settled
  <2> QED
    BY <2>a, <2>1 DEF BooksBalance, Booked, Settled
<1> QED
  BY <1>1, BacktestInvariant, PTL
=============================================================================
