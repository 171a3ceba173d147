------------------------ MODULE ReconciliationProofs ------------------------
(***************************************************************************)
(* What holds of any number of overlapping reconciliations, positions and  *)
(* markets, on either database.                                            *)
(***************************************************************************)
EXTENDS Reconciliation, FiniteSetTheorems, TLAPS

\* A market has no more discrepancies than there are pairs of sources.
LEMMA DiscrepanciesBounded ==
  ASSUME NEW system, NEW api, NEW chain
  PROVE  Discrepancies(system, api, chain) \in 0 .. 3
<1> DEFINE pair == Pairs(system, api, chain)
           D == {i \in 1 .. 3 : Differs(pair[i][1], pair[i][2])}
<1> HIDE DEF pair
<1>1. IsFiniteSet(1 .. 3) /\ Cardinality(1 .. 3) = 3
  <2>1. 1 \in Int /\ 3 \in Int
    OBVIOUS
  <2>2. IsFiniteSet(1 .. 3) /\ Cardinality(1 .. 3) = IF 1 > 3 THEN 0 ELSE 3 - 1 + 1
    BY <2>1, FS_Interval, Zenon
  <2> QED BY <2>2
<1>2. IsFiniteSet(D) /\ Cardinality(D) <= 3 /\ Cardinality(D) \in Nat
  BY <1>1, FS_Subset, FS_CardinalityType
<1> HIDE DEF D
<1>3. Cardinality(D) \in 0 .. 3
  BY <1>2
<1> QED BY <1>3 DEF Discrepancies, D, pair

\* The end of a session leaves its locals well-typed.
LEMMA EndsTyped ==
  ASSUME TypeOK, NEW r \in Run, Ends(r), UNCHANGED <<database, position, orders>>,
         crashes' \in Nat
  PROVE  TypeOK'
BY DEF TypeOK, RunsTyped, Ends, DropLock

\* Every variable of the model keeps its type, and no market is closed more often
\* than it had discrepancies.
THEOREM ReconciliationTypeCorrect == Spec => []TypeOK
<1>1. Init => TypeOK
  BY DriftAssumption, DatabaseAssumption DEF Init, TypeOK, RunsTyped
<1>2. TypeOK /\ [Next]_vars => TypeOK'
  <2> SUFFICES ASSUME TypeOK, [Next]_vars PROVE TypeOK'
    OBVIOUS
  <2> USE DriftAssumption DEF TypeOK, RunsTyped
  <2>1. ASSUME NEW r \in Run, Begin(r) PROVE TypeOK'
    BY <2>1 DEF Begin, TakeLock
  <2>2. ASSUME NEW r \in Run, FetchSystem(r) PROVE TypeOK'
    BY <2>2 DEF FetchSystem
  <2>3. ASSUME NEW r \in Run, Detect(r) PROVE TypeOK'
    <3>1. items' \in [Run -> [Market -> 0 .. 3]]
      BY <2>3, DiscrepanciesBounded DEF Detect
    <3>2. drifting' \in [Run -> SUBSET Market]
      <4>1. drifting' \in {drifting, [drifting EXCEPT ![r] = {m \in Market : items'[r][m] > 0}]}
        BY <2>3 DEF Detect
      <4>2. {m \in Market : items'[r][m] > 0} \in SUBSET Market
        OBVIOUS
      <4> QED BY <4>1, <4>2
    <3> QED BY <2>3, <3>1, <3>2 DEF Detect
  <2>4. ASSUME NEW r \in Run, NEW m \in Market, Close(r, m) PROVE TypeOK'
    <3>1. position' \in [Position -> {"absent", "open", "closed", "reset"}]
      BY <2>4 DEF Close, Closes, OpenIn
    <3>2. items' \in [Run -> [Market -> 0 .. 3]]
      BY <2>4 DEF Close, Closes
    <3> QED BY <2>4, <3>1, <3>2 DEF Close, Closes, DropLock
  <2>5. ASSUME NEW r \in Run, LogClose(r) PROVE TypeOK'
    BY <2>5 DEF LogClose, TakeLock
  <2>6. ASSUME NEW r \in Run, Finish(r) PROVE TypeOK'
    BY <2>6 DEF Finish, DropLock
  <2>7. ASSUME NEW r \in Run, NEW m \in Market, CloseRefused(r, m) PROVE TypeOK'
    BY <2>7, EndsTyped DEF CloseRefused
  <2>8. ASSUME NEW r \in Run, Report(r) \/ LockTimeout(r) \/ Crash(r) PROVE TypeOK'
    BY <2>8, EndsTyped DEF Report, LockTimeout, Crash
  <2>9. ASSUME NEW p \in Position, Opens(p) PROVE TypeOK'
    BY <2>9 DEF Opens, locals
  <2>10. CASE ShadowReset
    BY <2>10 DEF ShadowReset, locals
  <2>11. CASE UNCHANGED vars
    BY <2>11 DEF vars, locals
  <2> QED BY <2>1, <2>2, <2>3, <2>4, <2>5, <2>6, <2>7, <2>8, <2>9, <2>10, <2>11
          DEF Next, RunStep
<1> QED BY <1>1, <1>2, PTL DEF Spec

-----------------------------------------------------------------------------
(***************************************************************************)
(* Closings and orders.  A closing adds one position at most to those of   *)
(* its market that are closed, and always an order.                        *)
(***************************************************************************)

\* No position is closed without an order, however runs overlap or die.
THEOREM EveryCloseIsOrderedAlways == Spec => []EveryCloseIsOrdered
<1>1. Init => EveryCloseIsOrdered
  <2> SUFFICES ASSUME Init, NEW m \in Market PROVE Cardinality(ClosedIn(m)) <= orders[m]
    BY DEF EveryCloseIsOrdered
  <2>1. ClosedIn(m) = {}
    BY DEF Init, ClosedIn
  <2> QED BY <2>1, FS_EmptySet DEF Init
<1>2. TypeOK /\ EveryCloseIsOrdered /\ [Next]_vars => EveryCloseIsOrdered'
  <2> SUFFICES ASSUME TypeOK, EveryCloseIsOrdered, [Next]_vars, NEW n \in Market
               PROVE  Cardinality(ClosedIn(n))' <= orders'[n]
    BY DEF EveryCloseIsOrdered
  <2>1. IsFiniteSet(ClosedIn(n)) /\ Cardinality(ClosedIn(n)) \in Nat
    <3>1. ClosedIn(n) \subseteq Position
      BY DEF ClosedIn
    <3> QED BY <3>1, PositionAssumption, FS_Subset, FS_CardinalityType
  <2>2. Cardinality(ClosedIn(n)) <= orders[n] /\ orders[n] \in Nat
    BY DEF EveryCloseIsOrdered, TypeOK
  <2>3. ASSUME UNCHANGED orders, ClosedIn(n)' = ClosedIn(n)
        PROVE  Cardinality(ClosedIn(n))' <= orders'[n]
    BY <2>2, <2>3
  <2>4. ASSUME NEW r \in Run, NEW m \in Market, Close(r, m)
        PROVE  Cardinality(ClosedIn(n))' <= orders'[n]
    <3>1. orders' = [orders EXCEPT ![m] = @ + 1] /\ orders \in [Market -> Nat]
      BY <2>4 DEF Close, TypeOK
    <3>2. CASE position' = position
      <4>1. ClosedIn(n)' = ClosedIn(n)
        BY <3>2 DEF ClosedIn
      <4>2. orders'[n] \in {orders[n], orders[n] + 1}
        BY <3>1
      <4> QED BY <4>1, <4>2, <2>1, <2>2
    <3>3. ASSUME NEW p \in OpenIn(m), position' = [position EXCEPT ![p] = "closed"]
          PROVE  Cardinality(ClosedIn(n))' <= orders'[n]
      <4>1. CASE n = m
        <5>1. ClosedIn(n)' = ClosedIn(n) \cup {p}
          BY <3>3, <4>1 DEF ClosedIn, OpenIn, TypeOK
        <5>2. p \notin ClosedIn(n)
          BY <3>3 DEF ClosedIn, OpenIn
        <5>3. Cardinality(ClosedIn(n) \cup {p}) = Cardinality(ClosedIn(n)) + 1
          BY <2>1, <5>2, FS_AddElement
        <5> QED BY <5>1, <5>3, <3>1, <2>1, <2>2, <4>1
      <4>2. CASE n # m
        <5>1. ClosedIn(n)' = ClosedIn(n)
          BY <3>3, <4>2 DEF ClosedIn, OpenIn, TypeOK
        <5> QED BY <5>1, <3>1, <2>2, <4>2
      <4> QED BY <4>1, <4>2
    <3> QED BY <2>4, <3>2, <3>3 DEF Close, Closes
  <2>5. ASSUME NEW p \in Position, Opens(p) PROVE ClosedIn(n)' = ClosedIn(n)
    BY <2>5 DEF Opens, ClosedIn, TypeOK
  <2>6. ASSUME ShadowReset PROVE ClosedIn(n)' = ClosedIn(n)
    BY <2>6 DEF ShadowReset, ClosedIn, TypeOK
  <2>7. ASSUME UNCHANGED position PROVE ClosedIn(n)' = ClosedIn(n)
    BY <2>7 DEF ClosedIn
  <2> QED BY <2>3, <2>4, <2>5, <2>6, <2>7
          DEF Next, RunStep, Begin, FetchSystem, Detect, CloseRefused, LogClose, Finish, Report,
              LockTimeout, Crash, Opens, ShadowReset, vars
<1> QED BY <1>1, <1>2, ReconciliationTypeCorrect, PTL DEF Spec

-----------------------------------------------------------------------------
(***************************************************************************)
(* Reports.  One closing at most is committed and not counted; the markets *)
(* found drifting are those already served and those with items left.      *)
(***************************************************************************)

Left(r) == {m \in Market : items[r][m] > 0}

ReportInv ==
  \A r \in Run :
    /\ pc[r] = "log" => made[r] = count[r] + 1
    /\ pc[r] # "log" => made[r] = count[r]
    /\ pc[r] \in {"close", "log", "report"} => drifting[r] = served[r] \cup Left(r)
    /\ pc[r] \in {"idle", "fetch", "detect"} => drifting[r] = {} /\ served[r] = {} /\ Left(r) = {}
    /\ pc[r] = "report" => Left(r) = {}

\* It holds at first.
LEMMA ReportInit == Init => ReportInv
BY DEF Init, ReportInv, Left

\* And every step keeps it: a run changes its own locals only.
LEMMA ReportStep == TypeOK /\ ReportInv /\ [Next]_vars => ReportInv'
<1> SUFFICES ASSUME TypeOK, ReportInv, [Next]_vars PROVE ReportInv'
  OBVIOUS
<1> USE DEF TypeOK, RunsTyped, ReportInv, Left
<1>1. ASSUME NEW r \in Run, Begin(r) PROVE ReportInv'
  BY <1>1 DEF Begin
<1>2. ASSUME NEW r \in Run, FetchSystem(r) PROVE ReportInv'
  BY <1>2 DEF FetchSystem
<1>3. ASSUME NEW r \in Run, Detect(r) PROVE ReportInv'
  <2>1. \/ UNCHANGED <<items, drifting>>
        \/ /\ drifting' = [drifting EXCEPT ![r] = Left(r)']
           /\ \A q \in Run : q # r => items'[q] = items[q]
    BY <1>3 DEF Detect
  <2> QED BY <1>3, <2>1 DEF Detect
<1>4. ASSUME NEW r \in Run, NEW m \in Market, Close(r, m) PROVE ReportInv'
  BY <1>4 DEF Close, Closes
<1>5. ASSUME NEW r \in Run, LogClose(r) PROVE ReportInv'
  BY <1>5 DEF LogClose
<1>6. ASSUME NEW r \in Run, Finish(r) PROVE ReportInv'
  BY <1>6 DEF Finish
<1>7. ASSUME NEW r \in Run, Ends(r) PROVE ReportInv'
  BY <1>7 DEF Ends
<1>8. CASE UNCHANGED locals
  BY <1>8 DEF locals
<1> QED BY <1>1, <1>2, <1>3, <1>4, <1>5, <1>6, <1>7, <1>8
        DEF Next, RunStep, CloseRefused, Report, LockTimeout, Crash, Opens, ShadowReset, vars

\* The inductive invariant as a property of the specification.
LEMMA ReportHolds == Spec => []ReportInv
BY ReportInit, ReportStep, ReconciliationTypeCorrect, PTL DEF Spec

\* A report counts exactly the closing orders its run has committed.
THEOREM CountIsAlwaysExact == Spec => []CountIsExact
<1>1. ReportInv => CountIsExact
  BY DEF ReportInv, CountIsExact
<1> QED BY <1>1, ReportHolds, PTL

\* A run that reports has ordered a closing in each market found drifting.
THEOREM ReportIsAlwaysComplete == Spec => []ReportIsComplete
<1>1. ReportInv => ReportIsComplete
  BY DEF ReportInv, ReportIsComplete
<1> QED BY <1>1, ReportHolds, PTL

-----------------------------------------------------------------------------
(***************************************************************************)
(* Without a tolerance a market never has exactly one discrepancy: of two  *)
(* sources that differ, the third differs from at least one.  So a closing *)
(* per discrepancy means at least two closings per market.                 *)
(***************************************************************************)

\* Three sources never disagree in one pair only.
THEOREM NeverOneDiscrepancy ==
  ASSUME Tolerance = 0, NEW system \in Nat \cup {Missing}, NEW api \in Nat \cup {Missing},
         NEW chain \in Nat \cup {Missing}
  PROVE  Discrepancies(system, api, chain) # 1
<1> DEFINE pair == Pairs(system, api, chain)
           D == {i \in 1 .. 3 : Differs(pair[i][1], pair[i][2])}
<1>1. \A x, y \in Nat \cup {Missing} : Differs(x, y) <=> x # y
  BY DriftAssumption DEF Differs, Gap
<1>2. /\ 1 \in D <=> system # api
      /\ 2 \in D <=> system # chain
      /\ 3 \in D <=> api # chain
  BY <1>1 DEF Pairs
<1>3. D \subseteq {1, 2, 3}
  OBVIOUS
<1>4. ASSUME NEW i \in {1, 2, 3} PROVE D # {i}
  BY <1>2, <1>4
<1>5. IsFiniteSet(D)
  <2>1. IsFiniteSet(1 .. 3)
    <3>1. 1 \in Int /\ 3 \in Int
      OBVIOUS
    <3> QED BY <3>1, FS_Interval, Zenon
  <2>2. D \subseteq 1 .. 3
    OBVIOUS
  <2> QED BY <2>1, <2>2, FS_Subset
<1> HIDE DEF D
<1>6. ASSUME Cardinality(D) = 1 PROVE FALSE
  <2>1. PICK i : D = {i}
    BY <1>5, <1>6, FS_Singleton
  <2> QED BY <2>1, <1>3, <1>4
<1> QED BY <1>6 DEF Discrepancies, D
=============================================================================
