--------------------------- MODULE Reconciliation ---------------------------
(***************************************************************************)
(* ReconciliationService.reconcile: the open positions of the database are *)
(* compared with what the Polymarket API and the CTF contract report, and  *)
(* if the total drift passes the threshold, every drifting market of the   *)
(* database gets closing orders, each committed on its own.                *)
(*                                                                         *)
(* Every POST /reconciliation/run is a session, and several may overlap.   *)
(* On SQLite a session that has logged something holds the write lock      *)
(* until it commits; the lock is free after each closing, and a session    *)
(* that does not get it back in five seconds is lost.  On PostgreSQL the   *)
(* closing order, whose decision_id_fk is 0, violates its foreign key: the *)
(* flush fails, and so does logging the failure in the same session.       *)
(*                                                                         *)
(* Definitions commented "Variant" are mistakes the code might have made,  *)
(* kept to see that the properties notice them.                            *)
(***************************************************************************)
EXTENDS Integers, FiniteSets, FiniteSetsExt

CONSTANTS
  Market, Position,
  MarketOf,       \* position.market_id
  Notional,       \* position.notional_usd
  Shadow,         \* the positions of shadow mode
  Run,            \* sessions that reconcile
  Nobody,         \* no session holds the lock
  None,           \* no position
  Missing,        \* a source knows nothing of a market
  Values,         \* the notionals a source may report
  Tolerance,
  AutoCloseThreshold,
  Databases,      \* "sqlite", "postgresql"
  MaxCrashes      \* bound on runs lost half-way

ASSUME PositionAssumption ==
  /\ MarketOf \in [Position -> Market]
  /\ Notional \in [Position -> Nat]
  /\ Shadow \subseteq Position
  /\ None \notin Position
  /\ IsFiniteSet(Position)

ASSUME RunAssumption == Nobody \notin Run

ASSUME DriftAssumption ==
  /\ Values \subseteq Nat /\ Missing \notin Nat
  /\ Tolerance \in Nat /\ AutoCloseThreshold \in Nat /\ MaxCrashes \in Nat

ASSUME DatabaseAssumption == Databases \subseteq {"sqlite", "postgresql"}

VARIABLES
  database,
  position,     \* the committed rows: absent, open, closed here or by a shadow reset
  orders,       \* committed closing orders of each market
  writer,       \* the holder of SQLite's write lock
  crashes,
  \* the local state of each run
  pc,
  snapshot,     \* system_positions: for each market one of its open positions
  items,        \* discrepancy items of each market still to be closed
  drifting,     \* the markets that had some
  served,       \* the markets this run has committed a closing order for
  made,         \* how many it has committed
  count         \* closed_count

locals == <<pc, snapshot, items, drifting, served, made, count>>
vars   == <<database, position, orders, writer, crashes, locals>>

SQLite == database = "sqlite"

CanWrite(r) == SQLite => writer \in {r, Nobody}
TakeLock(r) == writer' = IF SQLite THEN r ELSE writer
DropLock(r) == writer' = IF writer = r THEN Nobody ELSE writer

OpenIn(m) == {p \in Position : position[p] = "open" /\ MarketOf[p] = m}

-----------------------------------------------------------------------------
(***************************************************************************)
(* DiscrepancyDetector.                                                    *)
(***************************************************************************)

Gap(x, y) ==
  CASE x = Missing -> y
    [] y = Missing -> x
    [] OTHER       -> IF x > y THEN x - y ELSE y - x

\* _compare_pair: a market only one of the two knows is always a discrepancy.
Differs(x, y) ==
  /\ x # y
  /\ x = Missing \/ y = Missing \/ Gap(x, y) > Tolerance

\* The discrepancies of a market over the three pairs of sources, and their drift.
Pairs(system, api, chain) == <<<<system, api>>, <<system, chain>>, <<api, chain>>>>

Discrepancies(system, api, chain) ==
  LET pair == Pairs(system, api, chain) IN
  Cardinality({i \in 1 .. 3 : Differs(pair[i][1], pair[i][2])})

Drift(system, api, chain) ==
  LET pair == Pairs(system, api, chain) IN
  MapThenSumSet(LAMBDA i : Gap(pair[i][1], pair[i][2]),
                {i \in 1 .. 3 : Differs(pair[i][1], pair[i][2])})

Seen(r, m) == IF snapshot[r][m] = None THEN Missing ELSE Notional[snapshot[r][m]]

TotalDrift(r, api, chain) ==
  MapThenSumSet(LAMBDA m : Drift(Seen(r, m), api[m], chain[m]), Market)

-----------------------------------------------------------------------------
(***************************************************************************)
(* reconcile.                                                              *)
(***************************************************************************)

\* The session ends; what it had not committed is gone, what it had is not.
Ends(r) ==
  /\ pc' = [pc EXCEPT ![r] = "idle"]
  /\ snapshot' = [snapshot EXCEPT ![r] = [m \in Market |-> None]]
  /\ items' = [items EXCEPT ![r] = [m \in Market |-> 0]]
  /\ drifting' = [drifting EXCEPT ![r] = {}]
  /\ served' = [served EXCEPT ![r] = {}]
  /\ made' = [made EXCEPT ![r] = 0]
  /\ count' = [count EXCEPT ![r] = 0]
  /\ DropLock(r)

\* The first audit row takes the lock.
Begin(r) ==
  /\ pc[r] = "idle"
  /\ CanWrite(r) /\ TakeLock(r)
  /\ pc' = [pc EXCEPT ![r] = "fetch"]
  /\ UNCHANGED <<database, position, orders, crashes, snapshot, items, drifting, served,
                 made, count>>

\* get_system_positions: a dictionary by market, so that the last row wins.
FetchSystem(r) ==
  /\ pc[r] = "fetch"
  /\ \E s \in [Market -> Position \cup {None}] :
       /\ \A m \in Market : IF OpenIn(m) = {} THEN s[m] = None ELSE s[m] \in OpenIn(m)
       /\ snapshot' = [snapshot EXCEPT ![r] = s]
  /\ pc' = [pc EXCEPT ![r] = "detect"]
  /\ UNCHANGED <<database, position, orders, writer, crashes, items, drifting, served,
                 made, count>>

\* A source that does not answer reports no market at all; the flag that says so
\* is not looked at.  Items of a market the database does not hold are skipped.
Detect(r) ==
  /\ pc[r] = "detect"
  /\ \E api, chain \in [Market -> Values \cup {Missing}] :
       IF TotalDrift(r, api, chain) > AutoCloseThreshold
         THEN /\ items' = [items EXCEPT ![r] = [m \in Market |->
                              IF snapshot[r][m] = None THEN 0
                              ELSE Discrepancies(Seen(r, m), api[m], chain[m])]]
              /\ drifting' = [drifting EXCEPT ![r] = {m \in Market : items'[r][m] > 0}]
         ELSE UNCHANGED <<items, drifting>>
  /\ pc' = [pc EXCEPT ![r] = "close"]
  /\ UNCHANGED <<database, position, orders, writer, crashes, snapshot, served, made, count>>

\* Variant: every market of the report is closed, in drift or not.
ClosesAny(r, m) ==
  /\ pc[r] = "close"
  /\ SQLite
  /\ position' \in IF OpenIn(m) = {} THEN {position}
                   ELSE {[position EXCEPT ![p] = "closed"] : p \in OpenIn(m)}
  /\ DropLock(r)
  /\ items' = [items EXCEPT ![r][m] = @ - 1]

\* One closing, committed at once: the first row found open is closed, if there
\* still is one, and the order is that of the snapshot's position.
Closes(r, m) ==
  /\ pc[r] = "close" /\ items[r][m] > 0
  /\ SQLite
  /\ position' \in IF OpenIn(m) = {} THEN {position}
                   ELSE {[position EXCEPT ![p] = "closed"] : p \in OpenIn(m)}
  /\ DropLock(r)
  /\ items' = [items EXCEPT ![r][m] = @ - 1]

\* Variant: the position is committed before its order is added.
CloseInTwoCommits(r, m) ==
  /\ Closes(r, m)
  /\ \/ /\ orders' = [orders EXCEPT ![m] = @ + 1]
        /\ made' = [made EXCEPT ![r] = @ + 1]
        /\ served' = [served EXCEPT ![r] = @ \cup {m}]
        /\ pc' = [pc EXCEPT ![r] = "log"]
     \/ pc' = [pc EXCEPT ![r] = "idle"] /\ UNCHANGED <<orders, made, served>>
  /\ UNCHANGED <<database, crashes, snapshot, drifting, count>>

Close(r, m) ==
  /\ Closes(r, m)
  /\ orders' = [orders EXCEPT ![m] = @ + 1]
  /\ made' = [made EXCEPT ![r] = @ + 1]
  /\ served' = [served EXCEPT ![r] = @ \cup {m}]
  /\ pc' = [pc EXCEPT ![r] = "log"]
  /\ UNCHANGED <<database, crashes, snapshot, drifting, count>>

\* The foreign key refuses the order.
CloseRefused(r, m) ==
  /\ pc[r] = "close" /\ items[r][m] > 0
  /\ ~SQLite
  /\ Ends(r)
  /\ UNCHANGED <<database, position, orders, crashes>>

\* Variant: the except branch survives a failure to log, and the run goes on.
LogCloseOrNot(r) ==
  /\ pc[r] = "log"
  /\ \/ CanWrite(r) /\ TakeLock(r) /\ count' = [count EXCEPT ![r] = @ + 1]
     \/ ~CanWrite(r) /\ UNCHANGED <<writer, count>>
  /\ pc' = [pc EXCEPT ![r] = "close"]
  /\ UNCHANGED <<database, position, orders, crashes, snapshot, items, drifting, served, made>>

\* The closing is counted once its audit row is written.
LogClose(r) ==
  /\ pc[r] = "log"
  /\ CanWrite(r) /\ TakeLock(r)
  /\ count' = [count EXCEPT ![r] = @ + 1]
  /\ pc' = [pc EXCEPT ![r] = "close"]
  /\ UNCHANGED <<database, position, orders, crashes, snapshot, items, drifting, served, made>>

\* Variant: the loop ends at the first market that is done.
FinishEarly(r) ==
  /\ pc[r] = "close" /\ \E m \in Market : items[r][m] = 0
  /\ pc' = [pc EXCEPT ![r] = "report"]
  /\ DropLock(r)
  /\ UNCHANGED <<database, position, orders, crashes, snapshot, items, drifting, served,
                 made, count>>

\* The report is complete and committed.
Finish(r) ==
  /\ pc[r] = "close" /\ \A m \in Market : items[r][m] = 0
  /\ pc' = [pc EXCEPT ![r] = "report"]
  /\ DropLock(r)
  /\ UNCHANGED <<database, position, orders, crashes, snapshot, items, drifting, served,
                 made, count>>

\* The row reconciliation_complete is logged (nothing commits it) and the report
\* returned.
Report(r) ==
  /\ pc[r] = "report"
  /\ CanWrite(r)
  /\ Ends(r)
  /\ UNCHANGED <<database, position, orders, crashes>>

\* Variant: the wait for the lock has no limit while closing.
LockTimeoutAtEnd(r) ==
  /\ pc[r] = "report"
  /\ ~CanWrite(r)
  /\ Ends(r)
  /\ UNCHANGED <<database, position, orders, crashes>>

\* A run that does not get the lock back in time raises.
LockTimeout(r) ==
  /\ pc[r] \in {"log", "report"}
  /\ ~CanWrite(r)
  /\ Ends(r)
  /\ UNCHANGED <<database, position, orders, crashes>>

Crash(r) ==
  /\ pc[r] # "idle" /\ crashes < MaxCrashes
  /\ crashes' = crashes + 1
  /\ Ends(r)
  /\ UNCHANGED <<database, position, orders>>

-----------------------------------------------------------------------------
(***************************************************************************)
(* What other sessions do to the positions.                                *)
(***************************************************************************)

\* An execution batch commits a position.
Opens(p) ==
  /\ position[p] = "absent"
  /\ CanWrite(Nobody)
  /\ position' = [position EXCEPT ![p] = "open"]
  /\ UNCHANGED <<database, orders, writer, crashes, locals>>

\* POST /shadow/reset.
ShadowReset ==
  /\ CanWrite(Nobody)
  /\ position' = [p \in Position |->
       IF p \in Shadow /\ position[p] = "open" THEN "reset" ELSE position[p]]
  /\ UNCHANGED <<database, orders, writer, crashes, locals>>

-----------------------------------------------------------------------------

Init ==
  /\ database \in Databases
  /\ position = [p \in Position |-> "absent"]
  /\ orders = [m \in Market |-> 0]
  /\ writer = Nobody
  /\ crashes = 0
  /\ pc = [r \in Run |-> "idle"]
  /\ snapshot = [r \in Run |-> [m \in Market |-> None]]
  /\ items = [r \in Run |-> [m \in Market |-> 0]]
  /\ drifting = [r \in Run |-> {}]
  /\ served = [r \in Run |-> {}]
  /\ made = [r \in Run |-> 0]
  /\ count = [r \in Run |-> 0]

RunStep(r) ==
  \/ FetchSystem(r) \/ Detect(r)
  \/ \E m \in Market : Close(r, m) \/ CloseRefused(r, m)
  \/ LogClose(r) \/ Finish(r) \/ Report(r) \/ LockTimeout(r)

Next ==
  \/ \E r \in Run : Begin(r) \/ RunStep(r) \/ Crash(r)
  \/ \E p \in Position : Opens(p)
  \/ ShadowReset

Spec == Init /\ [][Next]_vars

\* A request that has begun runs on.  Nothing makes anyone begin one.
Fairness == \A r \in Run : WF_vars(RunStep(r))

FairSpec == Spec /\ Fairness

-----------------------------------------------------------------------------
(***************************************************************************)
(* Properties.                                                             *)
(***************************************************************************)

RunsTyped ==
  /\ pc \in [Run -> {"idle", "fetch", "detect", "close", "log", "report"}]
  /\ snapshot \in [Run -> [Market -> Position \cup {None}]]
  /\ items \in [Run -> [Market -> 0 .. 3]]
  /\ drifting \in [Run -> SUBSET Market]
  /\ served \in [Run -> SUBSET Market]
  /\ made \in [Run -> Nat]
  /\ count \in [Run -> Nat]

\* The tables and the runs' locals hold what they should; a market has at most one
\* discrepancy per pair of sources, and none is closed that was not found.
TypeOK ==
  /\ database \in Databases
  /\ position \in [Position -> {"absent", "open", "closed", "reset"}]
  /\ orders \in [Market -> Nat]
  /\ writer \in Run \cup {Nobody}
  /\ crashes \in Nat
  /\ RunsTyped

ClosedIn(m) == {p \in Position : position[p] = "closed" /\ MarketOf[p] = m}

\* Reconciliation closes no position without a closing order of its market that is
\* committed with it, however runs overlap, lose the lock or die between closings.
EveryCloseIsOrdered == \A m \in Market : Cardinality(ClosedIn(m)) <= orders[m]

\* The auto_close_count of a report is the number of closing orders its run has
\* committed, although each is counted only after a commit and a wait for the lock.
CountIsExact == \A r \in Run : pc[r] \in {"close", "report"} => count[r] = made[r]

\* A run that gets as far as its report has ordered a closing in every market found
\* drifting and in no other: one that could not has no report.
ReportIsComplete == \A r \in Run : pc[r] = "report" => served[r] = drifting[r]

\* A reconciliation that begins comes to an end, even when others keep taking the lock.
RunEnds == \A r \in Run : pc[r] # "idle" ~> pc[r] = "idle"

-----------------------------------------------------------------------------
(***************************************************************************)
(* A statement of the code's comments that the program does not keep.      *)
(***************************************************************************)

\* _auto_close: "For each market with drift, submits a closing order of equal size":
\* one run does not order two closings of a market.
OneOrderPerMarket == \A r \in Run : made[r] = Cardinality(served[r])
=============================================================================
