----------------------- MODULE ExecutionServiceProofs -----------------------
(***************************************************************************)
(* What holds of the decision pipeline for every number of decisions,      *)
(* sessions and limits, however batches, scans, operators and crashes      *)
(* interleave: TypeOK, then the invariant Inv and what follows from it,    *)
(* the kill switch, the spending of a batch and the failure limit; then    *)
(* what holds when batches run one at a time.                              *)
(***************************************************************************)
EXTENDS ExecutionServiceDesk, TLAPS

USE DEF NoDecision

\* The steps of neither a scan nor a batch.
Elsewhere == Operator \/ NewDay \/ \E d \in Decision : AutoClose(d)

\* The initial states are well typed.
LEMMA TypeInit == Init => TypeOK
<1> SUFFICES ASSUME Init PROVE TypeOK
  OBVIOUS
<1> USE DEF Init
<1>1. TablesTyped
  BY DEF TablesTyped
<1>2. WorldTyped
  BY DEF WorldTyped
<1>3. BatchesTyped
  BY DEF BatchesTyped, PC
<1>4. ScansTyped
  BY DEF ScansTyped
<1> QED BY <1>1, <1>2, <1>3, <1>4 DEF TypeOK

\* So is what a scan does next ...
LEMMA TypeScan ==
  ASSUME TypeOK, NEW s \in Scanner, Scan(s)
  PROVE  TypeOK'
<1> USE DEF TypeOK
<1>1. CASE ScanPropose(s)
  <2>1. PICK last \in (nextId - 1) .. MaxDecisions :
          scanned' = [scanned EXCEPT ![s] = nextId .. last] /\ nextId' = last + 1
    BY <1>1 DEF ScanPropose
  <2>2. ScansTyped'
    BY <1>1, <2>1, BoundsAssumption DEF ScanPropose, ScansTyped, Decision
  <2>3. WorldTyped'
    BY <1>1 DEF ScanPropose, WorldTyped, TakeLock, Session
  <2>4. TablesTyped' /\ BatchesTyped'
    BY <1>1 DEF ScanPropose, TablesTyped, BatchesTyped, tables, batchVars
  <2> QED BY <2>2, <2>3, <2>4
<1>2. CASE ScanCommit(s)
  <2>1. TablesTyped'
    <3>1. requiresApproval' \in [Decision -> BOOLEAN]
      BY <1>2, DeploymentAssumption DEF ScanCommit, TablesTyped, WorldTyped
    <3>2. unpriced' \in SUBSET Decision
      BY <1>2, BoundsAssumption DEF ScanCommit
    <3> QED BY <1>2, <3>1, <3>2 DEF ScanCommit, TablesTyped
  <2>2. WorldTyped' /\ ScansTyped' /\ BatchesTyped'
    BY <1>2 DEF ScanCommit, WorldTyped, ScansTyped, BatchesTyped, DropLock, batchVars
  <2> QED BY <2>1, <2>2
<1>3. QED BY <1>1, <1>2 DEF Scan

\* ... an operator request, a switch of mode, midnight or an automatic closing ...
LEMMA TypeOperator ==
  ASSUME TypeOK, Elsewhere
  PROVE  TypeOK'
<1> USE DEF TypeOK
<1>1. ASSUME NEW d \in Decision, Approve(d) PROVE TypeOK'
  BY <1>1 DEF Approve, TablesTyped, WorldTyped, BatchesTyped, ScansTyped, batchVars, scanVars
<1>2. ASSUME NEW enabled \in BOOLEAN, SetKillSwitch(enabled) PROVE TypeOK'
  BY <1>2 DEF SetKillSwitch, TablesTyped, WorldTyped, BatchesTyped, ScansTyped, scanVars
<1>3. CASE SetShadowMode
  BY <1>3 DEF SetShadowMode, TablesTyped, WorldTyped, BatchesTyped, ScansTyped, tables, batchVars, scanVars
<1>4. CASE NewDay
  BY <1>4 DEF NewDay, TablesTyped, WorldTyped, BatchesTyped, ScansTyped, scanVars
<1>5. ASSUME NEW d \in Decision, AutoClose(d) PROVE TypeOK'
  <2>1. TablesTyped'
    BY <1>5, BoundsAssumption DEF AutoClose, TablesTyped
  <2> QED BY <1>5, <2>1 DEF AutoClose, WorldTyped, BatchesTyped, ScansTyped, batchVars, scanVars
<1> QED BY <1>1, <1>2, <1>3, <1>4, <1>5 DEF Operator, Elsewhere

\* ... the local state of a batch whose session is closed ...
LEMMA TypeReset ==
  ASSUME BatchesTyped, WorldTyped, NEW b \in Batch, Reset(b)
  PROVE  BatchesTyped' /\ writer' \in Session \cup {NoSession}
BY DEF Reset, DropLock, BatchesTyped, WorldTyped, PC

\* ... a rolled back batch ...
LEMMA TypeRollback ==
  ASSUME TypeOK, NEW b \in Batch, Rollback(b), crashes' \in Nat
  PROVE  TypeOK'
BY TypeReset DEF Rollback, TypeOK, TablesTyped, WorldTyped, ScansTyped, tables, scanVars

\* ... and every step of a batch.
LEMMA TypeBatch ==
  ASSUME TypeOK, NEW b \in Batch, BeginBatch(b) \/ BatchStep(b) \/ Crash(b)
  PROVE  TypeOK'
<1> USE DEF TypeOK
<1>1. CASE BeginBatch(b)
  BY <1>1 DEF BeginBatch, TablesTyped, WorldTyped, BatchesTyped, ScansTyped, PC, tables, scanVars
<1>2. CASE SelectRows(b)
  BY <1>2 DEF SelectRows, Ready, TablesTyped, WorldTyped, BatchesTyped, ScansTyped, PC, tables, scanVars
<1>3. CASE ReadDailyNotional(b)
  BY <1>3 DEF ReadDailyNotional, TablesTyped, WorldTyped, BatchesTyped, ScansTyped, PC, tables, scanVars
<1>4. ASSUME NEW d \in Decision, SkipOverDailyCap(b, d) PROVE TypeOK'
  BY <1>4 DEF SkipOverDailyCap, TakeLock, Session, TablesTyped, WorldTyped, BatchesTyped,
              ScansTyped, tables, scanVars
<1>5. ASSUME NEW d \in Decision, UnpricedRow(b, d) PROVE TypeOK'
  BY <1>5, TypeRollback DEF UnpricedRow, WorldTyped
<1>6. ASSUME NEW d \in Decision, PaperRow(b, d) PROVE TypeOK'
  BY <1>6, BoundsAssumption DEF PaperRow, TakeLock, Session, TablesTyped, WorldTyped,
              BatchesTyped, ScansTyped, tables, scanVars
<1>7. ASSUME NEW d \in Decision, ShadowRow(b, d) PROVE TypeOK'
  BY <1>7 DEF ShadowRow, TakeLock, Session, TablesTyped, WorldTyped, BatchesTyped,
              ScansTyped, tables, scanVars
<1>8. ASSUME NEW d \in Decision, Fail(b, d), broadcasts' \in [Decision -> Nat] PROVE TypeOK'
  <2>1. TablesTyped' /\ WorldTyped' /\ ScansTyped'
    BY <1>8 DEF Fail, TakeLock, Session, TablesTyped, WorldTyped, ScansTyped, tables, scanVars
  <2>2. BatchesTyped'
    BY <1>8 DEF Fail, BatchesTyped, PC
  <2> QED BY <2>1, <2>2
<1>9. ASSUME NEW d \in Decision, LiveSubmitFails(b, d) PROVE TypeOK'
  <2>1. broadcasts' \in [Decision -> Nat]
    BY <1>9 DEF LiveSubmitFails, Sent, WorldTyped
  <2> QED BY <1>8, <1>9, <2>1 DEF LiveSubmitFails
<1>10. ASSUME NEW d \in Decision, LiveBroadcast(b, d) PROVE TypeOK'
  BY <1>10 DEF LiveBroadcast, Sent, TablesTyped, WorldTyped, BatchesTyped, ScansTyped, PC,
               tables, scanVars
<1>11. CASE LivePersist(b)
  <2>1. cur[b] \in Decision /\ StakeOf[cur[b]] \in Nat
    BY <1>11, BoundsAssumption DEF LivePersist, BatchesTyped
  <2>2. TablesTyped'
    BY <1>11, <2>1 DEF LivePersist, TablesTyped
  <2>3. BatchesTyped'
    BY <1>11 DEF LivePersist, BatchesTyped, PC
  <2>4. WorldTyped' /\ ScansTyped'
    BY <1>11 DEF LivePersist, WorldTyped, ScansTyped, scanVars
  <2> QED BY <2>2, <2>3, <2>4
<1>12. CASE LivePersistFails(b)
  BY <1>12 DEF LivePersistFails, TablesTyped, WorldTyped, BatchesTyped, ScansTyped, PC,
               tables, scanVars
<1>13. CASE LiveFailed(b)
  BY <1>8, <1>13 DEF LiveFailed, WorldTyped, BatchesTyped
<1>14. CASE LiveRecord(b)
  BY <1>14, TypeRollback DEF LiveRecord, WorldTyped
<1>15. CASE Commit(b)
  <2>1. BatchesTyped' /\ WorldTyped'
    BY <1>15, TypeReset DEF Commit, WorldTyped
  <2>2. TablesTyped' /\ ScansTyped'
    BY <1>15 DEF Commit, Added, TablesTyped, ScansTyped, BatchesTyped, scanVars
  <2> QED BY <2>1, <2>2
<1>16. CASE DeadlockVictim(b)
  BY <1>16, TypeRollback DEF DeadlockVictim, WorldTyped
<1>17. CASE Crash(b)
  BY <1>17, TypeRollback DEF Crash, WorldTyped
<1>18. CASE LiveRefused(b) \/ EndSkipped(b)
  BY <1>18, TypeRollback DEF LiveRefused, EndSkipped, WorldTyped
<1> QED
  BY <1>1, <1>2, <1>3, <1>4, <1>5, <1>6, <1>7, <1>9, <1>10, <1>11, <1>12, <1>13, <1>14,
     <1>15, <1>16, <1>17, <1>18 DEF BatchStep, VisitRow

\* A step that changes nothing keeps the types.
LEMMA TypeStutter == TypeOK /\ UNCHANGED vars => TypeOK'
BY DEF vars, TypeOK, TablesTyped, WorldTyped, BatchesTyped, ScansTyped, tables, batchVars, scanVars

\* Every reachable state is well typed, and an order in flight has its decision.
THEOREM TypeCorrect == Spec => []TypeOK
<1>1. TypeOK /\ [Next]_vars => TypeOK'
  BY TypeScan, TypeOperator, TypeBatch, TypeStutter DEF Next, Elsewhere
<1> QED BY TypeInit, <1>1, PTL DEF Spec

-----------------------------------------------------------------------------
(***************************************************************************)
(* The inductive invariant.  A scan only ever inserts fresh ids, and every *)
(* decision that a batch holds or that has left a trace outside exists and *)
(* is approved; so a commit cannot book a decision that a scan is about to *)
(* insert, and no insertion resets a decision that was booked.             *)
(***************************************************************************)

FreshIds ==
  /\ \A s \in Scanner : \A d \in scanned[s] : status[d] = "absent" /\ d < nextId
  /\ \A s, t \in Scanner : s # t => scanned[s] \cap scanned[t] = {}
  /\ \A d \in Decision : d >= nextId => status[d] = "absent"

Held(d) == \E b \in Batch : d \in rows[b] \/ d \in wrote[b] \/ d = cur[b]

Traced(d) == positions[d] + shadowPositions[d] + broadcasts[d] > 0

Cleared(d) == status[d] # "absent" /\ (settings.require_approval => ~requiresApproval[d])

InvolvedIsCleared == \A d \in Decision : Held(d) \/ Traced(d) => Cleared(d)

\* Only live mode has orders in flight.
InFlightIsLive == \A b \in Batch : pc[b] \in {"persist", "record", "failed"} => Live

Inv == TypeOK /\ FreshIds /\ InvolvedIsCleared /\ InFlightIsLive /\ ExecutedIffBooked

\* Inv holds at first: nothing exists yet.
LEMMA InvInit == Init => Inv
<1> SUFFICES ASSUME Init PROVE Inv
  OBVIOUS
<1>1. TypeOK
  BY TypeInit
<1>2. FreshIds
  BY DEF Init, FreshIds
<1>3. InvolvedIsCleared
  BY DEF Init, InvolvedIsCleared, Held, Traced, Decision
<1>4. InFlightIsLive /\ ExecutedIffBooked
  BY DEF Init, InFlightIsLive, ExecutedIffBooked
<1> QED BY <1>1, <1>2, <1>3, <1>4 DEF Inv

\* A step that leaves the tables, the chain and the sets of every batch alone.
LEMMA InvQuiet ==
  ASSUME Inv, TypeOK', UNCHANGED <<status, requiresApproval, orders, positions, shadowPositions,
                                   settings, broadcasts, scanned, nextId>>,
         \A d \in Decision : Held(d)' => Held(d) \/ Cleared(d), InFlightIsLive'
  PROVE  Inv'
<1>1. FreshIds'
  BY DEF Inv, FreshIds
<1>2. InvolvedIsCleared'
  BY DEF Inv, InvolvedIsCleared, Cleared, Traced
<1>3. ExecutedIffBooked'
  BY DEF Inv, ExecutedIffBooked, Live
<1> QED BY <1>1, <1>2, <1>3 DEF Inv

\* A rolled back batch leaves nothing behind.
LEMMA InvRollback ==
  ASSUME Inv, TypeOK', NEW b \in Batch, Rollback(b)
  PROVE  Inv'
<1>1. \A d \in Decision : Held(d)' => Held(d)
  BY DEF Rollback, Reset, Held, Inv, TypeOK, BatchesTyped, Decision
<1>2. InFlightIsLive'
  BY DEF Rollback, Reset, InFlightIsLive, Live, Inv, TypeOK, BatchesTyped
<1> QED BY <1>1, <1>2, InvQuiet DEF Rollback, tables, scanVars

\* A scan inserts decisions that no batch holds and nothing traces.
LEMMA InvScan ==
  ASSUME Inv, TypeOK', NEW s \in Scanner, Scan(s)
  PROVE  Inv'
<1> USE DEF Inv, TypeOK
<1>1. CASE ScanPropose(s)
  <2>1. PICK last \in (nextId - 1) .. MaxDecisions :
          scanned' = [scanned EXCEPT ![s] = nextId .. last] /\ nextId' = last + 1
    BY <1>1 DEF ScanPropose
  <2>2. FreshIds'
    <3>1. \A t \in Scanner : \A d \in scanned'[t] : status[d] = "absent" /\ d < nextId'
      BY <2>1, BoundsAssumption DEF FreshIds, ScansTyped, Decision
    <3>2. \A t, u \in Scanner : t # u => scanned'[t] \cap scanned'[u] = {}
      BY <2>1, BoundsAssumption DEF FreshIds, ScansTyped, Decision
    <3>3. \A d \in Decision : d >= nextId' => status[d] = "absent"
      BY <2>1, BoundsAssumption DEF FreshIds, ScansTyped, Decision
    <3> QED BY <1>1, <3>1, <3>2, <3>3 DEF ScanPropose, FreshIds, tables
  <2>3. InvolvedIsCleared'
    BY <1>1 DEF ScanPropose, InvolvedIsCleared, Held, Traced, Cleared, tables, batchVars
  <2>4. InFlightIsLive' /\ ExecutedIffBooked'
    BY <1>1 DEF ScanPropose, InFlightIsLive, ExecutedIffBooked, Live, tables, batchVars
  <2> QED BY <2>2, <2>3, <2>4
<1>2. CASE ScanCommit(s)
  <2>1. \A d \in scanned[s] : status[d] = "absent"
    BY <1>2 DEF FreshIds
  <2>2. FreshIds'
    <3>1. scanned' = [scanned EXCEPT ![s] = {}] /\ nextId' = nextId
      BY <1>2 DEF ScanCommit
    <3>2. \A d \in Decision : d \notin scanned[s] => status'[d] = status[d]
      BY <1>2 DEF ScanCommit
    <3>3. \A t \in Scanner : \A d \in scanned'[t] : status'[d] = "absent" /\ d < nextId'
      BY <3>1, <3>2 DEF FreshIds, ScansTyped
    <3>4. \A t, u \in Scanner : t # u => scanned'[t] \cap scanned'[u] = {}
      BY <3>1 DEF FreshIds, ScansTyped
    <3>5. \A d \in Decision : d >= nextId' => status'[d] = "absent"
      BY <3>1, <3>2 DEF FreshIds, ScansTyped, Decision
    <3> QED BY <3>3, <3>4, <3>5 DEF FreshIds
  <2>3. InvolvedIsCleared'
    BY <1>2, <2>1 DEF ScanCommit, InvolvedIsCleared, Held, Traced, Cleared, TablesTyped, batchVars
  <2>4. InFlightIsLive'
    BY <1>2 DEF ScanCommit, InFlightIsLive, Live, batchVars
  <2>5. ExecutedIffBooked'
    BY <1>2, <2>1 DEF ScanCommit, ExecutedIffBooked, Live, TablesTyped
  <2> QED BY <2>2, <2>3, <2>4, <2>5
<1> QED BY <1>1, <1>2 DEF Scan

\* An approval only ever clears a decision.
LEMMA InvOperator ==
  ASSUME Inv, TypeOK', Elsewhere
  PROVE  Inv'
<1> USE DEF Inv, TypeOK
<1>1. ASSUME NEW d \in Decision, Approve(d) PROVE Inv'
  <2>1. FreshIds' /\ ExecutedIffBooked' /\ InFlightIsLive'
    BY <1>1 DEF Approve, FreshIds, ExecutedIffBooked, InFlightIsLive, Live, batchVars, scanVars
  <2>2. InvolvedIsCleared'
    BY <1>1 DEF Approve, InvolvedIsCleared, Held, Traced, Cleared, TablesTyped, batchVars
  <2> QED BY <2>1, <2>2
<1>2. ASSUME NEW enabled \in BOOLEAN, SetKillSwitch(enabled) PROVE Inv'
  BY <1>2, InvQuiet DEF SetKillSwitch, Held, InFlightIsLive, Live, scanVars
<1>3. CASE SetShadowMode
  BY <1>3, InvQuiet DEF SetShadowMode, Held, InFlightIsLive, Live, tables, batchVars, scanVars
<1>4. CASE NewDay
  BY <1>4, InvQuiet DEF NewDay, Held, InFlightIsLive, Live, scanVars
<1>5. ASSUME NEW d \in Decision, AutoClose(d) PROVE Inv'
  BY <1>5, InvQuiet DEF AutoClose, Held, InFlightIsLive, Live, batchVars, scanVars
<1> QED BY <1>1, <1>2, <1>3, <1>4, <1>5 DEF Operator, Elsewhere

\* A batch selects cleared decisions, and books what it selected.
LEMMA InvBatch ==
  ASSUME Inv, TypeOK', NEW b \in Batch, BeginBatch(b) \/ BatchStep(b) \/ Crash(b)
  PROVE  Inv'
<1> USE DEF Inv, TypeOK
<1>1. CASE BeginBatch(b)
  BY <1>1, InvQuiet DEF BeginBatch, Held, InFlightIsLive, Live, BatchesTyped, tables, scanVars
<1>2. CASE SelectRows(b)
  <2>1. \A d \in Ready : Cleared(d)
    BY DEF Ready, Cleared
  <2>2. \A d \in Decision : Held(d)' => Held(d) \/ Cleared(d)
    BY <1>2, <2>1 DEF SelectRows, Held, BatchesTyped
  <2>3. InFlightIsLive'
    BY <1>2 DEF SelectRows, InFlightIsLive, Live, BatchesTyped
  <2> QED BY <1>2, <2>2, <2>3, InvQuiet DEF SelectRows, tables, scanVars
<1>3. CASE ReadDailyNotional(b)
  BY <1>3, InvQuiet DEF ReadDailyNotional, Held, InFlightIsLive, Live, BatchesTyped, tables, scanVars
<1>4. ASSUME NEW d \in Decision, SkipOverDailyCap(b, d) PROVE Inv'
  BY <1>4, InvQuiet DEF SkipOverDailyCap, Held, InFlightIsLive, Live, BatchesTyped, tables, scanVars
<1>5. ASSUME NEW d \in Decision, UnpricedRow(b, d) PROVE Inv'
  BY <1>5, InvRollback DEF UnpricedRow
<1>6. ASSUME NEW d \in Decision, PaperRow(b, d) PROVE Inv'
  BY <1>6, InvQuiet DEF PaperRow, Visits, Held, InFlightIsLive, Live, BatchesTyped, tables, scanVars
<1>7. ASSUME NEW d \in Decision, ShadowRow(b, d) PROVE Inv'
  BY <1>7, InvQuiet DEF ShadowRow, Held, InFlightIsLive, Live, BatchesTyped, tables, scanVars
<1>8. ASSUME NEW d \in Decision, Fail(b, d),
             broadcasts' = broadcasts \/ (d \in rows[b] /\ broadcasts' = Sent(d))
      PROVE  Inv'
  <2>1. \A e \in Decision : Held(e)' => Held(e)
    BY <1>8 DEF Fail, Held, BatchesTyped, Decision
  <2>2. InvolvedIsCleared'
    BY <1>8, <2>1 DEF Fail, Sent, InvolvedIsCleared, Held, Traced, Cleared, WorldTyped,
                      TablesTyped, tables
  <2>3. FreshIds' /\ ExecutedIffBooked'
    BY <1>8 DEF Fail, FreshIds, ExecutedIffBooked, Live, tables, scanVars
  <2>4. InFlightIsLive'
    BY <1>8 DEF Fail, InFlightIsLive, Live, BatchesTyped
  <2> QED BY <2>2, <2>3, <2>4
<1>9. ASSUME NEW d \in Decision, LiveSubmitFails(b, d) PROVE Inv'
  BY <1>8, <1>9 DEF LiveSubmitFails, Visits
<1>10. ASSUME NEW d \in Decision, LiveBroadcast(b, d) PROVE Inv'
  <2>1. \A e \in Decision : Held(e)' => Held(e)
    BY <1>10 DEF LiveBroadcast, Visits, Held, BatchesTyped
  <2>2. InvolvedIsCleared'
    BY <1>10, <2>1 DEF LiveBroadcast, Visits, Sent, InvolvedIsCleared, Held, Traced, Cleared,
                       WorldTyped, TablesTyped, tables
  <2>3. FreshIds' /\ ExecutedIffBooked'
    BY <1>10 DEF LiveBroadcast, FreshIds, ExecutedIffBooked, Live, tables, scanVars
  <2>4. InFlightIsLive'
    BY <1>10 DEF LiveBroadcast, InFlightIsLive, Live, BatchesTyped
  <2> QED BY <2>2, <2>3, <2>4
<1>11. CASE LivePersist(b)
  <2>1. cur[b] \in Decision /\ Live
    BY <1>11 DEF LivePersist, BatchesTyped, InFlightIsLive
  <2>2. InvolvedIsCleared'
    BY <1>11, <2>1 DEF LivePersist, InvolvedIsCleared, Held, Traced, Cleared, TablesTyped,
                       WorldTyped
  <2>3. FreshIds' /\ ExecutedIffBooked'
    BY <1>11, <2>1 DEF LivePersist, FreshIds, ExecutedIffBooked, Live, scanVars
  <2>4. InFlightIsLive'
    BY <1>11, <2>1 DEF LivePersist, InFlightIsLive, Live, BatchesTyped
  <2> QED BY <2>2, <2>3, <2>4
<1>12. CASE LivePersistFails(b)
  BY <1>12, InvQuiet DEF LivePersistFails, Held, InFlightIsLive, Live, BatchesTyped, tables, scanVars
<1>13. CASE LiveFailed(b)
  BY <1>8, <1>13 DEF LiveFailed, BatchesTyped
<1>14. CASE LiveRecord(b)
  BY <1>14, InvRollback DEF LiveRecord
<1>15. CASE Commit(b)
  <2>1. \A e \in Decision : e \in wrote[b] => Cleared(e)
    BY DEF InvolvedIsCleared, Held
  <2>2. \A e \in Decision : Held(e)' => Held(e)
    BY <1>15 DEF Commit, Reset, Held, BatchesTyped, Decision
  <2>3. \A e \in Decision : Traced(e)' => Traced(e) \/ e \in wrote[b]
    BY <1>15 DEF Commit, Added, Traced, TablesTyped, WorldTyped
  <2>4. \A e \in Decision : Cleared(e) => Cleared(e)'
    BY <1>15 DEF Commit, Cleared, TablesTyped
  <2>5. InvolvedIsCleared'
    BY <2>1, <2>2, <2>3, <2>4 DEF InvolvedIsCleared
  <2>6. FreshIds'
    <3>1. \A e \in Decision : status[e] = "absent" => status'[e] = "absent"
      BY <1>15, <2>1 DEF Commit, Cleared
    <3> QED BY <1>15, <3>1 DEF Commit, FreshIds, ScansTyped, scanVars
  <2>7. InFlightIsLive'
    BY <1>15 DEF Commit, Reset, InFlightIsLive, Live, BatchesTyped
  <2>8. ExecutedIffBooked'
    BY <1>15 DEF Commit, AtEnd, Added, ExecutedIffBooked, Live, TablesTyped
  <2> QED BY <2>5, <2>6, <2>7, <2>8
<1>16. CASE DeadlockVictim(b)
  BY <1>16, InvRollback DEF DeadlockVictim
<1>17. CASE Crash(b)
  BY <1>17, InvRollback DEF Crash
<1>18. CASE LiveRefused(b) \/ EndSkipped(b)
  BY <1>18, InvRollback DEF LiveRefused, EndSkipped
<1> QED
  BY <1>1, <1>2, <1>3, <1>4, <1>5, <1>6, <1>7, <1>9, <1>10, <1>11, <1>12, <1>13, <1>14,
     <1>15, <1>16, <1>17, <1>18 DEF BatchStep, VisitRow

\* Every reachable state satisfies Inv: ids are fresh, what a batch holds or has
\* traded is approved, and "executed" decisions are exactly those booked.
THEOREM InvHolds == Spec => []Inv
<1>1. Inv /\ UNCHANGED vars => Inv'
  <2> SUFFICES ASSUME Inv, UNCHANGED vars PROVE Inv'
    OBVIOUS
  <2> QED BY TypeStutter, InvQuiet DEF vars, Inv, tables, batchVars, scanVars, Held,
             InFlightIsLive, Live
<1>2. Inv /\ TypeOK' /\ [Next]_vars => Inv'
  BY InvScan, InvOperator, InvBatch, <1>1 DEF Next, Elsewhere
<1> QED BY InvInit, <1>2, TypeCorrect, PTL DEF Spec

\* However sessions overlap and die, a decision reads "executed" exactly when it
\* was booked, and a paper position always has its order.
THEOREM ExecutedIffBookedAlways == Spec => []ExecutedIffBooked
<1>1. Inv => ExecutedIffBooked
  BY DEF Inv
<1> QED BY <1>1, InvHolds, PTL

\* No position and no broadcast ever comes from an unapproved decision.
THEOREM NothingUnapprovedAlways == Spec => []NothingUnapproved
<1>1. Inv => NothingUnapproved
  BY DEF Inv, InvolvedIsCleared, NothingUnapproved, Traced, Cleared
<1> QED BY <1>1, InvHolds, PTL

-----------------------------------------------------------------------------
(***************************************************************************)
(* The kill switch: from a state where it is on and no batch is in the     *)
(* real lane, only a batch of the shadow lane or one that found the switch *)
(* on could move, and neither writes an order, a position or a broadcast.  *)
(***************************************************************************)

\* While the kill switch stays on, a real lane at rest stays at rest.
THEOREM KillSwitchAlwaysHolds == Spec => KillSwitchHolds
<1>1. TypeOK /\ [Next]_vars =>
        (killSwitch /\ killSwitch' /\ NoneInRealLane =>
           NoneInRealLane' /\ UNCHANGED <<orders, positions, broadcasts>>)
  <2> SUFFICES ASSUME TypeOK, [Next]_vars, killSwitch, NoneInRealLane
               PROVE  NoneInRealLane' /\ UNCHANGED <<orders, positions, broadcasts>>
    OBVIOUS
  <2> USE DEF NoneInRealLane, RealLane, TypeOK, BatchesTyped
  <2>1. CASE \E s \in Scanner : Scan(s)
    BY <2>1 DEF Scan, ScanPropose, ScanCommit, tables, batchVars
  <2>2. CASE Elsewhere
    BY <2>2 DEF Elsewhere, Operator, Approve, SetKillSwitch, SetShadowMode, NewDay, AutoClose,
                tables, batchVars
  <2>3. ASSUME NEW b \in Batch, BeginBatch(b) \/ SelectRows(b)
        PROVE  NoneInRealLane' /\ UNCHANGED <<orders, positions, broadcasts>>
    BY <2>3 DEF BeginBatch, SelectRows, tables
  <2>4. ASSUME NEW b \in Batch, NEW d \in Decision, ShadowRow(b, d)
        PROVE  NoneInRealLane' /\ UNCHANGED <<orders, positions, broadcasts>>
    BY <2>4 DEF ShadowRow, tables
  <2>5. ASSUME NEW b \in Batch, Commit(b)
        PROVE  NoneInRealLane' /\ UNCHANGED <<orders, positions, broadcasts>>
    <3>1. pc[b] = "shadow"
      BY <2>5 DEF Commit, AtEnd
    <3>2. \A d \in Decision : Added(b, d, {"loop", "commit"}) = 0
      BY <3>1 DEF Added
    <3>3. orders' = orders /\ positions' = positions
      BY <2>5, <3>2 DEF Commit, TablesTyped
    <3> QED BY <2>5, <3>3 DEF Commit, Reset
  <2>6. ASSUME NEW b \in Batch, EndSkipped(b) \/ DeadlockVictim(b) \/ Crash(b)
        PROVE  NoneInRealLane' /\ UNCHANGED <<orders, positions, broadcasts>>
    BY <2>6 DEF EndSkipped, DeadlockVictim, Crash, Rollback, Reset, tables
  <2>7. ASSUME NEW b \in Batch,
               \/ LiveRefused(b) \/ ReadDailyNotional(b) \/ LivePersist(b)
               \/ LivePersistFails(b) \/ LiveFailed(b) \/ LiveRecord(b)
               \/ \E d \in Decision : \/ SkipOverDailyCap(b, d) \/ UnpricedRow(b, d) \/ PaperRow(b, d)
                                     \/ LiveSubmitFails(b, d) \/ LiveBroadcast(b, d)
        PROVE  FALSE
    BY <2>7 DEF LiveRefused, ReadDailyNotional, LivePersist, LivePersistFails, LiveFailed,
         LiveRecord, SkipOverDailyCap, UnpricedRow, PaperRow, LiveSubmitFails, LiveBroadcast, Visits
  <2>8. CASE UNCHANGED vars
    BY <2>8 DEF vars, tables, batchVars
  <2> QED
    BY <2>1, <2>2, <2>3, <2>4, <2>5, <2>6, <2>7, <2>8 DEF Next, BatchStep, VisitRow, Elsewhere
<1> QED BY <1>1, TypeCorrect, PTL DEF Spec, KillSwitchHolds

-----------------------------------------------------------------------------
(***************************************************************************)
(* The daily cap.  What a batch has written is part of its local running   *)
(* sum, which the cap bounds each time it grows; and a real batch has      *)
(* written nothing when it reads the day's total.                          *)
(***************************************************************************)

BeforeLoop == {"idle", "skipped", "select", "selectShadow", "sum", "shadow"}

SpendInv ==
  \A b \in Batch :
    /\ pc[b] \in BeforeLoop => wroteNotional[b] = 0
    /\ pc[b] \in BeforeLoop \ {"shadow"} => wrote[b] = {}
    /\ pc[b] \notin BeforeLoop =>
         /\ wroteNotional[b] <= dailySum[b]
         /\ wrote[b] # {} => dailySum[b] <= MaxDailyLossUsd

\* Every row a batch writes has passed the cap on its running sum.
LEMMA SpendStep == TypeOK /\ SpendInv /\ [Next]_vars => SpendInv'
<1> SUFFICES ASSUME TypeOK, SpendInv, [Next]_vars PROVE SpendInv'
  OBVIOUS
<1> USE BoundsAssumption
    DEF TypeOK, TablesTyped, BatchesTyped, SpendInv, BeforeLoop
<1>1. CASE \E s \in Scanner : Scan(s)
  BY <1>1 DEF Scan, ScanPropose, ScanCommit, batchVars
<1>2. CASE Elsewhere
  BY <1>2 DEF Elsewhere, AutoClose, Operator, Approve, SetKillSwitch, SetShadowMode, NewDay, batchVars
<1>3. ASSUME NEW b \in Batch, Reset(b) PROVE SpendInv'
  BY <1>3 DEF Reset
<1>4. ASSUME NEW b \in Batch, BeginBatch(b) \/ SelectRows(b) \/ ReadDailyNotional(b) PROVE SpendInv'
  BY <1>4 DEF BeginBatch, SelectRows, ReadDailyNotional
<1>5. ASSUME NEW b \in Batch, NEW d \in Decision, SkipOverDailyCap(b, d) \/ ShadowRow(b, d)
      PROVE SpendInv'
  BY <1>5 DEF SkipOverDailyCap, ShadowRow
<1>6. ASSUME NEW b \in Batch, NEW d \in Decision, PaperRow(b, d) PROVE SpendInv'
  BY <1>6 DEF PaperRow, Visits, OverDailyCap
<1>7. ASSUME NEW b \in Batch, NEW d \in Decision, pc[b] \notin BeforeLoop, Fail(b, d)
      PROVE SpendInv'
  BY <1>7 DEF Fail
<1>8. ASSUME NEW b \in Batch, NEW d \in Decision, LiveSubmitFails(b, d) \/ LiveBroadcast(b, d)
      PROVE SpendInv'
  BY <1>7, <1>8 DEF LiveSubmitFails, LiveBroadcast, Visits
<1>9. ASSUME NEW b \in Batch, LivePersist(b) \/ LivePersistFails(b) PROVE SpendInv'
  BY <1>9 DEF LivePersist, LivePersistFails
<1>10. ASSUME NEW b \in Batch, LiveFailed(b) PROVE SpendInv'
  BY <1>7, <1>10 DEF LiveFailed
<1>11. ASSUME NEW b \in Batch,
              \/ EndSkipped(b) \/ LiveRefused(b) \/ LiveRecord(b) \/ Commit(b)
              \/ DeadlockVictim(b) \/ Crash(b) \/ \E d \in Decision : UnpricedRow(b, d)
       PROVE  SpendInv'
  BY <1>3, <1>11 DEF EndSkipped, LiveRefused, LiveRecord, Commit, DeadlockVictim, Crash, UnpricedRow, Rollback
<1>12. CASE UNCHANGED vars
  BY <1>12 DEF vars, batchVars
<1> QED
  BY <1>1, <1>2, <1>4, <1>5, <1>6, <1>8, <1>9, <1>10, <1>11, <1>12
     DEF Next, BatchStep, VisitRow, Elsewhere

\* Once a batch has written anything, its running sum, which holds all it wrote
\* and what the day's orders came to when it began, is within the cap.
THEOREM BatchSpendAlwaysWithinCap == Spec => []BatchSpendWithinCap
<1>1. Init => SpendInv
  BY DEF Init, SpendInv, BeforeLoop
<1>2. SpendInv => BatchSpendWithinCap
  BY DEF SpendInv, BatchSpendWithinCap, BeforeLoop
<1> QED BY <1>1, <1>2, SpendStep, TypeCorrect, PTL DEF Spec

-----------------------------------------------------------------------------
(***************************************************************************)
(* The failure limit.  The failure that reaches it moves the batch to its  *)
(* commit with a kill_switch row written; from there only the commit, a    *)
(* crash or an operator's row leads on.                                    *)
(***************************************************************************)

HaltInv == \A b \in Batch :
  failures[b] >= MaxConsecutiveFailures => pc[b] = "commit" /\ killRow[b] \in {"latest", "superseded"}

LEMMA HaltStep == TypeOK /\ HaltInv /\ [Next]_vars => HaltInv'
<1> SUFFICES ASSUME TypeOK, HaltInv, [Next]_vars PROVE HaltInv'
  OBVIOUS
<1> USE BoundsAssumption DEF TypeOK, BatchesTyped, HaltInv
<1>1. CASE \E s \in Scanner : Scan(s)
  BY <1>1 DEF Scan, ScanPropose, ScanCommit, batchVars
<1>2. CASE Elsewhere
  BY <1>2 DEF Elsewhere, AutoClose, Operator, Approve, SetKillSwitch, SetShadowMode, NewDay, batchVars
<1>3. ASSUME NEW b \in Batch, Reset(b) PROVE HaltInv'
  BY <1>3 DEF Reset
<1>4. ASSUME NEW b \in Batch, BeginBatch(b) \/ SelectRows(b) \/ ReadDailyNotional(b) PROVE HaltInv'
  BY <1>4 DEF BeginBatch, SelectRows, ReadDailyNotional
<1>5. ASSUME NEW b \in Batch, NEW d \in Decision,
             SkipOverDailyCap(b, d) \/ ShadowRow(b, d) \/ PaperRow(b, d)
      PROVE HaltInv'
  BY <1>5 DEF SkipOverDailyCap, ShadowRow, PaperRow
<1>6. ASSUME NEW b \in Batch, NEW d \in Decision, pc[b] # "commit", Fail(b, d) PROVE HaltInv'
  BY <1>6 DEF Fail
<1>7. ASSUME NEW b \in Batch, NEW d \in Decision, LiveSubmitFails(b, d) \/ LiveBroadcast(b, d)
      PROVE HaltInv'
  BY <1>6, <1>7 DEF LiveSubmitFails, LiveBroadcast, Visits
<1>8. ASSUME NEW b \in Batch, LivePersist(b) \/ LivePersistFails(b) PROVE HaltInv'
  BY <1>8 DEF LivePersist, LivePersistFails
<1>9. ASSUME NEW b \in Batch, LiveFailed(b) PROVE HaltInv'
  BY <1>6, <1>9 DEF LiveFailed
<1>10. ASSUME NEW b \in Batch,
              \/ EndSkipped(b) \/ LiveRefused(b) \/ LiveRecord(b) \/ Commit(b)
              \/ DeadlockVictim(b) \/ Crash(b) \/ \E d \in Decision : UnpricedRow(b, d)
       PROVE  HaltInv'
  BY <1>3, <1>10 DEF EndSkipped, LiveRefused, LiveRecord, Commit, DeadlockVictim, Crash, UnpricedRow, Rollback
<1>11. CASE UNCHANGED vars
  BY <1>11 DEF vars, batchVars
<1> QED
  BY <1>1, <1>2, <1>4, <1>5, <1>7, <1>8, <1>9, <1>10, <1>11 DEF Next, BatchStep, VisitRow,
     Elsewhere

\* A batch at the failure limit submits nothing more, and its end leaves the kill switch
\* on, unless it dies or an operator's later row overrides its own.
THEOREM FailureLimitAlwaysHalts == Spec => FailureLimitHalts
<1>1. Init => HaltInv
  BY BoundsAssumption DEF Init, HaltInv
<1>2. ASSUME TypeOK, HaltInv, [Next]_vars, NEW b \in Batch,
             failures[b] >= MaxConsecutiveFailures, pc'[b] # pc[b]
      PROVE  pc'[b] = "idle" /\ (killSwitch' \/ killRow[b] = "superseded" \/ crashes' # crashes)
  <2> USE DEF TypeOK, BatchesTyped
  <2>1. pc[b] = "commit" /\ killRow[b] \in {"latest", "superseded"}
    BY <1>2 DEF HaltInv
  <2>2. CASE \E s \in Scanner : Scan(s)
    BY <1>2, <2>2 DEF Scan, ScanPropose, ScanCommit, batchVars
  <2>3. CASE Elsewhere
    BY <1>2, <2>3 DEF Elsewhere, AutoClose, Operator, Approve, SetKillSwitch, SetShadowMode, NewDay, batchVars
  <2>4. ASSUME NEW c \in Batch, BeginBatch(c) \/ BatchStep(c) \/ Crash(c), c # b PROVE FALSE
    BY <1>2, <2>4 DEF BeginBatch, BatchStep, EndSkipped, LiveRefused, SelectRows, ReadDailyNotional, VisitRow,
         SkipOverDailyCap, UnpricedRow, PaperRow, ShadowRow, LiveSubmitFails, LiveBroadcast,
         LivePersist, LivePersistFails, LiveFailed, LiveRecord, Commit, DeadlockVictim, Crash,
         Fail, Rollback, Reset, batchVars
  <2>5. CASE Commit(b)
    <3>1. pc'[b] = "idle"
      BY <1>2, <2>5 DEF Commit, Reset
    <3>2. killSwitch' = (killSwitch \/ killRow[b] = "latest")
      BY <2>5 DEF Commit
    <3> QED
      BY <2>1, <3>1, <3>2
  <2>6. CASE Crash(b)
    <3>1. pc'[b] = "idle"
      BY <1>2, <2>6 DEF Crash, Rollback, Reset
    <3>2. crashes' # crashes
      BY <1>2, <2>6 DEF Crash, WorldTyped
    <3> QED
      BY <3>1, <3>2
  <2>7. CASE BeginBatch(b) \/ (BatchStep(b) /\ ~Commit(b))
    BY <2>1, <2>7 DEF BeginBatch, BatchStep, EndSkipped, LiveRefused, SelectRows, ReadDailyNotional, VisitRow,
         SkipOverDailyCap, UnpricedRow, PaperRow, ShadowRow, LiveSubmitFails, LiveBroadcast,
         Visits, LivePersist, LivePersistFails, LiveFailed, LiveRecord, DeadlockVictim, WaitsFor
  <2>8. CASE UNCHANGED vars
    BY <1>2, <2>8 DEF vars, batchVars
  <2> QED
    BY <1>2, <2>2, <2>3, <2>4, <2>5, <2>6, <2>7, <2>8 DEF Next, Elsewhere
<1>3. TypeOK /\ HaltInv /\ [Next]_vars =>
        [\A b \in Batch :
           failures[b] >= MaxConsecutiveFailures /\ pc'[b] # pc[b] =>
             /\ pc'[b] = "idle"
             /\ killSwitch' \/ killRow[b] = "superseded" \/ crashes' # crashes]_vars
  BY <1>2
<1> QED BY <1>1, <1>3, HaltStep, TypeCorrect, PTL DEF Spec, FailureLimitHalts

-----------------------------------------------------------------------------
(***************************************************************************)
(* What holds when no two batches overlap: the daily cap, one booking per  *)
(* decision, and the TradingDesk as an abstraction of the committed        *)
(* tables.  None of it survives a second concurrent batch: the rows and    *)
(* the day's total are read before the locks are taken and are not read    *)
(* again.                                                                  *)
(***************************************************************************)

OneAtATime == \A b, c \in Batch : b = c

\* While the loop runs the day's orders, committed or not, are those the batch
\* has counted, and the rows it has still to visit are still proposed.
SerialInv ==
  /\ DailyCap
  /\ BookedAtMostOnce
  /\ \A b \in Batch :
       /\ pc[b] \in {"loop", "commit", "persist", "failed"} =>
            /\ dayNotional + wroteNotional[b] <= dailySum[b]
            /\ dayNotional + wroteNotional[b] <= MaxDailyLossUsd
       /\ pc[b] = "persist" => dailySum[b] + StakeOf[cur[b]] <= MaxDailyLossUsd
       /\ pc[b] \in BeforeLoop => wroteNotional[b] = 0
       /\ \A d \in rows[b] \cup wrote[b] : status[d] = "proposed"
       /\ pc[b] = "idle" => wrote[b] = {}

\* SerialInv holds at first.
LEMMA SerialInit == Init => SerialInv
BY BoundsAssumption DEF Init, SerialInv, DailyCap, BookedAtMostOnce

\* A batch that ends restores it if the tables are as they should be.
LEMMA SerialReset ==
  ASSUME OneAtATime, Inv, SerialInv, NEW b \in Batch, Reset(b), TablesTyped',
         DailyCap', BookedAtMostOnce'
  PROVE  SerialInv'
BY DEF OneAtATime, Inv, TypeOK, BatchesTyped, SerialInv, Reset, BeforeLoop

\* Every step keeps it: only the one batch changes the orders of the day.
LEMMA SerialStep ==
  ASSUME OneAtATime, Inv, SerialInv, Inv', [Next]_vars
  PROVE  SerialInv'
<1> USE BoundsAssumption DEF OneAtATime, Inv, TypeOK, TablesTyped, BatchesTyped, SerialInv,
                             DailyCap, BookedAtMostOnce, BeforeLoop
<1>1. ASSUME NEW s \in Scanner, ScanPropose(s) PROVE SerialInv'
  BY <1>1 DEF ScanPropose, tables, batchVars
<1>2. ASSUME NEW s \in Scanner, ScanCommit(s) PROVE SerialInv'
  <2>1. \A d \in Decision : status[d] = "proposed" => status'[d] = "proposed"
    BY <1>2 DEF ScanCommit
  <2> QED BY <1>2, <2>1 DEF ScanCommit, batchVars
<1>3. CASE Elsewhere
  BY <1>3 DEF Elsewhere, AutoClose, Operator, Approve, SetKillSwitch, SetShadowMode, NewDay, tables, batchVars
<1>4. ASSUME NEW b \in Batch, BeginBatch(b) PROVE SerialInv'
  BY <1>4 DEF BeginBatch, tables
<1>5. ASSUME NEW b \in Batch, SelectRows(b) \/ ReadDailyNotional(b) PROVE SerialInv'
  BY <1>5 DEF SelectRows, Ready, ReadDailyNotional, tables
<1>6. ASSUME NEW b \in Batch, NEW d \in Decision, SkipOverDailyCap(b, d) \/ ShadowRow(b, d)
      PROVE SerialInv'
  BY <1>6 DEF SkipOverDailyCap, ShadowRow, tables
<1>7. ASSUME NEW b \in Batch, NEW d \in Decision, PaperRow(b, d) PROVE SerialInv'
  BY <1>7 DEF PaperRow, Visits, OverDailyCap, tables
<1>8. ASSUME NEW b \in Batch, NEW d \in Decision, pc[b] \in {"loop", "failed"}, Fail(b, d)
      PROVE SerialInv'
  BY <1>8 DEF Fail, tables
<1>9. ASSUME NEW b \in Batch, NEW d \in Decision, LiveSubmitFails(b, d) PROVE SerialInv'
  BY <1>8, <1>9 DEF LiveSubmitFails, Visits
<1>10. ASSUME NEW b \in Batch, NEW d \in Decision, LiveBroadcast(b, d) PROVE SerialInv'
  BY <1>10 DEF LiveBroadcast, Visits, OverDailyCap, tables
<1>11. ASSUME NEW b \in Batch, LivePersist(b) PROVE SerialInv'
  <2>1. cur[b] \in Decision /\ StakeOf[cur[b]] \in Nat
    BY <1>11 DEF LivePersist
  <2>2. dayNotional' = dayNotional + StakeOf[cur[b]] /\ dayNotional' <= MaxDailyLossUsd
    BY <1>11, <2>1 DEF LivePersist
  <2> QED BY <1>11, <2>2 DEF LivePersist
<1>12. ASSUME NEW b \in Batch, LivePersistFails(b) PROVE SerialInv'
  BY <1>12 DEF LivePersistFails, tables
<1>13. ASSUME NEW b \in Batch, LiveFailed(b) PROVE SerialInv'
  BY <1>8, <1>13 DEF LiveFailed
<1>14. ASSUME NEW b \in Batch, Commit(b) PROVE SerialInv'
  <2>1. DailyCap'
    BY <1>14 DEF Commit, AtEnd
  <2>2. \A d \in wrote[b] : positions[d] = 0 /\ shadowPositions[d] = 0
    <3> SUFFICES ASSUME NEW d \in wrote[b] PROVE positions[d] = 0 /\ shadowPositions[d] = 0
      OBVIOUS
    <3>1. d \in Decision /\ status[d] = "proposed"
      OBVIOUS
    <3>2. ~(positions[d] + shadowPositions[d] > 0)
      BY <3>1 DEF ExecutedIffBooked
    <3>3. positions[d] \in Nat /\ shadowPositions[d] \in Nat
      BY <3>1
    <3> HIDE DEF Inv, TypeOK, TablesTyped, BatchesTyped, SerialInv
    <3> QED BY <3>2, <3>3
  <2>3. BookedAtMostOnce'
    BY <1>14, <2>2 DEF Commit, AtEnd, Added
  <2> QED BY <1>14, <2>1, <2>3, SerialReset DEF Commit
<1>15. ASSUME NEW b \in Batch,
              \/ EndSkipped(b) \/ LiveRefused(b) \/ LiveRecord(b) \/ DeadlockVictim(b)
              \/ Crash(b) \/ \E d \in Decision : UnpricedRow(b, d)
       PROVE  SerialInv'
  <2>1. Rollback(b)
    BY <1>15 DEF EndSkipped, LiveRefused, LiveRecord, DeadlockVictim, Crash, UnpricedRow
  <2>2. DailyCap' /\ BookedAtMostOnce'
    BY <2>1 DEF Rollback, tables
  <2> QED BY <2>1, <2>2, SerialReset DEF Rollback
<1>16. CASE UNCHANGED vars
  BY <1>16 DEF vars, tables, batchVars
<1> QED
  BY <1>1, <1>2, <1>3, <1>4, <1>5, <1>6, <1>7, <1>9, <1>10, <1>11, <1>12, <1>13, <1>14,
     <1>15, <1>16 DEF Next, Scan, BatchStep, VisitRow, Elsewhere

\* So it holds in every reachable state.
LEMMA SerialHolds == ASSUME OneAtATime PROVE Spec => []SerialInv
<1>1. Inv /\ Inv' /\ SerialInv /\ [Next]_vars => SerialInv'
  BY SerialStep
<1> QED BY SerialInit, <1>1, InvHolds, PTL DEF Spec

\* With one batch at a time, today's orders never pass max_daily_loss_usd.
THEOREM DailyCapAlways == ASSUME OneAtATime PROVE Spec => []DailyCap
<1>1. SerialInv => DailyCap
  BY DEF SerialInv
<1> QED BY <1>1, SerialHolds, PTL

\* With one batch at a time, no decision is booked twice.
THEOREM BookedAtMostOnceAlways == ASSUME OneAtATime PROVE Spec => []BookedAtMostOnce
<1>1. SerialInv => BookedAtMostOnce
  BY DEF SerialInv
<1> QED BY <1>1, SerialHolds, PTL

-----------------------------------------------------------------------------
(***************************************************************************)
(* The refinement.  A scan's commit is the desk's Propose, an approval its *)
(* Approve, midnight its NewDay, and a batch's commit its Settle of what   *)
(* the batch wrote; in live mode the provider's own commit is a Settle of  *)
(* nothing that spends.  Every other step leaves the desk as it is.        *)
(***************************************************************************)

\* The steps that touch neither the decisions nor the orders of the day.
LEMMA DeskStutter ==
  ASSUME UNCHANGED <<status, requiresApproval, settings, dayNotional>>
  PROVE  UNCHANGED Desk!vars
BY DEF Desk!vars

\* A scan's commit proposes what the scan created.
LEMMA DeskScanCommit ==
  ASSUME Inv, NEW s \in Scanner, ScanCommit(s)
  PROVE  Desk!Next
<1>1. PICK S \in SUBSET Decision : S = scanned[s]
  BY DEF Inv, TypeOK, ScansTyped
<1>2. \A d \in S : status[d] = "absent"
  BY <1>1 DEF Inv, FreshIds
<1>3. Desk!Propose(S)
  <2>1. CASE settings.require_approval = TRUE
    BY <1>1, <1>2, <2>1 DEF Desk!Propose, ScanCommit
  <2>2. CASE settings.require_approval = FALSE
    BY <1>1, <1>2, <2>2 DEF Desk!Propose, ScanCommit
  <2>3. settings.require_approval \in BOOLEAN
    BY DeploymentAssumption DEF Inv, TypeOK, WorldTyped
  <2> QED BY <2>1, <2>2, <2>3
<1> QED BY <1>3 DEF Desk!Next

\* A batch's commit settles what it wrote, all of it waiting and approved.
LEMMA DeskCommit ==
  ASSUME Inv, SerialInv, SerialInv', TablesTyped', NEW b \in Batch, Commit(b)
  PROVE  Desk!Next
<1>1. PICK S \in SUBSET Decision : S = wrote[b]
  BY DEF Inv, TypeOK, BatchesTyped
<1>2. \A d \in S : status[d] = "proposed" /\ Cleared(d)
  BY <1>1 DEF Inv, InvolvedIsCleared, Held, SerialInv
<1>3. dayNotional' \in dayNotional .. MaxDailyLossUsd
  BY BoundsAssumption DEF Commit, Inv, TypeOK, TablesTyped, BatchesTyped, SerialInv, DailyCap
<1>4. Desk!Settle(S)
  BY <1>1, <1>2, <1>3 DEF Desk!Settle, Commit, Cleared
<1> QED BY <1>4 DEF Desk!Next

\* A provider that persists an order spends and settles nothing.
LEMMA DeskLivePersist ==
  ASSUME Inv, SerialInv, SerialInv', NEW b \in Batch, LivePersist(b)
  PROVE  Desk!Next
<1>1. cur[b] \in Decision /\ StakeOf[cur[b]] \in Nat
  BY BoundsAssumption DEF LivePersist, Inv, TypeOK, BatchesTyped
<1>2. dayNotional' \in dayNotional .. MaxDailyLossUsd
  BY <1>1, BoundsAssumption DEF LivePersist, Inv, TypeOK, TablesTyped, SerialInv, DailyCap
<1>3. Desk!Settle({})
  BY <1>2 DEF Desk!Settle, LivePersist
<1> QED BY <1>3 DEF Desk!Next

\* Every step of the service is a step of the desk or none.
LEMMA DeskStep ==
  ASSUME Inv, Inv', SerialInv, SerialInv', [Next]_vars
  PROVE  [Desk!Next]_(Desk!vars)
<1>1. ASSUME NEW s \in Scanner, Scan(s) PROVE Desk!Next \/ UNCHANGED Desk!vars
  BY <1>1, DeskScanCommit, DeskStutter DEF Scan, ScanPropose, tables
<1>2. ASSUME NEW d \in Decision, Approve(d) PROVE Desk!Next
  <2>1. requiresApproval \in [Decision -> BOOLEAN] /\ status[d] \in {"proposed", "executed"}
    BY <1>2 DEF Inv, TypeOK, TablesTyped, Approve
  <2>2. Desk!Approve(d)
    BY <1>2, <2>1 DEF Desk!Approve, Approve
  <2> QED BY <2>2 DEF Desk!Next
<1>3. CASE SetShadowMode \/ \E enabled \in BOOLEAN : SetKillSwitch(enabled)
  BY <1>3, DeskStutter DEF SetShadowMode, SetKillSwitch, tables
<1>4. CASE NewDay \/ \E d \in Decision : AutoClose(d)
  BY <1>4, DeskStutter DEF NewDay, AutoClose, Desk!NewDay, Desk!Next
<1>5. ASSUME NEW b \in Batch, BeginBatch(b) \/ BatchStep(b) \/ Crash(b)
      PROVE  Desk!Next \/ UNCHANGED Desk!vars
  <2>1. CASE Commit(b)
    BY <2>1, DeskCommit DEF Inv, TypeOK
  <2>2. CASE LivePersist(b)
    BY <2>2, DeskLivePersist
  <2>3. CASE ~Commit(b) /\ ~LivePersist(b)
    BY <1>5, <2>3, DeskStutter DEF BeginBatch, BatchStep, VisitRow, EndSkipped, LiveRefused, SelectRows,
       ReadDailyNotional, SkipOverDailyCap, UnpricedRow, PaperRow, ShadowRow, LiveSubmitFails,
       LiveBroadcast, LivePersistFails, LiveFailed, LiveRecord, Fail, DeadlockVictim, Crash,
       Rollback, tables
  <2> QED BY <2>1, <2>2, <2>3
<1>6. CASE UNCHANGED vars
  BY <1>6, DeskStutter DEF vars, tables
<1> QED BY <1>1, <1>2, <1>3, <1>4, <1>5, <1>6 DEF Next, Operator

\* With one batch at a time, the committed tables implement the trading desk.
THEOREM KeepsTheDeskAlways == ASSUME OneAtATime PROVE Spec => KeepsTheDesk
<1>1. Init => Desk!Init
  BY BoundsAssumption DEF Init, Desk!Init
<1>2. Inv /\ Inv' /\ SerialInv /\ SerialInv' /\ [Next]_vars => [Desk!Next]_(Desk!vars)
  BY DeskStep
<1> QED BY <1>1, <1>2, InvHolds, SerialHolds, PTL DEF Spec, KeepsTheDesk, Desk!Spec
=============================================================================
