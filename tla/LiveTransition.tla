--------------------------- MODULE LiveTransition ---------------------------
(***************************************************************************)
(* From shadow to live: LiveTransitionManager (the live flag and its gates)*)
(* and StagedPositionSizer (the stage that scales a stake), over the books *)
(* of ShadowLedger and the global circuit breaker.                         *)
(*                                                                         *)
(* The flag, settings.shadow_stage and the breaker are memory, and a       *)
(* restart loses them.  The rows of trading_stage_records that each change *)
(* adds are a log that nothing reads back: they, and whether their commit  *)
(* succeeds, are left out; the stage is written before it.  Several        *)
(* sessions may be advancing the stage: each checks the gates, reads the   *)
(* stage again and writes it.                                              *)
(***************************************************************************)
EXTENDS ShadowLedger

CONSTANTS
  Session,
  Configured,     \* the stage the environment configures
  MinAccuracy,    \* percent, for either gate
  MinGoLive,      \* resolved trades for going live
  MinPaper,       \* paper trades for a next stage
  StaleDays,
  StalePercent,
  MaxEarned       \* bound on earned

MaxStage == 4
Stage == 0 .. MaxStage

ASSUME TransitionAssumption ==
  /\ IsFiniteSet(Session)
  /\ Configured \in Stage
  /\ MinAccuracy \in Nat /\ StaleDays \in Nat /\ StalePercent \in Nat /\ MaxEarned \in Nat
  /\ MinPaper \in Nat /\ MinGoLive \in Nat

VARIABLES
  live,           \* LiveTransitionManager._live_enabled
  stage,          \* settings.shadow_stage
  tripped,        \* the global circuit breaker
  pc, seen,       \* of each session: where advance is, and the stage it read
  \* what happened since the last rollback or restart
  earned,         \* the stage it left, and one more for each check passed since
  overtaken,      \* sessions that were past their check when the rollback came
  undone          \* one of these has written its stage

control == <<live, stage, tripped, pc, seen, earned, overtaken, undone>>
vars    == <<day, ledger, control>>

-----------------------------------------------------------------------------
(***************************************************************************)
(* The gates.                                                              *)
(***************************************************************************)

Positions == 1 .. created
Stale     == {t \in Positions : isOpen[t] /\ trade[t].opened + StaleDays < day}
ResolvedInWindow == {t \in Positions : resolvedAt[t] # Never /\ resolvedAt[t] + Window >= day}

\* can_go_live: accuracy, shadow trades, reconciliation error, breaker.
CanGoLive ==
  /\ AccuracyAbove(MinAccuracy)
  /\ Cardinality(ResolvedInWindow) > MinGoLive
  /\ 100 * Cardinality(Stale) < StalePercent * Cardinality(Positions) \/ Positions = {}
  /\ ~tripped

\* A resolved signal counts, and so does its position.
PaperTrades == Cardinality(InWindow) + Cardinality(Positions)

\* Variant: the share of good predictions only has to reach the limit.
CanAdvanceAtLimit ==
  /\ stage < MaxStage
  /\ 100 * Cardinality(Accurate) >= MinAccuracy * Cardinality(InWindow)
  /\ PaperTrades > MinPaper
  /\ ~tripped

\* can_advance.  Of the four gates it names, the drift is not looked at.
CanAdvance ==
  /\ stage < MaxStage
  /\ AccuracyAbove(MinAccuracy)
  /\ PaperTrades > MinPaper
  /\ ~tripped

-----------------------------------------------------------------------------
(***************************************************************************)
(* LiveTransitionManager.                                                  *)
(***************************************************************************)

\* trigger_live looks at no gate.
TriggerLive ==
  /\ ~live
  /\ live' = TRUE
  /\ UNCHANGED <<day, ledger, stage, tripped, pc, seen, earned, overtaken, undone>>

\* rollback records stage 0 and leaves settings.shadow_stage as it is.
LiveRollback ==
  /\ live
  /\ live' = FALSE
  /\ UNCHANGED <<day, ledger, stage, tripped, pc, seen, earned, overtaken, undone>>

-----------------------------------------------------------------------------
(***************************************************************************)
(* StagedPositionSizer.                                                    *)
(***************************************************************************)

\* Variant: the stage is written on the way to the check.
AdvanceAnyway(s) ==
  /\ pc[s] = "idle" /\ stage < MaxStage
  /\ stage' = stage + 1
  /\ UNCHANGED <<day, ledger, live, tripped, pc, seen, earned, overtaken, undone>>

AdvanceChecks(s) ==
  /\ pc[s] = "idle" /\ CanAdvance
  /\ earned < MaxEarned
  /\ pc' = [pc EXCEPT ![s] = "cleared"]
  /\ earned' = earned + 1
  /\ UNCHANGED <<day, ledger, live, stage, tripped, seen, overtaken, undone>>

\* Variant: the stage is known from the check.
AdvanceReadsAny(s) ==
  /\ pc[s] = "cleared"
  /\ pc' = [pc EXCEPT ![s] = "read"]
  /\ seen' = [seen EXCEPT ![s] = stage]
  /\ UNCHANGED <<day, ledger, live, stage, tripped, earned, overtaken, undone>>

\* The stage is read once more; at the top of the ladder that is the end.
AdvanceReads(s) ==
  /\ pc[s] = "cleared"
  /\ pc' = [pc EXCEPT ![s] = IF stage < MaxStage THEN "read" ELSE "idle"]
  /\ seen' = [seen EXCEPT ![s] = IF stage < MaxStage THEN stage ELSE 0]
  /\ overtaken' = IF stage < MaxStage THEN overtaken ELSE overtaken \ {s}
  /\ UNCHANGED <<day, ledger, live, stage, tripped, earned, undone>>

AdvanceWrites(s) ==
  /\ pc[s] = "read"
  /\ stage' = seen[s] + 1
  /\ pc' = [pc EXCEPT ![s] = "idle"]
  /\ seen' = [seen EXCEPT ![s] = 0]
  /\ undone' = (undone \/ s \in overtaken)
  /\ overtaken' = overtaken \ {s}
  /\ UNCHANGED <<day, ledger, live, tripped, earned>>

StageRollback ==
  /\ stage' = 0
  /\ earned' = 0 /\ undone' = FALSE
  /\ overtaken' = {s \in Session : pc[s] # "idle"}
  /\ UNCHANGED <<day, ledger, live, tripped, pc, seen>>

-----------------------------------------------------------------------------
(***************************************************************************)
(* The breaker and the process.                                            *)
(***************************************************************************)

TripGlobal  == ~tripped /\ tripped' = TRUE
ResetGlobal == tripped /\ tripped' = FALSE

Breaker ==
  /\ TripGlobal \/ ResetGlobal
  /\ UNCHANGED <<day, ledger, live, stage, pc, seen, earned, overtaken, undone>>

RestartProcess ==
  /\ live' = FALSE /\ stage' = Configured /\ tripped' = FALSE
  /\ pc' = [s \in Session |-> "idle"]
  /\ seen' = [s \in Session |-> 0]
  /\ earned' = Configured /\ overtaken' = {} /\ undone' = FALSE
  /\ UpdatesLost

Init ==
  /\ LedgerInit
  /\ live = FALSE /\ stage = Configured /\ tripped = FALSE
  /\ pc = [s \in Session |-> "idle"] /\ seen = [s \in Session |-> 0]
  /\ earned = Configured /\ overtaken = {} /\ undone = FALSE

Books == (LedgerNext \/ Tick) /\ UNCHANGED control

Advance(s) ==
  AdvanceChecks(s) \/ AdvanceReads(s) \/ AdvanceWrites(s)

Next ==
  \/ Books
  \/ \E s \in Session : Advance(s)
  \/ TriggerLive \/ LiveRollback \/ StageRollback
  \/ Breaker \/ RestartProcess

Spec == Init /\ [][Next]_vars

-----------------------------------------------------------------------------
(***************************************************************************)
(* Properties.                                                             *)
(***************************************************************************)

\* Types of the flag, the ladder and the sessions that climb it: two sessions that meet at
\* the top of the ladder do not take it further.
TypeOK ==
  /\ LedgerTypeOK
  /\ live \in BOOLEAN /\ tripped \in BOOLEAN /\ undone \in BOOLEAN
  /\ stage \in Stage
  /\ pc \in [Session -> {"idle", "cleared", "read"}]
  /\ seen \in [Session -> Stage]
  /\ earned \in Nat
  /\ overtaken \subseteq Session

\* However the sessions and the updates of the books interleave, a raised stage stands for
\* evidence: at least one resolved result and, because a resolved signal is counted along
\* with its position, half the paper trades that the gate asks for, but never fewer.
StageHasEvidence ==
  stage > Configured => 2 * created > MinPaper /\ \E t \in Positions : outcome[t] # ""

\* A rollback to stage 0 is undone only by an advance that was past its gates when it
\* came; otherwise each stage above 0 is one check passed since.
RollbackSticks == ~undone => stage <= earned
=============================================================================
