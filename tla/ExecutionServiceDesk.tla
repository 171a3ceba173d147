------------------------ MODULE ExecutionServiceDesk ------------------------
(***************************************************************************)
(* ExecutionService as a TradingDesk: only committed rows count, and a     *)
(* decision is settled when its row reads "executed".  This holds when     *)
(* batches run one at a time.                                              *)
(***************************************************************************)
EXTENDS ExecutionService

Desk == INSTANCE TradingDesk WITH
  DailyCap <- MaxDailyLossUsd,
  waiting  <- {d \in Decision : status[d] = "proposed"},
  approved <- {d \in Decision : ~(requiresApproval[d] /\ settings.require_approval)},
  settled  <- {d \in Decision : status[d] = "executed"},
  spent    <- dayNotional

\* Whatever batches, scans, operators and crashes do, the committed tables move
\* as the desk's do: approval first, settled once and in whole groups, and never
\* past the daily cap.
KeepsTheDesk == Desk!Spec
=============================================================================
