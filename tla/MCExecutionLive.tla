-------------------------- MODULE MCExecutionLive --------------------------
(* One batch at a time in live mode on PostgreSQL, where every persisted     *)
(* order is followed by the failing insert of record_order_and_position.     *)
EXTENDS ExecutionService

MCStakeOf == [d \in 1 .. 1 |-> 1]
MCMarketOf == [d \in 1 .. 1 |-> "m"]
MCEventOf == [m \in {"m"} |-> "e"]
MCDeployments ==
  {[execution_mode |-> "live", database |-> "postgresql", require_approval |-> TRUE]}
=============================================================================
