----------------------- MODULE MCExecutionConcurrent -----------------------
(* Two batches and a scan overlap, in paper and live mode, on SQLite and on  *)
(* PostgreSQL.  Both decisions pass RiskEngine; the daily cap has room for   *)
(* one of them.                                                              *)
EXTENDS ExecutionService

MCStakeOf == [d \in 1 .. 2 |-> 1]
MCMarketOf == [d \in 1 .. 2 |-> "m"]
MCEventOf == [m \in {"m"} |-> "e"]
MCDeployments ==
  {[execution_mode |-> mode, database |-> db, require_approval |-> TRUE] :
     mode \in {"paper", "live"}, db \in {"sqlite", "postgresql"}}
BatchSymmetry == {[b \in Batch |-> p[b]] : p \in {q \in [Batch -> Batch] :
                    \A b, c \in Batch : b # c => q[b] # q[c]}}
=============================================================================
