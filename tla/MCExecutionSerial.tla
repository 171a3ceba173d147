------------------------- MODULE MCExecutionSerial -------------------------
(* One batch at a time, in paper and shadow mode: the deployment the code is *)
(* written for.  Three decisions on two events, and a cap with room for two. *)
EXTENDS ExecutionServiceDesk

MCStakeOf == [d \in 1 .. 3 |-> 1]
MCMarketOf == [d \in 1 .. 3 |-> IF d = 3 THEN "m2" ELSE "m1"]
MCEventOf == [m \in {"m1", "m2"} |-> IF m = "m2" THEN "e2" ELSE "e1"]
MCDeployments ==
  {[execution_mode |-> "paper", database |-> "sqlite", require_approval |-> TRUE],
   [execution_mode |-> "paper", database |-> "postgresql", require_approval |-> FALSE]}
=============================================================================
