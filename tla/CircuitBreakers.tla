-------------------------- MODULE CircuitBreakers --------------------------
(***************************************************************************)
(* GlobalCircuitBreaker and StrategyCircuitBreaker over the one            *)
(* _CircuitState of the process.  The global breaker is reset by hand      *)
(* only.  A strategy's breaker may reset itself: a check that comes a day  *)
(* or more after the last trip clears it, and its review flag, before      *)
(* anything else is looked at.  A reset by hand asks for a review that no  *)
(* operation ends but that automatic one, after another trip.  A restart    *)
(* clears everything.                                                      *)
(*                                                                         *)
(* All of it is memory.  A check is one call: what it is told about the    *)
(* portfolio and the orders comes from its caller.                         *)
(***************************************************************************)
EXTENDS Integers

CONSTANTS
  Strategy,
  NotTripped,        \* no reason, no time
  AutoResetAfter,    \* hours
  MaxDrawdown, MaxStrategyDrawdown, MaxDailyLoss, MaxLatency,
  MaxFailurePercent,
  Drawdowns, Spendings, Latencies, OrderCounts,    \* what a check may be told
  MaxHour            \* bound

ASSUME BreakerAssumption ==
  /\ AutoResetAfter \in Nat /\ MaxHour \in Nat
  /\ MaxDrawdown \in Nat /\ MaxStrategyDrawdown \in Nat /\ MaxDailyLoss \in Nat
  /\ MaxLatency \in Nat /\ MaxFailurePercent \in Nat
  /\ Drawdowns \subseteq Nat /\ Spendings \subseteq Nat
  /\ Latencies \subseteq Nat /\ OrderCounts \subseteq Nat
  /\ NotTripped \notin Nat
  /\ NotTripped \notin {"drawdown", "daily_loss", "data_stale", "exec_failure_rate", "manual"}

VARIABLES
  hour,
  halt,         \* the reason of the global breaker
  triggered, trippedAt, review,    \* of each strategy
  actor         \* of the last step: "code", "operator" or "restart"

breakers == <<hour, halt, triggered, trippedAt, review, actor>>

Reasons == {"drawdown", "daily_loss", "data_stale", "exec_failure_rate", "manual"}

\* A rate over no orders, or over none given, is no rate.
FailureRateExceeded(failed, total) ==
  total > 0 /\ 100 * failed > MaxFailurePercent * total

\* The first condition that holds.  The "daily loss" is what was spent on filled orders.
GlobalReason(drawdown, spent, latency, failed, total) ==
  CASE drawdown > MaxDrawdown             -> "drawdown"
    [] spent > MaxDailyLoss               -> "daily_loss"
    [] latency > MaxLatency               -> "data_stale"
    [] FailureRateExceeded(failed, total) -> "exec_failure_rate"
    [] OTHER                              -> NotTripped

-----------------------------------------------------------------------------
\* A check that finds nothing leaves a tripped breaker as it is.
GlobalCheck ==
  /\ \E d \in Drawdowns, n \in Spendings, l \in Latencies, f, k \in OrderCounts :
       /\ f <= k
       /\ LET reason == GlobalReason(d, n, l, f, k)
          IN  halt' = IF reason = NotTripped THEN halt ELSE reason
  /\ actor' = "code"
  /\ UNCHANGED <<hour, triggered, trippedAt, review>>

GlobalTrigger ==
  /\ halt' = "manual" /\ actor' = "operator"
  /\ UNCHANGED <<hour, triggered, trippedAt, review>>

GlobalReset ==
  /\ halt' = NotTripped /\ actor' = "operator"
  /\ UNCHANGED <<hour, triggered, trippedAt, review>>

-----------------------------------------------------------------------------
\* Variant: a trip keeps the time of the one before it.
FirstTripTime(s) == IF trippedAt[s] = NotTripped THEN hour ELSE trippedAt[s]

TripTime(s) == hour

AutoResetDue(s) == trippedAt[s] # NotTripped /\ hour - trippedAt[s] >= AutoResetAfter

\* The automatic reset leaves the time of the trip behind.  A breaker that is still
\* triggered then answers without looking further, unless it awaits a review.
StrategyCheck(s) ==
  LET due    == AutoResetDue(s)
      still  == triggered[s] /\ ~due
      awaits == review[s] /\ ~due
  IN  /\ \E d \in Drawdowns, f, k \in OrderCounts :
           /\ f <= k
           /\ LET trips == /\ ~still \/ awaits
                           /\ d > MaxStrategyDrawdown \/ FailureRateExceeded(f, k)
              IN  /\ triggered' = [triggered EXCEPT ![s] = still \/ trips]
                  /\ trippedAt' = [trippedAt EXCEPT ![s] = IF trips THEN TripTime(s) ELSE @]
      /\ review' = [review EXCEPT ![s] = awaits]
      /\ actor' = "code"
      /\ UNCHANGED <<hour, halt>>

StrategyTrigger(s) ==
  /\ triggered' = [triggered EXCEPT ![s] = TRUE]
  /\ trippedAt' = [trippedAt EXCEPT ![s] = TripTime(s)]
  /\ actor' = "operator"
  /\ UNCHANGED <<hour, halt, review>>

\* reset: a strategy that was never triggered has no state, and a second reset in a row
\* changes nothing.
StrategyReset(s) ==
  /\ trippedAt[s] # NotTripped
  /\ triggered' = [triggered EXCEPT ![s] = FALSE]
  /\ trippedAt' = [trippedAt EXCEPT ![s] = NotTripped]
  /\ review' = [review EXCEPT ![s] = TRUE]
  /\ actor' = "operator"
  /\ UNCHANGED <<hour, halt>>

CheckAndAllow(s) == ~triggered[s]

BreakerInit ==
  /\ hour = 0 /\ halt = NotTripped /\ actor = "code"
  /\ triggered = [s \in Strategy |-> FALSE]
  /\ trippedAt = [s \in Strategy |-> NotTripped]
  /\ review = [s \in Strategy |-> FALSE]

HourPasses ==
  /\ hour < MaxHour
  /\ hour' = hour + 1 /\ actor' = "code"
  /\ UNCHANGED <<halt, triggered, trippedAt, review>>

BreakersRestart ==
  /\ halt' = NotTripped /\ actor' = "restart"
  /\ triggered' = [s \in Strategy |-> FALSE]
  /\ trippedAt' = [s \in Strategy |-> NotTripped]
  /\ review' = [s \in Strategy |-> FALSE]
  /\ UNCHANGED hour

BreakerNext ==
  \/ GlobalCheck \/ GlobalTrigger \/ GlobalReset
  \/ \E s \in Strategy : StrategyCheck(s) \/ StrategyTrigger(s) \/ StrategyReset(s)
  \/ HourPasses \/ BreakersRestart

BreakerSpec == BreakerInit /\ [][BreakerNext]_breakers

-----------------------------------------------------------------------------
\* Reasons, times and flags of the breakers.
BreakerTypeOK ==
  /\ hour \in 0 .. MaxHour
  /\ halt \in Reasons \cup {NotTripped}
  /\ actor \in {"code", "operator", "restart"}
  /\ triggered \in [Strategy -> BOOLEAN]
  /\ trippedAt \in [Strategy -> 0 .. MaxHour \cup {NotTripped}]
  /\ review \in [Strategy -> BOOLEAN]

\* What the code does on its own never clears the global breaker, and lets a strategy
\* trade again no sooner than AutoResetAfter hours after its latest trip, a trip by hand
\* or one that came while a review was due included.
AutoResetIsLate ==
  [][actor' = "code" =>
       /\ halt # NotTripped => halt' # NotTripped
       /\ \A s \in Strategy :
            /\ CheckAndAllow(s) /\ ~CheckAndAllow(s)' => trippedAt'[s] = hour
            /\ ~CheckAndAllow(s) /\ CheckAndAllow(s)' => AutoResetDue(s)]_breakers
=============================================================================
