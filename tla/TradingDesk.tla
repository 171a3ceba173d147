---------------------------- MODULE TradingDesk ----------------------------
(***************************************************************************)
(* What the decision pipeline promises its operator, with no sessions and  *)
(* no transactions: a decision waits until it has been approved, it is     *)
(* settled once and never comes back, and what is settled on one day stays *)
(* within the daily cap.                                                   *)
(***************************************************************************)
EXTENDS Integers

CONSTANTS Decision, DailyCap

VARIABLES waiting, approved, settled, spent

vars == <<waiting, approved, settled, spent>>

Init ==
  /\ waiting = {} /\ settled = {}
  /\ approved \in SUBSET Decision
  /\ spent = 0

\* New decisions join those that wait, approved from the start if the desk
\* does not ask for approval.
Propose(S) ==
  /\ S \subseteq Decision \ (waiting \cup settled)
  /\ waiting' = waiting \cup S
  /\ approved' \in {approved \ S, approved \cup S}
  /\ UNCHANGED <<settled, spent>>

Approve(d) ==
  /\ d \in waiting \cup settled
  /\ approved' = approved \cup {d}
  /\ UNCHANGED <<waiting, settled, spent>>

\* A group of approved decisions is settled as one.  An order may count for the
\* day although it settles nothing (the group is then empty).
Settle(S) ==
  /\ S \subseteq waiting \cap approved
  /\ waiting' = waiting \ S
  /\ settled' = settled \cup S
  /\ spent' \in spent .. DailyCap
  /\ UNCHANGED approved

NewDay == spent' = 0 /\ UNCHANGED <<waiting, approved, settled>>

Next ==
  \/ \E S \in SUBSET Decision : Propose(S) \/ Settle(S)
  \/ \E d \in Decision : Approve(d)
  \/ NewDay

Spec == Init /\ [][Next]_vars
=============================================================================
