------------------------------ MODULE MCGoLive ------------------------------
(* Three instances that share no variable, one at a time: the books of three  *)
(* trades in one market, or of two in two; the stages and gates over the      *)
(* books of two trades in one market, with one update at a time; the          *)
(* breakers, whose hours the others do not count, along with the live flag,   *)
(* which no action of the others reads.                                       *)
EXTENDS LiveTransition, CircuitBreakers, TLC

VARIABLE part

MCInit ==
  /\ part \in {"books", "desk", "breakers"}
  /\ Init /\ BreakerInit

InOneMarket == \A t, u \in Positions : trade[t].market = trade[u].market

OneUpdate == \A u, v \in Updater : Updating(u) /\ Updating(v) => u = v

MCNext ==
  \/ /\ part = "books" /\ Books /\ (InOneMarket \/ created <= 2)'
     /\ UNCHANGED <<part, breakers>>
  \/ /\ part = "desk" /\ Next /\ created' <= 2 /\ InOneMarket' /\ OneUpdate'
     /\ UNCHANGED <<part, breakers, live>>
  \/ /\ part = "breakers"
     /\ \/ BreakerNext /\ UNCHANGED vars
        \/ (TriggerLive \/ LiveRollback) /\ UNCHANGED breakers
     /\ UNCHANGED part

MCSpec == MCInit /\ [][MCNext]_<<part, vars, breakers>>

Symmetry ==
  Permutations(Session) \cup Permutations(Updater) \cup Permutations(Market)
    \cup Permutations(Strategy)
=============================================================================
