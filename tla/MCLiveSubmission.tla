-------------------------- MODULE MCLiveSubmission --------------------------
(* Two submissions of one client_order_id, on two threads.                   *)
EXTENDS LiveSubmission

MCIdOf == [s \in Submission |-> "a"]
=============================================================================
