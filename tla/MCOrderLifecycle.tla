-------------------------- MODULE MCOrderLifecycle --------------------------
(* Two background threads, so that one may start while another cleans up.    *)
EXTENDS OrderLifecycle
=============================================================================
