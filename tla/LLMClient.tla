----------------------------- MODULE LLMClient -----------------------------
(***************************************************************************)
(* LLMClient.complete and its sliding-window RateLimiter, as used by the   *)
(* threads of the API.  The limiter has no lock: acquire reads the list of *)
(* timestamps, replaces it by what is left of it, looks at its length and  *)
(* appends to it, and another thread may come between any two of these.    *)
(* Nothing depends on the order of the list: it is how many timestamps of  *)
(* each time it holds.                                                     *)
(***************************************************************************)
EXTENDS Integers, FiniteSets, FiniteSetsExt

CONSTANTS
  Thread,
  MaxCalls, CallWindow,     \* 10 calls in 60 seconds
  Attempts,                 \* 3
  MaxNow                    \* bound: the model's time

ASSUME LimiterAssumption ==
  MaxCalls \in Nat \ {0} /\ CallWindow \in Nat \ {0} /\ Attempts \in Nat \ {0} /\ MaxNow \in Nat

VARIABLES
  now,
  stamps,       \* RateLimiter._timestamps: how many of each time
  step,         \* where each thread is in complete()
  asked,        \* the time at which its acquire began
  kept,         \* the list that it has made and not stored yet
  attempt,
  admitted,     \* history: the calls of the window let through, by their asking time
                \* (more than MaxCalls are counted as one more)
  unshared      \* history: for how long no two threads met in acquire, up to a window

limiter == <<now, stamps, step, asked, kept, attempt, admitted, unshared>>

Acquiring == {"prune", "install", "check", "append"}

NoStamps == [n \in 0 .. MaxNow |-> 0]

Stamped(list) == MapThenSumSet(LAMBDA n : list[n], 0 .. MaxNow)

LimiterInit ==
  /\ now = 0 /\ stamps = NoStamps
  /\ step = [t \in Thread |-> "idle"]
  /\ asked = [t \in Thread |-> 0]
  /\ kept = [t \in Thread |-> NoStamps]
  /\ attempt = [t \in Thread |-> 0]
  /\ admitted = NoStamps
  /\ unshared = CallWindow

\* Two threads are in acquire after the step.
Met == \E t, u \in Thread : t # u /\ {step'[t], step'[u]} \subseteq Acquiring

Goes(t, s) == step' = [step EXCEPT ![t] = s]

Tick ==
  /\ now < MaxNow /\ now' = now + 1
  /\ admitted' = [n \in 0 .. MaxNow |-> IF n > now + 1 - CallWindow THEN admitted[n] ELSE 0]
  /\ UNCHANGED <<stamps, step, asked, kept, attempt>>
  /\ unshared' = IF Met THEN 0 ELSE IF unshared < CallWindow THEN unshared + 1 ELSE unshared

Ask(t) ==
  /\ step[t] = "idle" /\ Goes(t, "prune")
  /\ asked' = [asked EXCEPT ![t] = now]
  /\ UNCHANGED <<now, stamps, kept, attempt, admitted>>

Prune(t) ==
  /\ step[t] = "prune" /\ Goes(t, "install")
  /\ kept' = [kept EXCEPT ![t] =
       [n \in 0 .. MaxNow |-> IF n > asked[t] - CallWindow THEN stamps[n] ELSE 0]]
  /\ UNCHANGED <<now, stamps, asked, attempt, admitted>>

Install(t) ==
  /\ step[t] = "install" /\ Goes(t, "check")
  /\ stamps' = kept[t]
  /\ kept' = [kept EXCEPT ![t] = NoStamps]
  /\ UNCHANGED <<now, asked, attempt, admitted>>

\* Variant: one call more than the limit.
CheckLoosely(t) ==
  /\ step[t] = "check"
  /\ Goes(t, IF Stamped(stamps) > MaxCalls THEN "idle" ELSE "append")
  /\ UNCHANGED <<now, stamps, asked, kept, attempt, admitted>>

\* A refused call is an answer that never came.
Check(t) ==
  /\ step[t] = "check"
  /\ Goes(t, IF Stamped(stamps) >= MaxCalls THEN "idle" ELSE "append")
  /\ UNCHANGED <<now, stamps, asked, kept, attempt, admitted>>

AppendStamp(t) ==
  /\ step[t] = "append" /\ Goes(t, "call")
  /\ stamps' = [stamps EXCEPT ![asked[t]] = @ + 1]
  /\ admitted' = [admitted EXCEPT ![asked[t]] = IF @ > MaxCalls THEN @ ELSE @ + 1]
  /\ attempt' = [attempt EXCEPT ![t] = 1]
  /\ UNCHANGED <<now, asked, kept>>

\* The attempts of a call are not admitted one by one.
CallFails(t) ==
  /\ step[t] = "call"
  /\ IF attempt[t] < Attempts
     THEN attempt' = [attempt EXCEPT ![t] = @ + 1] /\ UNCHANGED step
     ELSE attempt' = [attempt EXCEPT ![t] = 0] /\ Goes(t, "idle")
  /\ UNCHANGED <<now, stamps, asked, kept, admitted>>

CallAnswers(t) ==
  /\ step[t] = "call" /\ Goes(t, "idle")
  /\ attempt' = [attempt EXCEPT ![t] = 0]
  /\ UNCHANGED <<now, stamps, asked, kept, admitted>>

LimiterNext ==
  \/ Tick
  \/ /\ \E t \in Thread :
          \/ Ask(t) \/ Prune(t) \/ Install(t) \/ Check(t) \/ AppendStamp(t)
          \/ CallFails(t) \/ CallAnswers(t)
     /\ unshared' = IF Met THEN 0 ELSE unshared

LimiterSpec == LimiterInit /\ [][LimiterNext]_limiter

-----------------------------------------------------------------------------
CallsInWindow ==
  MapThenSumSet(LAMBDA n : admitted[n], {n \in 0 .. now : n > now - CallWindow})

\* Two threads that meet in acquire may lose a timestamp or both take the last place.
\* The limiter recovers: when no two have met for a window, no more calls than the
\* limit were let through in it.
CallsWithinLimit == unshared = CallWindow => CallsInWindow <= MaxCalls
=============================================================================
