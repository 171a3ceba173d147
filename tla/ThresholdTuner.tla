--------------------------- MODULE ThresholdTuner ---------------------------
(***************************************************************************)
(* ThresholdTuner.suggest_threshold over the resolved shadow trades of a   *)
(* strategy, and analyze_threshold_impact of what it suggested.            *)
(*                                                                         *)
(* Probabilities are in units of 1/Pow[Halvings], the width at which the   *)
(* bisection stops: every threshold it tries is such a multiple, and a     *)
(* probability is at least a multiple exactly if its integral part is.     *)
(***************************************************************************)
EXTENDS Integers, FiniteSets, FiniteSetsExt

CONSTANTS
  Trades,          \* what the table may hold: functions to [age, closed, prob, right, pnl]
  Targets,         \* accuracies asked for, in percent
  AnalysisDays,    \* 30
  Halvings,        \* 20
  Pow,             \* the powers of two up to Halvings
  Grain,           \* the suggestion is rounded to multiples of it: 1/10000
  SetConfidence    \* settings.min_confidence

ASSUME TunerAssumption ==
  /\ Targets \subseteq 1 .. 100 /\ AnalysisDays \in Nat
  /\ Halvings \in Nat /\ Pow \in [0 .. Halvings -> Nat]
  /\ Pow[0] = 1 /\ \A k \in 1 .. Halvings : Pow[k] = 2 * Pow[k - 1]
  /\ Grain \in Nat \ {0} /\ SetConfidence \in Nat

VARIABLES
  shadow,          \* the rows of the strategy in shadow_results
  target,
  lo, hi, left,    \* the interval, and how often it is still halved
  suggested,       \* at most one threshold
  impact           \* of a threshold: at most one answer

tuner == <<shadow, target, lo, hi, left, suggested, impact>>

One == Pow[Halvings]

TunerInit ==
  /\ shadow \in Trades /\ target \in Targets
  /\ lo = 0 /\ hi = One /\ left = Halvings
  /\ suggested = {} /\ impact = {}

\* Resolved, and not longer ago than the window.
Sample == {i \in DOMAIN shadow : shadow[i].closed /\ shadow[i].age <= AnalysisDays}

Passed(threshold) == {i \in Sample : shadow[i].prob >= threshold}
Right(threshold)  == {i \in Passed(threshold) : shadow[i].right}

\* The accuracy of nothing is 0, which no target is.
Reaches(threshold) ==
  /\ Passed(threshold) # {}
  /\ 100 * Cardinality(Right(threshold)) >= target * Cardinality(Passed(threshold))

NoSample ==
  /\ suggested = {} /\ Sample = {}
  /\ suggested' = {SetConfidence}
  /\ UNCHANGED <<shadow, target, lo, hi, left, impact>>

Middle == (lo + hi) \div 2

\* Variant: the half that is kept is the other one.
HalveWrongly ==
  /\ suggested = {} /\ Sample # {} /\ left > 0
  /\ IF Reaches(Middle)
     THEN lo' = Middle /\ UNCHANGED hi
     ELSE hi' = Middle /\ UNCHANGED lo
  /\ left' = left - 1
  /\ UNCHANGED <<shadow, target, suggested, impact>>

Halve ==
  /\ suggested = {} /\ Sample # {} /\ left > 0
  /\ IF Reaches(Middle)
     THEN hi' = Middle /\ UNCHANGED lo
     ELSE lo' = Middle /\ UNCHANGED hi
  /\ left' = left - 1
  /\ UNCHANGED <<shadow, target, suggested, impact>>

\* The nearest multiple of the grain, which may be below hi and let in what hi kept out.
Rounded(x) == ((2 * x + Grain) \div (2 * Grain)) * Grain

Suggest ==
  /\ suggested = {} /\ Sample # {} /\ left = 0
  /\ suggested' = {Rounded(hi)}
  /\ UNCHANGED <<shadow, target, lo, hi, left, impact>>

\* analyze_threshold_impact
Impact(threshold) ==
  [threshold |-> threshold, passed |-> Cardinality(Passed(threshold)),
   right |-> Cardinality(Right(threshold)),
   pnl |-> MapThenSumSet(LAMBDA i : shadow[i].pnl, Passed(threshold)),
   total |-> Cardinality(Sample)]

Analyze(threshold) ==
  /\ impact' = {Impact(threshold)}
  /\ UNCHANGED <<shadow, target, lo, hi, left, suggested>>

\* Another question, over what the table holds by then.
AskAgain ==
  /\ suggested # {}
  /\ shadow' \in Trades /\ target' \in Targets
  /\ lo' = 0 /\ hi' = One /\ left' = Halvings
  /\ suggested' = {} /\ impact' = {}

TunerNext ==
  \/ NoSample \/ Halve \/ Suggest \/ AskAgain
  \/ \E threshold \in suggested \cup {One} : Analyze(threshold)

TunerSpec == TunerInit /\ [][TunerNext]_tuner

-----------------------------------------------------------------------------
\* At every step of the search, the upper end reaches the target unless it is 1, and
\* the lower end does not unless it is 0; at the end they are neighbours, so that before
\* it is rounded the suggestion is a threshold below which the target is missed.  It need
\* not be the least that reaches it: accuracy does not grow with the threshold.
ThresholdReachesTarget ==
  /\ hi = One \/ Reaches(hi)
  /\ lo = 0 \/ ~Reaches(lo)
  /\ left = 0 => hi = lo + 1
=============================================================================
