------------------------ MODULE OrderLifecycleProofs ------------------------
(***************************************************************************)
(* What holds of an order's life for any number of background threads.     *)
(***************************************************************************)
EXTENDS OrderLifecycle, TLAPS

\* The outcomes check_fill may report are statuses, and true ones.
LEMMA FillStatusIsReal ==
  \A s \in FillStatus : /\ s \in {"pending", "submitted", "filled", "rejected"}
                        /\ s = "filled" => chain = "filled"
                        /\ s = "rejected" => chain = "reverted"
BY DEF FillStatus

\* Every reachable state is well typed.
THEOREM OrderTypeCorrect == Spec => []TypeOK
<1> USE DEF TypeOK, Status, OrderState, ValidTransitions
<1>1. Init => TypeOK
  BY DEF Init
<1>2. TypeOK /\ [Next]_vars => TypeOK'
  <2> SUFFICES ASSUME TypeOK, [Next]_vars PROVE TypeOK'
    OBVIOUS
  <2>1. CASE Mine \/ Restart
    BY <2>1 DEF Mine, Restart
  <2>2. CASE OwnerQuery
    BY <2>2, FillStatusIsReal DEF OwnerQuery
  <2>3. CASE OwnerWrite \/ OwnerCommit \/ StopPoll
    BY <2>3, ThreadAssumption DEF OwnerWrite, OwnerCommit, StopPoll
  <2>4. CASE CancelBegins \/ CancelSends \/ CancelValidates \/ CancelMarks
    BY <2>4 DEF CancelBegins, CancelSends, CancelValidates, CancelMarks
  <2>5. ASSUME NEW p \in Poller, StartStep(p) PROVE TypeOK'
    BY <2>5 DEF StartStep, StartChecks, StartSetsEvent, StartRuns
  <2>6. ASSUME NEW p \in Poller, PollerQuery(p) PROVE TypeOK'
    BY <2>6, FillStatusIsReal DEF PollerQuery
  <2>7. ASSUME NEW p \in Poller, PollerWrite(p) PROVE TypeOK'
    BY <2>7 DEF PollerWrite
  <2>8. ASSUME NEW p \in Poller, PollerEnds(p) \/ PopTask(p) \/ PopEvent(p) PROVE TypeOK'
    BY <2>8 DEF PollerEnds, PopTask, PopEvent
  <2>9. CASE UNCHANGED vars
    BY <2>9 DEF vars
  <2> QED BY <2>1, <2>2, <2>3, <2>4, <2>5, <2>6, <2>7, <2>8, <2>9
             DEF Next, OwnerStep, PollerStep
<1> QED BY <1>1, <1>2, PTL DEF Spec

-----------------------------------------------------------------------------
(***************************************************************************)
(* An answer that is still to be assigned is already true, and stays so: a *)
(* receipt never changes.                                                  *)
(***************************************************************************)

AnswersAreReal ==
  \A t \in Poller \cup {Owner} :
    /\ answer[t] = "filled" => chain = "filled"
    /\ answer[t] = "rejected" => chain = "reverted"

\* No order reads "filled" or "rejected" unless its transaction did so.
THEOREM OutcomeIsAlwaysReal == Spec => []OutcomeIsReal
<1> DEFINE RealInv == AnswersAreReal /\ OutcomeIsReal
<1>1. Init => RealInv
  BY DEF Init, AnswersAreReal, OutcomeIsReal
<1>2. TypeOK /\ RealInv /\ [Next]_vars => RealInv'
  <2> SUFFICES ASSUME TypeOK, RealInv, [Next]_vars PROVE RealInv'
    OBVIOUS
  <2> USE DEF TypeOK, AnswersAreReal, OutcomeIsReal
  <2>1. CASE Mine \/ Restart
    BY <2>1 DEF Mine, Restart
  <2>2. CASE OwnerQuery
    BY <2>2, FillStatusIsReal DEF OwnerQuery
  <2>3. CASE OwnerWrite \/ OwnerCommit \/ StopPoll
    BY <2>3 DEF OwnerWrite, OwnerCommit, StopPoll
  <2>4. CASE CancelBegins \/ CancelSends \/ CancelValidates \/ CancelMarks
    BY <2>4 DEF CancelBegins, CancelSends, CancelValidates, CancelMarks
  <2>5. ASSUME NEW p \in Poller, PollerQuery(p) PROVE RealInv'
    BY <2>5, FillStatusIsReal DEF PollerQuery
  <2>6. ASSUME NEW p \in Poller, PollerWrite(p) PROVE RealInv'
    BY <2>6 DEF PollerWrite
  <2>7. ASSUME NEW p \in Poller,
               StartStep(p) \/ PollerEnds(p) \/ PopTask(p) \/ PopEvent(p)
        PROVE  RealInv'
    BY <2>7 DEF StartStep, StartChecks, StartSetsEvent, StartRuns, PollerEnds, PopTask, PopEvent
  <2>8. CASE UNCHANGED vars
    BY <2>8 DEF vars
  <2> QED BY <2>1, <2>2, <2>3, <2>4, <2>5, <2>6, <2>7, <2>8
             DEF Next, OwnerStep, PollerStep
<1>3. RealInv => OutcomeIsReal
  OBVIOUS
<1> QED BY <1>1, <1>2, <1>3, OrderTypeCorrect, PTL DEF Spec

-----------------------------------------------------------------------------
(***************************************************************************)
(* Cancelling.                                                             *)
(***************************************************************************)

\* No order reads "canceling" before its cancel transaction was broadcast.
THEOREM CancelingIsAlwaysSent == Spec => []CancelingIsSent
<1> DEFINE SentInv == CancelingIsSent /\ (opc \in {"validate", "mark"} => cancelSent)
<1>1. Init => SentInv
  BY DEF Init, CancelingIsSent
<1>2. TypeOK /\ SentInv /\ [Next]_vars => SentInv'
  <2> SUFFICES ASSUME TypeOK, SentInv, [Next]_vars PROVE SentInv'
    OBVIOUS
  <2> USE DEF CancelingIsSent
  <2>1. CASE Mine \/ Restart
    BY <2>1 DEF Mine, Restart
  <2>2. CASE OwnerQuery \/ OwnerWrite \/ OwnerCommit \/ StopPoll
    BY <2>2 DEF TypeOK, OwnerQuery, OwnerWrite, OwnerCommit, StopPoll
  <2>3. CASE CancelBegins \/ CancelSends \/ CancelValidates \/ CancelMarks
    BY <2>3 DEF CancelBegins, CancelSends, CancelValidates, CancelMarks
  <2>4. ASSUME NEW p \in Poller, StartStep(p) \/ PollerStep(p) PROVE SentInv'
    BY <2>4 DEF TypeOK, StartStep, StartChecks, StartSetsEvent, StartRuns, PollerStep, PollerQuery, PollerWrite, PollerEnds, PopTask,
                PopEvent
  <2>5. CASE UNCHANGED vars
    BY <2>5 DEF vars
  <2> QED BY <2>1, <2>2, <2>3, <2>4, <2>5 DEF Next, OwnerStep
<1>3. SentInv => CancelingIsSent
  OBVIOUS
<1> QED BY <1>1, <1>2, <1>3, OrderTypeCorrect, PTL DEF Spec

-----------------------------------------------------------------------------
(***************************************************************************)
(* One poller.  Unless two starts have overlapped, one call or thread at   *)
(* most is on its way from the check in start_background_poll to the pop   *)
(* of _poll_tasks, and from its start on it holds the order's entry: so    *)
(* nobody pops an entry that is not its own, and no start passes the check *)
(* while a thread polls.  An overlap is forgotten when nobody is on that   *)
(* way any more.                                                           *)
(***************************************************************************)

OneActive ==
  ~overlapped =>
    /\ \A p, q \in Poller : Active(p) /\ Active(q) => p = q
    /\ \A p \in Poller : Running(p) \/ ppc[p] = "close" => tasks = p

\* A start that passes the check finds nobody on the way, or overlaps.
LEMMA OneActiveStart ==
  ASSUME TypeOK, OneActive, NEW p \in Poller, StartStep(p)
  PROVE  OneActive'
<1> USE DEF TypeOK, OneActive, Active, Starting, Running
<1>1. CASE StartChecks(p)
  <2> SUFFICES ASSUME ~overlapped' PROVE OneActive'
    OBVIOUS
  <2>1. \A q \in Poller : ~Starting(q)
    BY <1>1 DEF StartChecks
  <2>2. \A q \in Poller : ~Active(q)
    <3>1. CASE overlapped
      BY <1>1, <3>1 DEF StartChecks
    <3>2. CASE ~overlapped
      BY <1>1, <2>1, <3>2, ThreadAssumption DEF StartChecks
    <3> QED BY <3>1, <3>2
  <2> QED BY <1>1, <2>2 DEF StartChecks
<1>2. CASE StartSetsEvent(p)
  BY <1>2 DEF StartSetsEvent
<1>3. CASE StartRuns(p)
  BY <1>3 DEF StartRuns
<1> QED BY <1>1, <1>2, <1>3 DEF StartStep

\* No two background threads ever poll the order, as long as no two starts overlap,
\* and again once the threads of those that did are gone.
THEOREM SinglePollerAlways == Spec => []SinglePoller
<1>1. Init => OneActive
  BY DEF Init, OneActive, Active, Starting, Running
<1>2. TypeOK /\ OneActive /\ [Next]_vars => OneActive'
  <2> SUFFICES ASSUME TypeOK, OneActive, [Next]_vars PROVE OneActive'
    OBVIOUS
  <2> USE DEF TypeOK, OneActive, Active, Starting, Running
  <2>1. CASE Mine \/ Restart
    BY <2>1 DEF Mine, Restart
  <2>2. CASE OwnerStep \/ StopPoll
    BY <2>2 DEF OwnerStep, OwnerQuery, OwnerWrite, OwnerCommit, StopPoll, CancelBegins,
                CancelSends, CancelValidates, CancelMarks
  <2>3. ASSUME NEW p \in Poller, StartStep(p) PROVE OneActive'
    BY <2>3, OneActiveStart
  <2>4. ASSUME NEW p \in Poller, PopTask(p) PROVE OneActive'
    BY <2>4 DEF PopTask
  <2>5. ASSUME NEW p \in Poller,
               PollerQuery(p) \/ PollerWrite(p) \/ PollerEnds(p) \/ PopEvent(p)
        PROVE  OneActive'
    BY <2>5 DEF PollerQuery, PollerWrite, PollerEnds, PopEvent
  <2>6. CASE UNCHANGED vars
    BY <2>6 DEF vars
  <2> QED BY <2>1, <2>2, <2>3, <2>4, <2>5, <2>6 DEF Next, PollerStep
<1>3. OneActive => SinglePoller
  BY DEF OneActive, SinglePoller, OnePollerPerOrder, Active
<1> QED BY <1>1, <1>2, <1>3, OrderTypeCorrect, PTL DEF Spec
=============================================================================
