--------------------------- MODULE OrderLifecycle ---------------------------
(***************************************************************************)
(* One live order after its submission: OrderStateMachine, OrderTracker    *)
(* and the fill and cancel calls of PolymarketCTFProvider.                 *)
(*                                                                         *)
(* The owner is the thread that loaded the order and holds its session; it *)
(* polls and cancels.  Any thread may start and stop background pollers,   *)
(* several at a time: no lock guards the tracker's dictionaries.  A poller *)
(* is a daemon thread that shares the owner's Order object but commits a   *)
(* session of its own, so that what it assigns reaches the database only   *)
(* with the owner's next commit.  Orders do not interact: the dictionaries *)
(* are keyed by order, and one order is enough.                            *)
(*                                                                         *)
(* Definitions commented "Variant" are mistakes the code might have made,  *)
(* kept to see that the properties notice them.                            *)
(***************************************************************************)
EXTENDS Integers, FiniteSets

CONSTANTS
  Poller,     \* the background threads, each with the call that starts it; one that has
              \* ended stands for the next to start
  Owner,
  None        \* no thread

ASSUME ThreadAssumption == Owner \notin Poller /\ None \notin Poller

VARIABLES
  chain,        \* the receipt of the order's transaction
  cancelSent,   \* a cancelOrder transaction was broadcast
  status,       \* order.status of the shared object
  row,          \* orders.status in the database
  tasks,        \* _poll_tasks[order.id]
  events,       \* _stop_events[order.id], as the poller whose event it is
  stopped,      \* the pollers whose stop event is set
  ppc,          \* where each poller, or the call that starts it, is
  overlapped,   \* history: two starts have overlapped, and a poller is left of them
  opc,          \* where the owner is
  answer        \* the status of the latest check of each thread

vars == <<chain, cancelSent, status, row, tasks, events, stopped, ppc, overlapped,
          opc, answer>>

\* OrderState, and VALID_TRANSITIONS.
ValidTransitions ==
  [created      |-> {"submitted", "canceled"},
   submitted    |-> {"acknowledged", "partial_fill", "filled", "canceling", "rejected", "failed"},
   acknowledged |-> {"partial_fill", "filled", "canceling", "failed"},
   partial_fill |-> {"partial_fill", "filled", "canceling", "failed"},
   filled       |-> {},
   canceling    |-> {"canceled", "failed"},
   canceled     |-> {},
   rejected     |-> {},
   failed       |-> {}]

OrderState == DOMAIN ValidTransitions

\* terminal_states of the tracker.
Terminal == {"filled", "canceled", "rejected", "failed"}

Status == OrderState \cup {"pending"}

-----------------------------------------------------------------------------
(***************************************************************************)
(* check_fill.                                                             *)
(***************************************************************************)

\* The transaction is mined: it filled the order, left it unfilled, or reverted.
Mine ==
  /\ chain = "pending"
  /\ chain' \in {"filled", "unfilled", "reverted"}
  /\ UNCHANGED <<cancelSent, status, row, tasks, events, stopped, ppc, overlapped, opc, answer>>

\* Variant: a successful receipt is a fill, whatever its logs.
FillStatusIgnoringLogs ==
  CASE chain \in {"filled", "unfilled"} -> {"filled", "pending"}
    [] chain = "reverted"               -> {"rejected", "pending"}
    [] OTHER                            -> {"pending"}

\* Variant: the receipt's outcome under its own name.
FillStatusRaw == {chain, "pending"}

\* What _query_ctf_fill_status may return: without a receipt, or when no RPC call
\* succeeds for two minutes, "pending", which is no OrderState.
FillStatus ==
  CASE chain = "filled"   -> {"filled", "pending"}
    [] chain = "unfilled" -> {"submitted", "pending"}
    [] chain = "reverted" -> {"rejected", "pending"}
    [] OTHER              -> {"pending"}

-----------------------------------------------------------------------------
(***************************************************************************)
(* The owner.                                                              *)
(***************************************************************************)

\* poll_order, and each round of poll_loop: the answer is assigned later, to
\* whatever the order has become.
OwnerQuery ==
  /\ opc = "idle"
  /\ \E s \in FillStatus : answer' = [answer EXCEPT ![Owner] = s]
  /\ opc' = "write"
  /\ UNCHANGED <<chain, cancelSent, status, row, tasks, events, stopped, ppc, overlapped>>

OwnerWrite ==
  /\ opc = "write"
  /\ status' = answer[Owner]
  /\ opc' = "commit"
  /\ UNCHANGED <<chain, cancelSent, row, tasks, events, stopped, ppc, overlapped, answer>>

\* The owner's commit flushes the object, whoever assigned it last.
OwnerCommit ==
  /\ opc = "commit"
  /\ row' = status
  /\ opc' = "idle"
  /\ UNCHANGED <<chain, cancelSent, status, tasks, events, stopped, ppc, overlapped, answer>>

\* cancel_order: only an active order; the cancel transaction comes first ...
CancelBegins ==
  /\ opc = "idle"
  /\ status \in {"submitted", "acknowledged", "partial_fill"}
  /\ opc' = "send"
  /\ UNCHANGED <<chain, cancelSent, status, row, tasks, events, stopped, ppc, overlapped, answer>>

\* Variant: a cancel that could not be sent is not told from one that was.
CancelSendsUnchecked ==
  /\ opc = "send"
  /\ cancelSent' \in {cancelSent, TRUE}
  /\ opc' = "validate"
  /\ UNCHANGED <<chain, status, row, tasks, events, stopped, ppc, overlapped, answer>>

CancelSends ==
  /\ opc = "send"
  /\ \/ opc' = "validate" /\ cancelSent' = TRUE
     \/ opc' = "idle" /\ UNCHANGED cancelSent
  /\ UNCHANGED <<chain, status, row, tasks, events, stopped, ppc, overlapped, answer>>

\* ... then the transition is checked against the status of that moment.  A
\* refusal ("pending" is refused as well) makes cancel_order return False.
CancelValidates ==
  /\ opc = "validate"
  /\ opc' = IF status \in OrderState /\ "canceling" \in ValidTransitions[status]
              THEN "mark" ELSE "idle"
  /\ UNCHANGED <<chain, cancelSent, status, row, tasks, events, stopped, ppc, overlapped, answer>>

CancelMarks ==
  /\ opc = "mark"
  /\ status' = "canceling"
  /\ opc' = "commit"
  /\ UNCHANGED <<chain, cancelSent, row, tasks, events, stopped, ppc, overlapped, answer>>

-----------------------------------------------------------------------------
(***************************************************************************)
(* start_background_poll and stop_background_poll, by any thread.          *)
(***************************************************************************)

Running(p) == ppc[p] \in {"loop", "write"}

\* A start is between its check and the start of its thread.
Starting(p) == ppc[p] \in {"new", "event"}

\* The thread polls, is about to, or has yet to give its entry back.
Active(p) == Starting(p) \/ Running(p) \/ ppc[p] = "close"

\* A start is refused while the order has an entry in _poll_tasks ...
StartChecks(p) ==
  /\ tasks = None
  /\ ppc[p] = "none"
  /\ ppc' = [ppc EXCEPT ![p] = "new"]
  /\ overlapped' = \/ overlapped /\ \E q \in Poller : Active(q)
                   \/ \E q \in Poller : Starting(q)
  /\ UNCHANGED <<chain, cancelSent, status, row, tasks, events, stopped, opc, answer>>

\* ... it installs the new thread's stop event ...
StartSetsEvent(p) ==
  /\ ppc[p] = "new"
  /\ events' = p
  /\ stopped' = stopped \ {p}
  /\ ppc' = [ppc EXCEPT ![p] = "event"]
  /\ UNCHANGED <<chain, cancelSent, status, row, tasks, overlapped, opc, answer>>

\* ... and then the thread, which it starts.
StartRuns(p) ==
  /\ ppc[p] = "event"
  /\ tasks' = p
  /\ ppc' = [ppc EXCEPT ![p] = "loop"]
  /\ UNCHANGED <<chain, cancelSent, status, row, events, stopped, overlapped, opc, answer>>

\* Variant: the order's entries are dropped here, and not only by the thread.
StopPollAndForget ==
  /\ events # None
  /\ stopped' = stopped \cup {events}
  /\ tasks' = None /\ events' = None
  /\ UNCHANGED <<chain, cancelSent, status, row, ppc, overlapped, opc, answer>>

\* stop_background_poll.  It joins the thread for five seconds at most, and a
\* check takes up to two minutes: its return says nothing about the thread.
StopPoll ==
  /\ events # None
  /\ stopped' = stopped \cup {events}
  /\ UNCHANGED <<chain, cancelSent, status, row, tasks, events, ppc, overlapped, opc, answer>>

-----------------------------------------------------------------------------
(***************************************************************************)
(* A background poller.                                                    *)
(***************************************************************************)

PollerQuery(p) ==
  /\ ppc[p] = "loop" /\ p \notin stopped
  /\ \E s \in FillStatus : answer' = [answer EXCEPT ![p] = s]
  /\ ppc' = [ppc EXCEPT ![p] = "write"]
  /\ UNCHANGED <<chain, cancelSent, status, row, tasks, events, stopped, overlapped, opc>>

\* The thread's own session has nothing to commit.
PollerWrite(p) ==
  /\ ppc[p] = "write"
  /\ status' = answer[p]
  /\ ppc' = [ppc EXCEPT ![p] = IF answer[p] \in Terminal THEN "close" ELSE "loop"]
  /\ UNCHANGED <<chain, cancelSent, row, tasks, events, stopped, overlapped, opc, answer>>

\* Variant: a thread that is stopped or runs out of time returns at once.
PollerReturns(p) ==
  /\ ppc[p] = "loop"
  /\ ppc' = [ppc EXCEPT ![p] = "none"]
  /\ UNCHANGED <<chain, cancelSent, status, row, tasks, events, stopped, overlapped, opc, answer>>

\* The stop event is set, or the time is up.
PollerEnds(p) ==
  /\ ppc[p] = "loop"
  /\ ppc' = [ppc EXCEPT ![p] = "close"]
  /\ UNCHANGED <<chain, cancelSent, status, row, tasks, events, stopped, overlapped, opc, answer>>

\* The finally block pops the order's entries one after the other.
PopTask(p) ==
  /\ ppc[p] = "close"
  /\ tasks' = None
  /\ ppc' = [ppc EXCEPT ![p] = "popEvent"]
  /\ UNCHANGED <<chain, cancelSent, status, row, events, stopped, overlapped, opc, answer>>

PopEvent(p) ==
  /\ ppc[p] = "popEvent"
  /\ events' = None
  /\ ppc' = [ppc EXCEPT ![p] = "none"]
  /\ UNCHANGED <<chain, cancelSent, status, row, tasks, stopped, overlapped, opc, answer>>

\* A restart of the process: daemon threads and dictionaries are gone, and the
\* order is loaded again from its row.
Restart ==
  /\ status' = row
  /\ tasks' = None /\ events' = None /\ stopped' = {}
  /\ ppc' = [p \in Poller |-> "none"] /\ overlapped' = FALSE
  /\ opc' = "idle"
  /\ UNCHANGED <<chain, cancelSent, row, answer>>

-----------------------------------------------------------------------------

\* The order as _submit_to_ctf and _persist_order_result leave it: submitted, or,
\* if it is immediate-or-cancel and no fill was seen, canceled, whether or not the
\* transaction fills it after all and the cancel could be sent.
Init ==
  /\ \/ status = "submitted" /\ chain \in {"pending", "filled"} /\ cancelSent = FALSE
     \/ status = "canceled" /\ chain \in {"pending", "filled", "unfilled", "reverted"}
                            /\ cancelSent \in BOOLEAN
  /\ row = status
  /\ tasks = None /\ events = None /\ stopped = {}
  /\ ppc = [p \in Poller |-> "none"] /\ overlapped = FALSE
  /\ opc = "idle"
  /\ answer = [t \in Poller \cup {Owner} |-> "pending"]

OwnerStep ==
  \/ OwnerQuery \/ OwnerWrite \/ OwnerCommit
  \/ CancelBegins \/ CancelSends \/ CancelValidates \/ CancelMarks

StartStep(p) == StartChecks(p) \/ StartSetsEvent(p) \/ StartRuns(p)

PollerStep(p) ==
  PollerQuery(p) \/ PollerWrite(p) \/ PollerEnds(p) \/ PopTask(p) \/ PopEvent(p)

Next ==
  \/ Mine \/ OwnerStep \/ StopPoll \/ Restart
  \/ \E p \in Poller : StartStep(p) \/ PollerStep(p)

Spec == Init /\ [][Next]_vars

\* A thread that runs goes on, and its time is up some day.
Fairness == \A p \in Poller : WF_vars(PollerStep(p)) /\ SF_vars(PollerEnds(p))

FairSpec == Spec /\ Fairness

-----------------------------------------------------------------------------
(***************************************************************************)
(* Properties.                                                             *)
(***************************************************************************)

\* The types, and an answer is always one check_fill gives.
TypeOK ==
  /\ chain \in {"pending", "filled", "unfilled", "reverted"}
  /\ cancelSent \in BOOLEAN
  /\ status \in Status /\ row \in Status
  /\ tasks \in Poller \cup {None} /\ events \in Poller \cup {None}
  /\ stopped \subseteq Poller
  /\ ppc \in [Poller -> {"none", "new", "event", "loop", "write", "close", "popEvent"}]
  /\ overlapped \in BOOLEAN
  /\ opc \in {"idle", "write", "commit", "send", "validate", "mark"}
  /\ answer \in [Poller \cup {Owner} -> {"pending", "submitted", "filled", "rejected"}]

\* However late an answer is assigned and however pollers, the owner and restarts
\* interleave, an order reads "filled" or "rejected" only if its transaction did
\* fill it or revert, in memory and in the database.
OutcomeIsReal ==
  \A s \in {status, row} :
    /\ s = "filled" => chain = "filled"
    /\ s = "rejected" => chain = "reverted"

\* An order reads "canceling" only once its cancel transaction was broadcast.
CancelingIsSent == "canceling" \in {status, row} => cancelSent

\* What start_background_poll says when it refuses a second start, "Background poll
\* already running for order": a thread polls the order alone.  Overlapping starts break
\* it.
OnePollerPerOrder == \A p, q \in Poller : Running(p) /\ Running(q) => p = q

\* As long as starts do not overlap, at most one background thread polls the
\* order, though a stop does not wait for the thread and a start may come before
\* a thread has cleaned up; and once the threads of overlapping starts have all
\* given their entries back, it is so again.
SinglePoller == ~overlapped => OnePollerPerOrder

\* A poll does not keep its place for ever: the order can be polled again.
PollEnds == tasks # None ~> tasks = None
=============================================================================
