--------------------------- MODULE LiveSubmission ---------------------------
(***************************************************************************)
(* PolymarketCTFProvider.submit_order_obj: look the order up, ask the      *)
(* breaker, read a nonce and gas prices, sign, send, and persist, with     *)
(* execution/retry.py around every RPC call and CTFLiveCircuitBreaker      *)
(* counting what goes wrong.  Submissions run on several threads and share *)
(* one account, one breaker and the node.                                  *)
(*                                                                         *)
(* A step ends where another thread can act on what it leaves: at an RPC   *)
(* call, at a database session, and inside the breaker where CPython may   *)
(* switch threads (at calls and loop ends; an augmented assignment has     *)
(* neither).                                                               *)
(*                                                                         *)
(* Definitions commented "Variant" are mistakes the code might have made,  *)
(* kept to see that the properties notice them.                            *)
(***************************************************************************)
EXTENDS Integers, Sequences, FiniteSetsExt

CONSTANTS
  Submission,         \* calls of submit_order_obj
  IdOf,               \* the client_order_id of a submission
  ClientId,
  None,               \* no row
  Current,            \* a thread that iterates over the list in use
  Fee,                \* gas prices, of which DefaultFee is used without an answer
  DefaultFee,
  MaxAttempts,        \* of the retry decorator
  MaxSendFailures, MaxRpcErrors, Window,
  MaxClock,           \* bound on time
  MaxRestarts         \* bound on restarts

ASSUME SubmissionAssumption ==
  /\ IdOf \in [Submission -> ClientId]
  /\ None \notin Submission

ASSUME BreakerAssumption ==
  /\ MaxAttempts \in Nat \ {0} /\ MaxSendFailures \in Nat \ {0} /\ MaxRpcErrors \in Nat \ {0}
  /\ Window \in Nat \ {0} /\ MaxClock \in Nat /\ MaxRestarts \in Nat
  /\ Fee \subseteq Nat /\ DefaultFee \in Fee
  /\ Current \notin [0 .. MaxClock -> Nat]

VARIABLES
  row,            \* the persisted order of each client_order_id
  \* the node: for each nonce the transaction it holds, and how many are mined
  pool, mined,
  \* the breaker, in the process's memory
  tripped,        \* "no", or why the global breaker is triggered
  sendFailures,
  rpcErrors,      \* the list of error times: how many it holds of each
  \* the process
  restarts, clock,
  \* a submission's locals
  pc, nonce, fee, attempts,
  iterating,      \* the list record_rpc_error iterates over, if no longer in use
  resume,         \* what follows record_rpc_error
  \* history
  accepted,       \* the nonces under which the node took a submission's order
  errorLog        \* all errors recorded since the process started, like rpcErrors

node    == <<pool, mined>>
breaker == <<tripped, sendFailures, rpcErrors, errorLog>>
request == <<nonce, fee, attempts>>
vars == <<row, node, breaker, restarts, clock, request, pc, iterating, resume, accepted>>

-----------------------------------------------------------------------------
(***************************************************************************)
(* The node: one account, a transaction per nonce.                         *)
(***************************************************************************)

PendingNonce == Len(pool)

\* A transaction is taken at the next nonce, or in place of one that is not mined
\* and pays less.
Takes(n, f) ==
  \/ n = PendingNonce
  \/ n \in mined .. PendingNonce - 1 /\ f > pool[n + 1].fee

Taken(n, tx) ==
  IF n = PendingNonce THEN Append(pool, tx) ELSE [pool EXCEPT ![n + 1] = tx]

Mine ==
  /\ mined < PendingNonce
  /\ mined' = mined + 1
  /\ UNCHANGED <<row, pool, breaker, restarts, clock, request, pc, iterating, resume, accepted>>

-----------------------------------------------------------------------------
(***************************************************************************)
(* Up to the transaction: _get_existing_order, the breaker, nonce and gas. *)
(***************************************************************************)

Goto(s, label) == pc' = [pc EXCEPT ![s] = label]

\* The call returns or raises: its locals are gone.
Leave(s, label) ==
  /\ Goto(s, label)
  /\ nonce' = [nonce EXCEPT ![s] = 0]
  /\ fee' = [fee EXCEPT ![s] = DefaultFee]
  /\ attempts' = [attempts EXCEPT ![s] = 0]
  /\ resume' = [resume EXCEPT ![s] = "fail"]

\* An RPC call that failed for good is recorded before anything else.
RecordError(s, then) ==
  /\ Goto(s, "error")
  /\ resume' = [resume EXCEPT ![s] = then]

Lookup(s) ==
  /\ pc[s] = "idle"
  /\ Goto(s, IF row[IdOf[s]] = None THEN "check" ELSE "done")
  /\ UNCHANGED <<row, node, breaker, restarts, clock, request, iterating, resume, accepted>>

CheckAndAllow(s) ==
  /\ pc[s] = "check"
  /\ Goto(s, IF tripped = "no" THEN "nonce" ELSE "refused")
  /\ UNCHANGED <<row, node, breaker, restarts, clock, request, iterating, resume, accepted>>

\* An answer without a result is read as nonce 0.
GetNonce(s) ==
  /\ pc[s] = "nonce"
  /\ \/ /\ \E n \in {PendingNonce, 0} : nonce' = [nonce EXCEPT ![s] = n]
        /\ Goto(s, "gas")
        /\ UNCHANGED resume
     \/ /\ RecordError(s, "fail")
        /\ UNCHANGED nonce
  /\ UNCHANGED <<row, node, breaker, restarts, clock, fee, attempts, iterating,
                 accepted>>

\* Without gas prices the defaults are used; the error is recorded all the same.
GetGas(s) ==
  /\ pc[s] = "gas"
  /\ \/ /\ \E f \in Fee : fee' = [fee EXCEPT ![s] = f]
        /\ Goto(s, "sign")
        /\ UNCHANGED resume
     \/ /\ fee' = [fee EXCEPT ![s] = DefaultFee]
        /\ RecordError(s, "sign")
  /\ UNCHANGED <<row, node, breaker, restarts, clock, nonce, attempts, iterating,
                 accepted>>

Sign(s) ==
  /\ pc[s] = "sign"
  /\ \/ Goto(s, "send") \/ Goto(s, "fail")
  /\ attempts' = [attempts EXCEPT ![s] = 0]
  /\ UNCHANGED <<row, node, breaker, restarts, clock, nonce, fee, iterating, resume,
                 accepted>>

-----------------------------------------------------------------------------
(***************************************************************************)
(* eth_sendRawTransaction, with its retries.  The transaction is signed    *)
(* once: every attempt sends the same bytes.                               *)
(***************************************************************************)

\* An attempt reaches the node or not, and the node takes the transaction or not.
Attempt(s, taken) ==
  /\ pc[s] = "send"
  /\ attempts' = [attempts EXCEPT ![s] = @ + 1]
  /\ taken => Takes(nonce[s], fee[s])
  /\ pool' = IF taken THEN Taken(nonce[s], [of |-> s, fee |-> fee[s]])
                      ELSE pool
  /\ accepted' = IF taken THEN [accepted EXCEPT ![s] = @ \cup {nonce[s]}] ELSE accepted
  /\ UNCHANGED <<row, mined, breaker, restarts, clock, nonce, fee, iterating>>

\* The hash of the transaction comes back.
SendOk(s) ==
  /\ Attempt(s, TRUE)
  /\ Goto(s, "sent")
  /\ UNCHANGED resume

\* Variant: an answer without a hash is not told from one with.
SendEmptyUnchecked(s) ==
  /\ \E taken \in BOOLEAN : Attempt(s, taken)
  /\ Goto(s, "sent")
  /\ UNCHANGED resume

\* An answer without a hash: not an RPC error, but no success either.
SendEmpty(s) ==
  /\ \E taken \in BOOLEAN : Attempt(s, taken)
  /\ Goto(s, "fail")
  /\ UNCHANGED resume

\* Variant: the decorator is around the whole broadcast, nonce and all.
SendRetriesFromStart(s) ==
  /\ \E taken \in BOOLEAN : Attempt(s, taken)
  /\ attempts[s] + 1 < MaxAttempts
  /\ Goto(s, "nonce")
  /\ UNCHANGED resume

\* Variant: one attempt too many.
SendRetriesOnceMore(s) ==
  /\ \E taken \in BOOLEAN : Attempt(s, taken)
  /\ attempts[s] < MaxAttempts
  /\ UNCHANGED <<pc, resume>>

\* A timeout, a refused connection, a busy node or an error of the node: the answer
\* is lost or bad, whatever the node did, and the call is tried again.
SendRetries(s) ==
  /\ \E taken \in BOOLEAN : Attempt(s, taken)
  /\ attempts[s] + 1 < MaxAttempts
  /\ UNCHANGED <<pc, resume>>

\* The last attempt, or an error that is not retried.
SendFails(s) ==
  /\ \E taken \in BOOLEAN : Attempt(s, taken)
  /\ RecordError(s, "fail")

-----------------------------------------------------------------------------
(***************************************************************************)
(* CTFLiveCircuitBreaker.                                                  *)
(***************************************************************************)

Trips(why) == tripped' = why

ErrorList == [0 .. MaxClock -> Nat]

NoErrors == [t \in 0 .. MaxClock |-> 0]

\* The length of a list, counting the times of a set.
ErrorsOf(list, times) == MapThenSumSet(LAMBDA t : list[t], times)

RpcErrorAppended(s) ==
  /\ pc[s] = "error"
  /\ rpcErrors' = [rpcErrors EXCEPT ![clock] = @ + 1]
  /\ errorLog' = [errorLog EXCEPT ![clock] = @ + 1]
  /\ iterating' = [iterating EXCEPT ![s] = Current]
  /\ Goto(s, "prune")
  /\ UNCHANGED <<row, node, tripped, sendFailures, restarts, clock, request, resume, accepted>>

Iterated(s) == IF iterating[s] = Current THEN rpcErrors ELSE iterating[s]

\* The list comprehension ends and its result replaces the list in use.  Threads that
\* were iterating over the old one go on with it.
ReplaceList(s, new) ==
  /\ rpcErrors' = new
  /\ \E late \in SUBSET {o \in Submission \ {s} : pc[o] = "prune" /\ iterating[o] = Current} :
       iterating' = [o \in Submission |->
                       IF o \in late THEN rpcErrors ELSE IF o = s THEN Current ELSE iterating[o]]
  /\ Goto(s, "errors")

\* Variant: errors never leave the list.
RpcErrorsUnpruned(s) ==
  /\ pc[s] = "prune"
  /\ ReplaceList(s, Iterated(s))
  /\ UNCHANGED <<row, node, tripped, sendFailures, errorLog, restarts, clock, request, resume,
                 accepted>>

RpcErrorsPruned(s) ==
  /\ pc[s] = "prune"
  /\ ReplaceList(s, [t \in 0 .. MaxClock |->
                      IF t > clock - Window THEN Iterated(s)[t] ELSE 0])
  /\ UNCHANGED <<row, node, tripped, sendFailures, errorLog, restarts, clock, request, resume,
                 accepted>>

RpcErrorsChecked(s) ==
  /\ pc[s] = "errors"
  /\ IF ErrorsOf(rpcErrors, 0 .. MaxClock) >= MaxRpcErrors THEN Trips("rpc") ELSE UNCHANGED tripped
  /\ Goto(s, resume[s])
  /\ UNCHANGED <<row, node, sendFailures, rpcErrors, errorLog, restarts, clock, request,
                 iterating, resume, accepted>>

SendFailureCounted(s) ==
  /\ pc[s] = "fail"
  /\ sendFailures' = sendFailures + 1
  /\ Goto(s, "failures")
  /\ UNCHANGED <<row, node, tripped, rpcErrors, errorLog, restarts, clock, request, iterating,
                 resume, accepted>>

\* Variant: one failure too late.
SendFailuresCheckedLate(s) ==
  /\ pc[s] = "failures"
  /\ \/ Trips("signing")
     \/ IF sendFailures > MaxSendFailures THEN Trips("send") ELSE UNCHANGED tripped
  /\ Leave(s, "failed")
  /\ UNCHANGED <<row, node, sendFailures, rpcErrors, errorLog, restarts, clock, iterating, accepted>>

\* The counter is read again after the log line.  The text of any exception may
\* happen to mention signing.
SendFailuresChecked(s) ==
  /\ pc[s] = "failures"
  /\ \/ Trips("signing")
     \/ IF sendFailures >= MaxSendFailures THEN Trips("send") ELSE UNCHANGED tripped
  /\ Leave(s, "failed")
  /\ UNCHANGED <<row, node, sendFailures, rpcErrors, errorLog, restarts, clock, iterating, accepted>>

SendSucceeded(s) ==
  /\ pc[s] = "sent"
  /\ sendFailures' = 0
  /\ Goto(s, "persist")
  /\ UNCHANGED <<row, node, tripped, rpcErrors, errorLog, restarts, clock, request, iterating,
                 resume, accepted>>

-----------------------------------------------------------------------------
(***************************************************************************)
(* After the transaction.                                                  *)
(***************************************************************************)

\* _persist_order_result.
Persist(s) ==
  /\ pc[s] = "persist"
  /\ row[IdOf[s]] = None
  /\ row' = [row EXCEPT ![IdOf[s]] = s]
  /\ Leave(s, "done")
  /\ UNCHANGED <<node, breaker, restarts, clock, iterating, accepted>>

\* Variant: a taken id is waited for.
PersistFailsUnlessTaken(s) ==
  /\ pc[s] = "persist"
  /\ row[IdOf[s]] = None
  /\ Leave(s, "failed")
  /\ UNCHANGED <<row, node, breaker, restarts, clock, iterating, accepted>>

\* The id is taken, or the database does not answer.
PersistFails(s) ==
  /\ pc[s] = "persist"
  /\ Leave(s, "failed")
  /\ UNCHANGED <<row, node, breaker, restarts, clock, iterating, accepted>>

-----------------------------------------------------------------------------
(***************************************************************************)
(* The process.                                                            *)
(***************************************************************************)

Over == {"done", "refused", "failed"}

\* The window is ten minutes, recording an error a few instructions.
Tick ==
  /\ clock < MaxClock
  /\ \A s \in Submission : pc[s] \notin {"prune", "errors"}
  /\ clock' = clock + 1
  /\ UNCHANGED <<row, node, breaker, restarts, request, pc, iterating, resume, accepted>>

\* A restart loses the submissions under way and the breaker's memory, and nothing else
\* clears the breaker: no endpoint calls its reset.
Restart ==
  /\ restarts < MaxRestarts
  /\ restarts' = restarts + 1
  /\ pc' = [s \in Submission |-> IF pc[s] \in {"idle"} \cup Over THEN pc[s] ELSE "failed"]
  /\ tripped' = "no" /\ sendFailures' = 0 /\ rpcErrors' = NoErrors /\ errorLog' = NoErrors
  /\ nonce' = [s \in Submission |-> 0]
  /\ fee' = [s \in Submission |-> DefaultFee]
  /\ attempts' = [s \in Submission |-> 0]
  /\ iterating' = [s \in Submission |-> Current]
  /\ resume' = [s \in Submission |-> "fail"]
  /\ UNCHANGED <<row, node, clock, accepted>>

Init ==
  /\ row = [c \in ClientId |-> None]
  /\ pool = <<>> /\ mined = 0
  /\ tripped = "no" /\ sendFailures = 0 /\ rpcErrors = NoErrors
  /\ restarts = 0 /\ clock = 0
  /\ pc = [s \in Submission |-> "idle"]
  /\ nonce = [s \in Submission |-> 0]
  /\ fee = [s \in Submission |-> DefaultFee]
  /\ attempts = [s \in Submission |-> 0]
  /\ iterating = [s \in Submission |-> Current]
  /\ resume = [s \in Submission |-> "fail"]
  /\ accepted = [s \in Submission |-> {}]
  /\ errorLog = NoErrors

Step(s) ==
  \/ CheckAndAllow(s) \/ GetNonce(s) \/ GetGas(s) \/ Sign(s)
  \/ SendOk(s) \/ SendEmpty(s) \/ SendRetries(s) \/ SendFails(s)
  \/ RpcErrorAppended(s) \/ RpcErrorsPruned(s) \/ RpcErrorsChecked(s)
  \/ SendFailureCounted(s) \/ SendFailuresChecked(s) \/ SendSucceeded(s)
  \/ Persist(s) \/ PersistFails(s)

Next ==
  \/ \E s \in Submission : Lookup(s) \/ Step(s)
  \/ Mine \/ Tick \/ Restart

Spec == Init /\ [][Next]_vars

\* A submission that has begun goes on: every call it makes has a timeout.
Fairness == \A s \in Submission : WF_vars(Step(s))

FairSpec == Spec /\ Fairness

-----------------------------------------------------------------------------
(***************************************************************************)
(* Properties.                                                             *)
(***************************************************************************)

Labels == {"idle", "check", "nonce", "gas", "sign", "send", "error", "prune", "errors", "fail",
           "failures", "sent", "persist"} \cup Over

RequestTyped ==
  /\ pc \in [Submission -> Labels]
  /\ nonce \in [Submission -> 0 .. PendingNonce]
  /\ fee \in [Submission -> Fee]
  /\ attempts \in [Submission -> 0 .. MaxAttempts]
  /\ iterating \in [Submission -> ErrorList \cup {Current}]
  /\ resume \in [Submission -> {"fail", "sign"}]
  /\ accepted \in [Submission -> SUBSET Nat]

\* Every variable has its type: nonces are at most the next free one, a call is tried
\* at most MaxAttempts times.
TypeOK ==
  /\ row \in [ClientId -> Submission \cup {None}]
  /\ pool \in Seq([of : Submission, fee : Fee])
  /\ mined \in 0 .. Len(pool)
  /\ tripped \in {"no", "rpc", "send", "signing"}
  /\ sendFailures \in Nat /\ restarts \in Nat /\ clock \in 0 .. MaxClock
  /\ rpcErrors \in ErrorList /\ errorLog \in ErrorList
  /\ RequestTyped

\* However often a send is retried after answers that were lost, the node takes a
\* submission's order under a single nonce: it is never on the chain twice.
OneTransactionPerSubmission ==
  \A s \in Submission : \A m, n \in accepted[s] : m = n

\* An order is persisted, as submitted or canceled, only if the node took it, whatever
\* the order in which calls failed, and each row by a submission of its client_order_id.
PersistedIsAccepted ==
  \A c \in ClientId :
    row[c] # None => IdOf[row[c]] = c /\ accepted[row[c]] # {}

\* The breaker blames RPC errors only if enough of them fell within one window,
\* although threads replace each other's lists.
TripIsDeserved ==
  tripped = "rpc" =>
    \E last \in 0 .. clock :
      ErrorsOf(errorLog, {t \in 0 .. last : t > last - Window}) >= MaxRpcErrors

\* Once every thread has checked what it counted, enough consecutive send failures
\* have triggered the breaker, even if they came from different threads.
FailuresTrip ==
  (\A s \in Submission : pc[s] # "failures") /\ sendFailures >= MaxSendFailures
    => tripped # "no"

\* A submission that has begun ends: with a row, refused, or failed.
SubmissionEnds == \A s \in Submission : pc[s] # "idle" ~> pc[s] \in Over
=============================================================================
