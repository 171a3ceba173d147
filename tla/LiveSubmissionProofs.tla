------------------------ MODULE LiveSubmissionProofs ------------------------
(***************************************************************************)
(* What holds of any number of concurrent submissions, retries and         *)
(* restarts, for any limits of the breaker.                                *)
(***************************************************************************)
EXTENDS LiveSubmission, SumProofs

\* A transaction the node takes leaves it with a transaction per nonce.
LEMMA TakenTyped ==
  ASSUME NEW T, NEW tx \in T, pool \in Seq(T), NEW n \in Nat, n <= Len(pool)
  PROVE  /\ Taken(n, tx) \in Seq(T)
         /\ Len(Taken(n, tx)) >= Len(pool)
<1>1. CASE n = Len(pool)
  BY <1>1 DEF Taken, PendingNonce
<1>2. CASE n # Len(pool)
  <2>1. n + 1 \in 1 .. Len(pool)
    BY <1>2
  <2> QED BY <1>2, <2>1 DEF Taken, PendingNonce
<1> QED BY <1>1, <1>2

\* What an attempt does to the node and to the history is well-typed.
LEMMA AttemptTyped ==
  ASSUME TypeOK, NEW s \in Submission, NEW taken \in BOOLEAN, Attempt(s, taken)
  PROVE  /\ pool' \in Seq([of : Submission, fee : Fee])
         /\ mined' \in 0 .. Len(pool') /\ Len(pool') >= Len(pool)
         /\ accepted' \in [Submission -> SUBSET Nat]
<1> USE DEF TypeOK, RequestTyped
<1> DEFINE T == [of : Submission, fee : Fee]
<1>1. CASE taken
  <2>1. nonce[s] \in Nat /\ nonce[s] <= Len(pool)
    BY <1>1 DEF Attempt, Takes, PendingNonce
  <2>2. [of |-> s, fee |-> fee[s]] \in T
    OBVIOUS
  <2>3. pool' \in Seq(T) /\ Len(pool') >= Len(pool)
    BY <1>1, <2>1, <2>2, TakenTyped DEF Attempt
  <2>4. mined' = mined /\ Len(pool') \in Nat
    BY <2>3 DEF Attempt
  <2>5. accepted' \in [Submission -> SUBSET Nat]
    BY <1>1, <2>1 DEF Attempt
  <2> QED BY <2>3, <2>4, <2>5
<1>2. CASE ~taken
  BY <1>2 DEF Attempt
<1> QED BY <1>1, <1>2

\* A call that ends leaves its locals well-typed.
LEMMA LeaveTyped ==
  ASSUME TypeOK, NEW s \in Submission, NEW label \in Labels, Leave(s, label),
         UNCHANGED <<iterating, accepted>>, Len(pool') = Len(pool)
  PROVE  RequestTyped'
BY BreakerAssumption DEF TypeOK, RequestTyped, PendingNonce, Leave, Goto

\* Who is about to send has an attempt left: without it, the bound on attempts is not
\* inductive.
AttemptsLeft == \A s \in Submission : pc[s] = "send" => attempts[s] < MaxAttempts

LEMMA AttemptsLeftStep == TypeOK /\ AttemptsLeft /\ [Next]_vars => AttemptsLeft'
<1> SUFFICES ASSUME TypeOK, AttemptsLeft, [Next]_vars PROVE AttemptsLeft'
  OBVIOUS
<1> USE BreakerAssumption DEF TypeOK, RequestTyped, AttemptsLeft, request, Goto, Leave, RecordError
<1>1. ASSUME NEW s \in Submission,
             Lookup(s) \/ CheckAndAllow(s) \/ GetNonce(s) \/ GetGas(s) \/ Sign(s)
      PROVE  AttemptsLeft'
  BY <1>1 DEF Lookup, CheckAndAllow, GetNonce, GetGas, Sign
<1>2. ASSUME NEW s \in Submission, SendOk(s) \/ SendEmpty(s) \/ SendRetries(s) \/ SendFails(s)
      PROVE  AttemptsLeft'
  BY <1>2 DEF SendOk, SendEmpty, SendRetries, SendFails, Attempt
<1>3. ASSUME NEW s \in Submission, RpcErrorAppended(s) \/ RpcErrorsPruned(s)
      PROVE  AttemptsLeft'
  BY <1>3 DEF RpcErrorAppended, RpcErrorsPruned, ReplaceList
<1>4. ASSUME NEW s \in Submission,
             RpcErrorsChecked(s) \/ SendFailureCounted(s) \/ SendSucceeded(s)
      PROVE  AttemptsLeft'
  BY <1>4 DEF RpcErrorsChecked, SendFailureCounted, SendSucceeded
<1>5. ASSUME NEW s \in Submission, SendFailuresChecked(s) \/ Persist(s) \/ PersistFails(s)
      PROVE  AttemptsLeft'
  BY <1>5 DEF SendFailuresChecked, Persist, PersistFails
<1>6. CASE Mine \/ Tick \/ Restart \/ UNCHANGED vars
  BY <1>6 DEF Mine, Tick, Restart, Over, vars
<1> QED BY <1>1, <1>2, <1>3, <1>4, <1>5, <1>6 DEF Next, Step

\* Every variable keeps its type, and no call is tried more than MaxAttempts times.
THEOREM SubmissionTypeCorrect == Spec => []TypeOK
<1> USE SubmissionAssumption, BreakerAssumption
<1>1. Init => TypeOK
  <2> SUFFICES ASSUME Init PROVE TypeOK
    OBVIOUS
  <2> USE DEF Init
  <2>1. NoErrors \in ErrorList
    BY DEF NoErrors, ErrorList
  <2>2. RequestTyped
    BY <2>1 DEF RequestTyped, PendingNonce, Labels, Over
  <2> QED BY <2>1, <2>2 DEF TypeOK
<1>2. TypeOK /\ AttemptsLeft /\ [Next]_vars => TypeOK'
  <2> SUFFICES ASSUME TypeOK, AttemptsLeft, [Next]_vars PROVE TypeOK'
    OBVIOUS
  <2>0. ASSUME NEW s \in Submission, NEW taken \in BOOLEAN, Attempt(s, taken)
        PROVE  /\ pool' \in Seq([of : Submission, fee : Fee])
               /\ mined' \in 0 .. Len(pool') /\ Len(pool') >= Len(pool)
               /\ accepted' \in [Submission -> SUBSET Nat]
    BY <2>0, AttemptTyped
  <2> USE DEF TypeOK, RequestTyped, PendingNonce, Labels, Over, node, breaker, request, Goto
  <2>1. ASSUME NEW s \in Submission, Lookup(s) \/ CheckAndAllow(s) PROVE TypeOK'
    BY <2>1 DEF Lookup, CheckAndAllow
  <2>2. ASSUME NEW s \in Submission, GetNonce(s) PROVE TypeOK'
    <3>1. pc' \in [Submission -> Labels] /\ resume' \in [Submission -> {"fail", "sign"}]
      BY <2>2 DEF GetNonce, RecordError
    <3>2. nonce' \in [Submission -> 0 .. Len(pool)]
      <4>1. Len(pool) \in Nat /\ {Len(pool), 0} \subseteq 0 .. Len(pool)
        OBVIOUS
      <4>2. nonce' = nonce \/ \E n \in 0 .. Len(pool) : nonce' = [nonce EXCEPT ![s] = n]
        BY <2>2, <4>1 DEF GetNonce
      <4> QED BY <4>2
    <3> QED BY <2>2, <3>1, <3>2 DEF GetNonce
  <2>3. ASSUME NEW s \in Submission, GetGas(s) PROVE TypeOK'
    <3>1. pc' \in [Submission -> Labels] /\ resume' \in [Submission -> {"fail", "sign"}]
      BY <2>3 DEF GetGas, RecordError
    <3>2. fee' \in [Submission -> Fee]
      BY <2>3 DEF GetGas
    <3> QED BY <2>3, <3>1, <3>2 DEF GetGas
  <2>4. ASSUME NEW s \in Submission, Sign(s) PROVE TypeOK'
    <3>1. pc' \in [Submission -> Labels]
      BY <2>4 DEF Sign
    <3>2. attempts' \in [Submission -> 0 .. MaxAttempts]
      BY <2>4 DEF Sign
    <3> QED BY <2>4, <3>1, <3>2 DEF Sign
  <2>5. ASSUME NEW s \in Submission, SendOk(s) \/ SendEmpty(s) \/ SendRetries(s) \/ SendFails(s)
        PROVE  TypeOK'
    <3>1. PICK taken \in BOOLEAN : Attempt(s, taken)
      BY <2>5 DEF SendOk, SendEmpty, SendRetries, SendFails
    <3>2. /\ pool' \in Seq([of : Submission, fee : Fee])
          /\ mined' \in 0 .. Len(pool') /\ Len(pool') >= Len(pool)
          /\ accepted' \in [Submission -> SUBSET Nat]
      BY <3>1, <2>0
    <3>3. attempts' \in [Submission -> 0 .. MaxAttempts]
      BY <2>5, <3>1 DEF Attempt, AttemptsLeft
    <3>4. pc' \in [Submission -> Labels] /\ resume' \in [Submission -> {"fail", "sign"}]
      BY <2>5 DEF SendOk, SendEmpty, SendRetries, SendFails, RecordError
    <3>5. nonce' \in [Submission -> 0 .. Len(pool')]
      BY <3>1, <3>2 DEF Attempt
    <3> QED BY <3>1, <3>2, <3>3, <3>4, <3>5 DEF Attempt
  <2>6. ASSUME NEW s \in Submission, RpcErrorAppended(s) PROVE TypeOK'
    <3>1. rpcErrors' \in ErrorList /\ errorLog' \in ErrorList
      BY <2>6 DEF RpcErrorAppended, ErrorList
    <3>2. pc' \in [Submission -> Labels] /\ iterating' \in [Submission -> ErrorList \cup {Current}]
      BY <2>6 DEF RpcErrorAppended
    <3> QED BY <2>6, <3>1, <3>2 DEF RpcErrorAppended
  <2>7. ASSUME NEW s \in Submission, RpcErrorsPruned(s) PROVE TypeOK'
    <3>1. Iterated(s) \in ErrorList
      BY DEF Iterated
    <3>2. rpcErrors' \in ErrorList
      BY <2>7, <3>1 DEF RpcErrorsPruned, ReplaceList, ErrorList
    <3>3. iterating' \in [Submission -> ErrorList \cup {Current}]
      BY <2>7 DEF RpcErrorsPruned, ReplaceList
    <3> QED BY <2>7, <3>2, <3>3 DEF RpcErrorsPruned, ReplaceList
  <2>8. ASSUME NEW s \in Submission, RpcErrorsChecked(s) \/ SendFailureCounted(s) \/ SendSucceeded(s)
        PROVE  TypeOK'
    <3>1. pc' \in [Submission -> Labels]
      BY <2>8 DEF RpcErrorsChecked, SendFailureCounted, SendSucceeded
    <3>2. tripped' \in {"no", "rpc", "send", "signing"} /\ sendFailures' \in Nat
      BY <2>8 DEF RpcErrorsChecked, SendFailureCounted, SendSucceeded, Trips
    <3> QED BY <2>8, <3>1, <3>2 DEF RpcErrorsChecked, SendFailureCounted, SendSucceeded
  <2>9. ASSUME NEW s \in Submission, SendFailuresChecked(s) PROVE TypeOK'
    <3>1. RequestTyped'
      BY <2>9, LeaveTyped DEF SendFailuresChecked
    <3>2. tripped' \in {"no", "rpc", "send", "signing"}
      BY <2>9 DEF SendFailuresChecked, Trips
    <3> QED BY <2>9, <3>1, <3>2 DEF SendFailuresChecked
  <2>10. ASSUME NEW s \in Submission, Persist(s) \/ PersistFails(s) PROVE TypeOK'
    <3>1. RequestTyped'
      BY <2>10, LeaveTyped DEF Persist, PersistFails
    <3>2. row' \in [ClientId -> Submission \cup {None}]
      BY <2>10 DEF Persist, PersistFails
    <3> QED BY <2>10, <3>1, <3>2 DEF Persist, PersistFails
  <2>11. CASE Mine \/ Tick
    <3>1. CASE Mine
      <4>1. mined' \in 0 .. Len(pool) /\ pool' = pool
        BY <3>1 DEF Mine, PendingNonce
      <4> QED BY <3>1, <4>1 DEF Mine
    <3>2. CASE Tick
      <4>1. clock' \in 0 .. MaxClock
        BY <3>2 DEF Tick
      <4> QED BY <3>2, <4>1 DEF Tick
    <3> QED BY <2>11, <3>1, <3>2
  <2>12. CASE Restart
    <3>1. NoErrors \in ErrorList
      BY DEF NoErrors, ErrorList
    <3> QED BY <2>12, <3>1 DEF Restart
  <2>13. CASE UNCHANGED vars
    BY <2>13 DEF vars
  <2> QED BY <2>1, <2>2, <2>3, <2>4, <2>5, <2>6, <2>7, <2>8, <2>9, <2>10, <2>11, <2>12, <2>13
          DEF Next, Step
<1>3. Init => AttemptsLeft
  BY DEF Init, AttemptsLeft
<1> QED BY <1>1, <1>2, <1>3, AttemptsLeftStep, PTL DEF Spec

-----------------------------------------------------------------------------
(***************************************************************************)
(* One transaction for a submission, and no row without one.  Before it    *)
(* sends, a submission has nothing on the chain; while it sends, its nonce *)
(* is the only one it may be accepted under; once it has an answer with a  *)
(* hash, it has been accepted.                                             *)
(***************************************************************************)

NotSent == {"idle", "check", "nonce", "gas", "sign", "refused"}

SendInv ==
  \A s \in Submission :
    /\ \A m, n \in accepted[s] : m = n
    /\ pc[s] \in NotSent => accepted[s] = {}
    /\ pc[s] \in {"error", "prune", "errors"} /\ resume[s] = "sign" => accepted[s] = {}
    /\ pc[s] = "send" => accepted[s] \subseteq {nonce[s]}
    /\ pc[s] \in {"sent", "persist"} => accepted[s] # {}

LEMMA SendInit == Init => SendInv /\ PersistedIsAccepted
BY DEF Init, SendInv, PersistedIsAccepted

\* An attempt adds the nonce of its transaction, or nothing.
LEMMA AttemptAccepts ==
  ASSUME TypeOK, NEW s \in Submission, NEW taken \in BOOLEAN, Attempt(s, taken)
  PROVE  /\ accepted'[s] = IF taken THEN accepted[s] \cup {nonce[s]} ELSE accepted[s]
         /\ \A o \in Submission \ {s} : accepted'[o] = accepted[o]
BY DEF TypeOK, RequestTyped, Attempt

LEMMA SendStep == TypeOK /\ SendInv /\ [Next]_vars => SendInv'
<1> SUFFICES ASSUME TypeOK, SendInv, [Next]_vars PROVE SendInv'
  OBVIOUS
<1>0. /\ pc \in [Submission -> Labels]
      /\ nonce \in [Submission -> Nat]
      /\ resume \in [Submission -> {"fail", "sign"}]
  BY DEF TypeOK, RequestTyped
<1> USE <1>0 DEF SendInv, NotSent, request, Goto, Leave, RecordError
<1>1. ASSUME NEW s \in Submission, Lookup(s) \/ CheckAndAllow(s) PROVE SendInv'
  BY <1>1 DEF Lookup, CheckAndAllow
<1>2. ASSUME NEW s \in Submission, GetNonce(s) PROVE SendInv'
  BY <1>2 DEF GetNonce
<1>3. ASSUME NEW s \in Submission, GetGas(s) \/ Sign(s) PROVE SendInv'
  BY <1>3 DEF GetGas, Sign
<1>4. ASSUME NEW s \in Submission, SendOk(s) \/ SendEmpty(s) \/ SendRetries(s) \/ SendFails(s)
      PROVE  SendInv'
  <2>1. PICK taken \in BOOLEAN : Attempt(s, taken) /\ (SendOk(s) => taken)
    BY <1>4 DEF SendOk, SendEmpty, SendRetries, SendFails
  <2>2. /\ accepted'[s] = IF taken THEN accepted[s] \cup {nonce[s]} ELSE accepted[s]
        /\ \A o \in Submission \ {s} : accepted'[o] = accepted[o]
    BY <2>1, AttemptAccepts
  <2>3. pc[s] = "send" /\ nonce' = nonce
    BY <2>1 DEF Attempt
  <2>4. \A o \in Submission \ {s} : pc'[o] = pc[o] /\ resume'[o] = resume[o]
    BY <1>4 DEF SendOk, SendEmpty, SendRetries, SendFails
  <2>5. \/ pc'[s] = "sent" /\ taken
        \/ pc'[s] = "fail"
        \/ pc'[s] = "send"
        \/ pc'[s] = "error" /\ resume'[s] = "fail"
    <3>1. CASE SendOk(s)
      BY <3>1, <2>1 DEF SendOk
    <3>2. CASE SendEmpty(s)
      BY <3>2 DEF SendEmpty
    <3>3. CASE SendRetries(s)
      BY <3>3, <2>3 DEF SendRetries
    <3>4. CASE SendFails(s)
      BY <3>4 DEF SendFails
    <3> QED BY <1>4, <3>1, <3>2, <3>3, <3>4
  <2>6. accepted'[s] \subseteq {nonce[s]} /\ (taken => accepted'[s] # {})
    BY <2>2, <2>3
  <2> QED BY <2>2, <2>3, <2>4, <2>5, <2>6
<1>5. ASSUME NEW s \in Submission, RpcErrorAppended(s) \/ RpcErrorsPruned(s) PROVE SendInv'
  BY <1>5 DEF RpcErrorAppended, RpcErrorsPruned, ReplaceList
<1>6. ASSUME NEW s \in Submission, RpcErrorsChecked(s) \/ SendFailureCounted(s)
      PROVE  SendInv'
  BY <1>6 DEF RpcErrorsChecked, SendFailureCounted
<1>7. ASSUME NEW s \in Submission, SendFailuresChecked(s) \/ SendSucceeded(s) PROVE SendInv'
  BY <1>7 DEF SendFailuresChecked, SendSucceeded
<1>8. ASSUME NEW s \in Submission, Persist(s) \/ PersistFails(s) PROVE SendInv'
  BY <1>8 DEF Persist, PersistFails
<1>9. CASE Mine \/ Tick \/ UNCHANGED vars
  BY <1>9 DEF Mine, Tick, vars
<1>10. CASE Restart
  BY <1>10 DEF Restart, Over
<1> QED BY <1>1, <1>2, <1>3, <1>4, <1>5, <1>6, <1>7, <1>8, <1>9, <1>10 DEF Next, Step

LEMMA SendHolds == Spec => []SendInv
BY SendInit, SendStep, SubmissionTypeCorrect, PTL DEF Spec

\* No retry, and no answer lost, puts a submission on the chain under two nonces.
THEOREM OneTransactionAlways == Spec => []OneTransactionPerSubmission
<1>1. SendInv => OneTransactionPerSubmission
  BY DEF SendInv, OneTransactionPerSubmission
<1> QED BY <1>1, SendHolds, PTL

\* A persisted order was taken by the node, and belongs to its client_order_id.
THEOREM PersistedIsAlwaysAccepted == Spec => []PersistedIsAccepted
<1>1. TypeOK /\ SendInv /\ PersistedIsAccepted /\ [Next]_vars => PersistedIsAccepted'
  <2> SUFFICES ASSUME TypeOK, SendInv, PersistedIsAccepted, [Next]_vars,
                      NEW c \in ClientId, row'[c] # None
               PROVE  IdOf[row'[c]] = c /\ accepted'[row'[c]] # {}
    BY DEF PersistedIsAccepted
  <2>1. /\ row \in [ClientId -> Submission \cup {None}]
        /\ pc \in [Submission -> Labels]
        /\ row[c] # None => row[c] \in Submission /\ IdOf[row[c]] = c /\ accepted[row[c]] # {}
    BY DEF TypeOK, RequestTyped, PersistedIsAccepted
  <2>2. \A o \in Submission : accepted[o] \subseteq accepted'[o]
    <3>1. ASSUME NEW s \in Submission,
                 SendOk(s) \/ SendEmpty(s) \/ SendRetries(s) \/ SendFails(s)
          PROVE  \A o \in Submission : accepted[o] \subseteq accepted'[o]
      <4>1. PICK taken \in BOOLEAN : Attempt(s, taken)
        BY <3>1 DEF SendOk, SendEmpty, SendRetries, SendFails
      <4> QED BY <4>1, AttemptAccepts
    <3>2. (\E s \in Submission : SendOk(s) \/ SendEmpty(s) \/ SendRetries(s) \/ SendFails(s))
             \/ accepted' = accepted
      BY DEF Next, Step, Lookup, CheckAndAllow, GetNonce, GetGas, Sign, RpcErrorAppended,
             RpcErrorsPruned, RpcErrorsChecked, SendFailureCounted, SendFailuresChecked,
             SendSucceeded, Persist, PersistFails, Mine, Tick, Restart, vars
    <3> QED BY <3>1, <3>2
  <2>3. CASE row' = row
    BY <2>1, <2>2, <2>3
  <2>4. ASSUME NEW s \in Submission, Persist(s)
        PROVE  IdOf[row'[c]] = c /\ accepted'[row'[c]] # {}
    <3>1. accepted[s] # {}
      BY <2>4 DEF Persist, SendInv
    <3>2. row' = [row EXCEPT ![IdOf[s]] = s]
      BY <2>4 DEF Persist
    <3>3. CASE c = IdOf[s]
      BY <2>1, <2>2, <3>1, <3>2, <3>3
    <3>4. CASE c # IdOf[s]
      BY <2>1, <2>2, <3>2, <3>4
    <3> QED BY <3>3, <3>4
  <2>5. (\E s \in Submission : Persist(s)) \/ row' = row
    BY DEF Next, Step, Lookup, CheckAndAllow, GetNonce, GetGas, Sign, SendOk, SendEmpty,
           SendRetries, SendFails, Attempt, RpcErrorAppended, RpcErrorsPruned,
           RpcErrorsChecked, SendFailureCounted, SendFailuresChecked, SendSucceeded,
           PersistFails, Mine, Tick, Restart, vars
  <2> QED BY <2>3, <2>4, <2>5
<1> QED BY <1>1, SendInit, SendHolds, SubmissionTypeCorrect, PTL DEF Spec

-----------------------------------------------------------------------------

\* Enough consecutive failures trigger the breaker, whoever counted them.
THEOREM FailuresAlwaysTrip == Spec => []FailuresTrip
<1> USE BreakerAssumption
<1>1. Init => FailuresTrip
  BY DEF Init, FailuresTrip
<1>2. TypeOK /\ FailuresTrip /\ [Next]_vars => FailuresTrip'
  <2> SUFFICES ASSUME TypeOK, FailuresTrip, [Next]_vars PROVE FailuresTrip'
    OBVIOUS
  <2>0. /\ pc \in [Submission -> Labels]
        /\ sendFailures \in Nat
        /\ resume \in [Submission -> {"fail", "sign"}]
    BY DEF TypeOK, RequestTyped
  <2> USE <2>0 DEF FailuresTrip, breaker, Goto, Leave, RecordError
  <2>1. ASSUME NEW s \in Submission,
               Lookup(s) \/ CheckAndAllow(s) \/ GetNonce(s) \/ GetGas(s) \/ Sign(s)
        PROVE  FailuresTrip'
    BY <2>1 DEF Lookup, CheckAndAllow, GetNonce, GetGas, Sign
  <2>2. ASSUME NEW s \in Submission, SendOk(s) \/ SendEmpty(s) \/ SendRetries(s) \/ SendFails(s)
        PROVE  FailuresTrip'
    BY <2>2 DEF SendOk, SendEmpty, SendRetries, SendFails, Attempt
  <2>3. ASSUME NEW s \in Submission, RpcErrorAppended(s) \/ RpcErrorsPruned(s)
        PROVE  FailuresTrip'
    BY <2>3 DEF RpcErrorAppended, RpcErrorsPruned, ReplaceList
  <2>4. ASSUME NEW s \in Submission, RpcErrorsChecked(s) PROVE FailuresTrip'
    BY <2>4 DEF RpcErrorsChecked, Trips
  <2>5. ASSUME NEW s \in Submission, SendFailureCounted(s) PROVE FailuresTrip'
    BY <2>5 DEF SendFailureCounted
  <2>6. ASSUME NEW s \in Submission, SendFailuresChecked(s) PROVE FailuresTrip'
    BY <2>6 DEF SendFailuresChecked, Trips
  <2>7. ASSUME NEW s \in Submission, SendSucceeded(s) PROVE FailuresTrip'
    BY <2>7 DEF SendSucceeded
  <2>8. ASSUME NEW s \in Submission, Persist(s) \/ PersistFails(s) PROVE FailuresTrip'
    BY <2>8 DEF Persist, PersistFails
  <2>9. CASE Mine \/ Tick \/ UNCHANGED vars
    BY <2>9 DEF Mine, Tick, vars
  <2>10. CASE Restart
    BY <2>10 DEF Restart
  <2> QED BY <2>1, <2>2, <2>3, <2>4, <2>5, <2>6, <2>7, <2>8, <2>9, <2>10 DEF Next, Step
<1> QED BY <1>1, <1>2, SubmissionTypeCorrect, PTL DEF Spec

-----------------------------------------------------------------------------
(***************************************************************************)
(* The RPC errors.  Threads iterate over lists that others have replaced,  *)
(* but no list ever has an error that was not recorded, and none recorded  *)
(* is in the future; a list that is about to be counted was pruned at this *)
(* very time, whoever put it there.                                        *)
(***************************************************************************)

Instants == 0 .. MaxClock

Within(list) == \A t \in Instants : list[t] <= errorLog[t]

ErrorsRecorded ==
  /\ Within(rpcErrors)
  /\ \A s \in Submission : iterating[s] # Current => Within(iterating[s])
  /\ \A t \in Instants : t > clock => errorLog[t] = 0

CountedIsPruned ==
  (\E s \in Submission : pc[s] = "errors") =>
    \A t \in Instants : t <= clock - Window => rpcErrors[t] = 0

LEMMA InstantsFinite == IsFiniteSet(Instants) /\ \A S \in SUBSET Instants : IsFiniteSet(S)
<1>1. IsFiniteSet(Instants)
  BY BreakerAssumption, FS_Interval DEF Instants
<1> QED
  BY <1>1, FS_Subset

LEMMA ErrorsAreSums == ASSUME NEW list, NEW S PROVE ErrorsOf(list, S) = Sum(list, S)
BY DEF ErrorsOf, Sum

\* More errors in a set of instants are at least as many.
LEMMA ErrorsGrow ==
  ASSUME NEW list \in ErrorList, NEW log \in ErrorList, NEW S \in SUBSET Instants,
         \A t \in S : list[t] <= log[t]
  PROVE  /\ ErrorsOf(list, S) <= ErrorsOf(log, S)
         /\ ErrorsOf(list, S) \in Nat /\ ErrorsOf(log, S) \in Nat
<1>1. IsFiniteSet(Instants) /\ IsFiniteSet(S)
  BY InstantsFinite
<1>2. \A t \in S : list[t] \in Nat /\ log[t] \in Nat
  BY DEF ErrorList, Instants
<1>3. Sum(list, S) <= Sum(log, S)
  BY <1>1, <1>2, SumOrdered
<1>4. Sum(list, S) \in Nat /\ Sum(log, S) \in Nat
  BY <1>1, <1>2, SumNat
<1> QED
  BY <1>3, <1>4, ErrorsAreSums

\* The errors of a list that has none outside a window.
LEMMA ErrorsInWindow ==
  ASSUME NEW list \in ErrorList, NEW S \in SUBSET Instants, \A t \in Instants \ S : list[t] = 0
  PROVE  ErrorsOf(list, Instants) = ErrorsOf(list, S)
<1> DEFINE R == Instants \ S
<1>1. IsFiniteSet(S) /\ IsFiniteSet(R) /\ Instants = S \cup R /\ S \cap R = {}
  BY InstantsFinite
<1>2. \A t \in S \cup R : list[t] \in Int
  BY DEF ErrorList, Instants
<1>3. \A t \in R : list[t] = 0
  OBVIOUS
<1> HIDE DEF R
<1>4. Sum(list, Instants) = Sum(list, S) + Sum(list, R)
  BY <1>1, <1>2, SumUnion
<1>5. Sum(list, R) = 0 /\ Sum(list, S) \in Int
  BY <1>1, <1>2, <1>3, SumOfZeros, SumType
<1> QED
  BY <1>4, <1>5, ErrorsAreSums

LEMMA ErrorsStep ==
  ASSUME TypeOK, ErrorsRecorded, CountedIsPruned, [Next]_vars
  PROVE  ErrorsRecorded' /\ CountedIsPruned' /\ (restarts' = restarts => \A t \in Instants : errorLog[t] <= errorLog'[t])
<1> USE BreakerAssumption
<1>0. /\ pc \in [Submission -> Labels] /\ resume \in [Submission -> {"fail", "sign"}]
      /\ clock \in Nat /\ rpcErrors \in ErrorList /\ errorLog \in ErrorList
      /\ iterating \in [Submission -> ErrorList \cup {Current}] /\ restarts \in Nat
      /\ clock \in Instants
  BY DEF TypeOK, RequestTyped, Instants
<1>a. ASSUME UNCHANGED <<rpcErrors, errorLog, iterating, clock>>,
             \A s \in Submission : pc'[s] = "errors" => \E o \in Submission : pc[o] = "errors"
      PROVE  ErrorsRecorded' /\ CountedIsPruned' /\ \A t \in Instants : errorLog[t] <= errorLog'[t]
  <2>1. \A t \in Instants : errorLog[t] \in Nat
    BY <1>0 DEF ErrorList, Instants
  <2> QED
    BY <1>a, <2>1 DEF ErrorsRecorded, CountedIsPruned, Within
<1> USE <1>0 DEF breaker, Goto, Leave, RecordError
<1>1. ASSUME NEW s \in Submission,
             Lookup(s) \/ CheckAndAllow(s) \/ GetNonce(s) \/ GetGas(s) \/ Sign(s)
      PROVE  /\ UNCHANGED <<rpcErrors, errorLog, iterating, clock>>
             /\ \A o \in Submission : pc'[o] = "errors" => pc[o] = "errors"
  BY <1>1 DEF Lookup, CheckAndAllow, GetNonce, GetGas, Sign
<1>2. ASSUME NEW s \in Submission, SendOk(s) \/ SendEmpty(s) \/ SendRetries(s) \/ SendFails(s)
      PROVE  /\ UNCHANGED <<rpcErrors, errorLog, iterating, clock>>
             /\ \A o \in Submission : pc'[o] = "errors" => pc[o] = "errors"
  BY <1>2 DEF SendOk, SendEmpty, SendRetries, SendFails, Attempt
<1>3. ASSUME NEW s \in Submission,
             \/ RpcErrorsChecked(s) \/ SendFailureCounted(s) \/ SendFailuresChecked(s)
             \/ SendSucceeded(s) \/ Persist(s) \/ PersistFails(s)
      PROVE  /\ UNCHANGED <<rpcErrors, errorLog, iterating, clock>>
             /\ \A o \in Submission : pc'[o] = "errors" => pc[o] = "errors"
  BY <1>3 DEF RpcErrorsChecked, SendFailureCounted, SendFailuresChecked, SendSucceeded, Persist,
              PersistFails
<1>4. ASSUME NEW s \in Submission, RpcErrorAppended(s)
      PROVE  ErrorsRecorded' /\ CountedIsPruned' /\ \A t \in Instants : errorLog[t] <= errorLog'[t]
  <2>1. /\ rpcErrors' = [rpcErrors EXCEPT ![clock] = @ + 1]
        /\ errorLog' = [errorLog EXCEPT ![clock] = @ + 1]
        /\ iterating' = [iterating EXCEPT ![s] = Current]
        /\ UNCHANGED clock
        /\ \A o \in Submission : pc'[o] = "errors" => pc[o] = "errors"
    BY <1>4 DEF RpcErrorAppended
  <2>2. \A t \in Instants : rpcErrors[t] \in Nat /\ errorLog[t] \in Nat
    BY DEF ErrorList, Instants
  <2>3. \A t \in Instants :
          /\ rpcErrors'[t] = (IF t = clock THEN rpcErrors[t] + 1 ELSE rpcErrors[t])
          /\ errorLog'[t] = (IF t = clock THEN errorLog[t] + 1 ELSE errorLog[t])
    BY <2>1 DEF ErrorList, Instants
  <2>4. \A t \in Instants : errorLog[t] <= errorLog'[t]
    BY <2>2, <2>3
  <2>5. Within(rpcErrors)'
    BY <2>2, <2>3 DEF ErrorsRecorded, Within
  <2>6. ASSUME NEW o \in Submission, iterating'[o] # Current PROVE Within(iterating[o])'
    <3>1. iterating[o] # Current /\ iterating'[o] = iterating[o] /\ iterating[o] \in ErrorList
      BY <2>1, <2>6
    <3>2. \A t \in Instants : iterating[o][t] <= errorLog[t] /\ iterating[o][t] \in Nat
      BY <3>1 DEF ErrorsRecorded, Within, ErrorList, Instants
    <3> QED
      BY <2>2, <2>4, <2>3, <3>1, <3>2 DEF Within
  <2>7. \A t \in Instants : t > clock' => errorLog'[t] = 0
    BY <2>1, <2>3 DEF ErrorsRecorded
  <2>8. CountedIsPruned'
    <3>1. \A t \in Instants : t <= clock - Window => t # clock
      OBVIOUS
    <3> QED
      BY <2>1, <2>3, <3>1 DEF CountedIsPruned
  <2> QED
    BY <2>4, <2>5, <2>6, <2>7, <2>8 DEF ErrorsRecorded
<1>5. ASSUME NEW s \in Submission, RpcErrorsPruned(s)
      PROVE  ErrorsRecorded' /\ CountedIsPruned' /\ \A t \in Instants : errorLog[t] <= errorLog'[t]
  <2> DEFINE new == [t \in 0 .. MaxClock |-> IF t > clock - Window THEN Iterated(s)[t] ELSE 0]
  <2>1. /\ rpcErrors' = new /\ UNCHANGED <<errorLog, clock>>
        /\ \A o \in Submission : iterating'[o] \in {rpcErrors, Current, iterating[o]}
    BY <1>5 DEF RpcErrorsPruned, ReplaceList
  <2>2. \A t \in Instants : errorLog[t] \in Nat
    BY DEF ErrorList, Instants
  <2>3. Within(Iterated(s))
    BY DEF ErrorsRecorded, Iterated
  <2>4. \A t \in Instants : new[t] = (IF t > clock - Window THEN Iterated(s)[t] ELSE 0)
    BY DEF Instants
  <2> HIDE DEF new
  <2>5. Within(rpcErrors)'
    <3>1. \A t \in Instants : new[t] <= errorLog[t]
      BY <2>2, <2>3, <2>4 DEF Within
    <3>2. \A t \in Instants : rpcErrors'[t] <= errorLog'[t]
      BY <2>1, <3>1
    <3> QED
      BY <3>2 DEF Within
  <2>6. \A o \in Submission : iterating'[o] # Current => Within(iterating[o])'
    BY <2>1 DEF ErrorsRecorded, Within
  <2>7. CountedIsPruned'
    BY <2>1, <2>4 DEF CountedIsPruned, Instants
  <2> QED
    BY <2>1, <2>2, <2>5, <2>6, <2>7 DEF ErrorsRecorded
<1>6. CASE Tick
  <2>1. UNCHANGED <<rpcErrors, errorLog, iterating, pc>> /\ clock' = clock + 1
        /\ \A s \in Submission : pc[s] # "errors"
    BY <1>6 DEF Tick
  <2>2. \A t \in Instants : errorLog[t] \in Nat
    BY DEF ErrorList, Instants
  <2>3. \A t \in Instants : t > clock' => t > clock
    BY <2>1 DEF Instants
  <2>4. ErrorsRecorded'
    BY <2>1, <2>3 DEF ErrorsRecorded, Within
  <2> QED
    BY <2>1, <2>2, <2>4 DEF CountedIsPruned
<1>7. CASE Restart
  <2>1. /\ rpcErrors' = NoErrors /\ errorLog' = NoErrors /\ restarts' # restarts
        /\ \A s \in Submission : iterating'[s] = Current
    BY <1>7 DEF Restart
  <2>2. \A t \in Instants : NoErrors[t] = 0
    BY DEF NoErrors, Instants
  <2> QED
    BY <2>1, <2>2 DEF ErrorsRecorded, CountedIsPruned, Within
<1>8. CASE Mine \/ UNCHANGED vars
  BY <1>8, <1>a DEF Mine, vars
<1> QED
  BY <1>a, <1>1, <1>2, <1>3, <1>4, <1>5, <1>6, <1>7, <1>8 DEF Next, Step

\* Enough errors fell within the window that ends at last.
Enough(last) == ErrorsOf(errorLog, {t \in 0 .. last : t > last - Window}) >= MaxRpcErrors

\* The breaker blames RPC errors only when enough were recorded within one window, even
\* if threads pruned stale lists and put them in the place of newer ones.
THEOREM TripAlwaysDeserved == Spec => []TripIsDeserved
<1> USE BreakerAssumption
<1>1. Init => ErrorsRecorded /\ CountedIsPruned /\ TripIsDeserved
  BY DEF Init, ErrorsRecorded, CountedIsPruned, TripIsDeserved, Within, NoErrors, Instants
<1>2. TypeOK /\ TypeOK' /\ ErrorsRecorded /\ CountedIsPruned /\ TripIsDeserved /\ [Next]_vars =>
        ErrorsRecorded' /\ CountedIsPruned' /\ TripIsDeserved'
  <2> SUFFICES ASSUME TypeOK, TypeOK', ErrorsRecorded, CountedIsPruned, TripIsDeserved, [Next]_vars,
                      tripped' = "rpc"
               PROVE  \E last \in 0 .. clock' : Enough(last)'
    BY ErrorsStep DEF TripIsDeserved, Enough
  <2>0. /\ clock \in Instants /\ clock \in Nat /\ clock' \in Nat
        /\ rpcErrors \in ErrorList /\ errorLog \in ErrorList /\ errorLog' \in ErrorList
    BY DEF TypeOK, Instants
  <2>a. restarts' = restarts /\ clock <= clock'
        /\ (tripped = "rpc" \/ \E s \in Submission :
              pc[s] = "errors" /\ ErrorsOf(rpcErrors, 0 .. MaxClock) >= MaxRpcErrors)
    <3> USE <2>0 DEF breaker, Trips, Goto, Leave, RecordError
    <3>1. ASSUME NEW s \in Submission,
                 Lookup(s) \/ CheckAndAllow(s) \/ GetNonce(s) \/ GetGas(s) \/ Sign(s)
          PROVE  UNCHANGED <<restarts, clock, tripped>>
      BY <3>1 DEF Lookup, CheckAndAllow, GetNonce, GetGas, Sign
    <3>2. ASSUME NEW s \in Submission,
                 SendOk(s) \/ SendEmpty(s) \/ SendRetries(s) \/ SendFails(s)
          PROVE  UNCHANGED <<restarts, clock, tripped>>
      BY <3>2 DEF SendOk, SendEmpty, SendRetries, SendFails, Attempt
    <3>3. ASSUME NEW s \in Submission,
                 \/ RpcErrorAppended(s) \/ RpcErrorsPruned(s) \/ SendFailureCounted(s)
                 \/ SendSucceeded(s) \/ Persist(s) \/ PersistFails(s)
          PROVE  UNCHANGED <<restarts, clock, tripped>>
      BY <3>3 DEF RpcErrorAppended, RpcErrorsPruned, SendFailureCounted, SendSucceeded, Persist,
                  PersistFails
    <3>4. ASSUME NEW s \in Submission, SendFailuresChecked(s)
          PROVE  UNCHANGED <<restarts, clock, tripped>>
      BY <3>4 DEF SendFailuresChecked
    <3>5. ASSUME NEW s \in Submission, RpcErrorsChecked(s)
          PROVE  /\ UNCHANGED <<restarts, clock>> /\ pc[s] = "errors"
                 /\ tripped = "rpc" \/ ErrorsOf(rpcErrors, 0 .. MaxClock) >= MaxRpcErrors
      BY <3>5 DEF RpcErrorsChecked
    <3>6. CASE Mine \/ Tick \/ UNCHANGED vars
      BY <3>6 DEF Mine, Tick, vars
    <3>7. ~ Restart
      BY DEF Restart
    <3> QED
      BY <3>1, <3>2, <3>3, <3>4, <3>5, <3>6, <3>7 DEF Next, Step
  <2>1. \A t \in Instants : errorLog[t] <= errorLog'[t]
    BY <2>a, ErrorsStep
  <2>2. ASSUME NEW last \in 0 .. clock, Enough(last) PROVE last \in 0 .. clock' /\ Enough(last)'
    <3> DEFINE S == {t \in 0 .. last : t > last - Window}
    <3>1. S \in SUBSET Instants /\ last \in 0 .. clock'
      BY <2>0, <2>a DEF Instants
    <3> HIDE DEF S
    <3>2. /\ ErrorsOf(errorLog, S) <= ErrorsOf(errorLog', S)
          /\ ErrorsOf(errorLog, S) \in Nat /\ ErrorsOf(errorLog', S) \in Nat
      BY <2>0, <2>1, <3>1, ErrorsGrow
    <3>3. ErrorsOf(errorLog, S) >= MaxRpcErrors
      BY <2>2 DEF Enough, S
    <3>4. ErrorsOf(errorLog', S) >= MaxRpcErrors
      BY <3>2, <3>3
    <3> QED
      BY <3>1, <3>4 DEF Enough, S
  <2>3. ASSUME NEW s \in Submission, pc[s] = "errors",
               ErrorsOf(rpcErrors, 0 .. MaxClock) >= MaxRpcErrors
        PROVE  Enough(clock)
    <3> DEFINE S == {t \in 0 .. clock : t > clock - Window}
    <3>1. S \in SUBSET Instants
      BY <2>0 DEF Instants
    <3>2. \A t \in Instants \ S : rpcErrors[t] = 0
      <4> SUFFICES ASSUME NEW t \in Instants, t \notin S PROVE rpcErrors[t] = 0
        OBVIOUS
      <4>1. CASE t > clock
        <5>1. rpcErrors[t] \in Nat /\ rpcErrors[t] <= errorLog[t] /\ errorLog[t] = 0
          BY <2>0, <4>1 DEF ErrorsRecorded, Within, ErrorList, Instants
        <5> QED
          BY <5>1
      <4>2. CASE t <= clock
        <5>1. t <= clock - Window
          BY <2>0, <4>2 DEF Instants
        <5> QED
          BY <2>3, <5>1 DEF CountedIsPruned
      <4> QED
        BY <2>0, <4>1, <4>2 DEF Instants
    <3> HIDE DEF S
    <3>3. ErrorsOf(rpcErrors, Instants) = ErrorsOf(rpcErrors, S)
      BY <2>0, <3>1, <3>2, ErrorsInWindow
    <3>4. /\ ErrorsOf(rpcErrors, S) <= ErrorsOf(errorLog, S)
          /\ ErrorsOf(rpcErrors, S) \in Nat /\ ErrorsOf(errorLog, S) \in Nat
      BY <2>0, <3>1, ErrorsGrow DEF ErrorsRecorded, Within
    <3>5. ErrorsOf(errorLog, S) >= MaxRpcErrors
      BY <2>3, <3>3, <3>4 DEF Instants
    <3> QED
      BY <3>5 DEF Enough, S
  <2>4. CASE tripped = "rpc"
    <3>1. PICK last \in 0 .. clock : Enough(last)
      BY <2>4 DEF TripIsDeserved, Enough
    <3> QED
      BY <2>2, <3>1
  <2>5. ASSUME NEW s \in Submission, pc[s] = "errors",
               ErrorsOf(rpcErrors, 0 .. MaxClock) >= MaxRpcErrors
        PROVE  \E last \in 0 .. clock' : Enough(last)'
    <3>1. clock \in 0 .. clock /\ Enough(clock)
      BY <2>0, <2>3, <2>5
    <3> QED
      BY <2>2, <3>1
  <2> QED
    BY <2>a, <2>4, <2>5
<1> QED BY <1>1, <1>2, SubmissionTypeCorrect, PTL DEF Spec
=============================================================================
