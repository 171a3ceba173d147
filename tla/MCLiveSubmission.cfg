SPECIFICATION FairSpec
CONSTANTS
  Submission = {s1, s2}
  IdOf <- MCIdOf
  ClientId = {"a"}
  None = None
  Current = Current
  Fee = {1, 2}
  DefaultFee = 1
  MaxAttempts = 2
  MaxSendFailures = 2
  MaxRpcErrors = 2
  Window = 1
  MaxClock = 1
  MaxRestarts = 1
CHECK_DEADLOCK FALSE
INVARIANTS TypeOK OneTransactionPerSubmission PersistedIsAccepted TripIsDeserved FailuresTrip
PROPERTIES SubmissionEnds
