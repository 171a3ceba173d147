SPECIFICATION FairSpec
CONSTANTS
  Poller = {p1, p2}
  Owner = Owner
  None = None
INVARIANTS TypeOK OutcomeIsReal CancelingIsSent SinglePoller
PROPERTIES PollEnds
