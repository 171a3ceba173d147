SPECIFICATION Spec
CONSTANTS
  Poller = {p1, p2}
  Owner = Owner
  None = None
INVARIANTS OnePollerPerOrder
