CONSTANTS
  Peer = {p1, p2}
  TimeoutMs <- MCTimeoutMs
  QueueCap = 2
SPECIFICATION Spec
INVARIANT OnlyThePeerIsHeard
