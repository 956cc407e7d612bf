CONSTANTS
  SeqNum = {0, 1, 2, 3, 4, 5, 6, 7, 8}
  Window = 3
SPECIFICATION Spec
INVARIANTS TypeOK WindowExact NoReplay NoFalseReject
PROPERTY AtMostOnce
