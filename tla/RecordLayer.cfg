CONSTANTS
  Window = 4
  MaxSeq = 15
  MaxEpoch = 7
  Epochs = {0, 3, 7}
  MaxSent = 17
SPECIFICATION Spec
INVARIANTS TypeOK HalfWindowOpens HighestIsNewest EpochIsNearest
