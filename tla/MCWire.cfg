CONSTANTS
  Msg <- MCMsg
  MaxLen = 3
  Header <- MCHeader
  RandomLen = 1
  KeyLen = 2
  SeqLen = 2
  NumberLen = 2
  MaxAcks = 2
  MaxCerts = 2
  BufCap = 80
  SizeLen = 2
  SizeMod = 65536
  ScalarLen = 2
  SigCap = 80
  OnCurve <- MCOnCurve
  Sample <- MCSample
  NoiseByte = {0, 1, 2, 48, 129, 130, 131, 255}
  MaxDamage <- MCMaxDamage
  MaxNoise = 5
  CidLen = 2
SPECIFICATION MCSpec
INVARIANTS TypeOK CompleteIsExact CompleteWhenCovered RoundTrip NoPartialMessage Canonical ElementsTile
PROPERTY NeverUndone
