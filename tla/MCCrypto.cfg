CONSTANTS
  BlockLen = 4
  HashLen = 1
  CountLen = 2
  AeadKeyLen = 2
  IvLen = 1
  LabelMax = 4
  ContextMax = 4
  InfoMax = 12
  StreamLen = 2
  MacLen = 2
  CounterMod = 4
  NonceLen = 3
  SeqLen = 2
  ByteMod = 4
  ByteXor <- MCXor
  Message <- MCMessage
  Shared <- MCShared
  MaxAdded = 6
  MaxKeys = 2
  MaxDerived = 3
  WriteKey = {1, 2}
  Iv <- MCIv
  Aad <- MCAad
  Plain <- MCPlain
  MaxSealed = 2
  LimbSize = 6
  WordSize = 7
  ClampMask <- MCClampMask
  MacKey <- MCMacKey
  Chunk <- MCChunk
  MaxMessage = 9
  FeLimbs = 2
  FeBits = 8
  A24 = 475
  Scalar <- MCScalar
  Coordinate <- MCCoordinate
  LimbBits = 2
  Limbs = 3
  P = 59
  N = 53
  CoeffB = 37
  GX = 1
  GY = 25
  PrivateKey = {1, 2, 30, 52}
  Hash = {0, 1, 52, 63}
  Draws <- Bn
  MaxAttempts = 3
  PublicKey <- MCPublicKey
  SignatureInt <- Bn
SPECIFICATION MCSpec
INVARIANTS SnapshotExact KeysSeparated OpensOnlySealed KeystreamFresh TagExact LadderExact LimbsExact VerifyExact SignedVerifies
CHECK_DEADLOCK FALSE
