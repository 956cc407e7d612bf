CONSTANTS
  k1 = k1
  k2 = k2
  fits = fits
  oversized = oversized
  untrusted = untrusted
  broken = broken
  empty = empty
  Client = {c1, c2}
  Server = {s1, s2}
  Key = {k1, k2}
  Chain = {fits, oversized, untrusted, broken, empty}
  Parseable = {fits, oversized, untrusted}
  Trusted = {fits, oversized}
  CertCount <- MCCertCount
  DerBytes <- MCDerBytes
  LeafKey <- MCLeafKey
  Config <- MCConfig
  MaxAttempts = 2
  FinishedAttempts = 2
SYMMETRY Calls
SPECIFICATION MCSpec
INVARIANTS TypeOK TranscriptAgreement ClientAuthenticatesServer ServerConfirmsClient NonceUnique
PROPERTY Agreement
