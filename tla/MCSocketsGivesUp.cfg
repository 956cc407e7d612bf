CONSTANTS
  k1 = k1
  good = good
  big = big
  c = c1
  s = s1
  Client = {c1}
  Server = {s1}
  Key = {k1}
  Chain = {good}
  Parseable = {good}
  Trusted = {good}
  CertCount <- MCOneCert
  DerBytes <- MCDerBytes
  LeafKey <- MCLeafKey
  Config <- MCConfig
  MaxAttempts = 5
  FinishedAttempts = 8
  Losses = 0
SPECIFICATION FairSpec
PROPERTY GivesUpAfterTimeouts
