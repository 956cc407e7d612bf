CONSTANTS
  other = other
  k1 = k1
  k2 = k2
  root = root
  rootkey = rootkey
  Name = {root, other}
  Key = {rootkey, k1, k2}
  Year = {1950, 2049, 2050, 2051}
  AtTime = {2049, 2050}
  RootName = root
  RootKey = rootkey
  RootValidity <- MCRootValidity
  Issuable <- MCIssuable
  MaxIssued = 3
  MaxChain = 3
SYMMETRY Holders
SPECIFICATION Spec
INVARIANTS AcceptedIsVouched VouchedIsAccepted
PROPERTY OnlyAuthoritiesExtendTrust
