CONSTANTS
  None = None
  Session = {s1}
  Code = {c1}
  Device = {dA, dB, dC}
  Request = {r1, r2}
  Asked = {}
  MaxAttempts = 2
  RedisLoses = TRUE
SPECIFICATION FairSpec
INVARIANTS
  ClaimExclusive
PROPERTIES
  ImplementsPairing
  RequestsEnd
  OverdueCloses
