CONSTANTS
  None = None
  Session = {s1, s2}
  Code = {c1, c2}
  Device = {dA, dB}
  Request = {r1, r2}
  Asked = {"EXPIRED", "JOINED"}
  MaxAttempts = 1
  RedisLoses = FALSE
SPECIFICATION Spec
SYMMETRY Interchangeable
INVARIANTS
  UniqueActiveCode
  WaitingUnclaimed
  KeysTruthful
