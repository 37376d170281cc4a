CONSTANTS
  None = None
  NoKey = NoKey
  BadKey = BadKey
  r1 = r1
  r2 = r2
  r3 = r3
  r4 = r4
  k1 = k1
  k2 = k2
  Calls = {c1, c2}
  Requests = {r1, r2, r3}
  AgentKeys = {k1, k2}
  UUIDs = {u1, u2, u3, u4}
  CallArgs <- NoKeyArgs
  RetryAfters <- SomeRetryAfters
  GENERATED_KEY_TRANSPORT_RETRIES = 1
  IN_PROGRESS_MAX_RETRIES = 3
  IN_PROGRESS_RETRY_AFTER_CAP_SECONDS = 10
  DEFAULT_IN_PROGRESS_WAIT_SECONDS = 5
SPECIFICATION Spec
SYMMETRY SafetySymmetry
CHECK_DEADLOCK FALSE
INVARIANTS
  AtMostOnce
  NoMeansNotRun
  BoundedEffort
