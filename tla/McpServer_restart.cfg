CONSTANTS
  None = None
  NoKey = NoKey
  BadKey = BadKey
  r1 = r1
  k1 = k1
  Calls = {c1, c2}
  Servers = {s1, s2}
  Requests = {r1}
  AgentKeys = {k1}
  UUIDs = {u1, u2}
  CallArgs <- RepeatArgs
  RetryAfters <- LongRetryAfter
  GENERATED_KEY_TRANSPORT_RETRIES = 1
  IN_PROGRESS_MAX_RETRIES = 1
  IN_PROGRESS_RETRY_AFTER_CAP_SECONDS = 10
  DEFAULT_IN_PROGRESS_WAIT_SECONDS = 5
SPECIFICATION McpSpec
SYMMETRY McpSymmetry
CHECK_DEADLOCK FALSE
INVARIANT NoAnswerLost
PROPERTY
  KeepsThePromiseAcrossRestarts
