CONSTANTS
  None = None
  NoKey = NoKey
  BadKey = BadKey
  Requests = {r1}
  AgentKeys = {k1}
  Texts <- SomeTexts
SPECIFICATION Spec
INVARIANT NamesMayHoldSlashes
