CONSTANTS
  NoKey = NoKey
  BadKey = BadKey
  Requests = {r1}
  AgentKeys = {k1}
  Sizes <- BoundarySizes
  Others <- AnotherCategory
SPECIFICATION OrderSpec
INVARIANTS
  ExactlyPlaceableOrdersLeave
  CheckSpeaksForDeploy
