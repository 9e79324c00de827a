\* One chain and an online advance during an outage.
SPECIFICATION Spec
CONSTANTS
  h_0 = h_0
  h_1 = h_1
  h_2 = h_2
  alice = alice
  coin = coin
  policy = policy
  body = body
  H0 = 2
  MaxWitness = 2
  MaxWaste = 0
  Roots <- MCRoots
  Genesis = h_0
  Transitions <- MCChain
  Challenges = {r_R}
  AnchorId = anchor
  Slot = slot
  OnlineRoots = {h_2}
  NoRoot = NoRoot
PROPERTIES
  CompletesOnlyMatchingParent
