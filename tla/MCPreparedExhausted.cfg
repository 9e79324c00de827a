\* One chain on a counter of one step, prepared again at its end.
SPECIFICATION Spec
CONSTANTS
  h_0 = h_0
  h_1 = h_1
  h_2 = h_2
  alice = alice
  coin = coin
  policy = policy
  body = body
  H0 = 1
  MaxWitness = 2
  MaxWaste = 0
  Roots <- MCRoots
  Genesis = h_0
  Transitions <- MCChain
  Challenges = {r_R}
  AnchorId = anchor
  Slot = slot
  OnlineRoots = {}
  NoRoot = NoRoot
INVARIANTS
  PreparedCanComplete
