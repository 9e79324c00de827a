\* The appliance alone with its counter and its root, and crashes and chip faults.
SPECIFICATION LiveSpec
CONSTANTS
  h_0 = h_0
  h_1 = h_1
  h_2 = h_2
  alice = alice
  coin = coin
  policy = policy
  body = body
  H0 = 3
  MaxWitness = 4
  MaxWaste = 0
  Roots <- MCRoots
  Genesis = h_0
  Transitions <- MCTransitions
  Challenges = {r_R}
  AnchorId = anchor
  Slot = slot
  OnlineRoots = {}
  NoRoot = NoRoot
INVARIANTS
  ChainLinked
PROPERTIES
  ImplementsAuthority
  CandidateInstalled
