\* What a comment says of the recover at boot.
SPECIFICATION FirmwareSpec
CONSTANTS
  h_0 = h_0
  h_1 = h_1
  h_2 = h_2
  alice = alice
  coin = coin
  policy = policy
  body = body
  r_R = r_R
  H0 = 2
  MaxWitness = 6
  MaxWaste = 2
  MaxBoots = 1
  Roots <- MCRoots
  Genesis = h_0
  Transitions <- MCTransitions
  Challenges = {r_R}
  AnchorId = anchor
  Slot = slot
  OnlineRoots = {}
  Requests <- MCRequests
  Malformed = Malformed
  Oversized = Oversized
  Undecodable = Undecodable
  TestTransition <- MCTest
  TestChallenge = r_R
  IndexOf <- MCIndexOf
  ProvenAdvances <- MCProven
CHECK_DEADLOCK FALSE
INVARIANT
  BootFindsReady
