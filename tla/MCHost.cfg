\* Two runs of the script, late answers, a power cycle and a failing chip.
SPECIFICATION HostSpec
CONSTANTS
  h_0 = h_0
  h_1 = h_1
  alice = alice
  coin = coin
  policy = policy
  body = body
  r_R = r_R
  H0 = 2
  MaxWitness = 6
  MaxWaste = 2
  MaxBoots = 1
  MaxScripts = 2
  Roots <- MCRoots
  Genesis = h_0
  Transitions <- MCTransitions
  Challenges = {r_R}
  AnchorId = anchor
  Slot = slot
  OnlineRoots = {}
  Requests <- MCRequests
  Malformed = Malformed
  Oversized = Oversized
  Undecodable = Undecodable
  TestTransition <- MCTest
  TestChallenge = r_R
  IndexOf <- MCIndexOf
  ProvenAdvances <- MCProven
CHECK_DEADLOCK FALSE
INVARIANTS
  HostTypeOK
  PassMeansOwnAnswers
  PassMeansInstalled
  FailMeansDisturbed
