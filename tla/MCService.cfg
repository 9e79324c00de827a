\* Every opcode, at any time, over an appliance that crashes and whose chip fails.
SPECIFICATION ServiceSpec
CONSTANTS
  h_0 = h_0
  h_1 = h_1
  h_2 = h_2
  alice = alice
  coin = coin
  policy = policy
  body = body
  r_R = r_R
  H0 = 2
  MaxWitness = 3
  MaxWaste = 1
  Roots <- MCRoots
  Genesis = h_0
  Transitions <- MCTransitions
  Challenges = {r_R}
  AnchorId = anchor
  Slot = slot
  OnlineRoots = {h_2}
  Requests <- MCRequests
  Malformed = Malformed
  Oversized = Oversized
  Undecodable = Undecodable
INVARIANTS
  ServiceTypeOK
  AckedCommitKept
  OkMeansDone
  ErrorChangesNothing
