\* Everything at once: crashes, chip faults, one counter move by somebody else
\* and online advances.
SPECIFICATION Spec
CONSTANTS
  h_0 = h_0
  h_1 = h_1
  h_2 = h_2
  alice = alice
  coin = coin
  policy = policy
  body = body
  H0 = 3
  MaxWitness = 3
  MaxWaste = 1
  Roots <- MCRoots
  Genesis = h_0
  Transitions <- MCTransitions
  Challenges = {r_R, r_S}
  AnchorId = anchor
  Slot = slot
  OnlineRoots = {h_2}
  NoRoot = NoRoot
INVARIANTS
  TypeOK
  IInv
  CounterAccounted
  ExportedAfterCount
  OneReleasePerIndex
  ExportedNotAbandoned
  RecoveryHonoured
  ReleasesVerify
PROPERTIES
  CandidateStable
