\* Receivers, transport and appliance together.
SPECIFICATION TransferSpec
CONSTANTS
  h_0 = h_0
  h_1 = h_1
  h_2 = h_2
  h_3 = h_3
  alice = alice
  bob = bob
  s1 = s1
  s2 = s2
  coin = coin
  policy = policy
  body = body
  H0 = 2
  MaxWitness = 2
  MaxWaste = 0
  Roots <- MCRoots
  Genesis = h_0
  Transitions <- MCTransitions
  Challenges = {s1, s2}
  AnchorId = anchor
  Slot = slot
  OnlineRoots = {}
  IndexOf <- MCIndexOf
  ProvenAdvances <- MCProvenAdvances
  Sessions = {s1, s2}
  DeviceOf <- MCDeviceOf
  Policy = policy
  ExposureCap = 2
  HostSeeds = {hostkey}
  HostSlots = {elsewhere}
  HostClaims <- MCClaims
  elsewhere = elsewhere
SYMMETRY SwapSessions
INVARIANTS
  TransferTypeOK
  ChipSignedWasEmitted
  ChipSignedOnce
  ChipSignedIsSuccessor
  AcceptedIsSpent
  EmittedIsAcceptable
