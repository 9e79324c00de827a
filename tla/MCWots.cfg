\* Digests of three bytes in base 2: checksums up to 6 in three digits.
SPECIFICATION Spec
CONSTANTS
  W = 2
  N = 3
CHECK_DEADLOCK FALSE
INVARIANTS
  OnlySignedDigestVerifies
  SignatureVerifies
  WInv
