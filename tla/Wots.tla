--------------------------------- MODULE Wots ---------------------------------
(***************************************************************************)
(* The WOTS-over-BLAKE3 witness signature of sig.rs.  A digest is N bytes  *)
(* of two base-W digits; three further digits hold the sum of what the     *)
(* message digits lack of W - 1.  A signature is, for each digit, the      *)
(* element of its chain that many steps from the secret; verify goes on to *)
(* the tops of the chains, whose digest is the public key.                 *)
(*                                                                         *)
(* Hashing is ideal: a chain element is its chain and its distance from    *)
(* the secret, and whoever holds it can only go on along the chain.  Two   *)
(* digests are followed through digits side by side: the one that is       *)
(* signed and any other one.                                               *)
(***************************************************************************)
EXTENDS Integers

CONSTANTS
  W,    \* the Winternitz parameter, 16 in the code
  N     \* bytes of a digest, 32 in the code

LEN1 == 2 * N
LEN2 == 3
LEN == LEN1 + LEN2

(* The comment on LEN2: the largest checksum has three digits.             *)
ASSUME WotsAssumption ==
  W \in Nat /\ W > 1 /\ N \in Nat \ {0} /\ LEN1 * (W - 1) < W * W * W

VARIABLES
  signed, other,              \* the digest that is signed, and another one
  i,                          \* message digits summed so far
  csum_signed, csum_other,    \* their checksums
  sigma                       \* the signature once there is one: {} or {s}

vars == <<signed, other, i, csum_signed, csum_other, sigma>>

Digest == [0..N - 1 -> 0..W * W - 1]
Chains == 0..LEN - 1

-----------------------------------------------------------------------------
(* digits                                                                  *)

(* High digit, then low digit of each byte.                                *)
MessageDigit(d, k) ==
  IF k % 2 = 0 THEN d[k \div 2] \div W ELSE d[k \div 2] % W

(* Mutant: the digits themselves are summed.                               *)
SummandPlain(digit) == digit
Summand(digit) == (W - 1) - digit

(* Mutant: the middle digit repeats the lowest one.                        *)
ChecksumDigitUnshifted(csum, k) ==
  IF k = LEN1 THEN (csum \div (W * W)) % W ELSE csum % W

(* Big-endian.                                                             *)
ChecksumDigit(csum, k) ==
  IF k = LEN1 THEN (csum \div (W * W)) % W
  ELSE IF k = LEN1 + 1 THEN (csum \div W) % W
  ELSE csum % W

digits(d, csum) ==
  [k \in Chains |->
     IF k < LEN1 THEN MessageDigit(d, k) ELSE ChecksumDigit(csum, k)]

-----------------------------------------------------------------------------
(* Chains, keys and signatures.                                            *)

chain_secret(k) == <<k, 0>>
chain(x, steps) == <<x[1], x[2] + steps>>

(* compress is injective: the public key is the tops.                      *)
keygen_pk == [k \in Chains |-> chain(chain_secret(k), W - 1)]

sign(d, csum) ==
  [k \in Chains |-> chain(chain_secret(k), digits(d, csum)[k])]

(* Mutant: one step too many.                                              *)
verify_one_more(d, csum, sig) ==
  keygen_pk = [k \in Chains |-> chain(sig[k], W - digits(d, csum)[k])]

verify(d, csum, sig) ==
  keygen_pk = [k \in Chains |-> chain(sig[k], (W - 1) - digits(d, csum)[k])]

-----------------------------------------------------------------------------
Init ==
  /\ signed \in Digest /\ other \in Digest
  /\ i = 0 /\ csum_signed = 0 /\ csum_other = 0 /\ sigma = {}

(* One round of the checksum loop.                                         *)
AddDigit ==
  /\ i < LEN1
  /\ i' = i + 1
  /\ csum_signed' = csum_signed + Summand(MessageDigit(signed, i))
  /\ csum_other' = csum_other + Summand(MessageDigit(other, i))
  /\ UNCHANGED <<signed, other, sigma>>

Sign ==
  /\ i = LEN1 /\ sigma = {}
  /\ sigma' = {sign(signed, csum_signed)}
  /\ UNCHANGED <<signed, other, i, csum_signed, csum_other>>

(* A holder of the signature takes one more step on a chain, at most to    *)
(* its top.                                                                *)
Advance(k) ==
  /\ \E s \in sigma : /\ s[k][2] < W - 1
                      /\ sigma' = {[s EXCEPT ![k] = chain(s[k], 1)]}
  /\ UNCHANGED <<signed, other, i, csum_signed, csum_other>>

Next == AddDigit \/ Sign \/ \E k \in Chains : Advance(k)

Spec == Init /\ [][Next]_vars

-----------------------------------------------------------------------------
(* Properties.                                                             *)

(* The checksum makes any two digests' digits incomparable: no digest but  *)
(* the signed one ever verifies, whichever chains of the signature are     *)
(* continued.                                                              *)
OnlySignedDigestVerifies ==
  \A s \in sigma : verify(other, csum_other, s) => other = signed

(* What sign returns verifies, and nothing further along its chains does.  *)
SignatureVerifies ==
  \A s \in sigma :
    verify(signed, csum_signed, s) <=> s = sign(signed, csum_signed)

-----------------------------------------------------------------------------
(* The inductive strengthening.                                            *)

(* Digit by digit at least as large, as far as the loop has come.          *)
Dominates == \A k \in 0..i - 1 : MessageDigit(other, k) >= MessageDigit(signed, k)
Differs == \E k \in 0..i - 1 : MessageDigit(other, k) # MessageDigit(signed, k)

(* The digits of a checksum are in range, its sum is bounded by the digits *)
(* seen, and a digest whose digits are larger has the smaller checksum.    *)
SumInv ==
  /\ signed \in Digest /\ other \in Digest /\ i \in 0..LEN1
  /\ csum_signed \in 0..(W - 1) * i /\ csum_other \in 0..(W - 1) * i
  /\ Dominates => csum_other <= csum_signed
  /\ Dominates /\ Differs => csum_other < csum_signed

(* No chain of the signature is ever short of the signed digit.            *)
SigmaInv ==
  \A s \in sigma :
    /\ i = LEN1
    /\ s \in [Chains -> Chains \X Nat]
    /\ \A k \in Chains : /\ s[k][1] = k
                         /\ s[k][2] >= digits(signed, csum_signed)[k]

WInv == SumInv /\ SigmaInv
=============================================================================
