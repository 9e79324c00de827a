------------------------------ MODULE WotsProofs ------------------------------
(***************************************************************************)
(* For base 16, the code's, and digests of any number of bytes whose       *)
(* checksum has three digits (up to 136; the code has 32): no digest but   *)
(* the signed one verifies.  The checksum loop is an induction over its    *)
(* rounds, so it is one over the steps of the specification.               *)
(***************************************************************************)
EXTENDS Wots, TLAPS

(* The digits of a digest are base-16 digits.                              *)
LEMMA DigitRange ==
  ASSUME W = 16, N \in Nat, NEW d \in Digest, NEW k \in 0..LEN1 - 1
  PROVE  MessageDigit(d, k) \in 0..15
<1>1. k \div 2 \in 0..N - 1
  BY DEF LEN1
<1>2. d[k \div 2] \in 0..255
  BY <1>1 DEF Digest
<1> QED
  BY <1>2 DEF MessageDigit

(* A byte is its two digits.                                               *)
LEMMA SameByte ==
  ASSUME NEW x \in 0..255, NEW y \in 0..255,
         x \div 16 = y \div 16, x % 16 = y % 16
  PROVE  x = y
<1>1. x = 16 * (x \div 16) + (x % 16) /\ x \div 16 \in Int /\ x % 16 \in Int
  OBVIOUS
<1>2. y = 16 * (y \div 16) + (y % 16)
  OBVIOUS
<1> QED
  BY <1>1, <1>2, Zenon

(* A digest is its digits.                                                 *)
LEMMA DigitsDetermine ==
  ASSUME W = 16, N \in Nat, NEW d \in Digest, NEW e \in Digest,
         \A k \in 0..LEN1 - 1 : MessageDigit(d, k) = MessageDigit(e, k)
  PROVE  d = e
<1> SUFFICES ASSUME NEW b \in 0..N - 1 PROVE d[b] = e[b]
  BY DEF Digest
<1>1. d[b] \in 0..255 /\ e[b] \in 0..255
  BY DEF Digest
<1>2. 2 * b \in 0..LEN1 - 1 /\ 2 * b + 1 \in 0..LEN1 - 1
  BY DEF LEN1
<1>3. /\ (2 * b) % 2 = 0 /\ (2 * b) \div 2 = b
      /\ (2 * b + 1) % 2 = 1 /\ (2 * b + 1) \div 2 = b
  OBVIOUS
<1>4. d[b] \div 16 = e[b] \div 16
  BY <1>2, <1>3 DEF MessageDigit
<1>5. d[b] % 16 = e[b] % 16
  BY <1>2, <1>3 DEF MessageDigit
<1> QED
  BY <1>1, <1>4, <1>5, SameByte, Zenon

(* The numbers of three base-16 digits.                                    *)
Sums == 0..4095

(* c is the number with its three lowest digits.                           *)
HasThreeDigits(c) ==
  /\ (c \div 256) % 16 \in 0..15 /\ (c \div 16) % 16 \in 0..15 /\ c % 16 \in 0..15
  /\ c = 256 * ((c \div 256) % 16) + 16 * ((c \div 16) % 16) + (c % 16)

(* Three digits are enough for a checksum below 16 * 16 * 16.              *)
LEMMA ThreeDigits ==
  ASSUME NEW c \in Sums
  PROVE  HasThreeDigits(c)
<1> DEFINE q == c \div 16
           r == c \div 256
<1> c \in 0..4095
  BY DEF Sums
<1>1. /\ q \in 0..255 /\ r \in 0..15
      /\ c = 16 * q + (c % 16) /\ c % 16 \in 0..15
  OBVIOUS
<1>2. r = q \div 16
  <2> DEFINE v == q \div 16
  <2>1. v \in 0..15 /\ 16 * v <= q /\ q < 16 * v + 16
    BY <1>1
  <2>2. 256 * v <= c /\ c < 256 * v + 256
    <3> HIDE DEF v, q
    <3> QED
      BY <1>1, <2>1
  <2>3. 256 * r <= c /\ c < 256 * r + 256
    OBVIOUS
  <2> HIDE DEF v, q, r
  <2> QED
    BY <1>1, <2>1, <2>2, <2>3
<1>3. r % 16 = r
  BY <1>1
<1>4. q = 16 * (q \div 16) + (q % 16) /\ q % 16 \in 0..15
  BY <1>1
<1> QED
  BY <1>1, <1>2, <1>3, <1>4 DEF HasThreeDigits

(* Some checksum digit of a is smaller than that of b.                     *)
SmallerDigit(a, b) ==
  \E k \in LEN1..LEN - 1 : ChecksumDigit(a, k) < ChecksumDigit(b, k)

(* A checksum is its three digits: a smaller one has a smaller digit.      *)
LEMMA ChecksumDigits ==
  ASSUME W = 16, NEW a \in Sums, NEW b \in Sums, a < b,
         N \in Nat
  PROVE  SmallerDigit(a, b)
<1>1. \/ (a \div 256) % 16 < (b \div 256) % 16
      \/ (a \div 16) % 16 < (b \div 16) % 16
      \/ a % 16 < b % 16
  <2>1. HasThreeDigits(a) /\ HasThreeDigits(b)
    BY ThreeDigits, Zenon
  <2> DEFINE a2 == (a \div 256) % 16
             a1 == (a \div 16) % 16
             a0 == a % 16
             b2 == (b \div 256) % 16
             b1 == (b \div 16) % 16
             b0 == b % 16
  <2>2. /\ a2 \in 0..15 /\ a1 \in 0..15 /\ a0 \in 0..15
        /\ a = 256 * a2 + 16 * a1 + a0
        /\ b2 \in 0..15 /\ b1 \in 0..15 /\ b0 \in 0..15
        /\ b = 256 * b2 + 16 * b1 + b0
    BY <2>1 DEF HasThreeDigits
  <2>3. a2 < b2 \/ a1 < b1 \/ a0 < b0
    <3> HIDE DEF a2, a1, a0, b2, b1, b0
    <3> QED
      BY <2>2
  <2> QED
    BY <2>3
<1>2. /\ LEN1 \in LEN1..LEN - 1 /\ LEN1 + 1 \in LEN1..LEN - 1
      /\ LEN1 + 2 \in LEN1..LEN - 1
  BY DEF LEN1, LEN, LEN2
<1>3. /\ ChecksumDigit(a, LEN1) = (a \div 256) % 16
      /\ ChecksumDigit(a, LEN1 + 1) = (a \div 16) % 16
      /\ ChecksumDigit(a, LEN1 + 2) = a % 16
  BY DEF ChecksumDigit, LEN1
<1>4. /\ ChecksumDigit(b, LEN1) = (b \div 256) % 16
      /\ ChecksumDigit(b, LEN1 + 1) = (b \div 16) % 16
      /\ ChecksumDigit(b, LEN1 + 2) = b % 16
  BY DEF ChecksumDigit, LEN1
<1>5. CASE (a \div 256) % 16 < (b \div 256) % 16
  <2>1. ChecksumDigit(a, LEN1) < ChecksumDigit(b, LEN1)
    BY <1>3, <1>4, <1>5
  <2> QED
    BY <1>2, <2>1 DEF SmallerDigit
<1>6. CASE (a \div 16) % 16 < (b \div 16) % 16
  <2>1. ChecksumDigit(a, LEN1 + 1) < ChecksumDigit(b, LEN1 + 1)
    BY <1>3, <1>4, <1>6
  <2> QED
    BY <1>2, <2>1 DEF SmallerDigit
<1>7. CASE a % 16 < b % 16
  <2>1. ChecksumDigit(a, LEN1 + 2) < ChecksumDigit(b, LEN1 + 2)
    BY <1>3, <1>4, <1>7
  <2> QED
    BY <1>2, <2>1 DEF SmallerDigit
<1> QED
  BY <1>1, <1>5, <1>6, <1>7

(* One round of the loop.                                                  *)
LEMMA AddDigitKeeps ==
  ASSUME W = 16, N \in Nat, SumInv, AddDigit
  PROVE  SumInv'
<1> DEFINE ds == MessageDigit(signed, i)
           do == MessageDigit(other, i)
<1>1. i \in 0..LEN1 - 1 /\ LEN1 \in Nat /\ i' = i + 1
  BY DEF AddDigit, SumInv, LEN1
<1>2. ds \in 0..15 /\ do \in 0..15
  BY <1>1, DigitRange DEF SumInv
<1>3. /\ csum_signed' = csum_signed + (15 - ds)
      /\ csum_other' = csum_other + (15 - do)
      /\ signed' = signed /\ other' = other
  BY DEF AddDigit, Summand
<1>4. csum_signed \in 0..15 * i /\ csum_other \in 0..15 * i
  BY DEF SumInv
<1>5. csum_signed' \in 0..(W - 1) * i' /\ csum_other' \in 0..(W - 1) * i'
  BY <1>1, <1>2, <1>3, <1>4
<1>6. Dominates' => Dominates /\ do >= ds
  BY <1>1, <1>3 DEF Dominates, MessageDigit
<1>7. Differs' => Differs \/ do # ds
  BY <1>1, <1>3 DEF Differs, MessageDigit
<1>8. Dominates' => csum_other' <= csum_signed'
  BY <1>2, <1>3, <1>4, <1>6, <1>1 DEF SumInv
<1>9. Dominates' /\ Differs' => csum_other' < csum_signed'
  BY <1>2, <1>3, <1>4, <1>6, <1>7, <1>1 DEF SumInv
<1> QED
  BY <1>1, <1>3, <1>5, <1>8, <1>9 DEF SumInv

(* sign stops each chain at its digit, and Advance only goes on.           *)
LEMMA DigitsNat ==
  ASSUME W = 16, N \in Nat, NEW d \in Digest, NEW c \in Nat,
         NEW k \in Chains
  PROVE  digits(d, c)[k] \in 0..15
<1>1. CASE k < LEN1
  BY <1>1, DigitRange DEF digits, Chains, LEN1
<1>2. CASE ~(k < LEN1)
  BY <1>2 DEF digits, Chains, ChecksumDigit
<1> QED
  BY <1>1, <1>2

LEMMA NextKeeps ==
  ASSUME W = 16, N \in Nat, WInv, [Next]_vars
  PROVE  WInv'
<1>0. csum_signed \in Nat /\ csum_other \in Nat /\ signed \in Digest
  BY DEF WInv, SumInv, LEN1
<1>1. CASE AddDigit
  <2>1. SigmaInv'
    <3>1. sigma = {}
      BY <1>1, <1>0 DEF WInv, SumInv, SigmaInv, AddDigit, LEN1
    <3> QED
      BY <1>1, <3>1 DEF AddDigit, SigmaInv
  <2> QED
    BY <1>1, <2>1, AddDigitKeeps DEF WInv
<1>2. CASE Sign
  <2>1. SumInv'
    BY <1>2 DEF WInv, SumInv, Sign, Dominates, Differs, MessageDigit
  <2>2. SigmaInv'
    <3> SUFFICES ASSUME NEW s \in sigma'
                 PROVE  /\ s \in [Chains -> Chains \X Nat]
                        /\ \A k \in Chains :
                             s[k][1] = k /\ s[k][2] >= digits(signed, csum_signed)[k]
      BY <1>2 DEF Sign, SigmaInv, digits, MessageDigit, ChecksumDigit
    <3>1. s = sign(signed, csum_signed)
      BY <1>2 DEF Sign
    <3>2. \A k \in Chains : s[k] = <<k, digits(signed, csum_signed)[k]>>
      BY <3>1, <1>0, DigitsNat DEF sign, chain, chain_secret
    <3>3. \A k \in Chains : digits(signed, csum_signed)[k] \in Nat
      BY <1>0, DigitsNat
    <3> QED
      BY <3>1, <3>2, <3>3 DEF sign
  <2> QED
    BY <2>1, <2>2 DEF WInv
<1>3. ASSUME NEW c \in Chains, Advance(c) PROVE WInv'
  <2>1. SumInv'
    BY <1>3 DEF WInv, SumInv, Advance, Dominates, Differs, MessageDigit
  <2>2. PICK s \in sigma : sigma' = {[s EXCEPT ![c] = chain(s[c], 1)]}
    BY <1>3 DEF Advance
  <2>3. /\ i = LEN1 /\ s \in [Chains -> Chains \X Nat]
        /\ \A k \in Chains : /\ s[k][1] = k
                             /\ s[k][2] >= digits(signed, csum_signed)[k]
    BY DEF WInv, SigmaInv
  <2> DEFINE t == [s EXCEPT ![c] = chain(s[c], 1)]
  <2>4. t \in [Chains -> Chains \X Nat]
    BY <2>3 DEF chain
  <2>5. ASSUME NEW k \in Chains
        PROVE  t[k][1] = k /\ t[k][2] >= digits(signed, csum_signed)[k]
    <3>1. digits(signed, csum_signed)[k] \in Nat
      BY <1>0, DigitsNat
    <3>2. CASE k = c
      BY <2>3, <3>1, <3>2 DEF chain
    <3>3. CASE k # c
      BY <2>3, <3>3
    <3> QED
      BY <3>2, <3>3
  <2>6. i' = i /\ signed' = signed /\ csum_signed' = csum_signed
    BY <1>3 DEF Advance
  <2>7. SigmaInv'
    BY <2>2, <2>3, <2>4, <2>5, <2>6
    DEF SigmaInv, digits, MessageDigit, ChecksumDigit
  <2> QED
    BY <2>1, <2>7 DEF WInv
<1>4. CASE UNCHANGED vars
  BY <1>4 DEF WInv, SumInv, SigmaInv, vars, Dominates, Differs, digits,
              MessageDigit, ChecksumDigit
<1> QED
  BY <1>1, <1>2, <1>3, <1>4 DEF Next

LEMMA InitHolds ==
  ASSUME W = 16, N \in Nat, Init
  PROVE  WInv
  BY DEF Init, WInv, SumInv, SigmaInv, LEN1, Dominates, Differs

(* As far as the loop has come, both checksums are sums of the digits seen *)
(* and the digest with the larger digits has the smaller one; and no chain *)
(* of the signature is ever short of its digit.                            *)
THEOREM ChecksumsOrdered ==
  ASSUME W = 16
  PROVE  Spec => []WInv
<1>0. N \in Nat
  BY WotsAssumption
<1>1. Init => WInv
  BY <1>0, InitHolds
<1>2. WInv /\ [Next]_vars => WInv'
  BY <1>0, NextKeeps
<1> QED
  BY <1>1, <1>2, PTL DEF Spec

(* Where another digest verifies, all its digits are at least the signed   *)
(* ones, so by the checksum none is larger.                                *)
LEMMA InvImplies ==
  ASSUME W = 16, N \in Nat, WInv
  PROVE  OnlySignedDigestVerifies
<1> SUFFICES ASSUME NEW s \in sigma, verify(other, csum_other, s)
             PROVE  other = signed
  BY DEF OnlySignedDigestVerifies
<1>1. /\ i = LEN1 /\ s \in [Chains -> Chains \X Nat]
      /\ \A k \in Chains : /\ s[k][1] = k
                           /\ s[k][2] >= digits(signed, csum_signed)[k]
  BY DEF WInv, SigmaInv
<1>2. /\ signed \in Digest /\ other \in Digest
      /\ csum_signed \in Sums /\ csum_other \in Sums
  BY <1>1, WotsAssumption DEF WInv, SumInv, LEN1, Sums
<1>0. csum_signed \in Nat /\ csum_other \in Nat
  BY <1>2 DEF Sums
<1>3. ASSUME NEW k \in Chains
      PROVE  digits(other, csum_other)[k] >= digits(signed, csum_signed)[k]
  <2>1. digits(other, csum_other)[k] \in 0..15
    BY <1>0, <1>2, DigitsNat
  <2>2. keygen_pk[k] = <<k, 15>>
    BY DEF keygen_pk, chain, chain_secret
  <2>3. keygen_pk[k] = chain(s[k], 15 - digits(other, csum_other)[k])
    BY DEF verify
  <2>4. s[k][2] + (15 - digits(other, csum_other)[k]) = 15
    BY <2>2, <2>3 DEF chain
  <2>5. s[k][2] \in Nat
    BY <1>1
  <2>6. digits(signed, csum_signed)[k] \in 0..15
    BY <1>0, <1>2, DigitsNat
  <2> QED
    BY <1>1, <2>1, <2>4, <2>5, <2>6
<1>4. Dominates
  <2> SUFFICES ASSUME NEW k \in 0..i - 1
               PROVE  MessageDigit(other, k) >= MessageDigit(signed, k)
    BY DEF Dominates
  <2>1. k \in Chains /\ k < LEN1
    BY <1>1 DEF Chains, LEN, LEN1, LEN2
  <2> QED
    BY <1>3, <2>1 DEF digits
<1>5. ~(csum_other < csum_signed)
  <2> SUFFICES ASSUME csum_other < csum_signed PROVE FALSE
    OBVIOUS
  <2>0. SmallerDigit(csum_other, csum_signed)
    BY <1>2, ChecksumDigits, Zenon
  <2>1. PICK k \in LEN1..LEN - 1 :
          ChecksumDigit(csum_other, k) < ChecksumDigit(csum_signed, k)
    BY <2>0 DEF SmallerDigit
  <2>2. k \in Chains /\ ~(k < LEN1)
    BY DEF Chains, LEN, LEN1, LEN2
  <2>3. digits(other, csum_other)[k] < digits(signed, csum_signed)[k]
    BY <2>1, <2>2 DEF digits
  <2>4. digits(other, csum_other)[k] \in Int /\ digits(signed, csum_signed)[k] \in Int
    BY <1>0, <1>2, <2>2, DigitsNat
  <2> QED
    BY <1>3, <2>2, <2>3, <2>4
<1>6. ~Differs
  BY <1>4, <1>5 DEF WInv, SumInv
<1> QED
  BY <1>1, <1>2, <1>6, DigitsDetermine DEF Differs

(* sig.rs: with the three checksum digits of the code no other digest than *)
(* the signed one verifies, for any two digests and whichever chains are   *)
(* continued.                                                              *)
THEOREM NoOtherDigestVerifies ==
  ASSUME W = 16
  PROVE  Spec => []OnlySignedDigestVerifies
<1>1. WInv => OnlySignedDigestVerifies
  BY WotsAssumption, InvImplies
<1> QED
  BY <1>1, ChecksumsOrdered, PTL

(* A chain that stops at its digit is the one sign returns, and only from  *)
(* there does verify reach the top.                                        *)
LEMMA TouchedSignatures ==
  ASSUME W = 16, N \in Nat, WInv
  PROVE  SignatureVerifies
<1> SUFFICES ASSUME NEW s \in sigma
             PROVE  verify(signed, csum_signed, s) <=> s = sign(signed, csum_signed)
  BY DEF SignatureVerifies
<1> DEFINE dg == digits(signed, csum_signed)
<1>1. s \in [Chains -> Chains \X Nat] /\ \A k \in Chains : s[k][1] = k
  BY DEF WInv, SigmaInv
<1>2. \A k \in Chains : dg[k] \in 0..15
  BY DigitsNat DEF WInv, SumInv, LEN1
<1>3. ASSUME verify(signed, csum_signed, s) PROVE s = sign(signed, csum_signed)
  <2>1. ASSUME NEW k \in Chains PROVE s[k] = <<k, dg[k]>>
    <3>1. keygen_pk[k] = <<k, 15>> /\ keygen_pk[k] = chain(s[k], 15 - dg[k])
      BY <1>3 DEF verify, keygen_pk, chain, chain_secret
    <3>2. s[k] \in Chains \X Nat /\ s[k][1] = k
      BY <1>1
    <3>3. s[k][2] = dg[k]
      BY <1>2, <3>1, <3>2 DEF chain
    <3> QED
      BY <3>2, <3>3
  <2>2. \A k \in Chains : sign(signed, csum_signed)[k] = <<k, dg[k]>>
    BY <1>2 DEF sign, chain, chain_secret
  <2> QED
    BY <1>1, <2>1, <2>2 DEF sign
<1>4. ASSUME s = sign(signed, csum_signed) PROVE verify(signed, csum_signed, s)
  <2>1. ASSUME NEW k \in Chains PROVE keygen_pk[k] = chain(s[k], 15 - dg[k])
    <3>1. s[k] = <<k, dg[k]>>
      BY <1>2, <1>4 DEF sign, chain, chain_secret
    <3> QED
      BY <1>2, <3>1 DEF keygen_pk, chain, chain_secret
  <2> QED
    BY <2>1 DEF verify, keygen_pk
<1> QED
  BY <1>3, <1>4

(* sig.rs: sign and verify agree, and a chain that was continued no longer *)
(* verifies.                                                               *)
THEOREM OnlyTheSignatureVerifies ==
  ASSUME W = 16
  PROVE  Spec => []SignatureVerifies
<1>1. WInv => SignatureVerifies
  BY WotsAssumption, TouchedSignatures
<1> QED
  BY <1>1, ChecksumsOrdered, PTL
=============================================================================
