------------------------------ MODULE LinkProofs ------------------------------
(***************************************************************************)
(* The byte stream between host and device, for any base, any length of    *)
(* prefix, any cap and any way of cutting the stream: what is served is    *)
(* what was sent, and a patient host reads the answers to its own calls.   *)
(*                                                                         *)
(* The lengths in front of the frames come first: four bytes say one       *)
(* number, and every four bytes say one.  That is an induction over the    *)
(* bytes, made from the least counterexample.                              *)
(***************************************************************************)
EXTENDS Link, TLAPS, SequenceTheorems, WellFoundedInduction

-----------------------------------------------------------------------------
(* Numbers and their digits.                                               *)

(* A set of numbers that is not empty has a least one.                     *)
LEMMA LeastNumber ==
  ASSUME NEW T \in SUBSET Nat, T # {}
  PROVE  \E x \in T : \A y \in T : ~(y < x)
<1> DEFINE R == OpToRel(<, Nat)
<1>1. IsWellFoundedOn(R, Nat)
  BY NatLessThanWellFounded
<1>2. \E x \in T : \A y \in T : ~(<<y, x>> \in R)
  <2> HIDE DEF R
  <2> QED BY <1>1, WFMin
<1>3. \A x, y \in Nat : y < x => <<y, x>> \in R
  BY DEF OpToRel
<1> QED BY <1>2, <1>3

(* Division with remainder.                                                *)
LEMMA DivisionOf ==
  ASSUME NEW a \in Nat, NEW b \in Nat \ {0}
  PROVE  /\ a = b * (a \div b) + (a % b)
         /\ a % b \in 0..b - 1 /\ a \div b \in Nat
  OBVIOUS

LEMMA DivisionUnique ==
  ASSUME NEW a \in Nat, NEW b \in Nat \ {0}, NEW q \in Nat, NEW r \in 0..b - 1,
         a = b * q + r
  PROVE  q = a \div b /\ r = a % b
<1>1. ASSUME NEW x \in Nat, NEW y \in Nat, x < y PROVE b * x + b <= b * y
  <2>1. y - x - 1 \in Nat /\ b * (y - x - 1) \in Nat
    BY <1>1
  <2>2. b * y = b * x + b + b * (y - x - 1)
    OBVIOUS
  <2>3. b * x \in Nat /\ b * y \in Nat
    OBVIOUS
  <2> QED BY <2>1, <2>2, <2>3
<1> DEFINE p == a \div b
           s == a % b
<1>2. a = b * p + s /\ p \in Nat /\ s \in 0..b - 1
  BY DivisionOf
<1> HIDE DEF p, s
<1>3. b * q \in Nat /\ b * p \in Nat
  BY <1>2
<1>4. ~(q < p) /\ ~(p < q)
  <2>1. (q < p => b * q + b <= b * p) /\ (p < q => b * p + b <= b * q)
    BY <1>1, <1>2
  <2> QED BY <1>2, <1>3, <2>1
<1>5. q = p
  BY <1>2, <1>4
<1>6. r = s
  BY <1>2, <1>3, <1>5
<1> QED BY <1>5, <1>6 DEF p, s

LEMMA DivisionSmall ==
  ASSUME NEW b \in Nat \ {0}, NEW a \in 0..b - 1
  PROVE  a \div b = 0 /\ a % b = a
<1>1. a = b * (a \div b) + (a % b) /\ a % b \in 0..b - 1 /\ a \div b \in Nat
  <2>1. a \in Nat
    OBVIOUS
  <2> QED BY <2>1, DivisionOf
<1> DEFINE q == a \div b
           r == a % b
<1>2. a = b * q + r /\ r \in 0..b - 1 /\ q \in Nat
  BY <1>1
<1> HIDE DEF q, r
<1>3. q = 0
  <2>1. CASE q >= 1
    <3>1. b * (q - 1) \in Nat /\ b * q = b * (q - 1) + b
      BY <1>2, <2>1
    <3> QED BY <1>2, <3>1
  <2> QED BY <1>2, <2>1
<1>4. b * q = 0
  BY <1>3
<1>5. r = a
  BY <1>2, <1>4
<1> QED BY <1>3, <1>5 DEF q, r

(* Dividing twice.                                                         *)
LEMMA DivisionTwice ==
  ASSUME NEW a \in Nat, NEW b \in Nat \ {0}, NEW c \in Nat \ {0}
  PROVE  (a \div b) \div c = a \div (c * b)
<1> DEFINE q == a \div b
           r == a % b
           p == q \div c
           s == q % c
<1>1. /\ a = b * q + r /\ q \in Nat /\ r \in 0..b - 1
      /\ q = c * p + s /\ p \in Nat /\ s \in 0..c - 1
  BY DivisionOf
<1> HIDE DEF q, r, p, s
<1>2. c * b \in Nat \ {0}
  OBVIOUS
<1>3. b * s + r \in 0..(c * b) - 1
  <2>1. b * (c - 1 - s) \in Nat /\ b * s \in Nat /\ b * c = c * b
    BY <1>1
  <2>2. b * (c - 1 - s) = b * c - b - b * s
    BY <1>1
  <2> QED BY <1>1, <2>1, <2>2
<1>4. a = (c * b) * p + (b * s + r)
  <2>1. b * (c * p + s) = (c * b) * p + b * s
    BY <1>1
  <2> QED BY <1>1, <2>1
<1>5. p = a \div (c * b)
  BY <1>1, <1>2, <1>3, <1>4, DivisionUnique
<1> QED BY <1>5 DEF p, q

(* One more than the longest length.                                       *)
Limit == Base * Weight[PrefixLen]

LEMMA WeightFacts ==
  /\ Base \in Nat \ {0} /\ PrefixLen \in Nat \ {0}
  /\ \A i \in 1..PrefixLen : Weight[i] \in Nat \ {0}
  /\ Weight[1] = 1
  /\ \A i \in 2..PrefixLen : Weight[i] = Base * Weight[i - 1]
  /\ Limit \in Nat \ {0} /\ Lengths = 0..Limit - 1
  BY WeightAssumption DEF Limit, Lengths

(* A number is its digits.                                                 *)
LEMMA LengthsDiffer ==
  ASSUME NEW m \in Lengths, NEW n \in Lengths,
         little_endian(m) = little_endian(n)
  PROVE  m = n
<1> DEFINE T == {k \in 0..PrefixLen - 1 : m \div Weight[PrefixLen - k]
                                            # n \div Weight[PrefixLen - k]}
<1>1. m \in Nat /\ n \in Nat
  BY WeightFacts
<1>2. \A i \in 1..PrefixLen : (m \div Weight[i]) % Base = (n \div Weight[i]) % Base
  BY DEF little_endian
<1>3. T = {}
  <2> SUFFICES ASSUME T # {} PROVE FALSE
    OBVIOUS
  <2>1. T \in SUBSET Nat
    BY WeightFacts
  <2>2. PICK x \in T : \A y \in T : ~(y < x)
    <3> HIDE DEF T
    <3> QED BY <2>1, LeastNumber
  <2> DEFINE w == Weight[PrefixLen - x]
  <2>3. x \in 0..PrefixLen - 1 /\ m \div w # n \div w /\ w \in Nat \ {0}
        /\ (m \div w) % Base = (n \div w) % Base
    BY <1>2, WeightFacts
  <2>4. ASSUME NEW a \in Nat
        PROVE  a \div w = Base * ((a \div w) \div Base) + ((a \div w) % Base)
    BY <2>3, DivisionOf, WeightFacts
  <2>5. (m \div w) \div Base = (n \div w) \div Base
    <3>1. CASE x = 0
      <4>1. ASSUME NEW a \in Lengths PROVE (a \div w) \div Base = 0
        <5>1. (a \div w) \div Base = a \div Limit
          <6>1. a \in Nat /\ Limit = Base * w
            BY <3>1, WeightFacts DEF Limit
          <6> HIDE DEF w
          <6> QED BY <2>3, <6>1, DivisionTwice, WeightFacts
        <5>2. a \div Limit = 0
          BY DivisionSmall, WeightFacts
        <5> QED BY <5>1, <5>2
      <4> QED BY <4>1
    <3>2. CASE x # 0
      <4>1. x - 1 \notin T /\ x - 1 \in 0..PrefixLen - 1
        <5>1. x - 1 < x /\ x - 1 \in 0..PrefixLen - 1
          BY <2>3, <3>2, WeightFacts
        <5> HIDE DEF T
        <5> QED BY <2>2, <5>1
      <4>2. m \div Weight[PrefixLen - (x - 1)] = n \div Weight[PrefixLen - (x - 1)]
        BY <4>1
      <4>3. Weight[PrefixLen - (x - 1)] = Base * w
        <5>1. PrefixLen - (x - 1) \in 2..PrefixLen
              /\ (PrefixLen - (x - 1)) - 1 = PrefixLen - x
          BY <2>3, <3>2, WeightFacts
        <5> QED BY <5>1, WeightFacts
      <4>4. m \div (Base * w) = n \div (Base * w)
        BY <4>2, <4>3
      <4> HIDE DEF w
      <4> QED BY <1>1, <2>3, <4>4, DivisionTwice, WeightFacts
    <3> QED BY <3>1, <3>2
  <2> QED BY <1>1, <2>3, <2>4, <2>5
<1>4. m \div Weight[1] = n \div Weight[1]
  <2>1. PrefixLen - 1 \in 0..PrefixLen - 1 /\ PrefixLen - (PrefixLen - 1) = 1
    BY WeightFacts
  <2> QED BY <1>3, <2>1
<1>5. m \div 1 = m /\ n \div 1 = n
  BY <1>1
<1> QED BY <1>4, <1>5, WeightFacts

(* Any k bytes are the digits of a number.                                 *)
Spelled(k) ==
  \A b \in [1..k -> Byte] : \E n \in 0..Base * Weight[k] - 1 :
    \A i \in 1..k : (n \div Weight[i]) % Base = b[i]

LEMMA AnyBytes == \A k \in 1..PrefixLen : Spelled(k)
<1> DEFINE T == {k \in 1..PrefixLen : ~Spelled(k)}
<1> SUFFICES ASSUME T # {} PROVE FALSE
  OBVIOUS
<1>1. T \in SUBSET Nat
  BY WeightFacts
<1>2. PICK k \in T : \A j \in T : ~(j < k)
  <2> HIDE DEF T
  <2> QED BY <1>1, LeastNumber
<1>3. k \in 1..PrefixLen /\ ~Spelled(k)
  OBVIOUS
<1>4. PICK b \in [1..k -> Byte] :
        ~(\E n \in 0..Base * Weight[k] - 1 :
            \A i \in 1..k : (n \div Weight[i]) % Base = b[i])
  BY <1>3 DEF Spelled
<1>5. b[1] \in Nat /\ b[1] < Base /\ b[1] \in 0..Base - 1
  BY <1>3, WeightFacts DEF Byte
<1>6. CASE k = 1
  <2>1. b[1] \in 0..Base * Weight[k] - 1
    BY <1>5, <1>6, WeightFacts
  <2>2. (b[1] \div Weight[1]) % Base = b[1]
    <3>1. b[1] \div 1 = b[1]
      BY <1>5
    <3>2. b[1] % Base = b[1]
      BY <1>5, DivisionSmall, WeightFacts
    <3> QED BY <3>1, <3>2, WeightFacts
  <2> QED BY <1>4, <1>6, <2>1, <2>2
<1>7. CASE k # 1
  <2> DEFINE c == [i \in 1..k - 1 |-> b[i + 1]]
             v == Weight[k - 1]
  <2>1. k - 1 \in 1..PrefixLen /\ k - 1 < k /\ k \in 2..PrefixLen
    BY <1>3, <1>7, WeightFacts
  <2>2. Spelled(k - 1)
    BY <1>2, <2>1
  <2>3. c \in [1..k - 1 -> Byte]
    BY <2>1
  <2>4. PICK p \in 0..Base * v - 1 :
          \A i \in 1..k - 1 : (p \div Weight[i]) % Base = c[i]
    BY <2>2, <2>3 DEF Spelled
  <2> DEFINE n == Base * p + b[1]
  <2>5. v \in Nat \ {0} /\ Weight[k] = Base * v
    BY <2>1, WeightFacts
  <2> HIDE DEF v
  <2>6. p \in Nat /\ n \in Nat
    <3>1. Base * v \in Nat /\ p \in Nat
      BY <2>5, WeightFacts
    <3>2. Base * p \in Nat
      BY <3>1, WeightFacts
    <3> QED BY <1>5, <3>1, <3>2
  <2>7. n \in 0..Base * Weight[k] - 1
    <3>1. Base * v \in Nat /\ Base * (Base * v - 1 - p) \in Nat
      BY <2>4, <2>5, WeightFacts
    <3>2. Base * (Base * v - 1 - p) = Base * (Base * v) - Base - Base * p
      BY <2>4, <2>5, WeightFacts
    <3>3. Base * p \in Nat /\ Base * (Base * v) \in Nat
      BY <2>5, <2>6, WeightFacts
    <3>4. n <= Base * (Base * v) - 1
      <4> DEFINE x == Base * p
                 y == Base * (Base * v)
      <4>1. x \in Nat /\ y \in Nat /\ y - Base - x \in Nat
        BY <3>1, <3>2, <3>3
      <4> HIDE DEF x, y
      <4>2. x + b[1] <= y - 1
        BY <1>5, <4>1, WeightFacts
      <4> QED BY <4>2 DEF x, y
    <3> HIDE DEF n
    <3>5. Base * Weight[k] = Base * (Base * v)
      BY <2>5
    <3> QED BY <2>6, <3>3, <3>4, <3>5
  <2>8. p = n \div Base /\ b[1] = n % Base
    BY <1>5, <2>6, DivisionUnique, WeightFacts
  <2>9. ASSUME NEW i \in 1..k PROVE (n \div Weight[i]) % Base = b[i]
    <3> HIDE DEF n
    <3>1. CASE i = 1
      <4>1. n \div 1 = n
        BY <2>6
      <4> QED BY <2>8, <3>1, <4>1, WeightFacts
    <3>2. CASE i # 1
      <4> DEFINE w == Weight[i - 1]
      <4>1. i - 1 \in 1..k - 1 /\ i \in 2..PrefixLen /\ i - 1 \in 1..PrefixLen
        BY <1>3, <3>2, WeightFacts
      <4>2. Weight[i] = w * Base /\ w \in Nat \ {0}
        <5>1. Weight[i] = Base * w /\ w \in Nat \ {0}
          BY <4>1, WeightFacts
        <5> HIDE DEF w
        <5> QED BY <5>1, WeightFacts
      <4>3. n \div (w * Base) = p \div w
        <5> HIDE DEF w
        <5> QED BY <2>6, <2>8, <4>2, DivisionTwice, WeightFacts
      <4>4. c[i - 1] = b[i]
        BY <4>1
      <4> QED BY <2>4, <4>1, <4>2, <4>3, <4>4
    <3> QED BY <3>1, <3>2
  <2> QED BY <1>4, <2>7, <2>9
<1> QED BY <1>6, <1>7

-----------------------------------------------------------------------------
(* Lengths and frames.                                                     *)

LEMMA LittleEndian ==
  ASSUME NEW n \in Lengths
  PROVE  /\ little_endian(n) \in [1..PrefixLen -> Byte]
         /\ little_endian(n) \in Seq(Byte) /\ Len(little_endian(n)) = PrefixLen
<1>1. ASSUME NEW i \in 1..PrefixLen PROVE (n \div Weight[i]) % Base \in Byte
  <2>1. n \in Nat /\ Weight[i] \in Nat \ {0}
    BY WeightFacts
  <2>2. n \div Weight[i] \in Nat
    BY <2>1, DivisionOf
  <2> QED BY <2>2, DivisionOf, WeightFacts DEF Byte
<1>2. little_endian(n) \in [1..PrefixLen -> Byte]
  BY <1>1 DEF little_endian
<1>3. little_endian(n) \in Seq(Byte)
  BY <1>2, WeightFacts
<1> QED BY <1>2, <1>3, LenProperties, WeightFacts

(* The rest of a sequence.                                                 *)
LEMMA DropProperties ==
  ASSUME NEW S, NEW s \in Seq(S), NEW n \in 0..Len(s)
  PROVE  /\ Drop(s, n) \in Seq(S) /\ Len(Drop(s, n)) = Len(s) - n
         /\ \A i \in 1..Len(s) - n : Drop(s, n)[i] = s[n + i]
         /\ SubSeq(s, 1, n) \in Seq(S) /\ Len(SubSeq(s, 1, n)) = n
         /\ \A i \in 1..n : SubSeq(s, 1, n)[i] = s[i]
         /\ SubSeq(s, 1, n) \o Drop(s, n) = s
<1>1. Len(s) \in Nat /\ \A i \in 1..Len(s) : s[i] \in S
  BY LenProperties, ElementOfSeq
<1>2. /\ SubSeq(s, n + 1, Len(s)) \in Seq(S)
      /\ Len(SubSeq(s, n + 1, Len(s))) = Len(s) - n
      /\ \A i \in 1..Len(s) - n : SubSeq(s, n + 1, Len(s))[i] = s[n + i]
  <2>1. /\ n + 1 \in Int /\ Len(s) \in Int /\ \A i \in n + 1..Len(s) : s[i] \in S
        /\ Len(s) - (n + 1) + 1 = Len(s) - n
    BY <1>1
  <2>2. /\ SubSeq(s, n + 1, Len(s)) \in Seq(S)
        /\ Len(SubSeq(s, n + 1, Len(s)))
             = IF n + 1 <= Len(s) THEN Len(s) - (n + 1) + 1 ELSE 0
        /\ \A i \in 1..Len(s) - (n + 1) + 1 :
             SubSeq(s, n + 1, Len(s))[i] = s[(n + 1) + i - 1]
    BY <2>1, SubSeqProperties
  <2>3. \A i \in 1..Len(s) - n : (n + 1) + i - 1 = n + i
    BY <1>1
  <2>4. n + 1 <= Len(s) \/ Len(s) - n = 0
    BY <1>1
  <2> HIDE DEF Drop
  <2> QED BY <2>1, <2>2, <2>3, <2>4
<1>3. /\ SubSeq(s, 1, n) \in Seq(S) /\ Len(SubSeq(s, 1, n)) = n
      /\ \A i \in 1..n : SubSeq(s, 1, n)[i] = s[i]
  <2>1. \A i \in 1..n : s[i] \in S /\ 1 + i - 1 = i
    BY <1>1
  <2>2. /\ SubSeq(s, 1, n) \in Seq(S)
        /\ Len(SubSeq(s, 1, n)) = IF 1 <= n THEN n - 1 + 1 ELSE 0
        /\ \A i \in 1..n - 1 + 1 : SubSeq(s, 1, n)[i] = s[1 + i - 1]
    BY <1>1, <2>1, SubSeqProperties
  <2> QED BY <1>1, <2>1, <2>2
<1>4. SubSeq(s, 1, n) \o SubSeq(s, n + 1, Len(s)) = s
  <2>1. 1 \in 1..Len(s) + 1 /\ n \in 1 - 1..Len(s) /\ Len(s) \in n..Len(s)
    BY <1>1
  <2> QED BY <2>1, ConcatAdjacentSubSeq, SubSeqFull
<1> QED BY <1>2, <1>3, <1>4 DEF Drop

(* The first bytes of a long enough stream say a length.                   *)
LEMMA ReadsALength ==
  ASSUME NEW bytes \in Seq(Byte), PrefixLen <= Len(bytes)
  PROVE  /\ from_le_bytes(bytes) \in Lengths
         /\ little_endian(from_le_bytes(bytes)) = SubSeq(bytes, 1, PrefixLen)
<1> DEFINE b == SubSeq(bytes, 1, PrefixLen)
<1>1. PrefixLen \in 0..Len(bytes) /\ PrefixLen \in 1..PrefixLen
  BY LenProperties, WeightFacts
<1>2. b \in Seq(Byte) /\ Len(b) = PrefixLen
  BY <1>1, DropProperties
<1>3. b \in [1..PrefixLen -> Byte]
  BY <1>2, LenProperties
<1>4. \E n \in Lengths : little_endian(n) = b
  <2>1. PICK n \in 0..Base * Weight[PrefixLen] - 1 :
          \A i \in 1..PrefixLen : (n \div Weight[i]) % Base = b[i]
    <3> HIDE DEF b
    <3> QED BY <1>1, <1>3, AnyBytes DEF Spelled
  <2>2. n \in Lengths
    BY DEF Lengths
  <2>3. little_endian(n) = b
    <3> HIDE DEF b
    <3> QED BY <1>3, <2>1 DEF little_endian
  <2> QED BY <2>2, <2>3
<1> HIDE DEF b
<1>5. from_le_bytes(bytes) = CHOOSE n \in Lengths : little_endian(n) = b
  BY DEF from_le_bytes, b
<1>6. from_le_bytes(bytes) \in Lengths /\ little_endian(from_le_bytes(bytes)) = b
  BY <1>4, <1>5
<1> QED BY <1>6 DEF b

(* ... and the one that was put there.                                     *)
LEMMA ReadsTheLength ==
  ASSUME NEW bytes \in Seq(Byte), PrefixLen <= Len(bytes), NEW n \in Lengths,
         SubSeq(bytes, 1, PrefixLen) = little_endian(n)
  PROVE  from_le_bytes(bytes) = n
  BY ReadsALength, LengthsDiffer

(* A frame is its length and its body.                                     *)
LEMMA FrameProperties ==
  ASSUME NEW body \in Seq(Byte), Len(body) \in Lengths
  PROVE  /\ Frame(body) \in Seq(Byte)
         /\ Len(Frame(body)) = PrefixLen + Len(body)
         /\ SubSeq(Frame(body), 1, PrefixLen) = little_endian(Len(body))
         /\ Drop(Frame(body), PrefixLen) = body
         /\ from_le_bytes(Frame(body)) = Len(body)
<1> DEFINE p == little_endian(Len(body))
           f == p \o body
<1>1. p \in Seq(Byte) /\ Len(p) = PrefixLen
  BY LittleEndian
<1>2. PrefixLen \in Nat /\ Len(body) \in Nat
  BY WeightFacts, LenProperties
<1> HIDE DEF p
<1>3. f \in Seq(Byte) /\ Len(f) = PrefixLen + Len(body)
  BY <1>1, ConcatProperties
<1>4. PrefixLen \in 0..Len(f)
  BY <1>2, <1>3
<1>5. SubSeq(f, 1, PrefixLen) = p
  <2>1. /\ SubSeq(f, 1, PrefixLen) \in Seq(Byte)
        /\ Len(SubSeq(f, 1, PrefixLen)) = PrefixLen
        /\ \A i \in 1..PrefixLen : SubSeq(f, 1, PrefixLen)[i] = f[i]
    BY <1>3, <1>4, DropProperties
  <2>2. \A i \in 1..PrefixLen : f[i] = p[i]
    BY <1>1, <1>2, ConcatProperties
  <2> HIDE DEF f
  <2> QED BY <1>1, <2>1, <2>2, SeqEqual
<1>6. Drop(f, PrefixLen) = body
  <2>1. /\ Drop(f, PrefixLen) \in Seq(Byte) /\ SubSeq(f, 1, PrefixLen) \in Seq(Byte)
        /\ SubSeq(f, 1, PrefixLen) \o Drop(f, PrefixLen) = f
    BY <1>3, <1>4, DropProperties
  <2>2. p \o Drop(f, PrefixLen) = p \o body
    BY <1>5, <2>1
  <2> HIDE DEF f
  <2> QED BY <1>1, <2>1, <2>2, ConcatSimplifications
<1>7. from_le_bytes(f) = Len(body)
  <2>1. PrefixLen <= Len(f)
    BY <1>4
  <2> HIDE DEF f
  <2> QED BY <1>3, <1>5, <2>1, ReadsTheLength DEF p
<1> QED BY <1>3, <1>5, <1>6, <1>7 DEF Frame, p
-----------------------------------------------------------------------------
(* What each step needs to know.                                           *)

LEMMA BodyFrame ==
  ASSUME NEW body \in Bodies
  PROVE  /\ body \in Seq(Byte) /\ Len(body) \in Lengths /\ Len(body) \in Nat
         /\ Frame(body) \in Seq(Byte)
         /\ Len(Frame(body)) = PrefixLen + Len(body)
  BY LinkAssumption, FrameProperties, LenProperties

(* What a reader waits for is a number, and it has the prefix at the end.  *)
LEMMA AwaitedNumber ==
  ASSUME NEW bytes \in Seq(Byte)
  PROVE  /\ Awaited(bytes) \in Int /\ Len(bytes) \in Nat
         /\ Awaited(bytes) = 0 => PrefixLen <= Len(bytes)
<1>1. Len(bytes) \in Nat
  BY LenProperties
<1>2. CASE Len(bytes) < PrefixLen
  BY <1>1, <1>2, WeightFacts DEF Awaited
<1>3. CASE ~(Len(bytes) < PrefixLen)
  <2>1. PrefixLen <= Len(bytes)
    BY <1>1, <1>3, WeightFacts
  <2>2. from_le_bytes(bytes) \in Int
    BY <2>1, ReadsALength, WeightFacts
  <2> QED BY <1>1, <1>3, <2>1, <2>2, WeightFacts DEF Awaited
<1> QED BY <1>2, <1>3

LEMMA HostReadsWithin ==
  ASSUME LinkInv, NEW n \in 1..AtMost(Awaited(inbuf), Len(back))
  PROVE  /\ n \in 1..Len(back) /\ n <= Awaited(inbuf)
         /\ Drop(back, n) \in Seq(Byte) /\ Len(Drop(back, n)) = Len(back) - n
         /\ SubSeq(back, 1, n) \in Seq(Byte) /\ Len(SubSeq(back, 1, n)) = n
         /\ SubSeq(back, 1, n) \o Drop(back, n) = back
         /\ inbuf \o SubSeq(back, 1, n) \in Seq(Byte)
<1>1. inbuf \in Seq(Byte) /\ back \in Seq(Byte) /\ Len(back) \in Nat
  BY LenProperties DEF LinkInv, LinkTypeOK
<1>2. Awaited(inbuf) \in Int
  BY <1>1, AwaitedNumber
<1>3. n \in 1..Len(back) /\ n <= Awaited(inbuf)
  <2> DEFINE x == Awaited(inbuf)
             y == Len(back)
  <2>1. x \in Int /\ y \in Nat /\ n \in 1..(IF x < y THEN x ELSE y)
    BY <1>1, <1>2 DEF AtMost
  <2> HIDE DEF x, y
  <2>2. n \in 1..y /\ n <= x
    BY <2>1
  <2> QED BY <2>2 DEF x, y
<1>4. n \in 0..Len(back)
  BY <1>1, <1>3
<1> QED BY <1>1, <1>3, <1>4, DropProperties, ConcatProperties

LEMMA DeviceReadsWithin ==
  ASSUME LinkInv, NEW n \in 1..AtMost(Chunk, Len(wire))
  PROVE  /\ n \in 1..Len(wire)
         /\ Drop(wire, n) \in Seq(Byte) /\ Len(Drop(wire, n)) = Len(wire) - n
         /\ SubSeq(wire, 1, n) \in Seq(Byte) /\ Len(SubSeq(wire, 1, n)) = n
         /\ SubSeq(wire, 1, n) \o Drop(wire, n) = wire
         /\ rx \o SubSeq(wire, 1, n) \in Seq(Byte)
         /\ Len(rx \o SubSeq(wire, 1, n)) = Len(rx) + n
<1>1. wire \in Seq(Byte) /\ Len(wire) \in Nat /\ rx \in Seq(Byte)
  BY LenProperties DEF LinkInv, LinkTypeOK
<1>2. n \in 1..Len(wire)
  BY <1>1, LinkAssumption DEF AtMost
<1>3. n \in 0..Len(wire)
  BY <1>1, <1>2
<1>4. /\ Drop(wire, n) \in Seq(Byte) /\ Len(Drop(wire, n)) = Len(wire) - n
      /\ SubSeq(wire, 1, n) \in Seq(Byte) /\ Len(SubSeq(wire, 1, n)) = n
      /\ SubSeq(wire, 1, n) \o Drop(wire, n) = wire
  BY <1>1, <1>3, DropProperties
<1> QED BY <1>1, <1>2, <1>4, ConcatProperties

LEMMA WritesWithin ==
  ASSUME LinkInv, out # <<>>,
         NEW n \in 0..AtMost(Len(Head(out)), Room - Len(back))
  PROVE  /\ Head(out) \in Seq(Byte) /\ Tail(out) \in Seq(Seq(Byte))
         /\ Len(Tail(out)) = Len(out) - 1
         /\ n \in 0..Len(Head(out)) /\ Len(back) + n <= Room
         /\ Drop(Head(out), n) \in Seq(Byte)
         /\ SubSeq(Head(out), 1, n) \in Seq(Byte)
         /\ SubSeq(Head(out), 1, n) \o Drop(Head(out), n) = Head(out)
         /\ back \o SubSeq(Head(out), 1, n) \in Seq(Byte)
         /\ Len(back \o SubSeq(Head(out), 1, n)) = Len(back) + n
<1>1. /\ out \in Seq(Seq(Byte)) /\ back \in Seq(Byte) /\ Len(back) \in Nat
      /\ Len(back) <= Room
  BY LenProperties DEF LinkInv, LinkTypeOK
<1>2. /\ Head(out) \in Seq(Byte) /\ Tail(out) \in Seq(Seq(Byte))
      /\ Len(Tail(out)) = Len(out) - 1
  BY <1>1, HeadTailProperties
<1>3. Len(Head(out)) \in Nat
  BY <1>2, LenProperties
<1>4. n \in 0..Len(Head(out)) /\ Len(back) + n <= Room
  BY <1>1, <1>3, LinkAssumption DEF AtMost
<1>5. /\ Drop(Head(out), n) \in Seq(Byte)
      /\ SubSeq(Head(out), 1, n) \in Seq(Byte)
      /\ Len(SubSeq(Head(out), 1, n)) = n
      /\ SubSeq(Head(out), 1, n) \o Drop(Head(out), n) = Head(out)
  <2> DEFINE h == Head(out)
  <2>1. h \in Seq(Byte) /\ n \in 0..Len(h)
    BY <1>2, <1>4
  <2> HIDE DEF h
  <2>2. /\ Drop(h, n) \in Seq(Byte)
        /\ SubSeq(h, 1, n) \in Seq(Byte) /\ Len(SubSeq(h, 1, n)) = n
        /\ SubSeq(h, 1, n) \o Drop(h, n) = h
    BY <2>1, DropProperties
  <2> QED BY <2>2 DEF h
<1> DEFINE p == SubSeq(Head(out), 1, n)
<1>6. p \in Seq(Byte) /\ Len(p) = n
  BY <1>5
<1> HIDE DEF p
<1>7. back \o p \in Seq(Byte) /\ Len(back \o p) = Len(back) + n
  BY <1>1, <1>6, ConcatProperties
<1> QED BY <1>2, <1>4, <1>5, <1>7, Zenon DEF p

(* The frame that is served, and its answer.                               *)
LEMMA ServedFrame ==
  ASSUME LinkInv, ServeFrame
  PROVE  LET frame == SubSeq(rx, PrefixLen + 1, PrefixLen + Announced)
         IN  /\ Announced \in 0..MaxRxFrame
             /\ frame \in Seq(Byte) /\ Len(frame) = Announced
             /\ \A i \in 1..Announced : frame[i] = rx[PrefixLen + i]
             /\ Response(frame) \in Seq(Byte)
             /\ Len(Response(frame)) \in Lengths
             /\ little_endian(Len(Response(frame))) \in Seq(Byte)
<1> DEFINE a == Announced
           frame == SubSeq(rx, PrefixLen + 1, PrefixLen + a)
<1>1. /\ rx \in Seq(Byte) /\ Len(rx) \in Nat /\ PrefixLen \in Nat
      /\ MaxRxFrame \in Nat
  BY LenProperties, WeightFacts, LinkAssumption DEF LinkInv, LinkTypeOK
<1>2. PrefixLen <= Len(rx)
  BY <1>1 DEF ServeFrame
<1>3. a \in 0..MaxRxFrame /\ PrefixLen + a <= Len(rx)
  BY <1>1, <1>2, ReadsALength, WeightFacts DEF ServeFrame, Announced
<1> HIDE DEF a
<1>4. /\ frame \in Seq(Byte) /\ Len(frame) = a
      /\ \A i \in 1..a : frame[i] = rx[PrefixLen + i]
  <2>1. /\ PrefixLen + 1 \in Int /\ PrefixLen + a \in Int
        /\ \A i \in PrefixLen + 1..PrefixLen + a : rx[i] \in Byte
        /\ (PrefixLen + a) - (PrefixLen + 1) + 1 = a
    BY <1>1, <1>3, ElementOfSeq
  <2>2. /\ frame \in Seq(Byte)
        /\ Len(frame) = IF PrefixLen + 1 <= PrefixLen + a
                          THEN (PrefixLen + a) - (PrefixLen + 1) + 1 ELSE 0
        /\ \A i \in 1..(PrefixLen + a) - (PrefixLen + 1) + 1 :
             frame[i] = rx[(PrefixLen + 1) + i - 1]
    BY <2>1, SubSeqProperties
  <2>3. \A i \in 1..a : (PrefixLen + 1) + i - 1 = PrefixLen + i
    BY <1>1, <1>3
  <2> HIDE DEF frame
  <2> QED BY <1>1, <1>3, <2>1, <2>2, <2>3
<1> HIDE DEF frame
<1>5. frame \in [1..a -> Byte]
  BY <1>4, LenProperties
<1>6. Response(frame) \in Seq(Byte) /\ Len(Response(frame)) \in Lengths
  BY <1>3, <1>5, ResponseAssumption
<1> QED BY <1>3, <1>4, <1>6, LittleEndian DEF frame, a

-----------------------------------------------------------------------------
(* Types.                                                                  *)

LEMMA CallKeepsInv ==
  ASSUME LinkInv, NEW body \in Bodies, NEW n \in 0..Len(Frame(body)),
         Call(body, n)
  PROVE  LinkInv'
<1>1. /\ sent' \in Seq(Bodies) /\ Len(sent') = Len(sent) + 1
      /\ Len(sent) \in Nat /\ Len(returned) \in Nat
  BY AppendProperties, LenProperties DEF Call, LinkInv
<1>2. wire' \in Seq(Byte)
  <2>1. SubSeq(Frame(body), 1, n) \in Seq(Byte)
    BY BodyFrame, DropProperties
  <2> QED BY <2>1, ConcatProperties DEF Call, LinkInv, LinkTypeOK
<1>3. tidy' \in BOOLEAN /\ calling' \in BOOLEAN
  BY DEF Call
<1>4. Len(sent) < MaxCalls /\ MaxCalls \in Nat
  BY LinkAssumption DEF Call
<1>5. UNCHANGED <<pc, rx, out, back, inbuf, served, returned, patient>>
  BY DEF Call, device
<1>6. LinkTypeOK'
  <2>1. LinkTypeOK /\ Len(returned) <= Len(sent)
    BY DEF LinkInv, LinkTypeOK
  <2>2. Len(sent') <= MaxCalls /\ Len(returned) <= Len(sent')
    <3> DEFINE x == Len(sent)
               y == Len(returned)
    <3>1. x \in Nat /\ y \in Nat /\ y <= x /\ x < MaxCalls /\ MaxCalls \in Nat
          /\ Len(sent') = x + 1
      BY <1>1, <1>4, <2>1
    <3> HIDE DEF x, y
    <3>2. x + 1 <= MaxCalls /\ y <= x + 1
      BY <3>1
    <3> QED BY <3>1, <3>2 DEF x, y
  <2> QED BY <1>2, <1>3, <1>5, <2>1, <2>2 DEF LinkTypeOK
<1>7. Len(returned') < Len(sent')
  BY <1>1, <1>5 DEF LinkInv, LinkTypeOK
<1> QED BY <1>1, <1>5, <1>6, <1>7 DEF LinkInv, Announced

LEMMA HostReadsKeepsInv ==
  ASSUME LinkInv, NEW n \in 1..Len(back), HostReads(n)
  PROVE  LinkInv'
<1> DEFINE got == inbuf \o SubSeq(back, 1, n)
<1>1. n \in 1..AtMost(Awaited(inbuf), Len(back))
  BY DEF HostReads
<1>2. /\ back' \in Seq(Byte) /\ Len(back') <= Room /\ got \in Seq(Byte)
  <2>1. /\ n \in 1..Len(back) /\ Len(Drop(back, n)) = Len(back) - n
        /\ Drop(back, n) \in Seq(Byte) /\ got \in Seq(Byte)
    BY <1>1, HostReadsWithin
  <2>2. Len(back) \in Nat /\ Len(back) <= Room /\ Room \in Nat
    BY LenProperties, LinkAssumption DEF LinkInv, LinkTypeOK
  <2> QED BY <2>1, <2>2 DEF HostReads
<1>3. Len(returned) \in Nat /\ Len(sent) \in Nat /\ Len(returned) < Len(sent)
  BY LenProperties DEF LinkInv, HostReads
<1>4. CASE Awaited(got) = 0
  <2>1. /\ returned' = Append(returned, Drop(got, PrefixLen))
        /\ calling' = FALSE /\ inbuf' = <<>>
    BY <1>4 DEF HostReads
  <2>2. Drop(got, PrefixLen) \in Seq(Byte)
    <3>1. PrefixLen \in 0..Len(got)
      <4> HIDE DEF got
      <4>1. PrefixLen <= Len(got) /\ Len(got) \in Nat
        BY <1>2, <1>4, AwaitedNumber
      <4> QED BY <4>1, WeightFacts
    <3> QED BY <1>2, <3>1, DropProperties
  <2>3. returned' \in Seq(Seq(Byte)) /\ Len(returned') = Len(returned) + 1
    BY <2>1, <2>2, AppendProperties DEF LinkInv
  <2>4. UNCHANGED <<pc, rx, out, wire, sent, served, tidy, patient>>
    BY DEF HostReads, device
  <2>5. LinkTypeOK'
    <3>1. inbuf' \in Seq(Byte) /\ Len(returned') <= Len(sent)
      BY <1>3, <2>1, <2>3
    <3> QED BY <1>2, <2>1, <2>4, <3>1 DEF LinkInv, LinkTypeOK
  <2> QED BY <2>1, <2>3, <2>4, <2>5 DEF LinkInv, Announced
<1>5. CASE Awaited(got) # 0
  <2>1. inbuf' = got /\ UNCHANGED <<calling, returned>>
    BY <1>5 DEF HostReads
  <2> HIDE DEF got
  <2> QED BY <1>2, <2>1 DEF HostReads, LinkInv, LinkTypeOK, device, Announced
<1> QED BY <1>4, <1>5

LEMMA DeviceKeepsInv ==
  ASSUME LinkInv, Device
  PROVE  LinkInv'
<1>0. /\ rx \in Seq(Byte) /\ Len(rx) \in Nat /\ PrefixLen \in Nat \ {0}
      /\ MaxRxFrame \in Nat
  BY LenProperties, WeightFacts, LinkAssumption DEF LinkInv, LinkTypeOK
<1>1. ASSUME NEW n \in 1..Chunk, DeviceReads(n) PROVE LinkInv'
  <2>1. n \in 1..AtMost(Chunk, Len(wire))
    BY <1>1 DEF DeviceReads
  <2>2. /\ wire' \in Seq(Byte) /\ rx \o SubSeq(wire, 1, n) \in Seq(Byte)
        /\ Len(rx \o SubSeq(wire, 1, n)) = Len(rx) + n
        /\ Len(SubSeq(wire, 1, n)) = n
    BY <1>1, <2>1, DeviceReadsWithin DEF DeviceReads
  <2>3. rx' \in Seq(Byte) /\ Len(rx') <= MaxRxFrame + PrefixLen
    BY <1>0, <1>1, <2>2, EmptySeq DEF DeviceReads, Received
  <2> QED BY <1>1, <2>2, <2>3 DEF DeviceReads, LinkInv, LinkTypeOK, host,
    record
<1>2. CASE AwaitMore
  BY <1>2 DEF AwaitMore, LinkInv, LinkTypeOK, host, record
<1>3. CASE DropOversized
  <2>1. rx' \in Seq(Byte) /\ Len(rx') = 0
    BY <1>3, EmptySeq DEF DropOversized
  <2> QED BY <1>0, <1>3, <2>1 DEF DropOversized, LinkInv, LinkTypeOK, host,
    record
<1>4. CASE ServeFrame
  <2> DEFINE frame == SubSeq(rx, PrefixLen + 1, PrefixLen + Announced)
             two == <<little_endian(Len(Response(frame))), Response(frame)>>
  <2>1. /\ frame \in Seq(Byte) /\ Response(frame) \in Seq(Byte)
        /\ little_endian(Len(Response(frame))) \in Seq(Byte)
    BY <1>4, ServedFrame
  <2>2. served' = Append(served, frame) /\ out' = two
    BY <1>4 DEF ServeFrame
  <2>3. served' \in Seq(Seq(Byte)) /\ served' # <<>>
    BY <2>1, <2>2, AppendProperties DEF LinkInv
  <2>4. out' \in Seq(Seq(Byte)) /\ Len(out') = 2
    BY <2>1, <2>2
  <2>5. /\ pc' = "write" /\ rx' = rx /\ PrefixLen <= Len(rx)
        /\ Announced <= MaxRxFrame /\ PrefixLen + Announced <= Len(rx)
    <3>1. Announced \in Nat
      BY <1>4, ServedFrame
    <3> QED BY <1>0, <1>4, <3>1 DEF ServeFrame
  <2>6. UNCHANGED <<wire, back, calling, inbuf, sent, returned, tidy, patient>>
    BY <1>4 DEF ServeFrame, host
  <2>7. LinkTypeOK'
    BY <2>4, <2>5, <2>6 DEF LinkInv, LinkTypeOK
  <2> QED BY <2>3, <2>4, <2>5, <2>6, <2>7 DEF LinkInv, Announced
<1>5. ASSUME NEW n \in 0..Room, Writes(n) PROVE LinkInv'
  <2>1. out # <<>> /\ n \in 0..AtMost(Len(Head(out)), Room - Len(back))
    BY <1>5 DEF Writes
  <2>2. /\ Tail(out) \in Seq(Seq(Byte)) /\ Len(Tail(out)) = Len(out) - 1
        /\ Drop(Head(out), n) \in Seq(Byte)
        /\ back' \in Seq(Byte) /\ Len(back') <= Room
    BY <1>5, <2>1, WritesWithin DEF Writes
  <2>3. Len(out) \in Nat /\ Len(out) <= 2
    BY LenProperties DEF LinkInv, LinkTypeOK
  <2>4. out' \in Seq(Seq(Byte)) /\ Len(out') <= 2
    <3>1. CASE out' = Tail(out)
      BY <2>2, <2>3, <3>1
    <3>2. CASE out' = <<Drop(Head(out), n)>> \o Tail(out)
      <4>1. /\ <<Drop(Head(out), n)>> \in Seq(Seq(Byte))
            /\ Len(<<Drop(Head(out), n)>>) = 1
        BY <2>2
      <4> QED BY <2>2, <2>3, <3>2, <4>1, ConcatProperties
    <3> QED BY <1>5, <3>1, <3>2 DEF Writes
  <2> QED BY <1>5, <2>2, <2>4 DEF Writes, LinkInv, LinkTypeOK, host, record,
    Announced
<1>6. CASE Drain
  <2>1. PrefixLen <= Len(rx) /\ PrefixLen + Announced <= Len(rx)
    BY <1>6 DEF Drain, LinkInv
  <2>2. Announced \in Nat
    BY <1>0, <2>1, ReadsALength, WeightFacts DEF Announced
  <2>3. PrefixLen + Announced \in 0..Len(rx)
    BY <1>0, <2>1, <2>2
  <2>4. rx' \in Seq(Byte) /\ Len(rx') = Len(rx) - (PrefixLen + Announced)
    BY <1>0, <1>6, <2>3, DropProperties DEF Drain
  <2>5. Len(rx') <= MaxRxFrame + PrefixLen
    BY <1>0, <2>2, <2>4 DEF LinkInv, LinkTypeOK
  <2> QED BY <1>6, <2>4, <2>5 DEF Drain, LinkInv, LinkTypeOK, host, record
<1> QED BY <1>1, <1>2, <1>3, <1>4, <1>5, <1>6 DEF Device

LEMMA LinkInvKept ==
  ASSUME LinkInv, [LinkNext]_linkVars
  PROVE  LinkInv'
<1>1. CASE Calls
  BY <1>1, CallKeepsInv DEF Calls
<1>2. CASE Reading
  BY <1>2, HostReadsKeepsInv DEF Reading
<1>3. CASE Device
  BY <1>3, DeviceKeepsInv
<1>4. CASE WriteFails
  <2>1. Tail(out) \in Seq(Seq(Byte)) /\ Len(Tail(out)) = Len(out) - 1
    BY <1>4, HeadTailProperties DEF WriteFails, LinkInv
  <2>2. Len(out) \in Nat /\ Len(out) <= 2
    BY LenProperties DEF LinkInv, LinkTypeOK
  <2>3. /\ pc = "write" /\ out' = Tail(out) /\ patient' \in BOOLEAN
        /\ UNCHANGED <<pc, rx, wire, back, calling, inbuf>>
        /\ UNCHANGED <<sent, served, returned, tidy>>
    BY <1>4 DEF WriteFails, host
  <2>4. LinkTypeOK'
    BY <2>1, <2>2, <2>3 DEF LinkInv, LinkTypeOK
  <2> QED BY <2>1, <2>3, <2>4 DEF LinkInv, Announced
<1>5. CASE GivesUp
  BY <1>5, EmptySeq DEF GivesUp, LinkInv, LinkTypeOK, device, Announced
<1>6. CASE Drains
  <2>1. back' \in Seq(Byte) /\ Len(back') = 0 /\ 0 <= Room
    BY <1>6, EmptySeq, LinkAssumption DEF Drains
  <2> QED BY <1>6, <2>1 DEF Drains, LinkInv, LinkTypeOK, device, host, record,
    Announced
<1>7. CASE UNCHANGED linkVars
  BY <1>7 DEF linkVars, device, host, record, LinkInv, LinkTypeOK, Announced
<1> QED BY <1>1, <1>2, <1>3, <1>4, <1>5, <1>6, <1>7 DEF LinkNext

LEMMA LinkInvFirst == LinkInit => LinkInv
<1> SUFFICES ASSUME LinkInit PROVE LinkInv
  OBVIOUS
<1>1. /\ rx = <<>> /\ out = <<>> /\ wire = <<>> /\ back = <<>> /\ inbuf = <<>>
      /\ sent = <<>> /\ served = <<>> /\ returned = <<>>
      /\ pc = "read" /\ calling = FALSE /\ tidy = TRUE /\ patient = TRUE
  BY DEF LinkInit
<1>2. /\ Room \in Nat /\ MaxCalls \in Nat /\ MaxRxFrame \in Nat /\ PrefixLen \in Nat
  BY LinkAssumption, WeightFacts
<1>3. LinkTypeOK
  <2>1. <<>> \in Seq(Byte) /\ Len(<<>>) = 0
    BY EmptySeq
  <2>2. calling \in BOOLEAN /\ tidy \in BOOLEAN /\ patient \in BOOLEAN
    BY <1>1
  <2> QED BY <1>1, <1>2, <2>1, <2>2 DEF LinkTypeOK
<1> QED BY <1>1, <1>3, EmptySeq DEF LinkInv

LEMMA LinkInvHolds == LinkSpec => []LinkInv
<1> QED BY LinkInvFirst, LinkInvKept, PTL DEF LinkSpec

(* In every state the buffers and the bytes under way are what they should *)
(* be: the device's buffer within its cap, the unread output within the    *)
(* room there is, at most two pieces to write, and no answer too many.     *)
THEOREM LinkTypeCorrect == LinkSpec => []LinkTypeOK
<1>1. LinkInv => LinkTypeOK
  BY DEF LinkInv
<1> QED BY LinkInvHolds, <1>1, PTL

-----------------------------------------------------------------------------
(* The serve loop goes back to reading from AwaitMore, which found no frame *)
(* complete, and from DropOversized, which left nothing.                   *)
LEMMA WaitingStep ==
  ASSUME LinkInv, FrameAwaited, [LinkNext]_linkVars
  PROVE  FrameAwaited'
<1>1. CASE DropOversized
  <2>1. Len(rx') = 0 /\ PrefixLen \in Nat \ {0}
    BY <1>1, WeightFacts DEF DropOversized
  <2> QED BY <2>1 DEF FrameAwaited, Incomplete
<1>2. CASE AwaitMore
  BY <1>2 DEF AwaitMore, FrameAwaited, Incomplete, Announced
<1>3. CASE pc' # "read"
  BY <1>3 DEF FrameAwaited
<1>4. CASE UNCHANGED <<pc, rx>>
  BY <1>4 DEF FrameAwaited, Incomplete, Announced
<1>5. CASE Device
  <2>1. ASSUME NEW n \in 1..Chunk, DeviceReads(n) PROVE pc' # "read"
    BY <2>1 DEF DeviceReads
  <2>2. CASE ServeFrame
    BY <1>3, <2>2 DEF ServeFrame
  <2>3. ASSUME NEW n \in 0..Room, Writes(n) PROVE UNCHANGED <<pc, rx>>
    BY <2>3 DEF Writes
  <2>4. CASE Drain
    BY <1>3, <2>4 DEF Drain
  <2> QED BY <1>1, <1>2, <1>3, <1>4, <1>5, <2>1, <2>2, <2>3, <2>4 DEF Device
<1>6. CASE ~Device
  BY <1>4, <1>6 DEF LinkNext, WriteFails, Calls, Call, Reading, HostReads, GivesUp,
    Drains, linkVars, device
<1> QED BY <1>5, <1>6

(* Whatever was torn, dropped or given up before: a device that waits has  *)
(* no complete frame in its buffer and no length over the cap.             *)
THEOREM FrameAwaitedAlways == LinkSpec => []FrameAwaited
<1>1. LinkInit => FrameAwaited
  <2> SUFFICES ASSUME LinkInit PROVE FrameAwaited
    OBVIOUS
  <2>1. Len(rx) = 0 /\ PrefixLen \in Nat \ {0}
    BY WeightFacts DEF LinkInit
  <2> QED BY <2>1 DEF FrameAwaited, Incomplete
<1> QED BY <1>1, LinkInvHolds, WaitingStep, PTL DEF LinkSpec

-----------------------------------------------------------------------------
(* Sequences and their segments.                                           *)

(* The bytes of s after the first a, up to the b-th.                       *)
LEMMA Segment ==
  ASSUME NEW S, NEW s \in Seq(S), NEW b \in 0..Len(s), NEW a \in 0..b
  PROVE  /\ SubSeq(s, a + 1, b) \in Seq(S) /\ Len(SubSeq(s, a + 1, b)) = b - a
         /\ \A i \in 1..b - a : SubSeq(s, a + 1, b)[i] = s[a + i]
<1>1. Len(s) \in Nat /\ \A i \in 1..Len(s) : s[i] \in S
  BY LenProperties, ElementOfSeq
<1>2. /\ a + 1 \in Int /\ b \in Int /\ b - (a + 1) + 1 = b - a
      /\ \A i \in a + 1..b : s[i] \in S
  BY <1>1
<1>3. /\ SubSeq(s, a + 1, b) \in Seq(S)
      /\ Len(SubSeq(s, a + 1, b)) = IF a + 1 <= b THEN b - (a + 1) + 1 ELSE 0
      /\ \A i \in 1..b - (a + 1) + 1 : SubSeq(s, a + 1, b)[i] = s[(a + 1) + i - 1]
  BY <1>2, SubSeqProperties
<1>4. \A i \in 1..b - a : (a + 1) + i - 1 = a + i
  BY <1>1
<1>5. a + 1 <= b \/ b - a = 0
  BY <1>1
<1> QED BY <1>2, <1>3, <1>4, <1>5

(* A segment of the beginning is one of the whole.                         *)
LEMMA SegmentOfBeginning ==
  ASSUME NEW S, NEW s \in Seq(S), NEW t \in Seq(S),
         NEW b \in 0..Len(s), NEW a \in 0..b
  PROVE  SubSeq(s \o t, a + 1, b) = SubSeq(s, a + 1, b)
<1>1. /\ s \o t \in Seq(S) /\ Len(s \o t) = Len(s) + Len(t)
      /\ Len(s) \in Nat /\ Len(t) \in Nat
      /\ \A i \in 1..Len(s) : (s \o t)[i] = s[i]
  BY ConcatProperties, LenProperties
<1>2. b \in 0..Len(s \o t)
  BY <1>1
<1>3. \A i \in 1..b - a : a + i \in 1..Len(s)
  BY <1>1
<1>4. \A i \in 1..b - a : SubSeq(s \o t, a + 1, b)[i] = SubSeq(s, a + 1, b)[i]
  BY <1>1, <1>2, <1>3, Segment
<1> QED BY <1>1, <1>2, <1>4, Segment, SeqEqual

(* What was put at the end is the last segment.                            *)
LEMMA LastSegment ==
  ASSUME NEW S, NEW s \in Seq(S), NEW t \in Seq(S)
  PROVE  SubSeq(s \o t, Len(s) + 1, Len(s \o t)) = t
<1>1. /\ s \o t \in Seq(S) /\ Len(s \o t) = Len(s) + Len(t)
      /\ Len(s) \in Nat /\ Len(t) \in Nat
      /\ \A i \in 1..Len(t) : (s \o t)[Len(s) + i] = t[i]
  <2>1. /\ s \o t \in Seq(S) /\ Len(s \o t) = Len(s) + Len(t)
        /\ Len(s) \in Nat /\ Len(t) \in Nat
        /\ \A i \in Len(s) + 1..Len(s) + Len(t) : (s \o t)[i] = t[i - Len(s)]
    BY ConcatProperties, LenProperties
  <2>2. \A i \in 1..Len(t) : Len(s) + i \in Len(s) + 1..Len(s) + Len(t)
                             /\ (Len(s) + i) - Len(s) = i
    BY <2>1
  <2> QED BY <2>1, <2>2
<1>2. Len(s \o t) \in 0..Len(s \o t) /\ Len(s) \in 0..Len(s \o t)
      /\ Len(s \o t) - Len(s) = Len(t)
  BY <1>1
<1>3. /\ SubSeq(s \o t, Len(s) + 1, Len(s \o t)) \in Seq(S)
      /\ Len(SubSeq(s \o t, Len(s) + 1, Len(s \o t))) = Len(t)
      /\ \A i \in 1..Len(t) :
           SubSeq(s \o t, Len(s) + 1, Len(s \o t))[i] = (s \o t)[Len(s) + i]
  BY <1>1, <1>2, Segment
<1> QED BY <1>1, <1>3, SeqEqual

(* A segment of what is left is one of the whole.                          *)
LEMMA SegmentOfRest ==
  ASSUME NEW S, NEW s \in Seq(S), NEW m \in 0..Len(s),
         NEW b \in 0..Len(s) - m, NEW a \in 0..b
  PROVE  SubSeq(Drop(s, m), a + 1, b) = SubSeq(s, (a + m) + 1, b + m)
<1> DEFINE d == Drop(s, m)
<1>1. /\ d \in Seq(S) /\ Len(d) = Len(s) - m /\ Len(s) \in Nat
      /\ \A i \in 1..Len(s) - m : d[i] = s[m + i]
  BY DropProperties, LenProperties
<1>2. b \in 0..Len(d) /\ b + m \in 0..Len(s) /\ a + m \in 0..b + m
      /\ (b + m) - (a + m) = b - a
  BY <1>1
<1> HIDE DEF d
<1>3. \A i \in 1..b - a : d[a + i] = s[(a + m) + i]
  <2>1. \A i \in 1..b - a : a + i \in 1..Len(s) - m /\ m + (a + i) = (a + m) + i
    BY <1>1
  <2> QED BY <1>1, <2>1
<1>4. /\ SubSeq(d, a + 1, b) \in Seq(S) /\ Len(SubSeq(d, a + 1, b)) = b - a
      /\ \A i \in 1..b - a : SubSeq(d, a + 1, b)[i] = d[a + i]
  BY <1>1, <1>2, Segment
<1>5. /\ SubSeq(s, (a + m) + 1, b + m) \in Seq(S)
      /\ Len(SubSeq(s, (a + m) + 1, b + m)) = b - a
      /\ \A i \in 1..b - a : SubSeq(s, (a + m) + 1, b + m)[i] = s[(a + m) + i]
  BY <1>2, Segment
<1> QED BY <1>3, <1>4, <1>5, SeqEqual DEF d

(* Bytes put together in either order.                                     *)
LEMMA Regroup ==
  \A a, b, c \in Seq(Byte) : (a \o b) \o c = a \o (b \o c)
  BY ConcatAssociative

(* Dropping from the beginning.                                            *)
LEMMA DropFromBeginning ==
  ASSUME NEW S, NEW s \in Seq(S), NEW t \in Seq(S), NEW n \in 0..Len(s)
  PROVE  Drop(s \o t, n) = Drop(s, n) \o t
<1>1. /\ Drop(s, n) \in Seq(S) /\ SubSeq(s, 1, n) \in Seq(S)
      /\ SubSeq(s, 1, n) \o Drop(s, n) = s
  BY DropProperties
<1>2. /\ s \o t \in Seq(S) /\ n \in 0..Len(s \o t)
  BY ConcatProperties, LenProperties
<1>3. /\ Drop(s \o t, n) \in Seq(S) /\ SubSeq(s \o t, 1, n) \in Seq(S)
      /\ SubSeq(s \o t, 1, n) \o Drop(s \o t, n) = s \o t
  BY <1>2, DropProperties
<1>4. SubSeq(s \o t, 1, n) = SubSeq(s, 1, n)
  <2>1. 0 \in 0..n /\ 0 + 1 = 1
    BY LenProperties
  <2> QED BY <2>1, SegmentOfBeginning
<1>5. SubSeq(s, 1, n) \o (Drop(s, n) \o t) = s \o t
  <2>1. (SubSeq(s, 1, n) \o Drop(s, n)) \o t = SubSeq(s, 1, n) \o (Drop(s, n) \o t)
    <3> DEFINE p == SubSeq(s, 1, n)
               q == Drop(s, n)
    <3>1. p \in Seq(S) /\ q \in Seq(S)
      BY <1>1
    <3> HIDE DEF p, q
    <3>2. (p \o q) \o t = p \o (q \o t)
      BY <3>1, ConcatAssociative
    <3> QED BY <3>2 DEF p, q
  <2> QED BY <1>1, <2>1, Zenon
<1>6. Drop(s, n) \o t \in Seq(S)
  BY <1>1, ConcatProperties
<1>7. SubSeq(s, 1, n) \o (Drop(s, n) \o t) = SubSeq(s, 1, n) \o Drop(s \o t, n)
  BY <1>3, <1>4, <1>5
<1> QED BY <1>1, <1>3, <1>6, <1>7, ConcatSimplifications

-----------------------------------------------------------------------------
(* Streams of frames.                                                      *)

(* The frame of one more body at the end.                                  *)
LEMMA FramedAppend ==
  ASSUME NEW bytes \in Seq(Byte), NEW bodies \in Seq(Bodies), NEW c \in 0..Len(bodies),
         Framed(bytes, bodies, c), NEW body \in Bodies
  PROVE  Framed(bytes \o Frame(body), Append(bodies, body), c)
<1> DEFINE f == Frame(body)
           more == Append(bodies, body)
           m == Len(bodies)
<1>1. /\ f \in Seq(Byte) /\ Len(f) \in Nat /\ Len(bytes) \in Nat
      /\ m \in Nat /\ c \in 0..m /\ c \in c..m
      /\ bytes \o f \in Seq(Byte) /\ Len(bytes \o f) = Len(bytes) + Len(f)
      /\ Len(more) = m + 1 /\ more[m + 1] = body
      /\ \A k \in 1..m : more[k] = bodies[k]
  BY BodyFrame, LenProperties, ConcatProperties, AppendProperties
<1>2. PICK at \in [c..m -> 0..Len(bytes)] :
        /\ at[c] = 0 /\ at[m] = Len(bytes)
        /\ \A j, k \in c..m : j < k => at[j] <= at[k]
        /\ \A k \in c + 1..m :
             /\ at[k] = at[k - 1] + Len(Frame(bodies[k]))
             /\ SubSeq(bytes, at[k - 1] + 1, at[k]) = Frame(bodies[k])
  BY DEF Framed
<1>3. SubSeq(bytes \o f, Len(bytes) + 1, Len(bytes \o f)) = f
  BY <1>1, LastSegment
<1> DEFINE too == [k \in c..m + 1 |-> IF k = m + 1 THEN Len(bytes \o f) ELSE at[k]]
<1>4. /\ too \in [c..m + 1 -> 0..Len(bytes \o f)]
      /\ too[m + 1] = Len(bytes \o f)
      /\ \A k \in c..m : too[k] = at[k] /\ at[k] \in 0..Len(bytes)
  <2> HIDE DEF f
  <2> QED BY <1>1, <1>2
<1> HIDE DEF f, more, m, too
<1>5. too[c] = 0
  BY <1>1, <1>2, <1>4
<1>6. ASSUME NEW j \in c..m + 1, NEW k \in c..m + 1, j < k PROVE too[j] <= too[k]
  <2>1. j \in c..m
    BY <1>1, <1>6
  <2>2. CASE k = m + 1
    BY <1>1, <1>4, <2>1, <2>2
  <2>3. CASE k # m + 1
    <3>1. k \in c..m
      BY <1>1, <2>3
    <3> QED BY <1>2, <1>4, <1>6, <2>1, <3>1
  <2> QED BY <2>2, <2>3
<1>7. ASSUME NEW k \in c + 1..m + 1
      PROVE  /\ too[k] = too[k - 1] + Len(Frame(more[k]))
             /\ SubSeq(bytes \o f, too[k - 1] + 1, too[k]) = Frame(more[k])
  <2>1. CASE k = m + 1
    <3>1. too[k - 1] = Len(bytes) /\ too[k] = Len(bytes) + Len(f) /\ Frame(more[k]) = f
      <4>1. k - 1 = m /\ m \in c..m
        BY <1>1, <2>1
      <4> QED BY <1>1, <1>2, <1>4, <2>1, <4>1 DEF f
    <3> QED BY <1>1, <1>3, <3>1
  <2>2. CASE k # m + 1
    <3>1. k \in c + 1..m /\ k \in c..m /\ k - 1 \in c..m /\ k \in 1..m /\ k - 1 < k
      BY <1>1, <2>2
    <3>2. too[k] = at[k] /\ too[k - 1] = at[k - 1] /\ more[k] = bodies[k]
      BY <1>1, <1>4, <3>1
    <3>3. at[k] \in 0..Len(bytes) /\ at[k - 1] \in 0..at[k]
      <4>1. at[k - 1] <= at[k]
        BY <1>2, <3>1
      <4> QED BY <1>1, <1>4, <3>1, <4>1
    <3>4. SubSeq(bytes \o f, at[k - 1] + 1, at[k]) = SubSeq(bytes, at[k - 1] + 1, at[k])
      BY <1>1, <3>3, SegmentOfBeginning
    <3> QED BY <1>2, <3>1, <3>2, <3>4
  <2> QED BY <2>1, <2>2
<1>8. Framed(bytes \o f, more, c)
  <2> DEFINE s == bytes \o f
  <2>1. Len(more) = m + 1
    BY <1>1
  <2>2. /\ too \in [c..Len(more) -> 0..Len(s)] /\ too[Len(more)] = Len(s)
        /\ \A j, k \in c..Len(more) : j < k => too[j] <= too[k]
        /\ \A k \in c + 1..Len(more) :
             /\ too[k] = too[k - 1] + Len(Frame(more[k]))
             /\ SubSeq(s, too[k - 1] + 1, too[k]) = Frame(more[k])
    BY <1>4, <1>6, <1>7, <2>1
  <2> HIDE DEF s
  <2>3. Framed(s, more, c)
    BY <1>5, <2>2, Zenon DEF Framed
  <2> QED BY <2>3 DEF s
<1> QED BY <1>8 DEF f, more

(* A stream that is not empty begins with the first frame, and without it  *)
(* it is the stream of the rest.                                           *)
LEMMA FramedFirst ==
  ASSUME NEW bytes \in Seq(Byte), NEW bodies \in Seq(Bodies), NEW c \in 0..Len(bodies),
         Framed(bytes, bodies, c), Len(bytes) > 0
  PROVE  LET n == Len(Frame(bodies[c + 1]))
         IN  /\ c + 1 \in 1..Len(bodies) /\ n \in 0..Len(bytes)
             /\ SubSeq(bytes, 1, n) = Frame(bodies[c + 1])
             /\ Framed(Drop(bytes, n), bodies, c + 1)
<1> DEFINE n == Len(Frame(bodies[c + 1]))
           m == Len(bodies)
<1>1. Len(bytes) \in Nat /\ m \in Nat /\ c \in 0..m
  BY LenProperties
<1>2. PICK at \in [c..m -> 0..Len(bytes)] :
        /\ at[c] = 0 /\ at[m] = Len(bytes)
        /\ \A j, k \in c..m : j < k => at[j] <= at[k]
        /\ \A k \in c + 1..m :
             /\ at[k] = at[k - 1] + Len(Frame(bodies[k]))
             /\ SubSeq(bytes, at[k - 1] + 1, at[k]) = Frame(bodies[k])
  BY DEF Framed
<1>3. c # m
  BY <1>1, <1>2
<1>4. c + 1 \in 1..m /\ c + 1 \in c + 1..m /\ c + 1 \in c..m /\ (c + 1) - 1 = c
  BY <1>1, <1>3
<1>5. Frame(bodies[c + 1]) \in Seq(Byte) /\ n \in Nat
  BY <1>4, ElementOfSeq, BodyFrame, LenProperties
<1> HIDE DEF n, m
<1>6. at[c + 1] = n /\ n \in 0..Len(bytes)
  <2>1. at[c + 1] = 0 + n /\ at[c + 1] \in 0..Len(bytes)
    BY <1>2, <1>4 DEF n
  <2> QED BY <1>5, <2>1
<1>7. SubSeq(bytes, 1, n) = Frame(bodies[c + 1])
  <2>1. SubSeq(bytes, at[(c + 1) - 1] + 1, at[c + 1]) = Frame(bodies[c + 1])
    BY <1>2, <1>4, Zenon
  <2>2. at[(c + 1) - 1] + 1 = 1
    BY <1>2, <1>4
  <2> QED BY <1>6, <2>1, <2>2, Zenon
<1> DEFINE rest == Drop(bytes, n)
           too == [k \in c + 1..m |-> at[k] - n]
<1>8. rest \in Seq(Byte) /\ Len(rest) = Len(bytes) - n
  BY <1>6, DropProperties
<1>9. ASSUME NEW k \in c + 1..m PROVE k \in c..m /\ at[k] \in n..Len(bytes)
  <2>1. k \in c..m /\ (k = c + 1 \/ c + 1 < k)
    BY <1>1, <1>4
  <2>2. at[k] \in 0..Len(bytes)
    BY <2>1
  <2>3. c + 1 < k => at[c + 1] <= at[k]
    BY <1>2, <1>4, <2>1
  <2> QED BY <1>1, <1>5, <1>6, <2>1, <2>2, <2>3
<1>10. /\ too \in [c + 1..m -> 0..Len(rest)]
       /\ \A k \in c + 1..m : too[k] = at[k] - n /\ too[k] \in 0..Len(rest)
  <2>1. \A k \in c + 1..m : at[k] - n \in 0..Len(bytes) - n
    BY <1>1, <1>5, <1>9
  <2> QED BY <1>8, <2>1
<1> HIDE DEF rest, too
<1>11. too[c + 1] = 0 /\ too[m] = Len(rest)
  <2>1. m \in c + 1..m
    BY <1>1, <1>4
  <2> QED BY <1>2, <1>4, <1>5, <1>6, <1>8, <1>10, <2>1
<1>12. ASSUME NEW j \in c + 1..m, NEW k \in c + 1..m, j < k PROVE too[j] <= too[k]
  <2>1. at[j] <= at[k] /\ at[j] \in Nat /\ at[k] \in Nat
    <3>1. j \in c..m /\ k \in c..m
      BY <1>9
    <3>2. at[j] <= at[k]
      BY <1>2, <1>12, <3>1
    <3>3. at[j] \in 0..Len(bytes) /\ at[k] \in 0..Len(bytes)
      BY <3>1
    <3> QED BY <3>2, <3>3
  <2> QED BY <1>5, <1>10, <2>1
<1>13. ASSUME NEW k \in (c + 1) + 1..m
       PROVE  /\ too[k] = too[k - 1] + Len(Frame(bodies[k]))
              /\ SubSeq(rest, too[k - 1] + 1, too[k]) = Frame(bodies[k])
  <2>1. k \in c + 1..m /\ k - 1 \in c + 1..m /\ k - 1 < k
    BY <1>1
  <2>2. /\ at[k] = at[k - 1] + Len(Frame(bodies[k]))
        /\ SubSeq(bytes, at[k - 1] + 1, at[k]) = Frame(bodies[k])
    BY <1>2, <2>1
  <2>3. Len(Frame(bodies[k])) \in Nat
    <3>1. k \in 1..m
      BY <1>1
    <3> QED BY <3>1, ElementOfSeq, BodyFrame, LenProperties DEF m
  <2>4. /\ too[k] = at[k] - n /\ too[k - 1] = at[k - 1] - n
        /\ at[k] \in Nat /\ at[k - 1] \in Nat
        /\ too[k] \in 0..Len(bytes) - n /\ too[k - 1] \in 0..too[k]
    <3>1. too[k - 1] <= too[k]
      BY <1>12, <2>1
    <3>2. /\ too[k] = at[k] - n /\ too[k - 1] = at[k - 1] - n
          /\ too[k] \in 0..Len(rest) /\ too[k - 1] \in 0..Len(rest)
      BY <1>10, <2>1
    <3>3. at[k] \in n..Len(bytes) /\ at[k - 1] \in n..Len(bytes)
      BY <1>9, <2>1
    <3>4. at[k] \in Nat /\ at[k - 1] \in Nat
      BY <1>1, <1>5, <3>3
    <3>5. Len(rest) \in Int
      BY <1>1, <1>5, <1>8
    <3>6. too[k - 1] \in 0..too[k]
      BY <3>1, <3>2, <3>5
    <3> QED BY <1>8, <3>2, <3>4, <3>6
  <2>5. SubSeq(rest, too[k - 1] + 1, too[k])
          = SubSeq(bytes, (too[k - 1] + n) + 1, too[k] + n)
    <3> DEFINE x == too[k - 1]
               y == too[k]
    <3>1. y \in 0..Len(bytes) - n /\ x \in 0..y
      BY <2>4
    <3> HIDE DEF x, y
    <3>2. \A b \in 0..Len(bytes) - n : \A a \in 0..b :
            SubSeq(Drop(bytes, n), a + 1, b) = SubSeq(bytes, (a + n) + 1, b + n)
      BY <1>6, SegmentOfRest
    <3>3. SubSeq(Drop(bytes, n), x + 1, y) = SubSeq(bytes, (x + n) + 1, y + n)
      BY <3>1, <3>2, Zenon
    <3> QED BY <3>3, Zenon DEF x, y, rest
  <2>6. too[k - 1] + n = at[k - 1] /\ too[k] + n = at[k]
    <3> DEFINE x == at[k]
               y == at[k - 1]
    <3>1. /\ too[k] = x - n /\ too[k - 1] = y - n
          /\ x \in Nat /\ y \in Nat /\ n \in Nat
      BY <1>5, <2>4
    <3> HIDE DEF x, y
    <3>2. too[k] + n = x /\ too[k - 1] + n = y
      BY <3>1
    <3> QED BY <3>2 DEF x, y
  <2>7. SubSeq(rest, too[k - 1] + 1, too[k]) = Frame(bodies[k])
    BY <2>2, <2>5, <2>6, Zenon
  <2>8. too[k] = too[k - 1] + Len(Frame(bodies[k]))
    <3> DEFINE x == at[k]
               y == at[k - 1]
               z == Len(Frame(bodies[k]))
    <3>1. x \in Nat /\ y \in Nat /\ z \in Nat /\ x = y + z
      BY <2>2, <2>3, <2>4
    <3>2. too[k] = x - n /\ too[k - 1] = y - n
      BY <2>4
    <3> HIDE DEF x, y, z
    <3>3. too[k] = too[k - 1] + z
      BY <1>5, <3>1, <3>2
    <3> QED BY <3>3 DEF z
  <2> QED BY <2>7, <2>8
<1>14. Framed(rest, bodies, c + 1)
  BY <1>10, <1>11, <1>12, <1>13 DEF Framed, m
<1> QED BY <1>4, <1>6, <1>7, <1>14 DEF n, m, rest

-----------------------------------------------------------------------------
(* The device gets what was sent.                                          *)

LEMMA StreamBytes ==
  ASSUME LinkInv
  PROVE  /\ rx \in Seq(Byte) /\ wire \in Seq(Byte) /\ rx \o wire \in Seq(Byte)
         /\ Len(rx \o wire) = Len(rx) + Len(wire)
         /\ Len(rx) \in Nat /\ Len(wire) \in Nat
         /\ sent \in Seq(Bodies) /\ Len(sent) \in Nat
         /\ served \in Seq(Seq(Byte)) /\ Len(served) \in Nat
  BY ConcatProperties, LenProperties DEF LinkInv, LinkTypeOK

LEMMA DrainedNumber ==
  ASSUME LinkInv, StreamInv, tidy
  PROVE  /\ Drained \in 0..Len(sent)
         /\ Drained = IF pc = "write" THEN Len(served) - 1 ELSE Len(served)
<1>1. Len(served) \in 0..Len(sent)
  BY StreamBytes DEF StreamInv
<1>2. pc = "write" => Len(served) # 0
  BY EmptySeq DEF LinkInv
<1> QED BY <1>1, <1>2, StreamBytes DEF Drained

(* With a length in its buffer the device has the length of the next call. *)
LEMMA FirstFrame ==
  ASSUME LinkInv, StreamInv, tidy, PrefixLen <= Len(rx)
  PROVE  LET body == sent[Drained + 1]
         IN  /\ Drained + 1 \in 1..Len(sent)
             /\ Announced = Len(body) /\ Announced \in 0..MaxRxFrame
             /\ PrefixLen + Announced \in 0..Len(rx \o wire)
             /\ Framed(Drop(rx \o wire, PrefixLen + Announced), sent, Drained + 1)
             /\ PrefixLen + Announced <= Len(rx) =>
                  SubSeq(rx, PrefixLen + 1, PrefixLen + Announced) = body
<1> DEFINE c == Drained
           s == rx \o wire
           body == sent[c + 1]
           n == Len(Frame(body))
<1>1. /\ rx \in Seq(Byte) /\ wire \in Seq(Byte) /\ s \in Seq(Byte)
      /\ Len(s) = Len(rx) + Len(wire) /\ Len(rx) \in Nat /\ Len(wire) \in Nat
      /\ sent \in Seq(Bodies) /\ PrefixLen \in Nat \ {0}
  BY StreamBytes, WeightFacts
<1>2. c \in 0..Len(sent) /\ Framed(s, sent, c) /\ Len(s) > 0
  BY <1>1, DrainedNumber DEF StreamInv
<1> HIDE DEF s, c
<1>3. /\ c + 1 \in 1..Len(sent) /\ n \in 0..Len(s)
      /\ SubSeq(s, 1, n) = Frame(body) /\ Framed(Drop(s, n), sent, c + 1)
  BY <1>1, <1>2, FramedFirst
<1>4. /\ body \in Seq(Byte) /\ Len(body) \in Lengths /\ Len(body) \in Nat
      /\ Frame(body) \in Seq(Byte) /\ n = PrefixLen + Len(body)
      /\ SubSeq(Frame(body), 1, PrefixLen) = little_endian(Len(body))
      /\ Drop(Frame(body), PrefixLen) = body
  <2>1. body \in Bodies
    BY <1>1, <1>3, ElementOfSeq
  <2> QED BY <2>1, BodyFrame, FrameProperties
<1> HIDE DEF n, body
<1>5. SubSeq(rx, 1, PrefixLen) = little_endian(Len(body))
  <2>1. Frame(body) \o Drop(s, n) = s /\ Drop(s, n) \in Seq(Byte)
    BY <1>1, <1>3, DropProperties
  <2>2. PrefixLen \in 0..Len(Frame(body)) /\ PrefixLen \in 0..Len(rx)
        /\ 0 \in 0..PrefixLen
    BY <1>1, <1>4 DEF n
  <2>3. SubSeq(Frame(body) \o Drop(s, n), 0 + 1, PrefixLen)
          = SubSeq(Frame(body), 0 + 1, PrefixLen)
    BY <1>4, <2>1, <2>2, SegmentOfBeginning
  <2>4. SubSeq(rx \o wire, 0 + 1, PrefixLen) = SubSeq(rx, 0 + 1, PrefixLen)
    BY <1>1, <2>2, SegmentOfBeginning
  <2>5. 0 + 1 = 1
    OBVIOUS
  <2> QED BY <1>4, <2>1, <2>3, <2>4, <2>5, Zenon DEF s
<1>6. Announced = Len(body)
  BY <1>1, <1>4, <1>5, ReadsTheLength DEF Announced
<1>7. Len(body) \in 0..MaxRxFrame
  BY <1>3, <1>4, LinkAssumption, WeightFacts DEF StreamInv, body
<1>8. ASSUME n <= Len(rx) PROVE SubSeq(rx, PrefixLen + 1, n) = body
  <2>1. n \in 0..Len(rx) /\ 0 \in 0..n /\ 0 + 1 = 1
    BY <1>1, <1>3, <1>8
  <2>2. SubSeq(rx, 1, n) = Frame(body)
    <3>1. SubSeq(rx \o wire, 0 + 1, n) = SubSeq(rx, 0 + 1, n)
      BY <1>1, <2>1, SegmentOfBeginning
    <3> QED BY <1>3, <2>1, <3>1, Zenon DEF s
  <2>3. Frame(body) \o Drop(rx, n) = rx /\ Drop(rx, n) \in Seq(Byte)
    BY <1>1, <2>1, <2>2, DropProperties
  <2>4. n \in 0..Len(Frame(body)) /\ PrefixLen \in 0..n
    BY <1>1, <1>4 DEF n
  <2>5. SubSeq(Frame(body) \o Drop(rx, n), PrefixLen + 1, n)
          = SubSeq(Frame(body), PrefixLen + 1, n)
    BY <1>4, <2>3, <2>4, SegmentOfBeginning
  <2> QED BY <1>4, <2>3, <2>5, Zenon DEF Drop, n
<1> QED BY <1>3, <1>4, <1>6, <1>7, <1>8 DEF c, s, body

(* One more element leaves the beginning as it is.                         *)
LEMMA AppendBeginning ==
  ASSUME NEW S, NEW s \in Seq(S), NEW e \in S, NEW n \in 0..Len(s)
  PROVE  SubSeq(Append(s, e), 1, n) = SubSeq(s, 1, n)
<1>1. <<e>> \in Seq(S) /\ Append(s, e) = s \o <<e>>
  OBVIOUS
<1>2. 0 \in 0..n /\ 0 + 1 = 1
  BY LenProperties
<1>3. SubSeq(s \o <<e>>, 0 + 1, n) = SubSeq(s, 0 + 1, n)
  BY <1>1, <1>2, SegmentOfBeginning
<1> QED BY <1>1, <1>2, <1>3, Zenon

LEMMA BeginningExtended ==
  ASSUME NEW S, NEW s \in Seq(S), NEW n \in 0..Len(s), n + 1 <= Len(s)
  PROVE  SubSeq(s, 1, n + 1) = Append(SubSeq(s, 1, n), s[n + 1])
<1>1. n + 1 \in 1..Len(s) /\ 1 \in 1..n + 1 /\ (n + 1) - 1 = n
      /\ 1 \in 1..Len(s) /\ n + 1 \in 1..Len(s)
  BY LenProperties
<1>2. SubSeq(s, 1, n + 1) = SubSeq(s, 1, (n + 1) - 1) \o <<s[n + 1]>>
  BY <1>1, SubSeqRecursiveSecond
<1>3. SubSeq(s, 1, n) \in Seq(S) /\ s[n + 1] \in S
  BY <1>1, DropProperties, ElementOfSeq
<1> DEFINE p == SubSeq(s, 1, n)
           e == s[n + 1]
<1>4. SubSeq(s, 1, n + 1) = p \o <<e>>
  BY <1>1, <1>2, Zenon
<1> HIDE DEF p, e
<1>5. p \o <<e>> = Append(p, e)
  BY <1>3 DEF p, e
<1> QED BY <1>4, <1>5 DEF p, e

(* The stream invariant, from what a step leaves of the stream.            *)
LEMMA StreamKept ==
  ASSUME StreamInv, tidy, sent' = sent, (rx \o wire)' = rx \o wire,
         Drained' = Drained, Len(served') <= Len(sent), ServedAsSent'
  PROVE  StreamInv'
<1> DEFINE s == rx \o wire
<1>1. /\ \A k \in 1..Len(sent) : Len(sent[k]) <= MaxRxFrame
      /\ Len(s) <= MaxRxFrame + PrefixLen /\ Framed(s, sent, Drained)
  BY DEF StreamInv
<1>2. s' = s
  OBVIOUS
<1> HIDE DEF s
<1>3. Framed(s', sent', Drained') /\ Len(s') <= MaxRxFrame + PrefixLen
  BY <1>1, <1>2
<1>4. /\ Len(served') <= Len(sent') /\ \A k \in 1..Len(sent') : Len(sent'[k]) <= MaxRxFrame
  BY <1>1
<1> QED BY <1>3, <1>4 DEF StreamInv, s

(* Whatever leaves sent, served, rx and wire as they are.                  *)
LEMMA StreamUntouched ==
  ASSUME StreamInv, UNCHANGED <<sent, served, rx, wire>>, tidy' => tidy,
         (pc' = "write") <=> (pc = "write")
  PROVE  StreamInv'
<1> SUFFICES ASSUME tidy' PROVE StreamInv'
  BY DEF StreamInv
<1>1. tidy /\ Drained' = Drained
  BY DEF Drained
<1>2. ServedAsSent'
  BY <1>1 DEF StreamInv, ServedAsSent
<1> QED BY <1>1, <1>2, StreamKept DEF StreamInv

LEMMA CallKeepsStream ==
  ASSUME LinkInv, StreamInv, NEW body \in Bodies, NEW n \in 0..Len(Frame(body)),
         Call(body, n)
  PROVE  StreamInv'
<1> SUFFICES ASSUME tidy' PROVE StreamInv'
  BY DEF StreamInv
<1>1. /\ tidy /\ n = Len(Frame(body)) /\ Len(body) <= MaxRxFrame
      /\ Len(rx) + Len(wire) + n <= MaxRxFrame + PrefixLen
      /\ sent' = Append(sent, body) /\ wire' = wire \o SubSeq(Frame(body), 1, n)
      /\ UNCHANGED <<pc, rx, served>>
  BY DEF Call, device
<1>2. /\ Frame(body) \in Seq(Byte) /\ n \in Nat
      /\ rx \in Seq(Byte) /\ wire \in Seq(Byte)
      /\ rx \o wire \in Seq(Byte) /\ Len(rx \o wire) = Len(rx) + Len(wire)
      /\ sent \in Seq(Bodies) /\ Len(sent) \in Nat /\ Len(served) \in Nat
  BY <1>1, BodyFrame, StreamBytes, LenProperties
<1>3. (rx \o wire)' = (rx \o wire) \o Frame(body)
  <2>1. wire' = wire \o Frame(body)
    BY <1>1, <1>2, SubSeqFull
  <2>2. (rx \o wire) \o Frame(body) = rx \o (wire \o Frame(body))
    BY <1>2, Regroup, Zenon
  <2> QED BY <1>1, <2>1, <2>2
<1>4. Len((rx \o wire)') <= MaxRxFrame + PrefixLen
  <2> DEFINE s == rx \o wire
             f == Frame(body)
  <2>1. s \in Seq(Byte) /\ f \in Seq(Byte) /\ Len(s) + Len(f) <= MaxRxFrame + PrefixLen
    BY <1>1, <1>2
  <2> HIDE DEF s, f
  <2>2. Len(s \o f) = Len(s) + Len(f)
    BY <2>1, ConcatProperties
  <2> QED BY <1>3, <2>1, <2>2 DEF s, f
<1>5. /\ Len(sent') = Len(sent) + 1 /\ sent'[Len(sent) + 1] = body
      /\ \A k \in 1..Len(sent) : sent'[k] = sent[k]
  BY <1>1, <1>2, AppendProperties
<1>6. Framed((rx \o wire)', sent', Drained')
  <2>1. Drained' = Drained /\ Drained \in 0..Len(sent)
    <3>1. Drained' = Drained
      BY <1>1 DEF Drained
    <3> QED BY <1>1, <3>1, DrainedNumber
  <2>2. Framed(rx \o wire, sent, Drained)
    BY <1>1 DEF StreamInv
  <2>3. Framed((rx \o wire) \o Frame(body), Append(sent, body), Drained)
    BY <1>2, <2>1, <2>2, FramedAppend
  <2> QED BY <1>1, <1>3, <2>1, <2>3, Zenon
<1>7. Len(served) <= Len(sent) /\ served = SubSeq(sent, 1, Len(served))
  BY <1>1 DEF StreamInv, ServedAsSent
<1>8. ServedAsSent' /\ Len(served') <= Len(sent')
  <2>1. Len(served) \in 0..Len(sent)
    BY <1>2, <1>7
  <2>2. SubSeq(Append(sent, body), 1, Len(served)) = SubSeq(sent, 1, Len(served))
    BY <1>2, <2>1, AppendBeginning
  <2> QED BY <1>1, <1>2, <1>5, <1>7, <2>2 DEF ServedAsSent
<1>9. \A k \in 1..Len(sent') : Len(sent'[k]) <= MaxRxFrame
  <2> SUFFICES ASSUME NEW k \in 1..Len(sent') PROVE Len(sent'[k]) <= MaxRxFrame
    OBVIOUS
  <2>1. k \in 1..Len(sent) \/ k = Len(sent) + 1
    BY <1>2, <1>5
  <2>2. \A j \in 1..Len(sent) : Len(sent[j]) <= MaxRxFrame
    BY <1>1 DEF StreamInv
  <2> QED BY <1>1, <1>5, <2>1, <2>2
<1> QED BY <1>4, <1>6, <1>8, <1>9 DEF StreamInv

LEMMA DeviceKeepsStream ==
  ASSUME LinkInv, StreamInv, Device
  PROVE  StreamInv'
<1>0. tidy' = tidy /\ sent' = sent
  BY DEF Device, DeviceReads, AwaitMore, DropOversized, ServeFrame, Writes,
    Drain, record
<1> SUFFICES ASSUME tidy' PROVE StreamInv'
  BY DEF StreamInv
<1>1. /\ tidy /\ Len(served) <= Len(sent) /\ served = SubSeq(sent, 1, Len(served))
      /\ Len(rx \o wire) <= MaxRxFrame + PrefixLen
      /\ Framed(rx \o wire, sent, Drained)
  BY <1>0 DEF StreamInv, ServedAsSent
<1>2. /\ rx \in Seq(Byte) /\ wire \in Seq(Byte) /\ rx \o wire \in Seq(Byte)
      /\ Len(rx \o wire) = Len(rx) + Len(wire)
      /\ Len(rx) \in Nat /\ Len(wire) \in Nat
      /\ sent \in Seq(Bodies) /\ Len(sent) \in Nat /\ Len(served) \in Nat
      /\ PrefixLen \in Nat /\ MaxRxFrame \in Nat
  BY StreamBytes, WeightFacts, LinkAssumption
<1>3. ASSUME NEW n \in 1..Chunk, DeviceReads(n) PROVE StreamInv'
  <2>1. /\ n \in 1..AtMost(Chunk, Len(wire)) /\ pc = "read" /\ pc' = "extract"
        /\ wire' = Drop(wire, n) /\ rx' = Received(SubSeq(wire, 1, n))
        /\ served' = served
    BY <1>3 DEF DeviceReads, record
  <2> DEFINE p == SubSeq(wire, 1, n)
             q == Drop(wire, n)
  <2>2. /\ n \in 1..Len(wire) /\ p \in Seq(Byte) /\ Len(p) = n
        /\ q \in Seq(Byte) /\ p \o q = wire
    BY <2>1, DeviceReadsWithin
  <2> HIDE DEF p, q
  <2>3. rx' = rx \o p /\ wire' = q
    <3>1. ~(Len(rx) + Len(p) > MaxRxFrame + PrefixLen)
      BY <1>1, <1>2, <2>2
    <3> QED BY <2>1, <3>1 DEF Received, p, q
  <2>4. (rx \o wire)' = rx \o wire
    <3>1. rx \in Seq(Byte) /\ p \in Seq(Byte) /\ q \in Seq(Byte)
      BY <1>2, <2>2
    <3>2. (rx \o p) \o q = rx \o (p \o q)
      BY <3>1, Regroup, Zenon
    <3> QED BY <2>2, <2>3, <3>2
  <2>5. Drained' = Drained
    BY <2>1 DEF Drained
  <2>6. ServedAsSent' /\ Len(served') <= Len(sent)
    BY <1>0, <1>1, <2>1 DEF ServedAsSent
  <2> QED BY <1>0, <1>1, <2>4, <2>5, <2>6, StreamKept
<1>4. CASE AwaitMore
  BY <1>4, StreamUntouched DEF AwaitMore, record
<1>5. CASE DropOversized
  <2>1. PrefixLen <= Len(rx) /\ Announced > MaxRxFrame
    BY <1>2, <1>5 DEF DropOversized
  <2>2. Announced \in 0..MaxRxFrame
    BY <1>1, <2>1, FirstFrame
  <2> QED BY <1>2, <2>1, <2>2
<1>6. CASE ServeFrame
  <2>1. /\ pc = "extract" /\ PrefixLen <= Len(rx) /\ pc' = "write"
        /\ Len(rx) >= PrefixLen + Announced
        /\ served' = Append(served, SubSeq(rx, PrefixLen + 1, PrefixLen + Announced))
        /\ UNCHANGED <<rx, wire>>
    BY <1>2, <1>6 DEF ServeFrame
  <2>2. Drained = Len(served)
    BY <2>1 DEF Drained
  <2>3. /\ Len(served) + 1 \in 1..Len(sent)
        /\ SubSeq(rx, PrefixLen + 1, PrefixLen + Announced) = sent[Len(served) + 1]
    <3>1. PrefixLen + Announced <= Len(rx)
      <4>1. Announced \in 0..MaxRxFrame
        BY <1>1, <2>1, FirstFrame
      <4> QED BY <1>2, <2>1, <4>1
    <3> QED BY <1>1, <2>1, <2>2, <3>1, FirstFrame
  <2>4. served' = SubSeq(sent, 1, Len(served) + 1) /\ Len(served') = Len(served) + 1
    <3>1. Len(served) \in 0..Len(sent) /\ Len(served) + 1 <= Len(sent)
      BY <1>1, <1>2, <2>3
    <3>2. SubSeq(sent, 1, Len(served) + 1)
            = Append(SubSeq(sent, 1, Len(served)), sent[Len(served) + 1])
      BY <1>2, <3>1, BeginningExtended
    <3>3. served' = SubSeq(sent, 1, Len(served) + 1)
      BY <1>1, <2>1, <2>3, <3>2, Zenon
    <3>4. Len(served) + 1 \in 0..Len(sent)
      BY <1>2, <3>1
    <3> QED BY <1>2, <3>3, <3>4, DropProperties
  <2>5. ServedAsSent' /\ Len(served') <= Len(sent)
    BY <1>0, <1>2, <2>3, <2>4 DEF ServedAsSent
  <2>6. Drained' = Drained
    BY <1>2, <2>1, <2>2, <2>4 DEF Drained
  <2>7. (rx \o wire)' = rx \o wire
    BY <2>1
  <2> QED BY <1>0, <1>1, <2>5, <2>6, <2>7, StreamKept
<1>7. ASSUME NEW n \in 0..Room, Writes(n) PROVE StreamInv'
  BY <1>0, <1>7, StreamUntouched DEF Writes, record
<1>8. CASE Drain
  <2> DEFINE n == PrefixLen + Announced
  <2>1. /\ pc = "write" /\ pc' = "extract" /\ rx' = Drop(rx, n)
        /\ UNCHANGED <<wire, served>>
        /\ PrefixLen <= Len(rx) /\ n <= Len(rx)
    BY <1>8 DEF Drain, record, LinkInv
  <2>2. /\ Announced \in 0..MaxRxFrame /\ Framed(Drop(rx \o wire, n), sent, Drained + 1)
        /\ n \in 0..Len(rx \o wire)
    BY <1>1, <2>1, FirstFrame
  <2> HIDE DEF n
  <2>3. n \in 0..Len(rx)
    BY <1>2, <2>1, <2>2
  <2>4. Drop(rx \o wire, n) = Drop(rx, n) \o wire
    BY <1>2, <2>3, DropFromBeginning
  <2>5. (rx \o wire)' = Drop(rx \o wire, n)
    BY <2>1, <2>4
  <2>6. Drained' = Drained + 1
    BY <1>2, <2>1 DEF Drained
  <2>7. Len((rx \o wire)') <= MaxRxFrame + PrefixLen
    <3>1. Len(Drop(rx \o wire, n)) = Len(rx \o wire) - n
      BY <1>2, <2>2, DropProperties
    <3> QED BY <1>1, <1>2, <2>2, <2>5, <3>1
  <2>8. Framed((rx \o wire)', sent', Drained')
    BY <1>0, <2>2, <2>5, <2>6, Zenon
  <2>9. ServedAsSent' /\ Len(served') <= Len(sent')
    BY <1>0, <1>1, <2>1 DEF ServedAsSent
  <2>10. \A k \in 1..Len(sent') : Len(sent'[k]) <= MaxRxFrame
    BY <1>0, <1>1 DEF StreamInv
  <2> QED BY <2>7, <2>8, <2>9, <2>10 DEF StreamInv
<1> QED BY <1>3, <1>4, <1>5, <1>6, <1>7, <1>8 DEF Device

LEMMA StreamInvKept ==
  ASSUME LinkInv, StreamInv, [LinkNext]_linkVars
  PROVE  StreamInv'
<1>1. CASE Calls
  BY <1>1, CallKeepsStream DEF Calls
<1>2. CASE Device
  BY <1>2, DeviceKeepsStream
<1>3. CASE ~Calls /\ ~Device
  BY <1>3, StreamUntouched DEF LinkNext, WriteFails, Reading, HostReads,
    GivesUp, Drains, linkVars, device, record
<1> QED BY <1>1, <1>2, <1>3

LEMMA StreamInvFirst == LinkInit => StreamInv
<1> SUFFICES ASSUME LinkInit PROVE StreamInv
  OBVIOUS
<1>1. /\ rx = <<>> /\ wire = <<>> /\ sent = <<>> /\ served = <<>> /\ pc = "read"
  BY DEF LinkInit
<1>2. Drained = 0
  BY <1>1 DEF Drained
<1>3. rx \o wire = <<>>
  BY <1>1
<1>4. Framed(<<>>, <<>>, 0)
  <2> DEFINE at == [k \in 0..Len(<<>>) |-> 0]
  <2>1. at \in [0..Len(<<>>) -> 0..Len(<<>>)]
    OBVIOUS
  <2>2. at[0] = 0 /\ at[Len(<<>>)] = Len(<<>>)
    OBVIOUS
  <2>3. \A j, k \in 0..Len(<<>>) : j < k => at[j] <= at[k]
    OBVIOUS
  <2>4. 0 + 1..Len(<<>>) = {}
    OBVIOUS
  <2> HIDE DEF at
  <2> QED BY <2>1, <2>2, <2>3, <2>4 DEF Framed
<1>5. 0 <= MaxRxFrame + PrefixLen
  BY LinkAssumption, WeightFacts
<1>6. ServedAsSent /\ Len(served) <= Len(sent)
  BY <1>1 DEF ServedAsSent
<1> QED BY <1>1, <1>2, <1>3, <1>4, <1>5, <1>6 DEF StreamInv

(* However the stream is cut into chunks, whatever hosts gave up before    *)
(* them: what the device served is the beginning of what was sent, in      *)
(* order and unchanged, as long as the frames went out whole and what was  *)
(* outstanding fitted in the receive buffer.                               *)
THEOREM ServedAsSentAlways == LinkSpec => []ServedAsSent
<1>1. LinkSpec => []StreamInv
  BY StreamInvFirst, StreamInvKept, LinkInvHolds, PTL DEF LinkSpec
<1>2. StreamInv => ServedAsSent
  BY DEF StreamInv, ServedAsSent
<1> QED BY <1>1, <1>2, PTL

-----------------------------------------------------------------------------
(* The host gets the answers.                                              *)

(* Sequences of one piece and of two.                                      *)
LEMMA OnePiece ==
  ASSUME NEW S, NEW s \in Seq(S), Len(s) = 1
  PROVE  s # <<>> /\ Head(s) = s[1] /\ Tail(s) = <<>> /\ s[1] \in S
<1>1. s # <<>>
  BY EmptySeq
<1>2. Tail(s) \in Seq(S) /\ Len(Tail(s)) = 0
  BY <1>1, HeadTailProperties
<1>3. Tail(s) = <<>>
  BY <1>2, EmptySeq
<1>4. Head(s) = s[1]
  OBVIOUS
<1>5. s[1] \in S
  BY ElementOfSeq
<1> QED BY <1>1, <1>3, <1>4, <1>5

LEMMA TwoPieces ==
  ASSUME NEW S, NEW s \in Seq(S), Len(s) = 2
  PROVE  /\ s # <<>> /\ Head(s) = s[1] /\ Tail(s) = <<s[2]>>
         /\ s[1] \in S /\ s[2] \in S
<1>1. s # <<>>
  BY EmptySeq
<1>2. /\ Tail(s) \in Seq(S) /\ Len(Tail(s)) = 1
      /\ \A i \in 1..Len(Tail(s)) : Tail(s)[i] = s[i + 1]
  BY <1>1, HeadTailProperties
<1>3. s[1] \in S /\ s[2] \in S
  BY ElementOfSeq
<1>4. Tail(s) = <<s[2]>>
  <2>1. Tail(s)[1] = s[2]
    BY <1>2
  <2>2. <<s[2]>> \in Seq(S) /\ Len(<<s[2]>>) = 1 /\ <<s[2]>>[1] = s[2]
    BY <1>3
  <2>3. \A i \in 1..1 : Tail(s)[i] = <<s[2]>>[i]
    BY <2>1, <2>2
  <2> QED BY <1>2, <2>2, <2>3, SeqEqual
<1>5. Head(s) = s[1]
  OBVIOUS
<1> QED BY <1>1, <1>3, <1>4, <1>5

LEMMA PieceBefore ==
  ASSUME NEW S, NEW e \in S, NEW f \in S
  PROVE  <<e>> \o <<>> = <<e>> /\ <<e>> \o <<f>> = <<e, f>>
<1>1. /\ <<e>> \in Seq(S) /\ <<f>> \in Seq(S) /\ <<e, f>> \in Seq(S)
      /\ Len(<<e>>) = 1 /\ Len(<<f>>) = 1 /\ Len(<<e, f>>) = 2
      /\ <<e>>[1] = e /\ <<f>>[1] = f /\ <<e, f>>[1] = e /\ <<e, f>>[2] = f
  OBVIOUS
<1>2. <<e>> \o <<>> = <<e>>
  BY <1>1, ConcatEmptySeq
<1> DEFINE s == <<e>>
           t == <<f>>
           u == <<e, f>>
<1> HIDE DEF s, t, u
<1>3. /\ s \o t \in Seq(S) /\ Len(s \o t) = 2
      /\ (s \o t)[1] = e /\ (s \o t)[2] = f
  <2>1. /\ s \in Seq(S) /\ t \in Seq(S) /\ Len(s) = 1 /\ Len(t) = 1
        /\ s[1] = e /\ t[1] = f
    BY <1>1 DEF s, t
  <2>2. /\ s \o t \in Seq(S) /\ Len(s \o t) = 1 + 1
        /\ \A i \in 1..1 + 1 : (s \o t)[i] = IF i <= 1 THEN s[i] ELSE t[i - 1]
    BY <2>1, ConcatProperties
  <2> QED BY <2>1, <2>2
<1>4. u \in Seq(S) /\ Len(u) = 2 /\ u[1] = e /\ u[2] = f
  BY <1>1 DEF u
<1>5. \A i \in 1..2 : (s \o t)[i] = u[i]
  BY <1>3, <1>4
<1>6. s \o t = u
  BY <1>3, <1>4, <1>5, SeqEqual
<1> QED BY <1>2, <1>6 DEF s, t, u

LEMMA AtMostTwoPieces ==
  ASSUME LinkInv, out # <<>>
  PROVE  out \in Seq(Seq(Byte)) /\ (Len(out) = 1 \/ Len(out) = 2)
<1>1. out \in Seq(Seq(Byte)) /\ Len(out) <= 2 /\ Len(out) \in Nat
  BY LenProperties DEF LinkInv, LinkTypeOK
<1> DEFINE k == Len(out)
<1>2. k \in Nat /\ k <= 2 /\ k # 0
  BY <1>1, EmptySeq
<1> HIDE DEF k
<1>3. k = 1 \/ k = 2
  BY <1>2
<1> QED BY <1>1, <1>3 DEF k

(* What the two write_all have left is a sequence of bytes, and one that   *)
(* was not read from, lost or written twice.                               *)
LEMMA UnwrittenBytes ==
  ASSUME LinkInv
  PROVE  Unwritten \in Seq(Byte)
<1>1. CASE out = <<>>
  BY <1>1, EmptySeq DEF Unwritten
<1>2. CASE out # <<>>
  <2>1. CASE Len(out) = 1
    BY <1>2, <2>1, AtMostTwoPieces, OnePiece DEF Unwritten
  <2>2. CASE Len(out) = 2
    <3>1. out[1] \in Seq(Byte) /\ out[2] \in Seq(Byte)
      BY <1>2, <2>2, AtMostTwoPieces, TwoPieces
    <3> QED BY <1>2, <2>2, <3>1, ConcatProperties DEF Unwritten
  <2> QED BY <1>2, <2>1, <2>2, AtMostTwoPieces
<1> QED BY <1>1, <1>2

(* A step of write_all moves bytes from one side to the other.             *)
LEMMA WritesMove ==
  ASSUME LinkInv, NEW n \in 0..Room, Writes(n)
  PROVE  /\ back' \o Unwritten' = back \o Unwritten
         /\ back' \in Seq(Byte) /\ Unwritten' \in Seq(Byte)
<1> DEFINE h == Head(out)
           p == SubSeq(h, 1, n)
           q == Drop(h, n)
<1>1. /\ out # <<>> /\ n \in 0..AtMost(Len(h), Room - Len(back))
      /\ back' = back \o p
      /\ out' = IF n = Len(h) THEN Tail(out) ELSE <<q>> \o Tail(out)
  BY DEF Writes
<1>2. /\ h \in Seq(Byte) /\ Tail(out) \in Seq(Seq(Byte))
      /\ p \in Seq(Byte) /\ q \in Seq(Byte) /\ p \o q = h
  BY <1>1, WritesWithin
<1>3. n = Len(h) => p = h
  BY <1>2, SubSeqFull
<1> HIDE DEF h, p, q
<1>4. /\ out \in Seq(Seq(Byte)) /\ back \in Seq(Byte)
      /\ (Len(out) = 1 \/ Len(out) = 2)
  BY <1>1, AtMostTwoPieces DEF LinkInv, LinkTypeOK
<1>5. p \o Unwritten' = Unwritten /\ Unwritten' \in Seq(Byte)
  <2>1. CASE Len(out) = 1
    <3>1. h = out[1] /\ Tail(out) = <<>> /\ Unwritten = h
      BY <1>1, <1>4, <2>1, OnePiece DEF h, Unwritten
    <3>2. CASE n = Len(h)
      <4>1. out' = <<>> /\ Unwritten' = <<>>
        BY <1>1, <3>1, <3>2 DEF Unwritten
      <4> QED BY <1>2, <1>3, <3>1, <3>2, <4>1, ConcatEmptySeq, EmptySeq
    <3>3. CASE n # Len(h)
      <4>1. out' = <<q>>
        BY <1>1, <1>2, <3>1, <3>3, PieceBefore
      <4>2. Unwritten' = q
        BY <4>1 DEF Unwritten
      <4> QED BY <1>2, <3>1, <4>2
    <3> QED BY <3>2, <3>3
  <2>2. CASE Len(out) = 2
    <3> DEFINE r == out[2]
    <3>1. /\ h = out[1] /\ Tail(out) = <<r>> /\ Unwritten = h \o r
          /\ r \in Seq(Byte)
      BY <1>1, <1>4, <2>2, TwoPieces DEF h, Unwritten
    <3> HIDE DEF r
    <3>2. CASE n = Len(h)
      <4>1. out' = <<r>>
        BY <1>1, <3>1, <3>2
      <4>2. Unwritten' = r
        BY <4>1 DEF Unwritten
      <4> QED BY <1>3, <3>1, <3>2, <4>2
    <3>3. CASE n # Len(h)
      <4>1. out' = <<q, r>>
        BY <1>1, <1>2, <3>1, <3>3, PieceBefore
      <4>2. Unwritten' = q \o r
        BY <4>1 DEF Unwritten
      <4>3. p \o (q \o r) = (p \o q) \o r
        <5>1. p \in Seq(Byte) /\ q \in Seq(Byte) /\ r \in Seq(Byte)
          BY <1>2, <3>1
        <5> QED BY <5>1, Regroup, Zenon
      <4> QED BY <1>2, <3>1, <4>2, <4>3, ConcatProperties
    <3> QED BY <3>2, <3>3
  <2> QED BY <1>4, <2>1, <2>2
<1>6. (back \o p) \o Unwritten' = back \o (p \o Unwritten')
  <2>1. back \in Seq(Byte) /\ p \in Seq(Byte) /\ Unwritten' \in Seq(Byte)
    BY <1>2, <1>4, <1>5
  <2> QED BY <2>1, Regroup, Zenon
<1>7. back \o p \in Seq(Byte)
  BY <1>2, <1>4, ConcatProperties
<1> QED BY <1>1, <1>5, <1>6, <1>7

(* Who reads to the end of the prefix of a frame has read it.              *)
LEMMA WholeFrame ==
  ASSUME NEW body \in Seq(Byte), Len(body) \in Lengths,
         NEW got \in Seq(Byte), NEW rest \in Seq(Byte),
         got \o rest = Frame(body), Awaited(got) = 0
  PROVE  Drop(got, PrefixLen) = body /\ rest = <<>>
<1>1. /\ PrefixLen \in Nat /\ Len(got) \in Nat /\ PrefixLen <= Len(got)
      /\ Len(rest) \in Nat /\ Len(body) \in Nat
  BY AwaitedNumber, WeightFacts, LenProperties
<1>2. SubSeq(got, 1, PrefixLen) = little_endian(Len(body))
  <2>1. PrefixLen \in 0..Len(got) /\ 0 \in 0..PrefixLen /\ 0 + 1 = 1
    BY <1>1
  <2>2. SubSeq(got \o rest, 0 + 1, PrefixLen) = SubSeq(got, 0 + 1, PrefixLen)
    BY <2>1, SegmentOfBeginning
  <2>3. SubSeq(Frame(body), 1, PrefixLen) = little_endian(Len(body))
    BY FrameProperties
  <2> QED BY <2>1, <2>2, <2>3, Zenon
<1>3. from_le_bytes(got) = Len(body)
  BY <1>1, <1>2, ReadsTheLength
<1>4. Len(got) = PrefixLen + Len(body)
  <2>1. Awaited(got) = PrefixLen + Len(body) - Len(got)
    <3>1. ~(Len(got) < PrefixLen)
      BY <1>1
    <3> QED BY <1>3, <3>1 DEF Awaited
  <2> QED BY <1>1, <2>1
<1>5. Len(got \o rest) = Len(got) + Len(rest)
  BY ConcatProperties
<1>6. Len(rest) = 0
  <2>1. Len(Frame(body)) = PrefixLen + Len(body)
    BY FrameProperties
  <2> QED BY <1>1, <1>4, <1>5, <2>1
<1>7. rest = <<>>
  BY <1>6, EmptySeq
<1>8. got = Frame(body)
  BY <1>7, ConcatEmptySeq
<1> QED BY <1>7, <1>8, FrameProperties

(* An answer fits what a length can say.                                   *)
LEMMA AnswerFits ==
  ASSUME NEW frame \in Seq(Byte), Len(frame) <= MaxRxFrame
  PROVE  Response(frame) \in Seq(Byte) /\ Len(Response(frame)) \in Lengths
<1>1. Len(frame) \in 0..MaxRxFrame /\ frame \in [1..Len(frame) -> Byte]
  BY LenProperties, LinkAssumption, WeightFacts
<1> QED BY <1>1, ResponseAssumption

(* What is left of the answer under way.                                   *)
AnswerBytes == (inbuf \o back) \o Unwritten

LEMMA AnswerBytesSeq ==
  ASSUME LinkInv
  PROVE  /\ inbuf \in Seq(Byte) /\ back \in Seq(Byte) /\ Unwritten \in Seq(Byte)
         /\ inbuf \o back \in Seq(Byte) /\ AnswerBytes \in Seq(Byte)
         /\ AnswerBytes = <<>> => inbuf = <<>> /\ back = <<>> /\ Unwritten = <<>>
<1>1. inbuf \in Seq(Byte) /\ back \in Seq(Byte) /\ Unwritten \in Seq(Byte)
  BY UnwrittenBytes DEF LinkInv, LinkTypeOK
<1>2. inbuf \o back \in Seq(Byte)
  BY <1>1, ConcatProperties
<1> DEFINE x == inbuf \o back
<1>3. x \in Seq(Byte)
  BY <1>2
<1> HIDE DEF x
<1>4. /\ x \o Unwritten \in Seq(Byte)
      /\ x \o Unwritten = <<>> => x = <<>> /\ Unwritten = <<>>
  BY <1>1, <1>3, ConcatProperties, ConcatEqualIffEmpty
<1>5. x = <<>> => inbuf = <<>> /\ back = <<>>
  BY <1>1, ConcatEqualIffEmpty DEF x
<1> QED BY <1>1, <1>2, <1>4, <1>5 DEF x, AnswerBytes

(* Where a patient host and the device stand.                              *)
Paired ==
  /\ \A i \in 1..Len(returned) : returned[i] = Response(sent[i])
  /\ IF calling THEN /\ Len(returned) = Len(sent) - 1
                     /\ Len(served) = Len(sent) \/ Len(served) = Len(sent) - 1
                ELSE Len(returned) = Len(sent) /\ Len(served) = Len(sent)
  /\ AnswerBytes = IF calling /\ Len(served) = Len(sent)
                     THEN Frame(Response(sent[Len(sent)])) ELSE <<>>

LEMMA AnswerInvPaired == LinkInv => (AnswerInv <=> (tidy /\ patient => Paired))
<1> SUFFICES ASSUME LinkInv PROVE AnswerInv <=> (tidy /\ patient => Paired)
  OBVIOUS
<1>1. calling \in BOOLEAN
  BY DEF LinkInv, LinkTypeOK
<1> QED BY <1>1, Zenon DEF AnswerInv, Paired, CallsPaired, AnswerBytes

(* Steps that only move the bytes of the answer.                           *)
LEMMA PairedKept ==
  ASSUME Paired, UNCHANGED <<calling, sent, served, returned>>,
         AnswerBytes' = AnswerBytes
  PROVE  Paired'
  BY DEF Paired

LEMMA CallKeepsPaired ==
  ASSUME LinkInv, Paired, NEW body \in Bodies, NEW n \in 0..Len(Frame(body)),
         Call(body, n)
  PROVE  Paired'
<1>1. /\ ~calling /\ calling' /\ sent' = Append(sent, body)
      /\ UNCHANGED <<out, inbuf, back, served, returned>>
  BY DEF Call, device
<1>2. /\ sent \in Seq(Bodies) /\ Len(sent) \in Nat
      /\ Len(sent') = Len(sent) + 1 /\ \A k \in 1..Len(sent) : sent'[k] = sent[k]
  BY <1>1, AppendProperties, LenProperties DEF LinkInv
<1>3. /\ Len(returned) = Len(sent) /\ Len(served) = Len(sent) /\ AnswerBytes = <<>>
      /\ \A i \in 1..Len(returned) : returned[i] = Response(sent[i])
  BY <1>1 DEF Paired
<1>4. AnswerBytes' = AnswerBytes
  BY <1>1 DEF AnswerBytes, Unwritten
<1>5. \A i \in 1..Len(returned') : returned'[i] = Response(sent'[i])
  BY <1>1, <1>2, <1>3
<1>6. /\ Len(returned') = Len(sent') - 1 /\ Len(served') = Len(sent') - 1
      /\ Len(served') # Len(sent')
  BY <1>1, <1>2, <1>3
<1> QED BY <1>1, <1>3, <1>4, <1>5, <1>6 DEF Paired

LEMMA HostReadsKeepsPaired ==
  ASSUME LinkInv, StreamInv, tidy, Paired, NEW n \in 1..Len(back), HostReads(n)
  PROVE  Paired'
<1> DEFINE p == SubSeq(back, 1, n)
           q == Drop(back, n)
           got == inbuf \o p
           answer == Response(sent[Len(sent)])
<1>1. /\ calling /\ n \in 1..AtMost(Awaited(inbuf), Len(back)) /\ back' = q
      /\ UNCHANGED <<out, sent, served>>
  BY DEF HostReads, device
<1>2. /\ n \in 1..Len(back) /\ p \in Seq(Byte) /\ q \in Seq(Byte) /\ p \o q = back
      /\ got \in Seq(Byte)
  BY <1>1, HostReadsWithin
<1>3. /\ inbuf \in Seq(Byte) /\ Unwritten \in Seq(Byte) /\ Unwritten' = Unwritten
  BY <1>1, AnswerBytesSeq DEF Unwritten
<1> HIDE DEF p, q
<1>4. got \o q = inbuf \o back
  <2>1. inbuf \in Seq(Byte) /\ p \in Seq(Byte) /\ q \in Seq(Byte)
    BY <1>2, <1>3
  <2>2. (inbuf \o p) \o q = inbuf \o (p \o q)
    BY <2>1, Regroup, Zenon
  <2> QED BY <1>2, <2>2
<1>5. Len(served) = Len(sent) /\ AnswerBytes = Frame(answer)
  <2>1. CASE AnswerBytes = <<>>
    <3>1. back = <<>>
      BY <2>1, AnswerBytesSeq
    <3> QED BY <3>1
  <2> QED BY <1>1, <2>1 DEF Paired
<1>6. /\ Len(returned) = Len(sent) - 1 /\ returned \in Seq(Seq(Byte))
      /\ Len(returned) \in Nat /\ Len(sent) \in Nat /\ Len(sent) \in 1..Len(sent)
  <2>1. Len(returned) = Len(sent) - 1 /\ returned \in Seq(Seq(Byte))
    BY <1>1 DEF Paired, LinkInv
  <2> QED BY <2>1, StreamBytes, LenProperties
<1>7. CASE Awaited(got) = 0
  <2>1. /\ returned' = Append(returned, Drop(got, PrefixLen))
        /\ calling' = FALSE /\ inbuf' = <<>>
    BY <1>7 DEF HostReads, p
  <2>2. answer \in Seq(Byte) /\ Len(answer) \in Lengths
    <3>1. sent[Len(sent)] \in Seq(Byte) /\ Len(sent[Len(sent)]) <= MaxRxFrame
      BY <1>6, StreamBytes, ElementOfSeq, BodyFrame DEF StreamInv
    <3> QED BY <3>1, AnswerFits
  <2> HIDE DEF got, answer
  <2>3. got \o (q \o Unwritten) = Frame(answer) /\ q \o Unwritten \in Seq(Byte)
    <3>1. (got \o q) \o Unwritten = got \o (q \o Unwritten)
      BY <1>2, <1>3, Regroup, Zenon
    <3>2. (got \o q) \o Unwritten = Frame(answer)
      BY <1>4, <1>5 DEF AnswerBytes
    <3> QED BY <1>2, <1>3, <3>1, <3>2, ConcatProperties
  <2>4. Drop(got, PrefixLen) = answer /\ q \o Unwritten = <<>>
    BY <1>2, <1>7, <2>2, <2>3, WholeFrame
  <2>5. q = <<>> /\ Unwritten = <<>>
    BY <1>2, <1>3, <2>4, ConcatEqualIffEmpty
  <2>6. AnswerBytes' = <<>>
    BY <1>1, <1>3, <2>1, <2>5 DEF AnswerBytes
  <2>7. /\ Len(returned') = Len(sent)
        /\ \A i \in 1..Len(returned') : returned'[i] = Response(sent[i])
    <3>1. returned' = Append(returned, answer)
      BY <2>1, <2>4
    <3>2. /\ Len(returned') = Len(returned) + 1 /\ returned'[Len(returned) + 1] = answer
          /\ \A i \in 1..Len(returned) : returned'[i] = returned[i]
      BY <1>6, <2>2, <3>1, AppendProperties
    <3>3. \A i \in 1..Len(returned) : returned[i] = Response(sent[i])
      BY DEF Paired
    <3>4. Len(returned') = Len(sent) /\ Len(returned) + 1 = Len(sent)
      BY <1>6, <3>2
    <3>5. \A i \in 1..Len(returned') : i \in 1..Len(returned) \/ i = Len(sent)
      BY <1>6, <3>2
    <3> QED BY <3>2, <3>3, <3>4, <3>5 DEF answer
  <2> QED BY <1>1, <1>5, <2>1, <2>6, <2>7 DEF Paired
<1>8. CASE Awaited(got) # 0
  <2>1. inbuf' = got /\ UNCHANGED <<calling, returned>>
    BY <1>8 DEF HostReads, p
  <2>2. AnswerBytes' = AnswerBytes
    BY <1>1, <1>3, <1>4, <2>1 DEF AnswerBytes
  <2> QED BY <1>1, <2>1, <2>2, PairedKept
<1> QED BY <1>7, <1>8

(* A frame is served only for a call that waits.                           *)
LEMMA ServeKeepsPaired ==
  ASSUME LinkInv, StreamInv, tidy, Paired, ServeFrame, StreamInv', tidy'
  PROVE  Paired'
<1> DEFINE frame == SubSeq(rx, PrefixLen + 1, PrefixLen + Announced)
           r == Response(frame)
<1>1. /\ served' = Append(served, frame) /\ out' = <<little_endian(Len(r)), r>>
      /\ pc = "extract" /\ UNCHANGED <<back, inbuf, calling, sent, returned>>
  BY DEF ServeFrame, host
<1>2. /\ r \in Seq(Byte) /\ Len(r) \in Lengths /\ frame \in Seq(Byte)
  BY ServedFrame
<1> HIDE DEF frame, r
<1>3. /\ served \in Seq(Seq(Byte)) /\ Len(served) \in Nat /\ Len(sent) \in Nat
      /\ Len(served') = Len(served) + 1 /\ served'[Len(served) + 1] = frame
      /\ sent \in Seq(Bodies)
  BY <1>1, <1>2, StreamBytes, AppendProperties
<1>4. Len(served') <= Len(sent) /\ served' = SubSeq(sent, 1, Len(served'))
  BY <1>1 DEF StreamInv, ServedAsSent
<1>5. calling /\ Len(served) = Len(sent) - 1 /\ Len(served') = Len(sent)
  BY <1>3, <1>4 DEF Paired
<1>6. frame = sent[Len(sent)]
  <2>1. Len(sent) \in 0..Len(sent) /\ Len(sent) \in 1..Len(sent)
    BY <1>3, <1>5
  <2>2. SubSeq(sent, 1, Len(sent))[Len(sent)] = sent[Len(sent)]
    BY <1>3, <2>1, DropProperties
  <2>3. Len(served) + 1 = Len(sent)
    BY <1>3, <1>5
  <2> QED BY <1>3, <1>4, <1>5, <2>2, <2>3
<1>7. AnswerBytes' = Frame(r)
  <2>1. inbuf = <<>> /\ back = <<>>
    <3>1. AnswerBytes = <<>>
      BY <1>3, <1>5 DEF Paired
    <3> QED BY <3>1, AnswerBytesSeq
  <2>2. Unwritten' = Frame(r)
    BY <1>1 DEF Unwritten, Frame
  <2>3. Frame(r) \in Seq(Byte)
    BY <1>2, FrameProperties
  <2>4. inbuf' \o back' = <<>>
    BY <1>1, <2>1
  <2> QED BY <2>2, <2>3, <2>4, ConcatEmptySeq DEF AnswerBytes
<1>8. Frame(r) = Frame(Response(sent'[Len(sent')]))
  BY <1>1, <1>6 DEF r
<1>9. \A i \in 1..Len(returned) : returned[i] = Response(sent[i])
  BY DEF Paired
<1>10. Len(returned) = Len(sent) - 1
  BY <1>5 DEF Paired
<1> QED BY <1>1, <1>5, <1>7, <1>8, <1>9, <1>10 DEF Paired

LEMMA DeviceKeepsPaired ==
  ASSUME LinkInv, StreamInv, tidy, Paired, Device, StreamInv', tidy'
  PROVE  Paired'
<1>1. CASE ServeFrame
  BY <1>1, ServeKeepsPaired
<1>2. ASSUME NEW n \in 0..Room, Writes(n) PROVE Paired'
  <2>1. UNCHANGED <<calling, inbuf, sent, served, returned>>
    BY <1>2 DEF Writes, host, record
  <2>2. back' \o Unwritten' = back \o Unwritten
    BY <1>2, WritesMove
  <2>4. back' \in Seq(Byte) /\ Unwritten' \in Seq(Byte)
    BY <1>2, WritesMove
  <2>5. AnswerBytes' = inbuf \o (back' \o Unwritten')
    <3>1. inbuf \in Seq(Byte)
      BY AnswerBytesSeq
    <3>2. (inbuf \o back') \o Unwritten' = inbuf \o (back' \o Unwritten')
      BY <2>4, <3>1, Regroup, Zenon
    <3> QED BY <2>1, <3>2 DEF AnswerBytes
  <2>6. AnswerBytes = inbuf \o (back \o Unwritten)
    <3>1. inbuf \in Seq(Byte) /\ back \in Seq(Byte) /\ Unwritten \in Seq(Byte)
      BY AnswerBytesSeq
    <3> QED BY <3>1, Regroup, Zenon DEF AnswerBytes
  <2> QED BY <2>1, <2>2, <2>5, <2>6, PairedKept
<1>3. CASE UNCHANGED <<host, back, out, sent, served, returned>>
  BY <1>3, PairedKept DEF AnswerBytes, Unwritten, host
<1>4. CASE ~ServeFrame /\ \A n \in 0..Room : ~Writes(n)
  BY <1>3, <1>4 DEF Device, DeviceReads, AwaitMore, DropOversized, Drain, record
<1> QED BY <1>1, <1>2, <1>4

LEMMA AnswerInvKept ==
  ASSUME LinkInv, StreamInv, AnswerInv, [LinkNext]_linkVars
  PROVE  AnswerInv'
<1>1. LinkInv' /\ StreamInv'
  BY LinkInvKept, StreamInvKept
<1>2. LinkInv' => (AnswerInv' <=> (tidy' /\ patient' => Paired'))
  BY AnswerInvPaired, PTL
<1> SUFFICES ASSUME tidy', patient' PROVE Paired'
  BY <1>1, <1>2
<1>3. tidy /\ patient
  BY DEF LinkNext, Device, DeviceReads, AwaitMore, DropOversized, ServeFrame,
    Writes, Drain, WriteFails, Calls, Call, Reading, HostReads, GivesUp, Drains,
    linkVars, record
<1>4. Paired
  BY <1>3, AnswerInvPaired
<1>5. CASE Calls
  BY <1>4, <1>5, CallKeepsPaired DEF Calls
<1>6. CASE Reading
  BY <1>3, <1>4, <1>6, HostReadsKeepsPaired DEF Reading
<1>7. CASE Device
  BY <1>1, <1>3, <1>4, <1>7, DeviceKeepsPaired
<1>8. CASE WriteFails \/ GivesUp \/ Drains
  BY <1>3, <1>8 DEF WriteFails, GivesUp, Drains
<1>9. CASE UNCHANGED linkVars
  BY <1>4, <1>9, PairedKept DEF linkVars, device, host, record, AnswerBytes,
    Unwritten
<1> QED BY <1>5, <1>6, <1>7, <1>8, <1>9 DEF LinkNext

(* Where no call was given up and no write ended early, every call         *)
(* returned the answer to its own request, however the frames and the      *)
(* answers were cut.                                                       *)
THEOREM CallsPairedAlways == LinkSpec => []CallsPaired
<1>1. LinkInit => AnswerInv
  <2> SUFFICES ASSUME LinkInit PROVE Paired
    BY LinkInvFirst, AnswerInvPaired
  <2>1. /\ sent = <<>> /\ served = <<>> /\ returned = <<>> /\ ~calling
        /\ inbuf = <<>> /\ back = <<>> /\ out = <<>>
    BY DEF LinkInit
  <2>2. AnswerBytes = <<>>
    BY <2>1 DEF AnswerBytes, Unwritten
  <2>3. 1..Len(<<>>) = {}
    OBVIOUS
  <2> QED BY <2>1, <2>2, <2>3 DEF Paired
<1>2. LinkSpec => []StreamInv
  BY StreamInvFirst, StreamInvKept, LinkInvHolds, PTL DEF LinkSpec
<1>3. LinkSpec => []AnswerInv
  BY <1>1, <1>2, AnswerInvKept, LinkInvHolds, PTL DEF LinkSpec
<1>4. AnswerInv => CallsPaired
  BY DEF AnswerInv, CallsPaired
<1> QED BY <1>3, <1>4, PTL
=============================================================================
