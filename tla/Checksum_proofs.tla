-------------------------- MODULE Checksum_proofs --------------------------
(***************************************************************************)
(* The sum never overflows, whatever the data and its length; the folds    *)
(* change nothing; a test accepts what the Internet checksum accepts, and  *)
(* with it the header the router wrote, but not one of which a byte        *)
(* changed.                                                                *)
(***************************************************************************)
EXTENDS Checksum, SequenceTheorems, WellFoundedInduction, TLAPS

Byte == 0..(Base - 1)

(* How the ranges of a byte, a word and the sum relate. *)
LEMMA Widths ==
    /\ Base \in Nat /\ Base >= 2
    /\ W16 \in Nat /\ W16 >= 4 /\ W16 >= 2 * Base
    /\ W32 \in Nat /\ W32 >= 4 * W16
<1>1. Base \in Nat /\ Base >= 2
  BY BaseAssumption
<1>2. \A m, n, k \in Nat : m >= k => m * n >= k * n
  BY SMT
<1>3. W16 \in Nat /\ W16 >= 2 * Base
  BY <1>1, <1>2 DEF W16
<1>4. W16 >= 4
  BY <1>1, <1>3
<1>5. W32 \in Nat /\ W32 >= 4 * W16
  BY <1>2, <1>3, <1>4 DEF W32
<1> QED
  BY <1>1, <1>3, <1>4, <1>5

(* A word of two bytes is below W16. *)
LEMMA WordRange ==
    ASSUME NEW b \in Byte, NEW c \in Byte
    PROVE  b + Base * c \in 0..(W16 - 1)
<1>1. Base \in Nat /\ b \in Nat /\ c \in Nat /\ b <= Base - 1 /\ c <= Base - 1
  BY Widths DEF Byte
<1>2. Base * c >= 0 /\ Base * c <= Base * (Base - 1) /\ Base * c \in Nat
  BY <1>1, SMT
<1>3. Base * (Base - 1) = W16 - Base
  BY <1>1 DEF W16
<1> QED
  BY <1>1, <1>2, <1>3, Widths

(* After a fold the top bit is clear. *)
LEMMA FoldedRange ==
    ASSUME NEW n \in 0..(W32 - 1)
    PROVE  Folded(n) \in Nat /\ Folded(n) < W32 \div 2
<1>1. /\ n \in Nat /\ W16 \in Nat \ {0}
      /\ n % W16 \in 0..(W16 - 1) /\ n \div W16 \in Nat
      /\ n = W16 * (n \div W16) + (n % W16)
  BY Widths
<1>2. n \div W16 < W16
  <2> SUFFICES ASSUME n \div W16 >= W16 PROVE FALSE
    BY <1>1
  <2>1. W16 * (n \div W16) >= W16 * W16
    BY <1>1
  <2> QED
    BY <1>1, <2>1 DEF W32
<1>3. 2 * W16 <= W32 \div 2
  BY Widths
<1> QED
  BY <1>1, <1>2, <1>3, Widths DEF Folded

(* Added leaves a sum with a clear top bit. *)
LEMMA AddedRange ==
    ASSUME NEW w \in 0..(W16 - 1), sum \in Nat, sum < W32 \div 2
    PROVE  /\ sum + w < W32
           /\ Added(w) \in Nat /\ Added(w) < W32 \div 2
<1>1. sum + w \in 0..(W32 - 1)
  BY Widths
<1>2. (sum + w) % W32 = sum + w
  BY <1>1, Widths
<1>3. CASE sum + w >= W32 \div 2
  BY <1>1, <1>2, <1>3, FoldedRange, Widths DEF Added
<1>4. CASE ~(sum + w >= W32 \div 2)
  BY <1>1, <1>2, <1>4, Widths DEF Added
<1> QED
  BY <1>1, <1>3, <1>4, Widths

(* A header stays a sequence of bytes when one of them, or its check       *)
(* field, changes.                                                         *)
LEMMA ByteSet ==
    ASSUME NEW h \in Seq(Byte), NEW i \in Nat, NEW b \in Byte
    PROVE  [h EXCEPT ![i] = b] \in Seq(Byte)
<1>1. CASE i \in 1..Len(h)
  BY <1>1, ExceptSeq
<1>2. CASE i \notin 1..Len(h)
  <2>1. i \notin DOMAIN h /\ h = [j \in DOMAIN h |-> h[j]]
    BY <1>2
  <2>2. [h EXCEPT ![i] = b] = h
    BY <2>1, Zenon
  <2> QED
    BY <2>2
<1> QED
  BY <1>1, <1>2

(* A header stays a header when its checksum is stored (main.c:234).       *)
LEMMA CheckSet ==
    ASSUME NEW h \in Seq(Byte), NEW v \in 0..(W16 - 1)
    PROVE  SetCheck(h, v) \in Seq(Byte)
<1>1. /\ v \in Nat /\ Base \in Nat \ {0}
      /\ v % Base \in Byte /\ v \div Base \in Nat
      /\ v = Base * (v \div Base) + (v % Base)
  BY Widths DEF Byte
<1>2. v \div Base < Base
  <2> SUFFICES ASSUME v \div Base >= Base PROVE FALSE
    BY <1>1, Widths
  <2>1. Base * (v \div Base) >= Base * Base
    BY <1>1, Widths
  <2> QED
    BY <1>1, <2>1, Widths DEF W16, Byte
<1>3. v \div Base \in Byte
  BY <1>1, <1>2, Widths DEF Byte
<1>4. [h EXCEPT ![CheckAt] = v % Base] \in Seq(Byte)
  BY <1>1, ByteSet, PieceAssumption
<1>5. SetCheck(h, v) = [[h EXCEPT ![CheckAt] = v % Base] EXCEPT ![CheckAt + 1] = v \div Base]
  BY DEF SetCheck
<1> QED
  BY <1>3, <1>4, <1>5, ByteSet, PieceAssumption

(* The next word of a piece, and what follows it. *)
LEMMA Words ==
    ASSUME NEW s \in Seq(Byte), Len(s) > 1
    PROVE  ReadWord(s) \in 0..(W16 - 1) /\ Rest(s) \in Seq(Byte)
<1>1. s[1] \in Byte /\ s[2] \in Byte
  OBVIOUS
<1>2. Rest(s) \in Seq(Byte)
  BY DEF Rest
<1> QED
  BY <1>1, <1>2, WordRange DEF ReadWord

(* What makes NoWrap inductive: bytes are bytes, and in the loops the top  *)
(* bit of the sum is clear.                                                *)
Pieces == head \in Seq(Byte) /\ option \in Seq(Byte) /\ first \in Seq(Byte) /\ second \in Seq(Byte)

Bounded ==
    /\ sum \in Nat
    /\ pc \in {"first", "second"} => sum < W32 \div 2
    /\ pc = "carry" => sum < W32

SumInv == Pieces /\ Bounded

(* No sum has begun at first.                                              *)
LEMMA InitSum == Init => SumInv
  BY PieceAssumption, Widths DEF Init, SumInv, Pieces, Bounded, Byte

(* Every step keeps the invariant. *)
LEMMA NextSum == SumInv /\ [Next]_vars => SumInv'
<1> SUFFICES ASSUME SumInv, [Next]_vars PROVE SumInv'
  OBVIOUS
<1> USE Widths DEF SumInv, Pieces, Bounded
<1>1. CASE Write
  <2>1. 0 \in 0..(W16 - 1)
    OBVIOUS
  <2>2. SetCheck(head, 0) \in Seq(Byte)
    BY <2>1, CheckSet
  <2>3. head' \in Seq(Byte) /\ first' = head' /\ second' = option
    BY <1>1, <2>2 DEF Write, Start
  <2>4. option' = option /\ sum' = 0 /\ pc' = "first"
    BY <1>1 DEF Write, Start
  <2> QED
    BY <2>3, <2>4
<1>2. CASE Test
  <2>1. <<>> \in Seq(Byte)
    OBVIOUS
  <2>2. first' \in Seq(Byte) /\ second' \in Seq(Byte) /\ sum' = 0 /\ pc' = "first"
    BY <1>2, <2>1 DEF Test, Start
  <2>3. head' = head /\ option' = option
    BY <1>2 DEF Test
  <2> QED
    BY <2>2, <2>3
<1>3. CASE TestData
  BY <1>3 DEF TestData, Start
<1>4. ASSUME NEW i \in DOMAIN head, NEW b \in 0..(Base - 1), Damage(i, b) PROVE SumInv'
  <2>1. head' = [head EXCEPT ![i] = b] /\ i \in Nat /\ b \in Byte
    <3>1. DOMAIN head = 1..Len(head)
      BY LenProperties DEF SumInv, Pieces
    <3> QED
      BY <1>4, <3>1 DEF Damage, Byte
  <2>2. head' \in Seq(Byte)
    BY <2>1, ByteSet
  <2> QED
    BY <1>4, <2>2 DEF Damage
<1>5. CASE AddFirst
  <2>1. ReadWord(first) \in 0..(W16 - 1) /\ Rest(first) \in Seq(Byte)
    BY <1>5, Words DEF AddFirst
  <2>2. sum < W32 \div 2
    BY <1>5 DEF AddFirst
  <2>3. Added(ReadWord(first)) \in Nat /\ Added(ReadWord(first)) < W32 \div 2
    BY <2>1, <2>2, AddedRange
  <2> QED
    BY <1>5, <2>1, <2>3 DEF AddFirst
<1>6. CASE EndFirst
  BY <1>6 DEF EndFirst
<1>7. CASE AddSecond
  <2>1. ReadWord(second) \in 0..(W16 - 1) /\ Rest(second) \in Seq(Byte)
    BY <1>7, Words DEF AddSecond
  <2>2. sum < W32 \div 2
    BY <1>7 DEF AddSecond
  <2>3. Added(ReadWord(second)) \in Nat /\ Added(ReadWord(second)) < W32 \div 2
    BY <2>1, <2>2, AddedRange
  <2> QED
    BY <1>7, <2>1, <2>3 DEF AddSecond
<1>8. CASE EndSecond
  <2>1. sum < W32 \div 2 /\ second' = <<>> /\ pc' = "carry"
    BY <1>8 DEF EndSecond
  <2>2. CASE second = <<>>
    BY <1>8, <2>1, <2>2 DEF EndSecond
  <2>3. CASE second # <<>>
    <3>1. second[1] \in Byte
      BY <2>3
    <3>2. sum' = (sum + second[1]) % W32
      BY <1>8, <2>3 DEF EndSecond
    <3>3. sum + second[1] \in Nat
      BY <3>1 DEF Byte
    <3>4. sum' \in Nat /\ sum' < W32
      BY <3>2, <3>3
    <3> QED
      BY <1>8, <2>1, <3>4 DEF EndSecond
  <2> QED
    BY <2>2, <2>3
<1>9. CASE Carry
  <2>1. sum \in 0..(W32 - 1)
    BY <1>9 DEF Carry
  <2>2. Folded(sum) \in Nat /\ Folded(sum) < W32
    BY <2>1, FoldedRange
  <2> QED
    BY <1>9, <2>2 DEF Carry
<1>10. CASE Return
  <2>1. check' \in 0..(W16 - 1)
    BY <1>10 DEF Return
  <2>2. SetCheck(head, check') \in Seq(Byte)
    BY <2>1, CheckSet
  <2> QED
    BY <1>10, <2>2 DEF Return
<1>11. CASE TestShort
  <2>1. <<>> \in Seq(Byte)
    OBVIOUS
  <2>2. first' = head /\ second' = <<>> /\ sum' = 0 /\ pc' = "first"
    BY <1>11 DEF TestShort, Start
  <2>3. head' = head /\ option' = option
    BY <1>11 DEF TestShort
  <2> QED
    BY <2>1, <2>2, <2>3
<1>12. CASE UNCHANGED vars
  BY <1>12 DEF vars
<1> QED
  BY <1>1, <1>2, <1>3, <1>4, <1>5, <1>6, <1>7, <1>8, <1>9, <1>10, <1>11, <1>12 DEF Next

(* No addition of the loops overflows the 32 bits of sum, for data of any  *)
(* length and bytes of any width (netutil.c:183, netutil.c:235).           *)
THEOREM NeverWraps == Spec => []NoWrap
<1>1. SumInv => NoWrap
  <2> SUFFICES ASSUME SumInv PROVE NoWrap
    OBVIOUS
  <2> USE Widths DEF SumInv, Pieces, Bounded
  <2>1. ASSUME pc = "first", Len(first) > 1 PROVE sum + ReadWord(first) < W32
    BY <2>1, Words, AddedRange
  <2>2. ASSUME pc = "second", Len(second) > 1 PROVE sum + ReadWord(second) < W32
    BY <2>2, Words, AddedRange
  <2>3. ASSUME pc = "second", Len(second) = 1 PROVE sum + second[1] < W32
    <3>1. second \in Seq(Byte) /\ 1 \in 1..Len(second)
      BY <2>3
    <3>2. second[1] \in Byte
      BY <3>1, ElementOfSeq
    <3> QED
      BY <2>3, <3>2 DEF Byte
  <2> QED
    BY <2>1, <2>2, <2>3 DEF NoWrap
<1> QED
  BY <1>1, InitSum, NextSum, PTL DEF Spec

-----------------------------------------------------------------------------
(* The ones' complement sum                                                *)

M == W16 - 1

(* n is zero in ones' complement: it is made up of carries. *)
Zero(n) == \E k \in Int : n = M * k

(* The modulus of the sum: one less than a word, and than a byte squared.  *)
LEMMA MRange == M \in Nat /\ M >= 3 /\ W16 = M + 1 /\ M = Base * Base - 1
BY Widths DEF M, W16

(* A multiple of M between -M and M is 0. *)
LEMMA Small ==
    ASSUME NEW k \in Int, M * k < M, -M < M * k
    PROVE  k = 0
<1>1. \A m, n \in Nat : n >= 1 => m * n >= m
  BY SMT
<1>2. CASE k >= 1
  BY <1>1, <1>2, MRange
<1>3. CASE k <= -1
  <2>1. -k \in Nat /\ -k >= 1 /\ M * (-k) = -(M * k)
    BY <1>3, MRange
  <2>2. M * (-k) >= M
    BY <1>1, <2>1, MRange
  <2> QED
    BY <2>1, <2>2, MRange
<1> QED
  BY <1>2, <1>3

(* Adding a multiple of the modulus changes no residue.                    *)
LEMMA ZeroSum ==
    ASSUME NEW m \in Int, NEW n \in Int, Zero(m)
    PROVE  Zero(n) <=> Zero(m + n)
<1>1. PICK k \in Int : m = M * k
  BY DEF Zero
<1>2. ASSUME NEW i \in Int, n = M * i PROVE m + n = M * (k + i)
  BY <1>1, <1>2, MRange
<1>3. ASSUME NEW i \in Int, m + n = M * i PROVE n = M * (i - k)
  BY <1>1, <1>3, MRange
<1>4. \A i \in Int : k + i \in Int /\ i - k \in Int
  OBVIOUS
<1> QED
  BY <1>2, <1>3, <1>4 DEF Zero

(* A multiple of a multiple is one.                                        *)
LEMMA ZeroTimes ==
    ASSUME NEW n \in Int, NEW b \in Int, Zero(n)
    PROVE  Zero(b * n)
<1>1. PICK k \in Int : n = M * k
  BY DEF Zero
<1>2. b * n = M * (b * k) /\ b * k \in Int
  BY <1>1, MRange
<1> QED
  BY <1>2 DEF Zero

(* The ones' complement sum: n is brought below W16 by taking off carries, *)
(* and becomes 0 only if it is.                                            *)
LEMMA OnesSumIs ==
    ASSUME NEW n \in Nat
    PROVE  /\ OnesSum(n) \in 0..M
           /\ OnesSum(n) = 0 <=> n = 0
           /\ \E k \in Nat : n = M * k + OnesSum(n)
<1>1. CASE n = 0
  <2>1. OnesSum(n) = 0 /\ n = M * 0 + 0
    BY <1>1, MRange DEF OnesSum
  <2> QED
    BY <1>1, <2>1, MRange
<1>2. CASE n # 0
  <2>1. n - 1 \in Nat /\ M \in Nat \ {0}
    BY <1>2, MRange
  <2>2. /\ (n - 1) % M \in 0..(M - 1) /\ (n - 1) \div M \in Nat
        /\ n - 1 = M * ((n - 1) \div M) + ((n - 1) % M)
    BY <2>1
  <2>3. OnesSum(n) = ((n - 1) % M) + 1
    BY <1>2 DEF OnesSum, M
  <2> DEFINE q == (n - 1) \div M
             r == (n - 1) % M
  <2>4. OnesSum(n) = r + 1 /\ r \in 0..(M - 1) /\ q \in Nat /\ n - 1 = M * q + r
    BY <2>2, <2>3
  <2> HIDE DEF q, r
  <2>5. n = M * q + OnesSum(n)
    BY <2>1, <2>4
  <2> QED
    BY <1>2, <2>1, <2>4, <2>5
<1> QED
  BY <1>1, <1>2

(* These three determine it. *)
LEMMA OnesSumOnly ==
    ASSUME NEW n \in Nat, NEW r \in 0..M, r = 0 <=> n = 0, Zero(n - r)
    PROVE  OnesSum(n) = r
<1> DEFINE q == OnesSum(n)
<1>1. q \in 0..M /\ (q = 0 <=> n = 0) /\ \E k \in Nat : n = M * k + q
  BY OnesSumIs
<1> HIDE DEF q
<1>2. CASE n = 0
  BY <1>1, <1>2 DEF q
<1>3. CASE n # 0
  <2>1. q \in 1..M /\ r \in 1..M
    BY <1>1, <1>3, MRange
  <2>2. PICK k \in Nat : n = M * k + q
    BY <1>1
  <2>3. PICK i \in Int : n - r = M * i
    BY DEF Zero
  <2>4. q - r = M * (i - k)
    BY <2>1, <2>2, <2>3, MRange
  <2>5. i - k = 0
    <3>1. q - r < M /\ -M < q - r
      BY <2>1, MRange
    <3> QED
      BY <2>4, <3>1, Small
  <2>6. q - r = 0
    BY <2>4, <2>5, MRange
  <2> QED
    BY <2>1, <2>6, MRange DEF q
<1> QED
  BY <1>2, <1>3

(* A sum of one word is itself. *)
LEMMA OnesSumWord == ASSUME NEW n \in 0..M PROVE OnesSum(n) = n
<1>1. Zero(n - n)
  BY MRange DEF Zero
<1> QED
  BY <1>1, MRange, OnesSumOnly

(* Carries that are brought round do not change it. *)
LEMMA OnesSumSame ==
    ASSUME NEW m \in Nat, NEW n \in Nat, m = 0 <=> n = 0, Zero(m - n)
    PROVE  OnesSum(m) = OnesSum(n)
<1>1. OnesSum(n) \in 0..M /\ (OnesSum(n) = 0 <=> n = 0)
  BY OnesSumIs
<1>2. Zero(n - OnesSum(n))
  <2>1. PICK k \in Nat : n = M * k + OnesSum(n)
    BY OnesSumIs
  <2>2. n - OnesSum(n) = M * k
    BY <1>1, <2>1, MRange
  <2> QED
    BY <2>2 DEF Zero
<1>3. Zero(m - OnesSum(n))
  <2>1. (m - n) + (n - OnesSum(n)) = m - OnesSum(n)
    BY <1>1, MRange
  <2>2. n - OnesSum(n) \in Int
    BY <1>1, MRange
  <2> QED
    BY <1>2, <2>1, <2>2, ZeroSum
<1> QED
  BY <1>1, <1>3, OnesSumOnly

(* It is a zero if and only if the sum is. *)
LEMMA OnesSumZero ==
    ASSUME NEW n \in Nat
    PROVE  OnesSum(n) \in {0, M} <=> Zero(n)
<1>1. PICK k \in Nat : n = M * k + OnesSum(n)
  BY OnesSumIs
<1>2. OnesSum(n) \in 0..M
  BY OnesSumIs
<1>3. Zero(M * k)
  BY DEF Zero
<1>4. Zero(OnesSum(n)) <=> Zero(n)
  <2>1. M * k \in Int /\ OnesSum(n) \in Int
    BY <1>2, MRange
  <2> QED
    <3> DEFINE m == M * k
    <3>1. m \in Int /\ Zero(m) /\ n = m + OnesSum(n)
      BY <1>1, <1>3, <2>1
    <3> HIDE DEF m
    <3>2. Zero(OnesSum(n)) <=> Zero(m + OnesSum(n))
      BY <2>1, <3>1, ZeroSum
    <3> QED
      BY <3>1, <3>2
<1>5. ASSUME Zero(OnesSum(n)) PROVE OnesSum(n) \in {0, M}
  <2>1. PICK i \in Int : OnesSum(n) = M * i
    BY <1>5 DEF Zero
  <2>2. CASE OnesSum(n) = M
    BY <2>2
  <2>3. CASE OnesSum(n) # M
    <3>1. M * i < M /\ -M < M * i
      BY <1>2, <2>1, <2>3, MRange
    <3>2. i = 0
      BY <3>1, Small
    <3> QED
      BY <2>1, <3>2, MRange
  <2> QED
    BY <2>2, <2>3
<1>6. Zero(0) /\ Zero(M)
  <2>1. 0 = M * 0 /\ M = M * 1
    BY MRange
  <2> QED
    BY <2>1 DEF Zero
<1> QED
  BY <1>4, <1>5, <1>6

(* A fold takes off the carries. *)
LEMMA FoldedSame ==
    ASSUME NEW n \in Nat, NEW x \in Nat
    PROVE  Folded(n) \in Nat /\ OnesSum(Folded(n) + x) = OnesSum(n + x)
<1>1. /\ n % W16 \in 0..(W16 - 1) /\ n \div W16 \in Nat
      /\ n = W16 * (n \div W16) + (n % W16)
  BY Widths
<1> DEFINE q == n \div W16
           r == n % W16
<1>2. q \in Nat /\ r \in Nat /\ n = W16 * q + r /\ Folded(n) = r + q
  BY <1>1, Widths DEF Folded
<1> HIDE DEF q, r
<1>3. n - Folded(n) = M * q
  BY <1>2, MRange
<1>4. n = 0 <=> Folded(n) = 0
  <2>1. W16 * q >= q
    <3>1. \A m, k \in Nat : m >= 1 => m * k >= k
      BY SMT
    <3> QED
      BY <1>2, <3>1, Widths
  <2> QED
    BY <1>2, <2>1, Widths
<1>5. Zero((n + x) - (Folded(n) + x))
  <2>1. (n + x) - (Folded(n) + x) = M * q
    BY <1>2, <1>3
  <2> QED
    BY <1>2, <2>1 DEF Zero
<1>6. n + x = 0 <=> Folded(n) + x = 0
  BY <1>2, <1>4
<1>7. Folded(n) \in Nat /\ n + x \in Nat /\ Folded(n) + x \in Nat
  BY <1>2
<1> QED
  BY <1>5, <1>6, <1>7, OnesSumSame

-----------------------------------------------------------------------------
(* The sums of the bytes                                                   *)

LEMMA LeastNumber ==
    ASSUME NEW S \in SUBSET Nat, S # {}
    PROVE  \E n \in S : \A m \in S : n <= m
<1> DEFINE Less == OpToRel(<, Nat)
<1>1. \A x, y \in Nat : x < y => <<x, y>> \in Less
  <2> SUFFICES ASSUME NEW x \in Nat, NEW y \in Nat, x < y
               PROVE  <<x, y>> \in Less
    OBVIOUS
  <2> QED
    BY <<x, y>> \in Nat \X Nat, Zenon DEF OpToRel
<1>2. IsWellFoundedOn(Less, Nat)
  BY NatLessThanWellFounded
<1> HIDE DEF Less
<1>3. PICK x \in S : \A y \in S : ~(<<y, x>> \in Less)
  BY <1>2, WFMin
<1>4. \A y \in S : ~(y < x)
  BY <1>1, <1>3, Zenon
<1> QED
  BY <1>4

(* Induction: a set of numbers that has 0 and the successor of each member *)
(* has them all.  A proof by induction gives it the set of the numbers for *)
(* which its claim holds.                                                  *)
LEMMA AllNumbers ==
    ASSUME NEW S \in SUBSET Nat, 0 \in S, \A n \in S : n + 1 \in S
    PROVE  S = Nat
<1> SUFFICES ASSUME S # Nat PROVE FALSE
  OBVIOUS
<1>1. PICK n \in Nat \ S : \A m \in Nat \ S : n <= m
  BY LeastNumber
<1>2. n - 1 \in Nat
  BY n # 0
<1>3. n - 1 \in S
  BY <1>1, <1>2
<1> QED
  BY <1>2, <1>3

(* What byte i adds to the sum of the places p. *)
Part(s, p, i) == IF i % 2 = p THEN s[i] ELSE 0

(* t gives the sums of the first bytes of s, up to n of them. *)
IsSum(t, s, p, n) ==
    /\ t[0] = 0
    /\ \A i \in 1..n : t[i] = t[i - 1] + Part(s, p, i)

HasSum(s, p, n) == \E t \in [0..n -> Nat] : IsSum(t, s, p, n)

(* What a byte adds to the sum of a place is a number.                     *)
LEMMA PartRange ==
    ASSUME NEW s \in Seq(Byte), NEW p, NEW i \in 1..Len(s)
    PROVE  Part(s, p, i) \in Nat
<1>1. s[i] \in Byte
  BY ElementOfSeq
<1> QED
  BY <1>1 DEF Part, Byte

(* The function that sums the first 0, 1, ..., n bytes exists.             *)
LEMMA SumExists ==
    ASSUME NEW s \in Seq(Byte), NEW p, NEW n \in 0..Len(s)
    PROVE  HasSum(s, p, n)
<1> DEFINE S == {k \in Nat : k <= Len(s) => HasSum(s, p, k)}
<1>1. Len(s) \in Nat
  BY LenProperties
<1>2. 0 \in S
  <2>1. /\ [i \in 0..0 |-> 0] \in [0..0 -> Nat]
        /\ IsSum([i \in 0..0 |-> 0], s, p, 0)
    BY DEF IsSum
  <2>2. HasSum(s, p, 0)
    BY <2>1 DEF HasSum
  <2> QED
    BY <2>2
<1>3. ASSUME NEW k \in S PROVE k + 1 \in S
  <2> SUFFICES ASSUME k + 1 <= Len(s) PROVE HasSum(s, p, k + 1)
    OBVIOUS
  <2>1. PICK t \in [0..k -> Nat] : IsSum(t, s, p, k)
    BY <1>1, <1>3 DEF HasSum
  <2> DEFINE g == Part(s, p, k + 1)
             u == [i \in 0..(k + 1) |-> IF i = k + 1 THEN t[k] + g ELSE t[i]]
  <2>2. k \in Nat /\ t[k] \in Nat
    BY <1>1, <2>1
  <2>3. g \in Nat
    BY <1>1, <2>2, PartRange
  <2>4. u \in [0..(k + 1) -> Nat] /\ u[0] = 0
    BY <2>1, <2>2, <2>3 DEF IsSum
  <2>5. ASSUME NEW i \in 1..(k + 1) PROVE u[i] = u[i - 1] + Part(s, p, i)
    <3>1. CASE i = k + 1
      BY <2>2, <3>1
    <3>2. CASE i # k + 1
      <4>1. i \in 1..k /\ i - 1 \in 0..k /\ i - 1 # k + 1
        BY <2>2, <3>2
      <4>2. t[i] = t[i - 1] + Part(s, p, i)
        BY <2>1, <4>1 DEF IsSum
      <4>3. u[i] = t[i] /\ u[i - 1] = t[i - 1]
        BY <2>2, <4>1
      <4> QED
        BY <4>2, <4>3
    <3> QED
      BY <3>1, <3>2
  <2> HIDE DEF u
  <2>6. IsSum(u, s, p, k + 1)
    BY <2>4, <2>5 DEF IsSum
  <2> QED
    BY <2>4, <2>6 DEF HasSum
<1>4. S = Nat
  <2>1. S \subseteq Nat
    OBVIOUS
  <2> HIDE DEF S
  <2> QED
    BY <1>2, <1>3, <2>1, AllNumbers
<1> QED
  BY <1>1, <1>4

(* There is only one.                                                      *)
LEMMA SumUnique ==
    ASSUME NEW s, NEW p, NEW n \in Nat, NEW t, IsSum(t, s, p, n), NEW u, IsSum(u, s, p, n)
    PROVE  t[n] = u[n]
<1> DEFINE S == {k \in Nat : k <= n => t[k] = u[k]}
<1>1. 0 \in S
  BY DEF IsSum
<1>2. ASSUME NEW k \in S PROVE k + 1 \in S
  <2> SUFFICES ASSUME k + 1 <= n PROVE t[k + 1] = u[k + 1]
    OBVIOUS
  <2>1. k \in Nat /\ k + 1 \in 1..n /\ (k + 1) - 1 = k
    OBVIOUS
  <2>2. t[k] = u[k]
    BY <1>2, <2>1
  <2>3. t[k + 1] = t[k] + Part(s, p, k + 1) /\ u[k + 1] = u[k] + Part(s, p, k + 1)
    BY <2>1 DEF IsSum
  <2> QED
    BY <2>1, <2>2, <2>3
<1>3. S = Nat
  <2>1. S \subseteq Nat
    OBVIOUS
  <2> HIDE DEF S
  <2> QED
    BY <1>1, <1>2, <2>1, AllNumbers
<1> QED
  BY <1>3

(* PlaceTotal is the last of the sums. *)
LEMMA PlaceTotalIs ==
    ASSUME NEW s \in Seq(Byte), NEW p
    PROVE  /\ PlaceTotal(s, p) \in Nat
           /\ \A t : IsSum(t, s, p, Len(s)) => PlaceTotal(s, p) = t[Len(s)]
<1> DEFINE Def(t) == t = [n \in 0..Len(s) |-> IF n = 0 THEN 0
                                             ELSE t[n - 1] + (IF n % 2 = p THEN s[n] ELSE 0)]
<1>1. Len(s) \in Nat
  BY LenProperties
<1>2. PICK t \in [0..Len(s) -> Nat] : IsSum(t, s, p, Len(s))
  BY <1>1, SumExists DEF HasSum
<1>3. Def(t)
  BY <1>1, <1>2 DEF IsSum, Part
<1>4. Places(s, p) = CHOOSE f : Def(f)
  BY DEF Places
<1>5. Def(Places(s, p))
  BY <1>3, <1>4
<1>6. IsSum(Places(s, p), s, p, Len(s))
  <2> HIDE DEF Def
  <2> DEFINE T == Places(s, p)
  <2>1. T = [n \in 0..Len(s) |-> IF n = 0 THEN 0
                                ELSE T[n - 1] + (IF n % 2 = p THEN s[n] ELSE 0)]
    BY <1>5 DEF Def
  <2> HIDE DEF T
  <2>2. IsSum(T, s, p, Len(s))
    BY <1>1, <2>1 DEF IsSum, Part
  <2> QED
    BY <2>2 DEF T
<1> HIDE DEF Def
<1>7. ASSUME NEW u, IsSum(u, s, p, Len(s)) PROVE PlaceTotal(s, p) = u[Len(s)]
  BY <1>1, <1>6, <1>7, SumUnique DEF PlaceTotal
<1>8. t[Len(s)] \in Nat
  BY <1>1
<1> QED
  BY <1>2, <1>7, <1>8

(* PlaceTotal is its last value.                                           *)
LEMMA PlaceTotalHas ==
    ASSUME NEW s \in Seq(Byte), NEW p
    PROVE  \E t \in [0..Len(s) -> Nat] :
               IsSum(t, s, p, Len(s)) /\ PlaceTotal(s, p) = t[Len(s)]
<1>1. Len(s) \in 0..Len(s)
  BY LenProperties
<1>2. PICK t \in [0..Len(s) -> Nat] : IsSum(t, s, p, Len(s))
  BY <1>1, SumExists DEF HasSum
<1> QED
  BY <1>2, PlaceTotalIs

(* Adding an even number leaves a place where it is, odd or even.          *)
LEMMA Parity == \A m, n \in Nat : m % 2 = 0 => (m + n) % 2 = n % 2
OBVIOUS

(* The places of a second piece are those of the whole, if the first has   *)
(* an even length.                                                         *)
LEMMA PlaceJoin ==
    ASSUME NEW h \in Seq(Byte), Len(h) % 2 = 0, NEW o \in Seq(Byte), NEW p
    PROVE  PlaceTotal(h \o o, p) = PlaceTotal(h, p) + PlaceTotal(o, p)
<1> DEFINE w == h \o o
           m == Len(h)
           n == Len(o)
<1>1. /\ w \in Seq(Byte) /\ Len(w) = m + n /\ m \in Nat /\ n \in Nat
      /\ \A i \in 1..(m + n) : w[i] = IF i <= m THEN h[i] ELSE o[i - m]
  BY ConcatProperties, LenProperties
<1>2. PICK t \in [0..m -> Nat] : IsSum(t, h, p, m) /\ PlaceTotal(h, p) = t[m]
  BY PlaceTotalHas
<1>3. PICK u \in [0..n -> Nat] : IsSum(u, o, p, n) /\ PlaceTotal(o, p) = u[n]
  BY PlaceTotalHas
<1>4. m % 2 = 0
  OBVIOUS
<1> HIDE DEF w, m, n
<1> DEFINE v == [i \in 0..(m + n) |-> IF i <= m THEN t[i] ELSE t[m] + u[i - m]]
<1>5. ASSUME NEW i \in 1..(m + n) PROVE v[i] = v[i - 1] + Part(w, p, i)
  <2>1. CASE i <= m
    <3>1. t[i] = t[i - 1] + Part(h, p, i)
      BY <1>1, <1>2, <2>1 DEF IsSum
    <3>2. Part(w, p, i) = Part(h, p, i)
      BY <1>1, <2>1 DEF Part
    <3>3. v[i] = t[i] /\ v[i - 1] = t[i - 1]
      BY <1>1, <2>1
    <3> QED
      BY <3>1, <3>2, <3>3
  <2>2. CASE ~(i <= m)
    <3>1. PICK j \in 1..n : i = m + j
      <4>1. i - m \in 1..n /\ i = m + (i - m)
        BY <1>1, <2>2
      <4> QED
        BY <4>1
    <3>2. u[j] = u[j - 1] + Part(o, p, j)
      BY <1>3, <3>1 DEF IsSum
    <3>3. Part(w, p, i) = Part(o, p, j)
      <4>1. i % 2 = j % 2
        <5>1. m \in Nat /\ j \in Nat
          BY <1>1, <3>1
        <5>2. (m + j) % 2 = j % 2
          BY <1>4, <5>1, Parity, Zenon
        <5> QED
          BY <3>1, <5>2
      <4>2. w[i] = o[j]
        BY <1>1, <2>2, <3>1
      <4> QED
        BY <4>1, <4>2 DEF Part
    <3>4. v[i] = t[m] + u[j]
      BY <1>1, <2>2, <3>1
    <3>5. v[i - 1] = t[m] + u[j - 1]
      <4>1. CASE j = 1
        <5>1. i - 1 = m /\ u[0] = 0 /\ t[m] \in Nat
          BY <1>1, <1>2, <1>3, <3>1, <4>1 DEF IsSum
        <5> QED
          BY <1>1, <4>1, <5>1
      <4>2. CASE j # 1
        BY <1>1, <2>2, <3>1, <4>2
      <4> QED
        BY <4>1, <4>2
    <3>6. /\ t[m] \in Nat /\ u[j - 1] \in Nat /\ u[j] \in Nat
          /\ Part(o, p, j) \in Nat
      <4>1. j \in 1..Len(o)
        BY <3>1 DEF n
      <4> QED
        BY <1>1, <1>2, <1>3, <3>1, <4>1, PartRange
    <3> HIDE DEF v
    <3> QED
      BY <3>2, <3>3, <3>4, <3>5, <3>6
  <2> QED
    BY <2>1, <2>2
<1>6. v[0] = 0
  BY <1>1, <1>2 DEF IsSum
<1>7. v[m + n] = t[m] + u[n]
  <2>1. CASE n = 0
    <3>1. u[n] = 0 /\ t[m] \in Nat
      BY <1>1, <1>2, <1>3, <2>1 DEF IsSum
    <3> QED
      BY <1>1, <2>1, <3>1
  <2>2. CASE n # 0
    BY <1>1, <2>2
  <2> QED
    BY <2>1, <2>2
<1> HIDE DEF v
<1>8. IsSum(v, w, p, Len(w))
  BY <1>1, <1>5, <1>6 DEF IsSum
<1>9. PlaceTotal(w, p) = v[Len(w)]
  BY <1>1, <1>8, PlaceTotalIs
<1> QED
  BY <1>1, <1>2, <1>3, <1>7, <1>9 DEF w

(* A byte that changes adds its difference to the sum of its places.       *)
LEMMA PlaceSet ==
    ASSUME NEW h \in Seq(Byte), NEW i \in 1..Len(h), NEW b \in Byte, NEW p
    PROVE  PlaceTotal([h EXCEPT ![i] = b], p)
               = PlaceTotal(h, p) + (IF i % 2 = p THEN b - h[i] ELSE 0)
<1> DEFINE w == [h EXCEPT ![i] = b]
           m == Len(h)
           d == IF i % 2 = p THEN b - h[i] ELSE 0
<1>1. /\ w \in Seq(Byte) /\ Len(w) = m /\ m \in Nat
      /\ \A j \in 1..m : w[j] = IF j = i THEN b ELSE h[j]
  BY ExceptSeq, LenProperties
<1>2. PICK t \in [0..m -> Nat] : IsSum(t, h, p, m) /\ PlaceTotal(h, p) = t[m]
  BY PlaceTotalHas
<1>3. h[i] \in Int /\ b \in Int
  BY ElementOfSeq, Widths DEF Byte
<1>4. /\ d \in Int
      /\ \A j \in 1..m : Part(w, p, j) = Part(h, p, j) + (IF j = i THEN d ELSE 0)
  <2>1. ASSUME NEW j \in 1..m
        PROVE  Part(w, p, j) = Part(h, p, j) + (IF j = i THEN d ELSE 0)
    <3>1. h[j] \in Int
      BY ElementOfSeq, Widths DEF Byte
    <3>2. w[j] = IF j = i THEN b ELSE h[j]
      BY <1>1
    <3> HIDE DEF w
    <3> QED
      BY <1>3, <3>1, <3>2 DEF Part
  <2>2. d \in Int
    BY <1>3
  <2> HIDE DEF d, w, m
  <2> QED
    BY <2>1, <2>2
<1>5. i \in 1..m
  OBVIOUS
<1> HIDE DEF w, m, d
<1> DEFINE u == [j \in 0..m |-> t[j] + (IF j >= i THEN d ELSE 0)]
<1>6. ASSUME NEW j \in 1..m PROVE u[j] = u[j - 1] + Part(w, p, j)
  <2>1. t[j] = t[j - 1] + Part(h, p, j)
    BY <1>2 DEF IsSum
  <2>2. /\ u[j] = t[j] + (IF j >= i THEN d ELSE 0)
        /\ u[j - 1] = t[j - 1] + (IF j - 1 >= i THEN d ELSE 0)
    BY <1>1, <1>5
  <2>3. Part(w, p, j) = Part(h, p, j) + (IF j = i THEN d ELSE 0)
    BY <1>4
  <2>4. t[j] \in Int /\ t[j - 1] \in Int /\ Part(h, p, j) \in Int
    <3>1. j \in 1..Len(h)
      BY DEF m
    <3>2. Part(h, p, j) \in Nat
      BY <3>1, PartRange
    <3> QED
      BY <1>1, <1>2, <3>2
  <2> HIDE DEF u
  <2> QED
    BY <1>1, <1>4, <1>5, <2>1, <2>2, <2>3, <2>4
<1>7. u[0] = 0 /\ u[m] = t[m] + d
  BY <1>1, <1>2, <1>5 DEF IsSum
<1> HIDE DEF u
<1>8. IsSum(u, w, p, Len(w))
  BY <1>1, <1>6, <1>7 DEF IsSum
<1>9. PlaceTotal(w, p) = u[Len(w)]
  BY <1>1, <1>8, PlaceTotalIs
<1> QED
  BY <1>1, <1>2, <1>7, <1>9 DEF w, d

(* Nothing, a last byte, and a word. *)
LEMMA PlaceEmpty == \A p : PlaceTotal(<<>>, p) = 0
<1>1. <<>> \in Seq(Byte) /\ Len(<<>>) = 0
  BY EmptySeq
<1>2. ASSUME NEW p PROVE IsSum([i \in 0..0 |-> 0], <<>>, p, 0)
  BY DEF IsSum
<1> QED
  BY <1>1, <1>2, PlaceTotalIs

(* The sums of a single byte.                                              *)
LEMMA PlaceByte ==
    ASSUME NEW s \in Seq(Byte), Len(s) = 1
    PROVE  PlaceTotal(s, 1) = s[1] /\ PlaceTotal(s, 0) = 0
<1>1. s[1] \in Nat
  <2>1. s[1] \in Byte
    BY ElementOfSeq
  <2> QED
    BY <2>1 DEF Byte
<1>2. ASSUME NEW p PROVE PlaceTotal(s, p) = Part(s, p, 1)
  <2>1. PICK t \in [0..1 -> Nat] : IsSum(t, s, p, 1) /\ PlaceTotal(s, p) = t[1]
    BY PlaceTotalHas
  <2>2. t[1] = t[1 - 1] + Part(s, p, 1) /\ t[0] = 0 /\ 1 - 1 = 0
    BY <2>1 DEF IsSum
  <2>3. Part(s, p, 1) \in Nat
    BY PartRange
  <2> QED
    BY <2>1, <2>2, <2>3
<1>3. 1 % 2 = 1
  OBVIOUS
<1> QED
  BY <1>1, <1>2, <1>3 DEF Part

(* The sums of a single word.                                              *)
LEMMA PlaceWord ==
    ASSUME NEW s \in Seq(Byte), Len(s) = 2
    PROVE  PlaceTotal(s, 1) = s[1] /\ PlaceTotal(s, 0) = s[2]
<1>1. s[1] \in Nat /\ s[2] \in Nat
  <2>1. s[1] \in Byte /\ s[2] \in Byte
    BY ElementOfSeq
  <2> QED
    BY <2>1 DEF Byte
<1>2. ASSUME NEW p PROVE PlaceTotal(s, p) = Part(s, p, 1) + Part(s, p, 2)
  <2>1. PICK t \in [0..2 -> Nat] : IsSum(t, s, p, 2) /\ PlaceTotal(s, p) = t[2]
    BY PlaceTotalHas
  <2>2. /\ t[1] = t[1 - 1] + Part(s, p, 1) /\ t[0] = 0 /\ 1 - 1 = 0
        /\ t[2] = t[2 - 1] + Part(s, p, 2) /\ 2 - 1 = 1
    BY <2>1 DEF IsSum
  <2>3. Part(s, p, 1) \in Nat
    BY PartRange
  <2> QED
    BY <2>1, <2>2, <2>3
<1>3. 1 % 2 = 1 /\ 2 % 2 = 0
  OBVIOUS
<1> QED
  BY <1>1, <1>2, <1>3 DEF Part

-----------------------------------------------------------------------------
(* The sum of all words, and what changes it                               *)

LEMMA Lengthen == \A b, m, n \in Int : b * (m + n) = b * m + b * n
OBVIOUS

(* A sum in the order of the host is a number.                             *)
LEMMA HostRange == ASSUME NEW s \in Seq(Byte) PROVE HostTotal(s) \in Nat
<1>1. PlaceTotal(s, 1) \in Nat /\ PlaceTotal(s, 0) \in Nat
  BY PlaceTotalIs
<1>2. Base * PlaceTotal(s, 0) \in Nat
  BY <1>1, Widths
<1> QED
  BY <1>1, <1>2 DEF HostTotal

(* The sum of two pieces is the sum of their sums, if the first has an     *)
(* even length: what checksum2 adds up word by word.                       *)
LEMMA HostJoin ==
    ASSUME NEW h \in Seq(Byte), Len(h) % 2 = 0, NEW o \in Seq(Byte)
    PROVE  HostTotal(h \o o) = HostTotal(h) + HostTotal(o)
<1> DEFINE odd(s) == PlaceTotal(s, 1)
           even(s) == PlaceTotal(s, 0)
<1>1. odd(h \o o) = odd(h) + odd(o) /\ even(h \o o) = even(h) + even(o)
  BY PlaceJoin
<1>2. odd(h) \in Nat /\ odd(o) \in Nat /\ even(h) \in Nat /\ even(o) \in Nat
  BY PlaceTotalIs
<1>3. \A s : HostTotal(s) = odd(s) + Base * even(s)
  BY DEF HostTotal
<1> HIDE DEF odd, even
<1>4. Base * (even(h) + even(o)) = Base * even(h) + Base * even(o)
  BY <1>2, Widths, Lengthen
<1>5. Base * even(h) \in Nat /\ Base * even(o) \in Nat
  BY <1>2, Widths
<1> QED
  BY <1>1, <1>2, <1>3, <1>4, <1>5

(* No bytes have the sum 0.                                                *)
LEMMA HostEmpty == HostTotal(<<>>) = 0
<1>1. Base * 0 = 0
  BY Widths
<1> QED
  BY <1>1, PlaceEmpty DEF HostTotal

(* The odd last byte counts as itself, being the low byte of a word on the *)
(* host (netutil.c:240).                                                   *)
LEMMA HostByte == ASSUME NEW s \in Seq(Byte), Len(s) = 1 PROVE HostTotal(s) = s[1]
<1>1. Base * 0 = 0
  BY Widths
<1>2. s[1] \in Byte
  BY ElementOfSeq
<1>3. s[1] \in Nat
  BY <1>2 DEF Byte
<1> QED
  BY <1>1, <1>3, PlaceByte DEF HostTotal

(* The loops take it apart word by word. *)
LEMMA HostRest ==
    ASSUME NEW s \in Seq(Byte), Len(s) > 1
    PROVE  HostTotal(s) = ReadWord(s) + HostTotal(Rest(s))
<1> DEFINE w == <<s[1], s[2]>>
<1>1. s[1] \in Byte /\ s[2] \in Byte
  BY ElementOfSeq
<1>2. w \in Seq(Byte) /\ Len(w) = 2 /\ w[1] = s[1] /\ w[2] = s[2]
  BY <1>1
<1>3. Rest(s) \in Seq(Byte)
  BY Words
<1>4. s = w \o Rest(s)
  <2>1. /\ Len(Rest(s)) = Len(s) - 2
        /\ \A i \in 1..(Len(s) - 2) : Rest(s)[i] = s[i + 2]
    <3>1. s = SubSeq(s, 1, Len(s)) /\ Len(s) \in Nat
      BY SubSeqFull, LenProperties
    <3>2. Len(SubSeq(s, 3, Len(s))) = Len(s) - 2
      BY <3>1
    <3>3. ASSUME NEW i \in 1..(Len(s) - 2) PROVE SubSeq(s, 3, Len(s))[i] = s[i + 2]
      BY <3>1
    <3> QED
      BY <3>2, <3>3 DEF Rest
  <2>2. /\ w \o Rest(s) \in Seq(Byte)
        /\ Len(w \o Rest(s)) = Len(s)
        /\ \A i \in 1..Len(s) : (w \o Rest(s))[i] = IF i <= 2 THEN w[i] ELSE Rest(s)[i - 2]
    BY <1>2, <1>3, <2>1, ConcatProperties
  <2>3. ASSUME NEW i \in 1..Len(s) PROVE s[i] = (w \o Rest(s))[i]
    <3>1. CASE i = 1
      BY <1>2, <2>2, <3>1
    <3>2. CASE i = 2
      BY <1>2, <2>2, <3>2
    <3>3. CASE i > 2
      <4>1. i - 2 \in 1..(Len(s) - 2) /\ (i - 2) + 2 = i
        BY <3>3
      <4> QED
        BY <2>1, <2>2, <3>3, <4>1
    <3>4. i = 1 \/ i = 2 \/ i > 2
      BY LenProperties
    <3> QED
      BY <3>1, <3>2, <3>3, <3>4
  <2> HIDE DEF w
  <2> QED
    BY <2>2, <2>3, SeqEqual
<1> HIDE DEF w
<1>5. HostTotal(w) = ReadWord(s)
  BY <1>2, PlaceWord DEF HostTotal, ReadWord
<1>6. HostTotal(w \o Rest(s)) = HostTotal(w) + HostTotal(Rest(s))
  <2>1. Len(w) % 2 = 0
    BY <1>2
  <2> QED
    BY <1>2, <1>3, <2>1, HostJoin
<1> QED
  BY <1>4, <1>5, <1>6

(* A byte that changes counts once, or Base times. *)
LEMMA HostSet ==
    ASSUME NEW h \in Seq(Byte), NEW i \in 1..Len(h), NEW b \in Byte
    PROVE  HostTotal([h EXCEPT ![i] = b])
               = HostTotal(h) + (IF i % 2 = 1 THEN b - h[i] ELSE Base * (b - h[i]))
<1> DEFINE w == [h EXCEPT ![i] = b]
           d == b - h[i]
           x == PlaceTotal(h, 1)
           y == PlaceTotal(h, 0)
<1>1. h[i] \in Byte
  BY ElementOfSeq
<1>2. d \in Int
  BY <1>1, Widths DEF Byte
<1>3. x \in Nat /\ y \in Nat
  BY PlaceTotalIs
<1>4. /\ PlaceTotal(w, 1) = x + (IF i % 2 = 1 THEN d ELSE 0)
      /\ PlaceTotal(w, 0) = y + (IF i % 2 = 0 THEN d ELSE 0)
  BY PlaceSet
<1>5. HostTotal(h) = x + Base * y /\ HostTotal(w) = PlaceTotal(w, 1) + Base * PlaceTotal(w, 0)
  BY DEF HostTotal
<1>6. i % 2 = 0 \/ i % 2 = 1
  OBVIOUS
<1> HIDE DEF w, d, x, y
<1>7. Base * (y + d) = Base * y + Base * d /\ Base * (y + 0) = Base * y
  BY <1>2, <1>3, Widths, Lengthen
<1>8. Base * y \in Int /\ Base * d \in Int
  BY <1>2, <1>3, Widths
<1>9. CASE i % 2 = 1
  <2>1. PlaceTotal(w, 1) = x + d /\ PlaceTotal(w, 0) = y + 0
    BY <1>4, <1>9
  <2>2. HostTotal(w) = HostTotal(h) + d
    BY <1>2, <1>3, <1>5, <1>7, <1>8, <2>1
  <2> QED
    BY <1>9, <2>2 DEF w, d
<1>10. CASE i % 2 = 0
  <2>1. PlaceTotal(w, 1) = x + 0 /\ PlaceTotal(w, 0) = y + d
    BY <1>4, <1>10
  <2>2. HostTotal(w) = HostTotal(h) + Base * d
    BY <1>2, <1>3, <1>5, <1>7, <1>8, <2>1
  <2> QED
    BY <1>10, <2>2 DEF w, d
<1> QED
  BY <1>6, <1>9, <1>10

(* The check field of a header that is cleared counts with its value. *)
LEMMA HostCheck ==
    ASSUME NEW h \in Seq(Byte), CheckAt + 1 <= Len(h), h[CheckAt] = 0, h[CheckAt + 1] = 0,
           NEW v \in 0..M
    PROVE  HostTotal(SetCheck(h, v)) = HostTotal(h) + v
<1> DEFINE a == CheckAt
           lo == v % Base
           hi == v \div Base
           g == [h EXCEPT ![a] = lo]
<1>1. a \in Nat /\ a % 2 = 1 /\ (a + 1) % 2 = 0 /\ a \in 1..Len(h) /\ a + 1 \in 1..Len(h)
  BY PieceAssumption, LenProperties
<1>2. lo \in Byte /\ hi \in Byte /\ v = Base * hi + lo
  <2>1. /\ v \in Nat /\ Base \in Nat \ {0}
        /\ v % Base \in Byte /\ v \div Base \in Nat
        /\ v = Base * (v \div Base) + (v % Base)
    BY Widths, MRange DEF Byte
  <2> HIDE DEF lo
  <2>2. hi \in Nat /\ lo \in Nat /\ v = Base * hi + lo
    BY <2>1 DEF lo, Byte
  <2> HIDE DEF hi
  <2>3. hi < Base
    <3>1. SUFFICES ASSUME hi >= Base PROVE FALSE
      BY <2>2, Widths
    <3>2. Base * hi >= Base * Base
      BY <2>2, <3>1, Widths
    <3> QED
      BY <2>2, <3>2, MRange, Widths
  <2>4. hi \in Byte
    BY <2>2, <2>3, Widths DEF Byte
  <2> QED
    BY <2>1, <2>2, <2>4 DEF lo, hi
<1>3. SetCheck(h, v) = [g EXCEPT ![a + 1] = hi]
  BY DEF SetCheck
<1> HIDE DEF a, lo, hi
<1>4. /\ g \in Seq(Byte) /\ Len(g) = Len(h) /\ g[a + 1] = h[a + 1]
      /\ HostTotal(g) = HostTotal(h) + (lo - h[a])
  <2>1. g \in Seq(Byte) /\ Len(g) = Len(h) /\ g[a + 1] = h[a + 1]
    BY <1>1, <1>2, ExceptSeq
  <2>2. HostTotal(g) = HostTotal(h) + (lo - h[a])
    BY <1>1, <1>2, HostSet
  <2> QED
    BY <2>1, <2>2
<1> HIDE DEF g
<1>5. HostTotal([g EXCEPT ![a + 1] = hi]) = HostTotal(g) + Base * (hi - g[a + 1])
  <2>1. (a + 1) % 2 # 1
    BY <1>1
  <2>2. a + 1 \in 1..Len(g)
    BY <1>1, <1>4
  <2> QED
    BY <1>2, <1>4, <2>1, <2>2, HostSet
<1>6. g[a + 1] = 0 /\ h[a] = 0
  BY <1>4 DEF a
<1>7. HostTotal(h) \in Nat /\ lo \in Nat /\ hi \in Nat
  BY <1>2, HostRange DEF Byte
<1>8. HostTotal(SetCheck(h, v)) = (HostTotal(h) + lo) + Base * hi
  BY <1>3, <1>4, <1>5, <1>6, <1>7
<1> QED
  BY <1>2, <1>7, <1>8, Widths

(* The two byte orders agree on what is zero: each total is the other one  *)
(* times Base, but for multiples of M.                                     *)
LEMMA NetZero ==
    ASSUME NEW s \in Seq(Byte)
    PROVE  Zero(NetTotal(s)) <=> Zero(HostTotal(s))
<1> DEFINE x == PlaceTotal(s, 1)
           y == PlaceTotal(s, 0)
           host == HostTotal(s)
           net == NetTotal(s)
<1>1. x \in Nat /\ y \in Nat
  BY PlaceTotalIs
<1>2. host = x + Base * y /\ net = Base * x + y
  BY DEF HostTotal, NetTotal
<1> HIDE DEF x, y, host, net
<1>3. host \in Nat /\ net \in Nat
  BY <1>1, <1>2, Widths
<1>4. Base * host = M * y + net /\ Base * net = M * x + host
  BY <1>1, <1>2, MRange, Widths
<1>5. Zero(M * x) /\ Zero(M * y)
  BY <1>1 DEF Zero
<1>6. ASSUME Zero(host) PROVE Zero(net)
  <2>1. Zero(Base * host)
    BY <1>3, <1>6, ZeroTimes, Widths
  <2>2. M * y \in Int
    BY <1>1, MRange
  <2> QED
    BY <1>3, <1>4, <1>5, <2>1, <2>2, ZeroSum
<1>7. ASSUME Zero(net) PROVE Zero(host)
  <2>1. Zero(Base * net)
    BY <1>3, <1>7, ZeroTimes, Widths
  <2>2. M * x \in Int
    BY <1>1, MRange
  <2> QED
    BY <1>3, <1>4, <1>5, <2>1, <2>2, ZeroSum
<1> QED
  BY <1>6, <1>7 DEF host, net

(* A word that is added counts in full, folded or not. *)
LEMMA AddedSame ==
    ASSUME NEW w \in 0..(W16 - 1), sum \in Nat, sum < W32 \div 2, NEW x \in Nat
    PROVE  OnesSum(Added(w) + x) = OnesSum(sum + w + x)
<1>1. sum + w < W32 /\ sum + w \in Nat
  BY AddedRange, Widths
<1>2. (sum + w) % W32 = sum + w
  BY <1>1, Widths
<1>3. Added(w) = sum + w \/ Added(w) = Folded(sum + w)
  BY <1>2 DEF Added
<1>4. OnesSum(Folded(sum + w) + x) = OnesSum((sum + w) + x)
  BY <1>1, FoldedSame
<1> QED
  BY <1>3, <1>4

-----------------------------------------------------------------------------
(* The calls                                                               *)

Whole == HostTotal(head \o option)

(* A header has whole words, and room for its check field. *)
ShapeOK == Len(head) % 2 = 0 /\ CheckAt + 1 <= Len(head)

(* What is left is the end of the data, and counts with the sum. *)
LoopOK ==
    /\ pc \in {"idle", "first", "second", "carry", "done"}
    /\ pc \in {"second", "carry"} => first = <<>>
    /\ pc = "carry" => second = <<>>
    /\ Congruent

(* A test accepts what adds up to zero. *)
JudgedOK == pc = "done" => (Accepted <=> Zero(Whole))

(* While the check field is computed it is zero. *)
ClearedOK ==
    use = "write" /\ pc \in {"first", "second", "carry"} =>
        fate = "raw" /\ head[CheckAt] = 0 /\ head[CheckAt + 1] = 0

(* A header that was written adds up to zero, and one that was damaged     *)
(* does not.                                                               *)
FateOK ==
    /\ fate \in {"raw", "written", "damaged"}
    /\ fate = "written" => Zero(Whole)
    /\ fate = "damaged" => ~Zero(Whole)

CheckInv == SumInv /\ ShapeOK /\ LoopOK /\ JudgedOK /\ ClearedOK /\ FateOK

(* What is to be summed is the sum of both pieces.                         *)
LEMMA WholeIs ==
    ASSUME SumInv, ShapeOK
    PROVE  /\ Whole = HostTotal(head) + HostTotal(option) /\ Whole \in Nat
           /\ HostTotal(head) \in Nat /\ HostTotal(option) \in Nat
<1>1. HostTotal(head) \in Nat /\ HostTotal(option) \in Nat
  BY HostRange DEF SumInv, Pieces
<1>2. Whole = HostTotal(head) + HostTotal(option)
  BY HostJoin DEF SumInv, Pieces, ShapeOK, Whole
<1> QED
  BY <1>1, <1>2

(* Storing a check field leaves a header a header. *)
LEMMA CheckStored ==
    ASSUME NEW h \in Seq(Byte), CheckAt + 1 <= Len(h), NEW v \in 0..M
    PROVE  /\ SetCheck(h, v) \in Seq(Byte)
           /\ Len(SetCheck(h, v)) = Len(h)
           /\ v = 0 => SetCheck(h, v)[CheckAt] = 0 /\ SetCheck(h, v)[CheckAt + 1] = 0
<1>1. SetCheck(h, v) \in Seq(Byte)
  BY CheckSet, MRange
<1>2. CheckAt \in 1..Len(h) /\ CheckAt + 1 \in 1..Len(h) /\ CheckAt # CheckAt + 1
  BY PieceAssumption, LenProperties
<1>3. Len(SetCheck(h, v)) = Len(h)
  BY DEF SetCheck
<1>4. SetCheck(h, v)[CheckAt] = v % Base /\ SetCheck(h, v)[CheckAt + 1] = v \div Base
  BY <1>2 DEF SetCheck
<1>5. 0 % Base = 0 /\ 0 \div Base = 0
  <2>1. /\ 0 % Base \in 0..(Base - 1) /\ 0 \div Base \in Int
        /\ 0 = Base * (0 \div Base) + (0 % Base)
    BY Widths
  <2> DEFINE q == 0 \div Base
             r == 0 % Base
  <2>2. r \in 0..(Base - 1) /\ q \in Int /\ 0 = Base * q + r
    BY <2>1
  <2> HIDE DEF q, r
  <2>3. q = 0
    <3>1. CASE q >= 1
      BY <2>2, <3>1, Widths
    <3>2. CASE q <= -1
      BY <2>2, <3>2, Widths
    <3> QED
      BY <2>2, <3>1, <3>2
  <2>4. r = 0
    BY <2>2, <2>3, Widths
  <2> QED
    BY <2>3, <2>4 DEF q, r
<1> QED
  BY <1>1, <1>3, <1>4, <1>5

(* Initially nothing is summed and no header is written.                   *)
LEMMA CheckInit == Init => CheckInv
<1> SUFFICES ASSUME Init PROVE CheckInv
  OBVIOUS
<1>1. SumInv
  BY InitSum
<1>2. ShapeOK
  BY PieceAssumption DEF Init, ShapeOK
<1> QED
  BY <1>1, <1>2 DEF Init, CheckInv, LoopOK, Congruent, JudgedOK, ClearedOK, FateOK

(* A call starts with all of the data left to add. *)
LEMMA Begun ==
    ASSUME CheckInv, SumInv', ShapeOK', pc' = "first", sum' = 0, Zero(Whole)' <=> Zero(Whole),
           fate' = fate,
           use' = "write" => fate' = "raw" /\ head'[CheckAt] = 0 /\ head'[CheckAt + 1] = 0,
           HostTotal(first)' + HostTotal(second)' = Whole'
    PROVE  CheckInv'
<1>1. Congruent'
  <2>1. HostTotal(first)' \in Nat /\ HostTotal(second)' \in Nat
    BY HostRange DEF SumInv, Pieces
  <2>2. (sum + HostTotal(first) + HostTotal(second))' = Whole'
    BY <2>1
  <2> QED
    BY <2>2 DEF Congruent, Whole
<1>2. LoopOK'
  BY <1>1 DEF LoopOK
<1>3. FateOK'
  BY DEF CheckInv, FateOK
<1> QED
  BY <1>2, <1>3 DEF CheckInv, JudgedOK, ClearedOK

(* A call begins with the pieces it was given, of which nothing is summed  *)
(* yet.                                                                    *)
LEMMA CheckCalls ==
    ASSUME CheckInv, SumInv', Write \/ Test \/ TestShort \/ TestData
    PROVE  CheckInv'
<1> USE DEF CheckInv
<1>1. CASE Write
  <2>1. head \in Seq(Byte) /\ option \in Seq(Byte)
    BY DEF SumInv, Pieces
  <2>2. /\ head' = SetCheck(head, 0) /\ option' = option
        /\ first' = head' /\ second' = option'
        /\ pc' = "first" /\ sum' = 0 /\ fate' = fate /\ fate = "raw"
    BY <1>1 DEF Write, Start
  <2>3. head' \in Seq(Byte) /\ Len(head') = Len(head) /\ head'[CheckAt] = 0 /\ head'[CheckAt + 1] = 0
    <3>1. 0 \in 0..M /\ CheckAt + 1 <= Len(head)
      BY MRange DEF ShapeOK
    <3> QED
      BY <2>1, <2>2, <3>1, CheckStored
  <2>4. ShapeOK'
    BY <2>3 DEF ShapeOK
  <2>5. Congruent'
    <3>1. /\ HostTotal(head') \in Nat /\ HostTotal(option') \in Nat
          /\ HostTotal(head' \o option') = HostTotal(head') + HostTotal(option')
      BY <2>1, <2>2, <2>3, <2>4, HostRange, HostJoin DEF ShapeOK
    <3>2. 0 + HostTotal(head') + HostTotal(option') = HostTotal(head' \o option')
      BY <3>1
    <3> QED
      BY <2>2, <3>2 DEF Congruent
  <2>6. LoopOK' /\ JudgedOK' /\ FateOK' /\ ClearedOK'
    BY <2>2, <2>3, <2>5 DEF LoopOK, JudgedOK, FateOK, ClearedOK
  <2> QED
    BY <2>4, <2>6
<1>2. CASE Test \/ TestShort \/ TestData
  <2>1. head' = head /\ option' = option /\ fate' = fate
    BY <1>2 DEF Test, TestShort, TestData
  <2>2. pc' = "first" /\ sum' = 0 /\ use' = "test"
    BY <1>2 DEF Test, TestShort, TestData, Start
  <2>3. \/ first' = head /\ second' = option
        \/ option = <<>> /\ first' = <<>> /\ second' = head
        \/ option = <<>> /\ first' = head /\ second' = <<>>
    BY <1>2 DEF Test, TestShort, TestData, Start
  <2>4. HostTotal(first') + HostTotal(second') = Whole
    <3>1. Whole = HostTotal(head) + HostTotal(option) /\ HostTotal(head) \in Nat
      BY WholeIs
    <3> QED
      BY <2>3, <3>1, HostEmpty
  <2>5. ShapeOK' /\ (Zero(Whole)' <=> Zero(Whole)) /\ Whole' = Whole
    BY <2>1 DEF ShapeOK, Zero, Whole
  <2>6. HostTotal(first)' + HostTotal(second)' = Whole'
    BY <2>4, <2>5
  <2> QED
    BY <2>1, <2>2, <2>5, <2>6, Begun
<1> QED
  BY <1>1, <1>2

(* A byte that changes leaves a remainder. *)
LEMMA CheckDamage ==
    ASSUME CheckInv, SumInv', NEW i \in DOMAIN head, NEW b \in 0..(Base - 1), Damage(i, b)
    PROVE  CheckInv'
<1> USE DEF CheckInv
<1>1. head \in Seq(Byte) /\ option \in Seq(Byte) /\ i \in 1..Len(head) /\ b \in Byte
  BY LenProperties DEF SumInv, Pieces, Byte
<1>2. /\ pc = "idle" /\ fate = "written" /\ head[i] # b
      /\ head' = [head EXCEPT ![i] = b] /\ option' = option
      /\ pc' = pc /\ fate' = "damaged"
  BY DEF Damage
<1>3. ShapeOK'
  BY <1>1, <1>2, ExceptSeq DEF ShapeOK
<1> DEFINE d == b - head[i]
           e == IF i % 2 = 1 THEN d ELSE Base * d
<1>4. d \in Int /\ d # 0 /\ -Base < d /\ d < Base
  <2>1. head[i] \in Byte
    BY <1>1, ElementOfSeq
  <2>2. Base \in Nat
    BY Widths
  <2>3. head[i] \in 0..(Base - 1) /\ b \in 0..(Base - 1) /\ head[i] # b
    BY <1>1, <1>2, <2>1 DEF Byte
  <2> QED
    BY <2>2, <2>3
<1>5. HostTotal(head') = HostTotal(head) + e
  BY <1>1, <1>2, HostSet
<1> HIDE DEF d
<1>6. e \in Int /\ e # 0 /\ -M < e /\ e < M
  <2>1. /\ Base * d \in Int /\ Base * d # 0
        /\ Base * d <= Base * (Base - 1) /\ Base * d >= -(Base * (Base - 1))
    <3>1. \A x, y, z \in Int : x >= 1 /\ y <= z => x * y <= x * z
      BY SMT
    <3>2. Base * d <= Base * (Base - 1)
      BY <1>4, <3>1, Widths
    <3>3. Base * (-(Base - 1)) <= Base * d
      BY <1>4, <3>1, Widths
    <3>4. Base * (-(Base - 1)) = -(Base * (Base - 1))
      BY Widths
    <3>5. Base * d # 0
      BY <1>4, Widths
    <3> QED
      BY <1>4, <3>2, <3>3, <3>4, <3>5, Widths
  <2>2. Base * (Base - 1) = M + 1 - Base
    BY Widths, MRange
  <2>3. M + 1 - Base < M /\ Base <= M
    BY Widths, MRange
  <2> QED
    BY <1>4, <2>1, <2>2, <2>3, Widths, MRange
<1> HIDE DEF e
<1>7. Whole' = Whole + e
  <2>1. Whole = HostTotal(head) + HostTotal(option) /\ HostTotal(head) \in Nat /\ HostTotal(option) \in Nat
    BY WholeIs
  <2>2. Whole' = HostTotal(head') + HostTotal(option')
    <3>1. head' \in Seq(Byte) /\ option' \in Seq(Byte) /\ Len(head') % 2 = 0
      BY <1>3 DEF SumInv, Pieces, ShapeOK
    <3>2. HostTotal(head' \o option') = HostTotal(head') + HostTotal(option')
      BY <3>1, HostJoin
    <3> QED
      BY <3>2 DEF Whole
  <2> QED
    BY <1>2, <1>5, <1>6, <2>1, <2>2
<1>8. ~Zero(e)
  <2>1. SUFFICES ASSUME NEW k \in Int, e = M * k PROVE FALSE
    BY DEF Zero
  <2>2. k = 0
    BY <1>6, <2>1, Small
  <2> QED
    BY <1>6, <2>1, <2>2, MRange
<1>9. ~Zero(Whole')
  <2>1. Zero(Whole) /\ Whole \in Int
    BY <1>2, WholeIs DEF FateOK
  <2> QED
    BY <1>6, <1>7, <1>8, <2>1, ZeroSum
<1>10. FateOK'
  BY <1>2, <1>9 DEF FateOK, Whole, Zero
<1>11. LoopOK' /\ JudgedOK' /\ ClearedOK'
  BY <1>2 DEF LoopOK, Congruent, JudgedOK, ClearedOK
<1> QED
  BY <1>3, <1>10, <1>11

(* A turn of a loop changes neither the data nor what it adds up to. *)
LEMMA CheckLoop ==
    ASSUME CheckInv, SumInv', AddFirst \/ EndFirst \/ AddSecond \/ EndSecond \/ Carry
    PROVE  CheckInv'
<1> USE DEF CheckInv
<1>1. /\ head' = head /\ option' = option /\ use' = use /\ fate' = fate
      /\ pc \in {"first", "second", "carry"} /\ pc' \in {"first", "second", "carry"}
  BY DEF AddFirst, EndFirst, AddSecond, EndSecond, Carry
<1>2. /\ sum \in Nat /\ first \in Seq(Byte) /\ second \in Seq(Byte)
      /\ pc \in {"first", "second"} => sum < W32 \div 2
  BY DEF SumInv, Pieces, Bounded
<1> DEFINE a == HostTotal(first)
           b == HostTotal(second)
<1>3. a \in Nat /\ b \in Nat
  BY <1>2, HostRange
<1>4. OnesSum(sum + a + b) = OnesSum(Whole)
  BY <1>1 DEF LoopOK, Congruent, Whole
<1>5. /\ OnesSum(sum' + HostTotal(first') + HostTotal(second')) = OnesSum(sum + a + b)
      /\ pc' \in {"second", "carry"} => first' = <<>>
      /\ pc' = "carry" => second' = <<>>
  <2>1. CASE AddFirst
    <3> DEFINE w == ReadWord(first)
               c == HostTotal(Rest(first))
    <3>1. /\ pc = "first" /\ Len(first) > 1 /\ sum' = Added(w)
          /\ first' = Rest(first) /\ second' = second /\ pc' = pc
      BY <2>1 DEF AddFirst
    <3>2. w \in 0..(W16 - 1) /\ Rest(first) \in Seq(Byte) /\ a = w + c
      BY <1>2, <3>1, Words, HostRest
    <3>3. c \in Nat
      BY <3>2, HostRange
    <3> HIDE DEF a, b, w, c
    <3>4. OnesSum(Added(w) + (c + b)) = OnesSum(sum + w + (c + b)) /\ Added(w) \in Nat
      BY <1>2, <1>3, <3>1, <3>2, <3>3, AddedSame, AddedRange
    <3>5. Added(w) + (c + b) = Added(w) + c + b /\ sum + w + (c + b) = sum + a + b
      BY <1>2, <1>3, <3>2, <3>3, <3>4, Widths
    <3> QED
      BY <3>1, <3>4, <3>5 DEF b, c
  <2>2. CASE EndFirst
    BY <2>2 DEF EndFirst
  <2>3. CASE AddSecond
    <3> DEFINE w == ReadWord(second)
               c == HostTotal(Rest(second))
    <3>1. /\ pc = "second" /\ Len(second) > 1 /\ sum' = Added(w) /\ first = <<>>
          /\ second' = Rest(second) /\ first' = first /\ pc' = pc
      BY <2>3 DEF AddSecond, LoopOK
    <3>2. w \in 0..(W16 - 1) /\ Rest(second) \in Seq(Byte) /\ b = w + c
      BY <1>2, <3>1, Words, HostRest
    <3>3. c \in Nat
      BY <3>2, HostRange
    <3> HIDE DEF a, b, w, c
    <3>4. OnesSum(Added(w) + (a + c)) = OnesSum(sum + w + (a + c)) /\ Added(w) \in Nat
      BY <1>2, <1>3, <3>1, <3>2, <3>3, AddedSame, AddedRange
    <3>5. Added(w) + (a + c) = Added(w) + a + c /\ sum + w + (a + c) = sum + a + b
      BY <1>2, <1>3, <3>2, <3>3, <3>4, Widths
    <3> QED
      BY <3>1, <3>4, <3>5 DEF a, c
  <2>4. CASE EndSecond
    <3>1. /\ pc = "second" /\ Len(second) <= 1 /\ first = <<>> /\ first' = first
          /\ second' = <<>> /\ pc' = "carry"
      BY <2>4 DEF EndSecond, LoopOK
    <3>2. CASE second = <<>>
      BY <2>4, <3>1, <3>2 DEF EndSecond
    <3>3. CASE second # <<>>
      <4>1. Len(second) = 1
        <5>1. Len(second) \in Nat \ {0}
          BY <1>2, <3>3, EmptySeq, Zenon
        <5>2. Len(second) <= 1
          BY <3>1
        <5> HIDE DEF a, b, CheckInv
        <5> DEFINE n == Len(second)
        <5>3. n \in Nat \ {0} /\ n <= 1
          BY <5>1, <5>2
        <5> HIDE DEF n
        <5>4. n = 1
          BY <5>3
        <5> QED
          BY <5>4 DEF n
      <4>2. b = second[1] /\ second[1] \in Byte
        BY <1>2, <4>1, HostByte, ElementOfSeq
      <4>3. sum' = (sum + second[1]) % W32
        BY <2>4, <3>3 DEF EndSecond
      <4>4. sum' = sum + b
        <5>1. sum + b < W32 /\ sum + b \in Nat
          BY <1>2, <1>3, <3>1, <4>2, Widths DEF Byte
        <5>2. (sum + b) % W32 = sum + b
          BY <5>1, Widths
        <5> QED
          BY <4>2, <4>3, <5>2
      <4>5. sum' + a + 0 = sum + a + b
        <5> HIDE DEF a, b
        <5> QED
          BY <1>2, <1>3, <4>4
      <4> QED
        BY <3>1, <4>5, HostEmpty
    <3> QED
      BY <3>2, <3>3
  <2>5. CASE Carry
    <3>1. sum' = Folded(sum) /\ first' = first /\ second' = second /\ pc' = pc
      BY <2>5 DEF Carry
    <3> HIDE DEF a, b
    <3>2. OnesSum(Folded(sum) + (a + b)) = OnesSum(sum + (a + b)) /\ Folded(sum) \in Nat
      <4>1. sum \in Nat /\ a + b \in Nat
        BY <1>2, <1>3
      <4> QED
        BY <4>1, FoldedSame, Zenon
    <3>3. Folded(sum) + (a + b) = Folded(sum) + a + b /\ sum + (a + b) = sum + a + b
      BY <1>2, <1>3, <3>2
    <3> QED
      BY <3>1, <3>2, <3>3 DEF a, b, LoopOK
  <2> QED
    BY <2>1, <2>2, <2>3, <2>4, <2>5
<1> HIDE DEF a, b
<1>6. LoopOK'
  BY <1>1, <1>4, <1>5 DEF LoopOK, Congruent, Whole
<1>7. ShapeOK' /\ JudgedOK' /\ ClearedOK' /\ FateOK'
  BY <1>1 DEF ShapeOK, JudgedOK, ClearedOK, FateOK, Whole, Zero
<1> QED
  BY <1>6, <1>7

(* The inverse of the sum makes it up to zero: in the header it is stored  *)
(* in, and as a test.                                                      *)
LEMMA CheckReturn == ASSUME CheckInv, SumInv', Return PROVE CheckInv'
<1> USE DEF CheckInv
<1>1. /\ pc = "carry" /\ sum < W16 /\ check' = W16 - 1 - sum
      /\ first = <<>> /\ second = <<>> /\ option' = option /\ use' = use
      /\ first' = first /\ second' = second
  BY DEF Return, LoopOK
<1>2. sum \in 0..M /\ check' = M - sum /\ check' \in 0..M
  BY <1>1, MRange DEF SumInv, Bounded, M
<1>3. Whole \in Nat /\ Whole = HostTotal(head) + HostTotal(option)
      /\ HostTotal(head) \in Nat /\ HostTotal(option) \in Nat
  BY WholeIs
<1>4. sum = OnesSum(Whole)
  <2>1. OnesSum(sum + HostTotal(first) + HostTotal(second)) = OnesSum(Whole)
    BY <1>1 DEF LoopOK, Congruent, Whole
  <2>2. sum + 0 + 0 = sum
    BY <1>2, MRange
  <2> QED
    BY <1>1, <1>2, <2>1, <2>2, HostEmpty, OnesSumWord
<1>5. sum \in {0, M} <=> Zero(Whole)
  BY <1>3, <1>4, OnesSumZero
<1>6. CASE use = "write"
  <2>1. pc' = "idle" /\ fate' = "written" /\ head' = SetCheck(head, check')
    BY <1>6 DEF Return
  <2>2. head \in Seq(Byte) /\ option \in Seq(Byte) /\ CheckAt + 1 <= Len(head)
        /\ head[CheckAt] = 0 /\ head[CheckAt + 1] = 0
    BY <1>1, <1>6 DEF SumInv, Pieces, ShapeOK, ClearedOK
  <2>3. /\ head' \in Seq(Byte) /\ Len(head') = Len(head)
        /\ HostTotal(head') = HostTotal(head) + check'
    BY <1>2, <2>1, <2>2, CheckStored, HostCheck
  <2>4. ShapeOK'
    BY <2>3 DEF ShapeOK
  <2>5. HostTotal(head' \o option') = Whole + (M - sum)
    <3>1. HostTotal(head' \o option') = HostTotal(head') + HostTotal(option')
      BY <1>1, <2>2, <2>3, <2>4, HostJoin DEF ShapeOK
    <3>2. M \in Nat
      BY MRange
    <3> QED
      BY <1>1, <1>2, <1>3, <2>3, <3>1, <3>2
  <2>6. Zero(Whole + (M - sum))
    <3>1. PICK k \in Nat : Whole = M * k + sum
      BY <1>3, <1>4, OnesSumIs
    <3>2. Whole + (M - sum) = M * (k + 1)
      BY <1>2, <3>1, MRange
    <3>3. k + 1 \in Int
      BY <3>1
    <3> QED
      BY <3>2, <3>3 DEF Zero
  <2>7. FateOK'
    BY <2>1, <2>5, <2>6 DEF FateOK, Whole, Zero
  <2>8. LoopOK' /\ JudgedOK' /\ ClearedOK'
    BY <2>1 DEF LoopOK, Congruent, JudgedOK, ClearedOK
  <2> QED
    BY <2>4, <2>7, <2>8
<1>7. CASE use # "write"
  <2>1. pc' = "done" /\ fate' = fate /\ head' = head
    BY <1>7 DEF Return
  <2>2. Accepted' <=> sum \in {0, M}
    BY <1>2, MRange DEF Accepted, M
  <2>3. ShapeOK' /\ FateOK' /\ LoopOK' /\ ClearedOK' /\ (Zero(Whole)' <=> Zero(Whole))
    BY <1>1, <2>1 DEF ShapeOK, FateOK, LoopOK, Congruent, ClearedOK, Whole, Zero
  <2>4. JudgedOK'
    BY <1>5, <2>2, <2>3 DEF JudgedOK
  <2> QED
    BY <2>3, <2>4
<1> QED
  BY <1>6, <1>7

(* Every step keeps the sum congruent and the verdict right.               *)
LEMMA CheckNext == CheckInv /\ [Next]_vars => CheckInv'
<1> SUFFICES ASSUME CheckInv, [Next]_vars PROVE CheckInv'
  OBVIOUS
<1>1. SumInv'
  BY NextSum DEF CheckInv
<1>2. CASE UNCHANGED vars
  BY <1>1, <1>2 DEF vars, CheckInv, ShapeOK, LoopOK, Congruent, JudgedOK, Accepted,
                    ClearedOK, FateOK, Whole, Zero
<1> QED
  BY <1>1, <1>2, CheckCalls, CheckDamage, CheckLoop, CheckReturn DEF Next

(* At each turn of the loops of checksum2 what is added and what is left   *)
(* make up the whole, up to the modulus; a header that was written sums to *)
(* the negative zero (netutil.c:203).                                      *)
THEOREM CheckInvariant == Spec => []CheckInv
BY CheckInit, CheckNext, PTL DEF Spec

(* Folding early, late or often changes nothing, for data of any length    *)
(* and bytes of any width (netutil.c:181-249).                             *)
THEOREM FoldsAnyTime == Spec => []Congruent
<1>1. CheckInv => Congruent
  BY DEF CheckInv, LoopOK
<1> QED
  BY <1>1, CheckInvariant, PTL

(* The test, which adds in the byte order of the host, accepts what the    *)
(* Internet checksum accepts (netutil.c:262, netutil.c:269).               *)
THEOREM TestsAsDefined == Spec => []Verdict
<1>1. ASSUME CheckInv PROVE Verdict
  <2> SUFFICES ASSUME pc = "done"
               PROVE  Accepted <=> OnesSum(NetTotal(head \o option)) \in {0, W16 - 1}
    BY DEF Verdict
  <2> DEFINE s == head \o option
  <2>1. s \in Seq(Byte)
    BY <1>1, ConcatProperties DEF CheckInv, SumInv, Pieces
  <2>2. Accepted <=> Zero(HostTotal(s))
    BY <1>1 DEF CheckInv, JudgedOK, Whole
  <2> HIDE DEF s
  <2>3. Zero(HostTotal(s)) <=> Zero(NetTotal(s))
    BY <2>1, NetZero
  <2>4. NetTotal(s) \in Nat
    <3>1. PlaceTotal(s, 1) \in Nat /\ PlaceTotal(s, 0) \in Nat
      BY <2>1, PlaceTotalIs
    <3>2. Base * PlaceTotal(s, 1) \in Nat
      BY <3>1, Widths
    <3> QED
      BY <3>1, <3>2 DEF NetTotal
  <2>5. Zero(NetTotal(s)) <=> OnesSum(NetTotal(s)) \in {0, M}
    BY <2>4, OnesSumZero
  <2> QED
    BY <2>2, <2>3, <2>5 DEF s, M
<1> QED
  BY <1>1, CheckInvariant, PTL

(* The next router accepts the header that was written, and not one of     *)
(* which a byte changed on the way (main.c:234, netutil.c:260).            *)
THEOREM AcceptedNextHop == Spec => []NextHopAccepts
<1>1. CheckInv => NextHopAccepts
  BY DEF CheckInv, JudgedOK, FateOK, NextHopAccepts
<1> QED
  BY <1>1, CheckInvariant, PTL

=============================================================================
