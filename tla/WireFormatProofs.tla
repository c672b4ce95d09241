------------------------ MODULE WireFormatProofs ------------------------
(***************************************************************************)
(* Proofs about WireFormat, for every set of headers, payloads and pieces  *)
(* and any size limits below Huge, whatever encodes the payloads.          *)
(*                                                                         *)
(* The decoders are recursive functions of the position.  What they return *)
(* is shown by induction over positions, from the end of the data down to  *)
(* its start, and over the turns of a loop, with LeastElement in place of  *)
(* the library's induction theorems.                                       *)
(***************************************************************************)
EXTENDS WireFormat, SequenceTheorems, WellFoundedInduction, TLAPS

-----------------------------------------------------------------------------
(* Induction over positions, in the forms the provers can use *)

\* A non-empty set of naturals has a least element.
LEMMA LeastElement ==
    ASSUME NEW S, S \subseteq Nat, S # {}
    PROVE  \E x \in S : \A y \in S : x <= y
<1>1. PICK x \in S : \A y \in S : <<y, x>> \notin OpToRel(<, Nat)
  BY WFMin, NatLessThanWellFounded
<1>2. \A y \in S : ~(y < x)
  BY <1>1 DEF OpToRel
<1> QED
  BY <1>2

\* Min gives it.
LEMMA MinIsLeast ==
    ASSUME NEW S, S \subseteq Nat, S # {}
    PROVE  Min(S) \in S /\ \A y \in S : Min(S) <= y
<1>1. \E x \in S : \A y \in S : x =< y
  BY LeastElement
<1> QED
  BY <1>1 DEF Min

\* Induction from 0 up to N, over the set of the numbers that are good.
LEMMA UpInduction ==
    ASSUME NEW N \in Nat, NEW G, 0 \in G,
           \A n \in 1..N : n - 1 \in G => n \in G
    PROVE  0..N \subseteq G
<1> DEFINE S == {n \in 0..N : n \notin G}
<1>1. SUFFICES ASSUME S # {} PROVE FALSE
  OBVIOUS
<1>2. S \subseteq Nat
  OBVIOUS
<1>3. PICK n \in S : \A k \in S : n <= k
  <2> HIDE DEF S
  <2> QED
    BY <1>1, <1>2, LeastElement
<1>4. n \in 0..N /\ n # 0 /\ n \notin G
  OBVIOUS
<1>5. n \in 1..N /\ n - 1 \in 0..N /\ ~(n <= n - 1)
  BY <1>4
<1>6. n - 1 \in G
  BY <1>3, <1>5
<1> QED
  BY <1>4, <1>5, <1>6

\* Induction from N down to 0: a position is good if all later ones are.
LEMMA DownInduction ==
    ASSUME NEW N \in Nat, NEW G,
           \A i \in 0..N : (\A j \in (i + 1)..N : j \in G) => i \in G
    PROVE  0..N \subseteq G
<1> DEFINE S == {k \in 0..N : N - k \notin G}
<1>1. SUFFICES ASSUME NEW i \in 0..N, i \notin G PROVE FALSE
  OBVIOUS
<1>2. N - i \in S
  <2>1. N - i \in 0..N /\ N - (N - i) = i
    OBVIOUS
  <2> QED
    BY <1>1, <2>1
<1>3. S \subseteq Nat
  OBVIOUS
<1>4. PICK k \in S : \A j \in S : k <= j
  <2> HIDE DEF S
  <2> QED
    BY <1>2, <1>3, LeastElement
<1>5. k \in 0..N /\ N - k \notin G /\ N - k \in 0..N
  OBVIOUS
<1>6. \A j \in (N - k + 1)..N : j \in G
  <2> SUFFICES ASSUME NEW j \in (N - k + 1)..N, j \notin G PROVE FALSE
    OBVIOUS
  <2>1. N - j \in 0..N /\ N - (N - j) = j /\ ~(k <= N - j)
    BY <1>5
  <2>2. N - j \in S
    BY <2>1
  <2> QED
    BY <2>1, <2>2, <1>4
<1> QED
  BY <1>5, <1>6

-----------------------------------------------------------------------------
(* Words and lengths *)

\* An interval from 0, by its bounds.
LEMMA UpTo ==
    ASSUME NEW m \in Nat, NEW x
    PROVE  x \in 0..m <=> x \in Nat /\ x <= m
  OBVIOUS

\* The three bytes of a length.
LEMMA ThreeBytes ==
    ASSUME NEW n \in Nat, n < Huge
    PROVE  /\ n \div (256 * 256) \in 0..255
           /\ (n \div 256) % 256 \in 0..255
           /\ n % 256 \in 0..255
           /\ n = 256 * 256 * (n \div (256 * 256)) + 256 * ((n \div 256) % 256) + (n % 256)
<1>1. n < 256 * 256 * 256
  BY DEF Huge
<1>2. n \div (256 * 256) \in 0..255
  BY <1>1
<1>3. (n \div 256) % 256 \in 0..255 /\ n % 256 \in 0..255
  OBVIOUS
<1>4. n \div (256 * 256) = (n \div 256) \div 256
  OBVIOUS
<1>5. n = 256 * (n \div 256) + (n % 256)
  OBVIOUS
<1>6. n \div 256 \in Nat
  OBVIOUS
<1>7. n \div 256 = 256 * ((n \div 256) \div 256) + ((n \div 256) % 256)
  BY <1>6
<1> QED
  BY <1>2, <1>3, <1>4, <1>5, <1>7

\* The bytes of a length.
HighByte(n) == n \div (256 * 256)
MidByte(n) == (n \div 256) % 256
LowByte(n) == n % 256

\* A length is the word made of it.
LEMMA SmallBytes ==
    ASSUME NEW n \in Nat
    PROVE  /\ Small(n) \in Seq(Nat) /\ Len(Small(n)) = 8
           /\ \A i \in 1..5 : Small(n)[i] = 0
           /\ Small(n)[6] = HighByte(n) /\ Small(n)[7] = MidByte(n) /\ Small(n)[8] = LowByte(n)
<1> DEFINE bs == <<HighByte(n), MidByte(n), LowByte(n)>>
<1>1. Len(bs) = 3 /\ bs[1] = HighByte(n) /\ bs[2] = MidByte(n) /\ bs[3] = LowByte(n)
  OBVIOUS
<1>2. HighByte(n) \in Nat /\ MidByte(n) \in Nat /\ LowByte(n) \in Nat
  BY DEF HighByte, MidByte, LowByte
<1>3. Small(n) = Word(bs)
  BY DEF Small, HighByte, MidByte, LowByte
<1> HIDE DEF bs
<1>4. Word(bs) = [i \in 1..8 |-> IF i > 5 THEN bs[i - 5] ELSE 0]
  BY <1>1 DEF Word
<1>5. \A i \in 1..8 : (IF i > 5 THEN bs[i - 5] ELSE 0) \in Nat
  <2> SUFFICES ASSUME NEW i \in 6..8 PROVE bs[i - 5] \in Nat
    OBVIOUS
  <2>1. i = 6 \/ i = 7 \/ i = 8
    OBVIOUS
  <2> QED
    BY <1>1, <1>2, <2>1
<1>6. Small(n) \in [1..8 -> Nat]
  BY <1>3, <1>4, <1>5
<1> QED
  BY <1>1, <1>3, <1>4, <1>6

\* It has eight bytes, and the first five are 0 ...
LEMMA SmallIsWord ==
    ASSUME NEW n \in Nat
    PROVE  Small(n) \in Seq(Nat) /\ Len(Small(n)) = 8 /\ \A i \in 1..5 : Small(n)[i] = 0
  BY SmallBytes

\* ... and back (uint64(len(b)) and binary.BigEndian, frame.go:62-99).
LEMMA LengthOfSmall ==
    ASSUME NEW n \in Nat, n < Huge
    PROVE  Length(Small(n)) = n
<1>1. \A i \in 1..5 : Small(n)[i] = 0
  BY SmallIsWord
<1>2. FitsIn(Small(n), 3)
  BY <1>1 DEF FitsIn
<1>3. LowBytes(Small(n)) = 256 * 256 * (n \div (256 * 256)) + 256 * ((n \div 256) % 256) + (n % 256)
  <2>1. LowBytes(Small(n)) = 256 * 256 * Small(n)[6] + 256 * Small(n)[7] + Small(n)[8]
    BY DEF LowBytes
  <2>2. Small(n)[6] = HighByte(n) /\ Small(n)[7] = MidByte(n) /\ Small(n)[8] = LowByte(n)
    BY SmallBytes
  <2> QED
    BY <2>1, <2>2 DEF HighByte, MidByte, LowByte
<1>4. LowBytes(Small(n)) = n
  BY <1>3, ThreeBytes
<1> QED
  BY <1>2, <1>4 DEF Length

\* Words, and what they are as lengths.
Words == [1..8 -> Nat]

\* The bytes of an argument make a word.
LEMMA WordIsWord ==
    ASSUME NEW bs \in Seq(Nat), Len(bs) \in 0..8
    PROVE  Word(bs) \in Words
<1>1. \A i \in 1..8 : (IF i + Len(bs) > 8 THEN bs[i + Len(bs) - 8] ELSE 0) \in Nat
  <2> SUFFICES ASSUME NEW i \in 1..8
               PROVE  (IF i + Len(bs) > 8 THEN bs[i + Len(bs) - 8] ELSE 0) \in Nat
    OBVIOUS
  <2>1. CASE i + Len(bs) > 8
    <3>1. i + Len(bs) - 8 \in 1..Len(bs)
      BY <2>1
    <3>2. bs[i + Len(bs) - 8] \in Nat
      BY <3>1
    <3> QED
      BY <2>1, <3>2
  <2>2. CASE ~(i + Len(bs) > 8)
    BY <2>2
  <2> QED
    BY <2>1, <2>2
<1> QED
  BY <1>1 DEF Word, Words

\* A length is a natural number.
LEMMA LengthIsNat ==
    ASSUME NEW w \in Words
    PROVE  Length(w) \in Nat
<1>1. w[6] \in Nat /\ w[7] \in Nat /\ w[8] \in Nat
  BY DEF Words
<1>2. LowBytes(w) \in Nat
  <2>1. \A a, b, c \in Nat : 256 * 256 * a + 256 * b + c \in Nat
    OBVIOUS
  <2> QED
    BY <1>1, <2>1 DEF LowBytes
<1>3. Huge \in Nat
  BY DEF Huge
<1> QED
  BY <1>2, <1>3 DEF Length

-----------------------------------------------------------------------------
(* Concatenation *)

\* Three sequences may be joined from either end.
Associative(S) == \A x, y, z \in Seq(S) : (x \o y) \o z = x \o (y \o z)

\* They may.
LEMMA ConcatAssociates ==
    ASSUME NEW S
    PROVE  Associative(S)
  BY DEF Associative

\* The sequences up to each of seqs, put together.
IsFlattening(F, seqs, S) ==
    /\ F \in [0..Len(seqs) -> Seq(S)]
    /\ F[0] = <<>>
    /\ \A i \in 1..Len(seqs) : F[i] = F[i - 1] \o seqs[i]

\* There is a flattening.
LEMMA FlatteningExists ==
    ASSUME NEW S, NEW seqs \in Seq(Seq(S))
    PROVE  \E F : IsFlattening(F, seqs, S)
<1> DEFINE
      N == Len(seqs)
      Upto(F, k) == /\ F \in [0..k -> Seq(S)]
                    /\ F[0] = <<>>
                    /\ \A i \in 1..k : F[i] = F[i - 1] \o seqs[i]
      G == {k \in 0..N : \E F : Upto(F, k)}
<1>1. N \in Nat /\ \A i \in 1..N : seqs[i] \in Seq(S)
  OBVIOUS
<1>2. 0 \in G
  <2> DEFINE F == [i \in 0..0 |-> <<>>]
  <2>1. F \in [0..0 -> Seq(S)] /\ F[0] = <<>>
    OBVIOUS
  <2>2. Upto(F, 0)
    BY <2>1
  <2> HIDE DEF F, Upto
  <2> QED
    BY <1>1, <2>2
<1>3. ASSUME NEW k \in 1..N, k - 1 \in G PROVE k \in G
  <2>1. PICK F : Upto(F, k - 1)
    BY <1>3
  <2> DEFINE
        last == F[k - 1] \o seqs[k]
        H == [i \in 0..k |-> IF i = k THEN last ELSE F[i]]
  <2>2. k - 1 \in 0..(k - 1) /\ k - 1 \in Nat /\ 0 \in 0..(k - 1) /\ 0 # k
    OBVIOUS
  <2>3. F[k - 1] \in Seq(S)
    BY <2>1, <2>2
  <2>4. last \in Seq(S)
    BY <1>1, <2>3
  <2> HIDE DEF last
  <2>5. \A i \in 0..k : i # k => i \in 0..(k - 1)
    OBVIOUS
  <2>6. H \in [0..k -> Seq(S)]
    BY <2>1, <2>4, <2>5
  <2>7. \A i \in 0..(k - 1) : H[i] = F[i]
    OBVIOUS
  <2>8. H[0] = <<>>
    BY <2>1, <2>2, <2>7
  <2>9. ASSUME NEW i \in 1..k PROVE H[i] = H[i - 1] \o seqs[i]
    <3>1. CASE i = k
      <4>1. H[i] = last
        BY <3>1
      <4>2. H[i - 1] = F[k - 1]
        BY <2>2, <2>7, <3>1
      <4>3. H[i] = F[k - 1] \o seqs[k]
        BY <4>1 DEF last
      <4> HIDE DEF H
      <4> QED
        BY <3>1, <4>2, <4>3
    <3>2. CASE i # k
      <4>1. i \in 1..(k - 1) /\ i \in 0..(k - 1) /\ i - 1 \in 0..(k - 1)
        BY <3>2
      <4>2. F[i] = F[i - 1] \o seqs[i]
        BY <2>1, <4>1
      <4> HIDE DEF H
      <4> QED
        BY <2>7, <4>1, <4>2
    <3> QED
      BY <3>1, <3>2
  <2> HIDE DEF H
  <2>10. Upto(H, k)
    BY <2>6, <2>8, <2>9
  <2> HIDE DEF Upto
  <2> QED
    BY <1>1, <2>10
<1>4. N \in G
  <2> HIDE DEF G
  <2>1. 0..N \subseteq G
    BY <1>1, <1>2, <1>3, UpInduction
  <2> QED
    BY <1>1, <2>1
<1>5. PICK F : Upto(F, N)
  <2> HIDE DEF Upto
  <2> QED
    BY <1>4
<1> QED
  BY <1>5 DEF IsFlattening

\* FlattenSeq is the last of it.
LEMMA FlattenSeqLast ==
    ASSUME NEW S, NEW seqs \in Seq(Seq(S)), NEW F, IsFlattening(F, seqs, S)
    PROVE  FlattenSeq(seqs) = F[Len(seqs)]
<1> DEFINE
      N == Len(seqs)
      Step(f, i) == IF i = 1 THEN seqs[i] ELSE f[i - 1] \o seqs[i]
      flatten == CHOOSE f : f = [i \in 1..Len(seqs) |-> Step(f, i)]
      g == [i \in 1..Len(seqs) |-> F[i]]
<1>1. N \in Nat /\ \A i \in 1..N : seqs[i] \in Seq(S)
  OBVIOUS
<1>2. CASE N = 0
  <2>1. seqs = <<>>
    BY <1>2
  <2> QED
    BY <1>2, <2>1 DEF FlattenSeq, IsFlattening
<1>3. CASE N # 0
  <2>1. \A i \in 1..N : Step(g, i) = F[i]
    <3> SUFFICES ASSUME NEW i \in 1..N PROVE Step(g, i) = F[i]
      OBVIOUS
    <3>1. CASE i = 1
      <4>0. 1 \in 1..Len(seqs) /\ 1 - 1 = 0
        BY <1>1, <3>1
      <4>1. F[1] = F[1 - 1] \o seqs[1] /\ F[1 - 1] = <<>>
        <5>1. F[1] = F[1 - 1] \o seqs[1]
          BY <4>0 DEF IsFlattening
        <5>2. F[1 - 1] = <<>>
          BY <4>0 DEF IsFlattening
        <5> QED
          BY <5>1, <5>2
      <4>2. seqs[1] \in Seq(S)
        BY <1>1, <3>1
      <4>3. F[1] = seqs[1]
        BY <4>1, <4>2
      <4> QED
        BY <3>1, <4>3
    <3>2. CASE i # 1
      <4>1. i - 1 \in 1..N
        BY <1>1, <3>2
      <4>2. g[i - 1] = F[i - 1]
        BY <4>1
      <4>3. F[i] = F[i - 1] \o seqs[i]
        BY DEF IsFlattening
      <4> QED
        BY <3>2, <4>2, <4>3
    <3> QED
      BY <3>1, <3>2
  <2>2. g = [i \in 1..Len(seqs) |-> Step(g, i)]
    <3> HIDE DEF Step
    <3> QED
      BY <2>1
  <2>3. flatten = [i \in 1..Len(seqs) |-> Step(flatten, i)]
    <3> HIDE DEF Step, g
    <3> QED
      BY <2>2
  <2>4. \A i \in 1..N : flatten[i] = Step(flatten, i)
    <3> DEFINE h == [i \in 1..Len(seqs) |-> Step(flatten, i)]
    <3> HIDE DEF Step
    <3>1. \A i \in 1..N : h[i] = Step(flatten, i)
      OBVIOUS
    <3>2. flatten = h
      BY <2>3
    <3> HIDE DEF h, flatten
    <3> QED
      BY <3>1, <3>2
  <2>5. FlattenSeq(seqs) = flatten[N]
    BY <1>3 DEF FlattenSeq
  <2> HIDE DEF flatten
  <2> DEFINE G == {i \in 0..N : i = 0 \/ flatten[i] = F[i]}
  <2>6. 0 \in G
    BY <1>1
  <2>7. ASSUME NEW i \in 1..N, i - 1 \in G PROVE i \in G
    <3>1. CASE i = 1
      <4>0. 1 \in 1..Len(seqs) /\ 1 - 1 = 0
        BY <1>1, <3>1
      <4>1. F[1] = F[1 - 1] \o seqs[1] /\ F[1 - 1] = <<>>
        <5>1. F[1] = F[1 - 1] \o seqs[1]
          BY <4>0 DEF IsFlattening
        <5>2. F[1 - 1] = <<>>
          BY <4>0 DEF IsFlattening
        <5> QED
          BY <5>1, <5>2
      <4>2. seqs[1] \in Seq(S)
        BY <1>1, <3>1
      <4>3. F[1] = seqs[1] /\ flatten[1] = seqs[1]
        BY <2>4, <3>1, <4>1, <4>2
      <4> QED
        BY <3>1, <4>3
    <3>2. CASE i # 1
      <4>1. flatten[i - 1] = F[i - 1]
        BY <2>7, <3>2
      <4>2. F[i] = F[i - 1] \o seqs[i]
        BY DEF IsFlattening
      <4>3. flatten[i] = flatten[i - 1] \o seqs[i]
        BY <2>4, <3>2
      <4>4. flatten[i] = F[i]
        BY <4>1, <4>2, <4>3
      <4> QED
        BY <4>4
    <3> QED
      BY <3>1, <3>2
  <2>8. N \in G
    <3> HIDE DEF G
    <3>1. 0..N \subseteq G
      BY <1>1, <2>6, <2>7, UpInduction
    <3> QED
      BY <1>1, <3>1
  <2> QED
    BY <1>3, <2>5, <2>8
<1> QED
  BY <1>2, <1>3

\* Flattening takes the first sequence and goes on with the others.
LEMMA FlattenCons ==
    ASSUME NEW S, NEW s \in Seq(S), NEW t \in Seq(Seq(S))
    PROVE  /\ FlattenSeq(<<s>> \o t) = s \o FlattenSeq(t)
           /\ FlattenSeq(t) \in Seq(S)
           /\ FlattenSeq(<<>>) = <<>>
<1> DEFINE
      u == <<s>> \o t
      N == Len(t)
<1>1. u \in Seq(Seq(S)) /\ Len(u) = N + 1 /\ u[1] = s /\ N \in Nat
  OBVIOUS
<1>2. \A i \in 1..N : u[i + 1] = t[i] /\ t[i] \in Seq(S)
  OBVIOUS
<1> HIDE DEF u
<1>3. PICK F : IsFlattening(F, u, S)
  BY <1>1, FlatteningExists
<1>4. PICK H : IsFlattening(H, t, S)
  BY FlatteningExists
<1> DEFINE G == {i \in 0..N : F[i + 1] = s \o H[i]}
<1>5. 0 \in G
  <2>1. F[1] = F[1 - 1] \o u[1] /\ F[1 - 1] = <<>>
    BY <1>1, <1>3 DEF IsFlattening
  <2>2. H[0] = <<>>
    BY <1>4 DEF IsFlattening
  <2>3. F[0 + 1] = s \o H[0]
    BY <1>1, <2>1, <2>2
  <2> QED
    BY <1>1, <2>3
<1>6. ASSUME NEW i \in 1..N, i - 1 \in G PROVE i \in G
  <2>1. F[i] = s \o H[i - 1]
    <3>1. F[(i - 1) + 1] = s \o H[i - 1] /\ (i - 1) + 1 = i
      BY <1>6
    <3> QED
      BY <3>1
  <2>2. i + 1 \in 1..(N + 1) /\ (i + 1) - 1 = i /\ i - 1 \in 0..N
    BY <1>1
  <2>3. F[i + 1] = F[i] \o u[i + 1]
    BY <1>1, <1>3, <2>2 DEF IsFlattening
  <2>4. H[i] = H[i - 1] \o t[i] /\ H[i - 1] \in Seq(S)
    BY <1>4, <2>2 DEF IsFlattening
  <2>5. F[i + 1] = (s \o H[i - 1]) \o t[i] /\ t[i] \in Seq(S)
    BY <1>2, <2>1, <2>3
  <2>6. Associative(S)
    BY ConcatAssociates
  <2>7. (s \o H[i - 1]) \o t[i] = s \o (H[i - 1] \o t[i])
    BY <2>4, <2>5, <2>6 DEF Associative
  <2>8. F[i + 1] = s \o H[i]
    BY <2>4, <2>5, <2>7
  <2> QED
    BY <2>8
<1>7. N \in G
  <2> HIDE DEF G, N
  <2>1. 0..N \subseteq G
    BY <1>1, <1>5, <1>6, UpInduction
  <2> QED
    BY <1>1, <2>1
<1>8. FlattenSeq(t) = H[N] /\ H[N] \in Seq(S)
  <2>1. FlattenSeq(t) = H[N]
    BY <1>4, FlattenSeqLast
  <2>2. H[N] \in Seq(S)
    BY <1>1, <1>4 DEF IsFlattening
  <2> QED
    BY <2>1, <2>2
<1>9. FlattenSeq(u) = F[N + 1]
  BY <1>1, <1>3, FlattenSeqLast
<1>10. FlattenSeq(<<>>) = <<>>
  BY DEF FlattenSeq
<1> QED
  BY <1>7, <1>8, <1>9, <1>10 DEF u

-----------------------------------------------------------------------------
(* Frame extensions: one of them *)

\* A part of a sequence.
LEMMA Slice ==
    ASSUME NEW S, NEW s \in Seq(S), NEW m \in Nat, NEW n \in Nat,
           1 <= m, m <= n + 1, n <= Len(s)
    PROVE  /\ SubSeq(s, m, n) \in Seq(S)
           /\ Len(SubSeq(s, m, n)) = n - m + 1
           /\ \A i \in 1..(n - m + 1) : SubSeq(s, m, n)[i] = s[m + i - 1]
<1>1. \A i \in m..n : s[i] \in S
  OBVIOUS
<1> QED
  BY <1>1, SubSeqProperties

\* The two bytes of a type.
LEMMA TwoBytes ==
    ASSUME NEW n \in Nat, n < 256 * 256
    PROVE  256 * Small(n)[7] + Small(n)[8] = n
<1>1. 256 * ((n \div 256) % 256) + (n % 256) = n
  OBVIOUS
<1>2. Small(n)[7] = MidByte(n) /\ Small(n)[8] = LowByte(n)
  BY SmallBytes
<1> QED
  BY <1>1, <1>2 DEF MidByte, LowByte

\* ... and back.
LEMMA TypeOfBytes ==
    ASSUME NEW a \in Byte, NEW b \in Byte
    PROVE  256 * a + b \in Uint16
<1> DEFINE
      x == 256 * a + b
      m == 256 * 256 - 1
<1>1. a \in Nat /\ a <= 255 /\ b \in Nat /\ b <= 255
  BY DEF Byte
<1>2. x \in Nat /\ m \in Nat /\ x <= m
  BY <1>1
<1> HIDE DEF x, m
<1>3. x \in 0..m
  BY <1>2, UpTo
<1> QED
  BY <1>3, Zenon DEF x, m, Uint16

\* There are extensions.
LEMMA SomeExtension == \E e : e \in Extensions
<1>1. 0 \in Uint16 /\ <<>> \in Seq(Byte)
  BY DEF Uint16
<1>2. [extType |-> 0, critical |-> FALSE, data |-> <<>>] \in Extensions
  BY <1>1 DEF Extensions
<1> QED
  BY <1>2

\* Two sequences in a row.
LEMMA Joined ==
    ASSUME NEW S, NEW s \in Seq(S), NEW t \in Seq(S)
    PROVE  /\ s \o t \in Seq(S)
           /\ Len(s \o t) = Len(s) + Len(t)
           /\ \A i \in 1..Len(s) : (s \o t)[i] = s[i]
           /\ \A i \in 1..Len(t) : (s \o t)[Len(s) + i] = t[i]
  OBVIOUS

\* The fields of an extension.
LEMMA ExtensionFields ==
    ASSUME NEW e \in Extensions
    PROVE  /\ e.extType \in Uint16 /\ e.extType \in Nat /\ e.extType < 256 * 256
           /\ e.critical \in BOOLEAN
           /\ e.data \in Seq(Byte) /\ e.data \in Seq(Nat) /\ Len(e.data) \in Nat
           /\ e = [extType |-> e.extType, critical |-> e.critical, data |-> e.data]
<1>1. e.extType \in Uint16
  BY DEF Extensions
<1>7. e.extType \in Nat /\ e.extType < 256 * 256
  <2> DEFINE
        x == e.extType
        m == 256 * 256 - 1
  <2>a. m \in Nat /\ m < 256 * 256
    OBVIOUS
  <2>b. x \in 0..m
    BY <1>1, Zenon DEF Uint16
  <2> HIDE DEF x, m
  <2>1. m \in Nat /\ m < 256 * 256 /\ x \in 0..m
    BY <2>a, <2>b
  <2>2. x \in Nat /\ x <= m
    BY <2>1, UpTo
  <2>3. x \in Nat /\ x < 256 * 256
    BY <2>1, <2>2
  <2> QED
    BY <2>3 DEF x
<1>2. e.critical \in BOOLEAN
  BY DEF Extensions
<1>3. e.data \in Seq(Byte)
  BY DEF Extensions
<1>4. Byte \subseteq Nat
  BY DEF Byte
<1>5. e.data \in Seq(Nat)
  BY <1>3, <1>4, SeqMonotonic
<1>8. Len(e.data) \in Nat
  BY <1>3
<1>6. e = [extType |-> e.extType, critical |-> e.critical, data |-> e.data]
  BY DEF Extensions
<1> QED
  BY <1>1, <1>2, <1>3, <1>5, <1>6, <1>7, <1>8

\* The bytes of an extension (frameext.go:28-45).
LEMMA EncodeExtensionBytes ==
    ASSUME NEW e \in Extensions
    PROVE  /\ EncodeExtension(e) \in Seq(Nat)
           /\ Len(EncodeExtension(e)) = 8 + Len(e.data)
           /\ EncodeExtension(e)[1] = Small(e.extType)[7]
           /\ EncodeExtension(e)[2] = Small(e.extType)[8]
           /\ EncodeExtension(e)[3] = IF e.critical THEN 1 ELSE 0
           /\ \A i \in 5..8 : EncodeExtension(e)[i] = Small(Len(e.data))[i]
           /\ \A i \in 1..Len(e.data) : EncodeExtension(e)[8 + i] = e.data[i]
<1> DEFINE
      a == SubSeq(Small(e.extType), 7, 8)
      b == <<IF e.critical THEN 1 ELSE 0, 0>>
      c == SubSeq(Small(Len(e.data)), 5, 8)
      d == e.data
<1>1. e.extType \in Nat /\ e.critical \in BOOLEAN /\ Len(d) \in Nat
  BY ExtensionFields
<1>2. d \in Seq(Nat)
  BY ExtensionFields
<1>3. /\ a \in Seq(Nat) /\ Len(a) = 2
      /\ a[1] = Small(e.extType)[7] /\ a[2] = Small(e.extType)[8]
  <2>1. Small(e.extType) \in Seq(Nat) /\ Len(Small(e.extType)) = 8
    BY <1>1, SmallIsWord
  <2> QED
    BY <2>1
<1>4. b \in Seq(Nat) /\ Len(b) = 2 /\ b[1] = IF e.critical THEN 1 ELSE 0
  OBVIOUS
<1>5. /\ c \in Seq(Nat) /\ Len(c) = 4
      /\ \A i \in 1..4 : c[i] = Small(Len(e.data))[i + 4]
  <2>1. Small(Len(d)) \in Seq(Nat) /\ Len(Small(Len(d))) = 8
    BY <1>1, SmallIsWord
  <2> QED
    BY <2>1
<1>6. EncodeExtension(e) = ((a \o b) \o c) \o d
  BY DEF EncodeExtension
<1> HIDE DEF a, b, c, d
<1> DEFINE
      ab == a \o b
      abc == ab \o c
      all == abc \o d
<1>13. /\ ab \in Seq(Nat) /\ Len(ab) = Len(a) + Len(b)
       /\ \A i \in 1..Len(a) : ab[i] = a[i]
       /\ \A i \in 1..Len(b) : ab[Len(a) + i] = b[i]
  <2>1. a \in Seq(Nat) /\ b \in Seq(Nat)
    BY <1>3, <1>4
  <2> QED
    BY <2>1, Joined
<1>14. /\ abc \in Seq(Nat) /\ Len(abc) = Len(ab) + Len(c)
       /\ \A i \in 1..Len(ab) : abc[i] = ab[i]
       /\ \A i \in 1..Len(c) : abc[Len(ab) + i] = c[i]
  <2>1. ab \in Seq(Nat) /\ c \in Seq(Nat)
    BY <1>5, <1>13
  <2> HIDE DEF ab
  <2> QED
    BY <2>1, Joined
<1>16. /\ all \in Seq(Nat) /\ Len(all) = Len(abc) + Len(d)
       /\ \A i \in 1..Len(abc) : all[i] = abc[i]
       /\ \A i \in 1..Len(d) : all[Len(abc) + i] = d[i]
  <2>1. abc \in Seq(Nat) /\ d \in Seq(Nat)
    BY <1>2, <1>14
  <2> HIDE DEF abc
  <2> QED
    BY <2>1, Joined
<1> HIDE DEF ab, abc, all
<1>17. Len(ab) = 4 /\ Len(abc) = 8
  BY <1>3, <1>4, <1>5, <1>13, <1>14
<1>18. ab[1] = a[1] /\ ab[2] = a[2] /\ ab[2 + 1] = b[1]
  BY <1>3, <1>4, <1>13
<1>19. abc[1] = a[1] /\ abc[2] = a[2] /\ abc[3] = b[1]
  BY <1>14, <1>17, <1>18
<1>20. \A i \in 1..4 : abc[4 + i] = c[i]
  BY <1>5, <1>14, <1>17
<1>7. all \in Seq(Nat) /\ Len(all) = 8 + Len(d)
  BY <1>16, <1>17
<1>8. all[1] = a[1] /\ all[2] = a[2] /\ all[3] = b[1]
  BY <1>16, <1>17, <1>19
<1>9. \A i \in 5..8 : all[i] = c[i - 4]
  <2> SUFFICES ASSUME NEW i \in 5..8 PROVE all[i] = c[i - 4]
    OBVIOUS
  <2>1. i \in 1..8 /\ i - 4 \in 1..4 /\ 4 + (i - 4) = i
    OBVIOUS
  <2> QED
    BY <1>16, <1>17, <1>20, <2>1
<1>10. \A i \in 1..Len(d) : all[8 + i] = d[i]
  BY <1>16, <1>17
<1>15. EncodeExtension(e) = all
  BY <1>6 DEF ab, abc, all
<1>11. \A i \in 5..8 : c[i - 4] = Small(Len(e.data))[i]
  <2> SUFFICES ASSUME NEW i \in 5..8 PROVE c[i - 4] = Small(Len(e.data))[i]
    OBVIOUS
  <2>1. i - 4 \in 1..4 /\ (i - 4) + 4 = i
    OBVIOUS
  <2> QED
    BY <1>5, <2>1
<1>12. Len(e.data) = Len(d) /\ \A i \in 1..Len(d) : e.data[i] = d[i]
  BY DEF d
<1> QED
  BY <1>3, <1>4, <1>15, <1>7, <1>8, <1>9, <1>10, <1>11, <1>12

\* buf holds s after its first p bytes.
HoldsAt(buf, p, s) ==
    /\ p + Len(s) <= Len(buf)
    /\ \A i \in 1..Len(s) : buf[p + i] = s[i]

\* Four bytes that encode a length are read as that length.
LEMMA FourBytesLength ==
    ASSUME NEW bs \in Seq(Nat), Len(bs) = 4, NEW n \in Nat, n < Huge,
           \A i \in 1..4 : bs[i] = Small(n)[4 + i]
    PROVE  Length(Word(bs)) = n
<1> DEFINE w == Word(bs)
<1>1. w = [i \in 1..8 |-> IF i > 4 THEN bs[i - 4] ELSE 0]
  BY DEF Word
<1>2. /\ w[1] = 0 /\ w[2] = 0 /\ w[3] = 0 /\ w[4] = 0
      /\ w[5] = bs[1] /\ w[6] = bs[2] /\ w[7] = bs[3] /\ w[8] = bs[4]
  BY <1>1
<1> HIDE DEF w
<1>3. /\ bs[1] = Small(n)[4 + 1] /\ bs[2] = Small(n)[4 + 2]
      /\ bs[3] = Small(n)[4 + 3] /\ bs[4] = Small(n)[4 + 4]
  OBVIOUS
<1>4. \A i \in 1..5 : Small(n)[i] = 0
  BY SmallIsWord
<1>5. w[5] = 0 /\ w[6] = Small(n)[6] /\ w[7] = Small(n)[7] /\ w[8] = Small(n)[8]
  BY <1>2, <1>3, <1>4
<1>6. FitsIn(w, 3) /\ FitsIn(Small(n), 3)
  BY <1>2, <1>4, <1>5 DEF FitsIn
<1>7. LowBytes(w) = LowBytes(Small(n))
  BY <1>5 DEF LowBytes
<1>8. Length(w) = Length(Small(n))
  BY <1>6, <1>7 DEF Length
<1> QED
  BY <1>8, LengthOfSmall DEF w

\* An extension is read back from its bytes, wherever they are in the section
\* (frameext.go:48-79).
LEMMA ReadsBack ==
    ASSUME NEW buf \in Seq(Nat), NEW p \in Nat, NEW e \in Extensions, Len(e.data) < Huge,
           HoldsAt(buf, p, EncodeExtension(e))
    PROVE  ExtensionAt(buf, p) = Value(e, p + 8 + Len(e.data))
<1> DEFINE
      n == Len(e.data)
      body == p + 8
      code == EncodeExtension(e)
      x == [extType |-> 256 * buf[p + 1] + buf[p + 2],
            critical |-> buf[p + 3] = 1,
            data |-> SubSeq(buf, body + 1, body + n)]
<1>1. e.critical \in BOOLEAN /\ e.data \in Seq(Nat) /\ n \in Nat
  BY ExtensionFields, SMTT(30)
<1>2. Len(code) = 8 + n
  BY EncodeExtensionBytes
<1> HIDE DEF n, code
<1>3. body + n <= Len(buf) /\ body \in Nat /\ Len(buf) \in Nat
  <2>1. p + Len(code) <= Len(buf)
    BY DEF HoldsAt, code
  <2> QED
    BY <1>1, <1>2, <2>1
<1>4. \A i \in 1..(8 + n) : buf[p + i] = code[i]
  BY <1>2 DEF HoldsAt, code
<1>5. /\ 1 \in 1..(8 + n) /\ 2 \in 1..(8 + n) /\ 3 \in 1..(8 + n)
      /\ \A i \in 5..8 : i \in 1..(8 + n)
      /\ \A i \in 1..n : 8 + i \in 1..(8 + n)
  BY <1>1
<1>6. Length(Word(SubSeq(buf, p + 5, p + 8))) = n
  <2> DEFINE bs == SubSeq(buf, p + 5, p + 8)
  <2>1. /\ p + 5 \in Nat /\ p + 8 \in Nat /\ 1 <= p + 5 /\ p + 5 <= p + 8 + 1
        /\ (p + 8) - (p + 5) + 1 = 4 /\ p + 8 <= Len(buf)
    BY <1>1, <1>3
  <2>2. /\ bs \in Seq(Nat) /\ Len(bs) = (p + 8) - (p + 5) + 1
        /\ \A i \in 1..((p + 8) - (p + 5) + 1) : bs[i] = buf[(p + 5) + i - 1]
    BY <2>1, Slice
  <2> HIDE DEF bs
  <2>3. bs \in Seq(Nat) /\ Len(bs) = 4
    BY <2>1, <2>2
  <2>4. ASSUME NEW i \in 1..4 PROVE bs[i] = Small(n)[4 + i]
    <3>1. (p + 5) + i - 1 = p + (4 + i) /\ 4 + i \in 5..8
      OBVIOUS
    <3>2. bs[i] = buf[p + (4 + i)]
      BY <2>1, <2>2, <3>1
    <3>3. buf[p + (4 + i)] = code[4 + i]
      BY <1>4, <1>5, <3>1
    <3>4. code[4 + i] = Small(n)[4 + i]
      BY <3>1, EncodeExtensionBytes DEF code, n
    <3> QED
      BY <3>2, <3>3, <3>4
  <2>5. n < Huge
    BY DEF n
  <2>6. Length(Word(bs)) = n
    BY <1>1, <2>3, <2>4, <2>5, FourBytesLength
  <2> QED
    BY <2>6 DEF bs
<1>7. 256 * buf[p + 1] + buf[p + 2] = e.extType
  <2> DEFINE t == e.extType
  <2>1. buf[p + 1] = code[1] /\ buf[p + 2] = code[2]
    BY <1>4, <1>5
  <2>2. code[1] = Small(t)[7] /\ code[2] = Small(t)[8]
    BY EncodeExtensionBytes DEF code
  <2>3. t \in Nat /\ t < 256 * 256
    BY ExtensionFields
  <2> HIDE DEF t
  <2>5. 256 * Small(t)[7] + Small(t)[8] = t
    BY <2>3, TwoBytes
  <2>6. 256 * buf[p + 1] + buf[p + 2] = t
    BY <2>1, <2>2, <2>5
  <2> QED
    BY <2>6 DEF t
<1>8. (buf[p + 3] = 1) = e.critical
  <2>1. buf[p + 3] = code[3]
    BY <1>4, <1>5
  <2>2. code[3] = IF e.critical THEN 1 ELSE 0
    BY EncodeExtensionBytes DEF code
  <2> QED
    BY <1>1, <2>1, <2>2
<1>9. SubSeq(buf, body + 1, body + n) = e.data
  <2> DEFINE s == SubSeq(buf, body + 1, body + n)
  <2> HIDE DEF body
  <2>1. /\ body + 1 \in Nat /\ body + n \in Nat /\ 1 <= body + 1 /\ body + 1 <= body + n + 1
        /\ (body + n) - (body + 1) + 1 = n /\ body + n <= Len(buf)
    BY <1>1, <1>3
  <2>2. /\ s \in Seq(Nat) /\ Len(s) = (body + n) - (body + 1) + 1
        /\ \A i \in 1..((body + n) - (body + 1) + 1) : s[i] = buf[(body + 1) + i - 1]
    <3> DEFINE
          lo == body + 1
          hi == body + n
          t == SubSeq(buf, lo, hi)
    <3>1. lo \in Nat /\ hi \in Nat /\ 1 <= lo /\ lo <= hi + 1 /\ hi <= Len(buf)
      BY <2>1
    <3> HIDE DEF lo, hi
    <3>2. /\ t \in Seq(Nat) /\ Len(t) = hi - lo + 1
          /\ \A i \in 1..(hi - lo + 1) : t[i] = buf[lo + i - 1]
      BY <3>1, Slice
    <3> QED
      BY <3>2 DEF lo, hi
  <2> HIDE DEF s
  <2>3. s \in Seq(Nat) /\ Len(s) = n
    BY <2>1, <2>2
  <2>4. ASSUME NEW i \in 1..n PROVE s[i] = e.data[i]
    <3>1. (body + 1) + i - 1 = p + (8 + i)
      BY <1>1 DEF body
    <3>2. s[i] = buf[p + (8 + i)]
      BY <2>1, <2>2, <3>1
    <3>3. buf[p + (8 + i)] = code[8 + i]
      BY <1>4, <1>5
    <3>4. code[8 + i] = e.data[i]
      BY EncodeExtensionBytes DEF code, n
    <3> QED
      BY <3>2, <3>3, <3>4
  <2>5. Len(e.data) = n
    BY DEF n
  <2>6. s = e.data
    BY <1>1, <2>3, <2>4, <2>5, SeqEqual
  <2> QED
    BY <2>6 DEF s
<1>10. x = e
  <2>1. e = [extType |-> e.extType, critical |-> e.critical, data |-> e.data]
    BY ExtensionFields
  <2> QED
    BY <1>7, <1>8, <1>9, <2>1
<1>11. ~(Len(buf) < body) /\ ~(Len(buf) - body < n)
  BY <1>1, <1>3
<1>12. ExtensionAt(buf, p) = Value(x, body + n)
  BY <1>6, <1>11 DEF ExtensionAt, ExtHeaderSize
<1> HIDE DEF x
<1> QED
  BY <1>10, <1>12 DEF n

\* An extension that is read ends within the section.
LEMMA ExtensionAtEnds ==
    ASSUME NEW buf \in Seq(Nat), NEW p \in 0..Len(buf), ExtensionAt(buf, p).res = "ok"
    PROVE  \E n \in Nat :
              /\ n = Length(Word(SubSeq(buf, p + 5, p + 8)))
              /\ ExtensionAt(buf, p).pos = p + 8 + n
              /\ p + 8 + n <= Len(buf)
<1> DEFINE
      body == p + 8
      bs == SubSeq(buf, p + 5, p + 8)
      n == Length(Word(bs))
<1>1. ~(Len(buf) < body) /\ ~(Len(buf) - body < n)
  BY DEF ExtensionAt, ExtHeaderSize, Fail
<1>2. ExtensionAt(buf, p).pos = body + n
  BY <1>1 DEF ExtensionAt, ExtHeaderSize, Value
<1>3. Len(buf) \in Nat /\ p \in Nat /\ body \in Nat
  OBVIOUS
<1>4. n \in Nat
  <2> HIDE DEF n
  <2>1. /\ p + 5 \in Nat /\ p + 8 \in Nat /\ 1 <= p + 5 /\ p + 5 <= p + 8 + 1
        /\ (p + 8) - (p + 5) + 1 = 4 /\ p + 8 <= Len(buf)
    BY <1>1, <1>3
  <2>2. bs \in Seq(Nat) /\ Len(bs) = (p + 8) - (p + 5) + 1
    BY <2>1, Slice
  <2> HIDE DEF bs
  <2>3. bs \in Seq(Nat) /\ Len(bs) \in 0..8
    BY <2>1, <2>2
  <2>4. Word(bs) \in Words
    BY <2>3, WordIsWord
  <2> QED
    BY <2>4, LengthIsNat DEF n
<1>5. body + n <= Len(buf)
  <2> HIDE DEF n, body
  <2> QED
    BY <1>1, <1>3, <1>4
<1> HIDE DEF n
<1> QED
  BY <1>2, <1>4, <1>5 DEF n

\* ... and is one.
LEMMA ExtensionAtOk ==
    ASSUME NEW buf \in Seq(Byte), NEW p \in 0..Len(buf), ExtensionAt(buf, p).res = "ok"
    PROVE  \E e \in Extensions :
              /\ ExtensionAt(buf, p) = Value(e, p + 8 + Len(e.data))
              /\ p + 8 + Len(e.data) <= Len(buf)
<1>1. buf \in Seq(Nat)
  <2>1. Byte \subseteq Nat
    BY DEF Byte
  <2> QED
    BY <2>1, SeqMonotonic
<1>2. PICK n \in Nat : /\ n = Length(Word(SubSeq(buf, p + 5, p + 8)))
                       /\ p + 8 + n <= Len(buf)
  BY <1>1, ExtensionAtEnds
<1> DEFINE
      body == p + 8
      s == SubSeq(buf, body + 1, body + n)
      e == [extType |-> 256 * buf[p + 1] + buf[p + 2],
            critical |-> buf[p + 3] = 1,
            data |-> s]
<1>3. Len(buf) \in Nat /\ p \in Nat /\ body \in Nat /\ body + n <= Len(buf)
  BY <1>2
<1>4. ExtensionAt(buf, p) = Value(e, body + n)
  <2>1. ~(Len(buf) < body) /\ ~(Len(buf) - body < n)
    BY <1>3
  <2> QED
    BY <1>2, <2>1 DEF ExtensionAt, ExtHeaderSize
<1>5. s \in Seq(Byte) /\ Len(s) = n
  <2> HIDE DEF body
  <2>1. /\ body + 1 \in Nat /\ body + n \in Nat /\ 1 <= body + 1 /\ body + 1 <= body + n + 1
        /\ (body + n) - (body + 1) + 1 = n
    BY <1>3
  <2>2. s \in Seq(Byte) /\ Len(s) = (body + n) - (body + 1) + 1
    BY <1>3, <2>1, Slice
  <2> HIDE DEF s
  <2> QED
    BY <2>1, <2>2
<1> HIDE DEF s
<1>6. 256 * buf[p + 1] + buf[p + 2] \in Uint16
  <2>1. p + 1 \in 1..Len(buf) /\ p + 2 \in 1..Len(buf)
    BY <1>3
  <2>2. buf[p + 1] \in Byte /\ buf[p + 2] \in Byte
    BY <2>1, ElementOfSeq
  <2> QED
    BY <2>2, TypeOfBytes
<1>7. e \in Extensions
  BY <1>5, <1>6 DEF Extensions
<1>8. e.data = s
  OBVIOUS
<1> HIDE DEF e
<1> QED
  BY <1>3, <1>4, <1>5, <1>7, <1>8

-----------------------------------------------------------------------------
(* Frame extensions: a section of them *)

\* What DecodeExtensions returns from each position of a section on.
FromStep(buf, f, pos) ==
    LET first == ExtensionAt(buf, pos)
        rest == f[first.pos]
    IN  IF pos >= Len(buf) THEN Value(<<>>, pos)
        ELSE IF first.res # "ok" THEN Fail
        ELSE IF rest.res # "ok" THEN Fail
        ELSE Value(<<first.v>> \o rest.v, rest.pos)

From(buf) == CHOOSE f : f = [pos \in 0..Len(buf) |-> FromStep(buf, f, pos)]

\* It only depends on what is returned further on,
LEMMA FromStepLocal ==
    ASSUME NEW buf \in Seq(Nat), NEW p \in 0..Len(buf), NEW f, NEW g,
           \A q \in (p + 1)..Len(buf) : f[q] = g[q]
    PROVE  FromStep(buf, f, p) = FromStep(buf, g, p)
<1> DEFINE first == ExtensionAt(buf, p)
<1>1. CASE p >= Len(buf)
  BY <1>1 DEF FromStep
<1>2. CASE ~(p >= Len(buf)) /\ first.res # "ok"
  BY <1>2 DEF FromStep
<1>3. CASE ~(p >= Len(buf)) /\ first.res = "ok"
  <2>1. PICK n \in Nat : first.pos = p + 8 + n /\ p + 8 + n <= Len(buf)
    BY <1>3, ExtensionAtEnds
  <2> HIDE DEF first
  <2>2. first.pos \in (p + 1)..Len(buf)
    BY <2>1
  <2>3. f[first.pos] = g[first.pos]
    BY <2>2
  <2> QED
    BY <1>3, <2>3 DEF FromStep, first
<1> QED
  BY <1>1, <1>2, <1>3

\* so the recursive definition has a solution, and defines one.
LEMMA FromUnfold ==
    ASSUME NEW buf \in Seq(Nat)
    PROVE  /\ \A p \in 0..Len(buf) : From(buf)[p] = FromStep(buf, From(buf), p)
           /\ DecodeExtensions(buf) = From(buf)[0]
<1> DEFINE
      N == Len(buf)
      Solves(g, k) == \A p \in k..N : g[p] = FromStep(buf, g, p)
      G == {k \in 0..N : \E g : Solves(g, k)}
<1>1. N \in Nat
  OBVIOUS
<1>2. ASSUME NEW i \in 0..N, \A j \in (i + 1)..N : j \in G PROVE i \in G
  <2>1. \E g : Solves(g, i + 1)
    <3>1. CASE i = N
      <4>1. \A g : Solves(g, i + 1)
        BY <1>1, <3>1
      <4> HIDE DEF Solves
      <4> QED
        BY <4>1
    <3>2. CASE i # N
      <4>1. i + 1 \in (i + 1)..N
        BY <1>1, <3>2
      <4>2. i + 1 \in G
        BY <1>2, <4>1
      <4> HIDE DEF Solves
      <4> QED
        BY <4>2
    <3> QED
      BY <3>1, <3>2
  <2>2. PICK g : Solves(g, i + 1)
    BY <2>1
  <2> DEFINE
        here == FromStep(buf, g, i)
        h == [p \in i..N |-> IF p = i THEN here ELSE g[p]]
  <2> HIDE DEF here
  <2>3. \A p \in (i + 1)..N : h[p] = g[p] /\ p \in i..N
    BY <1>1
  <2>4. h[i] = here
    BY <1>1
  <2> HIDE DEF h
  <2>5. ASSUME NEW p \in i..N PROVE h[p] = FromStep(buf, h, p)
    <3>1. p \in 0..Len(buf) /\ \A q \in (p + 1)..Len(buf) : q \in (i + 1)..N
      BY <1>1
    <3>2. FromStep(buf, h, p) = FromStep(buf, g, p)
      BY <2>3, <3>1, FromStepLocal
    <3>3. CASE p = i
      BY <2>4, <3>2, <3>3 DEF here
    <3>4. CASE p # i
      <4>1. p \in (i + 1)..N
        BY <1>1, <3>4
      <4>2. g[p] = FromStep(buf, g, p)
        BY <2>2, <4>1
      <4> QED
        BY <2>3, <3>2, <4>1, <4>2
    <3> QED
      BY <3>3, <3>4
  <2>6. Solves(h, i)
    BY <2>5
  <2> HIDE DEF Solves
  <2> QED
    BY <2>6
<1>3. 0 \in G
  <2> HIDE DEF G
  <2>1. 0..N \subseteq G
    BY <1>1, <1>2, DownInduction
  <2> QED
    BY <1>1, <2>1
<1>4. PICK g : Solves(g, 0)
  <2> HIDE DEF Solves
  <2> QED
    BY <1>3
<1> DEFINE h == [p \in 0..Len(buf) |-> g[p]]
<1>5. h = [p \in 0..Len(buf) |-> FromStep(buf, h, p)]
  <2>1. ASSUME NEW p \in 0..Len(buf) PROVE g[p] = FromStep(buf, h, p)
    <3>1. \A q \in (p + 1)..Len(buf) : h[q] = g[q]
      BY <1>1
    <3> HIDE DEF h
    <3>2. FromStep(buf, h, p) = FromStep(buf, g, p)
      BY <3>1, FromStepLocal
    <3> QED
      BY <1>4, <3>2
  <2> DEFINE k(p) == FromStep(buf, h, p)
  <2>2. \A p \in 0..Len(buf) : g[p] = k(p)
    BY <2>1
  <2> HIDE DEF k
  <2>3. h = [p \in 0..Len(buf) |-> k(p)]
    BY <2>2
  <2> QED
    BY <2>3 DEF k
<1>6. From(buf) = [p \in 0..Len(buf) |-> FromStep(buf, From(buf), p)]
  <2> HIDE DEF h
  <2> QED
    BY <1>5 DEF From
<1>7. \A p \in 0..Len(buf) : From(buf)[p] = FromStep(buf, From(buf), p)
  <2> DEFINE
        k(p) == FromStep(buf, From(buf), p)
        r == [p \in 0..Len(buf) |-> k(p)]
  <2>1. From(buf) = r
    BY <1>6
  <2> HIDE DEF k
  <2>2. \A p \in 0..Len(buf) : r[p] = k(p)
    OBVIOUS
  <2> HIDE DEF r
  <2>3. \A p \in 0..Len(buf) : From(buf)[p] = k(p)
    BY <2>1, <2>2
  <2> QED
    BY <2>3 DEF k
<1>8. DecodeExtensions(buf) = From(buf)[0]
  BY DEF DecodeExtensions, From, FromStep
<1> QED
  BY <1>7, <1>8

\* A section, taken apart from its front (frameext.go:28-45).
LEMMA EncodeExtensionsCons ==
    ASSUME NEW e \in Extensions, NEW exts \in Seq(Extensions)
    PROVE  /\ EncodeExtensions(<<e>> \o exts) = EncodeExtension(e) \o EncodeExtensions(exts)
           /\ EncodeExtensions(exts) \in Seq(Nat)
           /\ EncodeExtensions(<<>>) = <<>>
<1> DEFINE
      all == <<e>> \o exts
      codes(x) == [i \in DOMAIN x |-> EncodeExtension(x[i])]
<1>1. /\ all \in Seq(Extensions) /\ DOMAIN all = 1..(Len(exts) + 1) /\ Len(exts) \in Nat
      /\ DOMAIN exts = 1..Len(exts)
      /\ all[1] = e /\ \A i \in 1..Len(exts) : all[i + 1] = exts[i] /\ exts[i] \in Extensions
  OBVIOUS
<1>2. EncodeExtension(e) \in Seq(Nat) /\ \A i \in 1..Len(exts) : EncodeExtension(exts[i]) \in Seq(Nat)
  BY <1>1, EncodeExtensionBytes
<1> DEFINE rest == [i \in 1..Len(exts) |-> EncodeExtension(exts[i])]
<1>3. rest \in Seq(Seq(Nat)) /\ Len(rest) = Len(exts)
  BY <1>1, <1>2
<1>4. codes(exts) = rest
  BY <1>1
<1>5. codes(all) = <<EncodeExtension(e)>> \o rest
  <2> DEFINE
        both == <<EncodeExtension(e)>> \o rest
        c1 == EncodeExtension(e)
  <2> HIDE DEF all, rest, c1
  <2>1. <<c1>> \in Seq(Seq(Nat)) /\ Len(<<c1>>) = 1 /\ <<c1>>[1] = c1
    BY <1>2 DEF c1
  <2>2. /\ both \in Seq(Seq(Nat)) /\ Len(both) = 1 + Len(exts)
        /\ both[1] = c1 /\ \A i \in 1..Len(exts) : both[1 + i] = rest[i]
    <3>1. both = <<c1>> \o rest
      BY DEF c1
    <3>2. /\ both \in Seq(Seq(Nat)) /\ Len(both) = Len(<<c1>>) + Len(rest)
          /\ \A i \in 1..Len(<<c1>>) : both[i] = <<c1>>[i]
          /\ \A i \in 1..Len(rest) : both[Len(<<c1>>) + i] = rest[i]
      <4> DEFINE one == <<c1>>
      <4>1. one \in Seq(Seq(Nat)) /\ rest \in Seq(Seq(Nat)) /\ both = one \o rest
        BY <1>3, <2>1, <3>1
      <4> HIDE DEF one, both
      <4>2. /\ both \in Seq(Seq(Nat)) /\ Len(both) = Len(one) + Len(rest)
            /\ \A i \in 1..Len(one) : both[i] = one[i]
            /\ \A i \in 1..Len(rest) : both[Len(one) + i] = rest[i]
        BY <4>1, Joined
      <4> QED
        BY <4>2 DEF one
    <3> HIDE DEF both
    <3> QED
      BY <1>3, <2>1, <3>2
  <2> HIDE DEF both
  <2>3. ASSUME NEW j \in 1..(Len(exts) + 1) PROVE EncodeExtension(all[j]) = both[j]
    <3>1. CASE j = 1
      BY <1>1, <2>2, <3>1 DEF c1
    <3>2. CASE j # 1
      <4>1. j - 1 \in 1..Len(exts) /\ (j - 1) + 1 = j /\ 1 + (j - 1) = j
        BY <1>1, <3>2
      <4>2. all[j] = exts[j - 1]
        BY <1>1, <4>1
      <4>3. both[j] = rest[j - 1]
        BY <2>2, <4>1
      <4> QED
        BY <4>1, <4>2, <4>3 DEF rest
    <3> QED
      BY <3>1, <3>2
  <2>4. both = [j \in 1..(Len(exts) + 1) |-> both[j]]
    BY <1>1, <2>2
  <2>5. codes(all) = [j \in 1..(Len(exts) + 1) |-> EncodeExtension(all[j])]
    BY <1>1
  <2>6. codes(all) = both
    BY <2>3, <2>4, <2>5
  <2> QED
    BY <2>6 DEF both
<1>6. /\ FlattenSeq(<<EncodeExtension(e)>> \o rest) = EncodeExtension(e) \o FlattenSeq(rest)
      /\ FlattenSeq(rest) \in Seq(Nat)
      /\ FlattenSeq(<<>>) = <<>>
  <2> HIDE DEF rest
  <2> QED
    BY <1>2, <1>3, FlattenCons
<1>7. EncodeExtensions(all) = FlattenSeq(codes(all)) /\ EncodeExtensions(exts) = FlattenSeq(codes(exts))
  BY DEF EncodeExtensions
<1>8. EncodeExtensions(<<>>) = FlattenSeq(<<>>)
  <2>1. codes(<<>>) = <<>>
    OBVIOUS
  <2> QED
    BY <2>1 DEF EncodeExtensions
<1> HIDE DEF codes, rest
<1> QED
  BY <1>4, <1>5, <1>6, <1>7, <1>8

\* Extensions short enough to be encoded with a length of four bytes.
Encodable(exts) == \A i \in 1..Len(exts) : Len(exts[i].data) < Huge

\* A non-empty sequence is its first element and the others.
LEMMA FirstAndOthers ==
    ASSUME NEW S, NEW s \in Seq(S), s # <<>>
    PROVE  /\ s = <<s[1]>> \o Tail(s) /\ s[1] \in S /\ Tail(s) \in Seq(S)
           /\ Len(Tail(s)) = Len(s) - 1 /\ Len(s) \in Nat \ {0}
           /\ \A i \in 1..(Len(s) - 1) : Tail(s)[i] = s[i + 1]
<1>1. Len(s) \in Nat \ {0}
  OBVIOUS
<1>2. Tail(s) \in Seq(S) /\ Len(Tail(s)) = Len(s) - 1 /\ s[1] \in S
  BY <1>1
<1>3. \A i \in 1..(Len(s) - 1) : Tail(s)[i] = s[i + 1]
  BY <1>1
<1>4. s = <<s[1]>> \o Tail(s)
  BY <1>1, <1>2, <1>3
<1> QED
  BY <1>1, <1>2, <1>3, <1>4

\* Decoding at the start of encoded extensions, whatever comes before them,
\* gives the extensions and ends where they end (frameext.go:48-79).
LEMMA DecodesEncoded ==
    ASSUME NEW N \in Nat
    PROVE  \A exts \in Seq(Extensions) : Len(exts) = N /\ Encodable(exts) =>
              \A x \in Seq(Nat) :
                 From(x \o EncodeExtensions(exts))[Len(x)]
                    = Value(exts, Len(x \o EncodeExtensions(exts)))
<1> DEFINE
      Good(exts) == \A x \in Seq(Nat) :
                       From(x \o EncodeExtensions(exts))[Len(x)]
                          = Value(exts, Len(x \o EncodeExtensions(exts)))
      G == {n \in 0..N : \A exts \in Seq(Extensions) :
                            Len(exts) = n /\ Encodable(exts) => Good(exts)}
<1>1. 0 \in G
  <2> SUFFICES ASSUME NEW exts \in Seq(Extensions), Len(exts) = 0, NEW x \in Seq(Nat)
               PROVE  From(x \o EncodeExtensions(exts))[Len(x)]
                         = Value(exts, Len(x \o EncodeExtensions(exts)))
    OBVIOUS
  <2>1. exts = <<>>
    OBVIOUS
  <2>2. EncodeExtensions(exts) = <<>>
    BY <2>1 DEF EncodeExtensions, FlattenSeq
  <2>3. x \o EncodeExtensions(exts) = x
    BY <2>2
  <2>4. From(x)[Len(x)] = FromStep(x, From(x), Len(x))
    <3>1. Len(x) \in 0..Len(x)
      OBVIOUS
    <3> QED
      BY <3>1, FromUnfold
  <2>5. FromStep(x, From(x), Len(x)) = Value(<<>>, Len(x))
    <3>1. Len(x) >= Len(x)
      OBVIOUS
    <3> QED
      BY <3>1 DEF FromStep
  <2> QED
    BY <2>1, <2>3, <2>4, <2>5
<1>2. ASSUME NEW n \in 1..N, n - 1 \in G PROVE n \in G
  <2>a. SUFFICES ASSUME NEW exts \in Seq(Extensions), Len(exts) = n, Encodable(exts),
                        NEW x \in Seq(Nat)
                 PROVE  From(x \o EncodeExtensions(exts))[Len(x)]
                         = Value(exts, Len(x \o EncodeExtensions(exts)))
    OBVIOUS
  <2> DEFINE
        e == exts[1]
        others == Tail(exts)
        code == EncodeExtension(e)
        more == EncodeExtensions(others)
        y == x \o code
        buf == x \o EncodeExtensions(exts)
  <2>1. exts # <<>>
    BY <2>a
  <2>2. /\ exts = <<e>> \o others /\ e \in Extensions /\ others \in Seq(Extensions)
        /\ Len(others) = n - 1
        /\ \A i \in 1..(n - 1) : others[i] = exts[i + 1]
    BY <2>a, <2>1, FirstAndOthers
  <2>3. Len(e.data) < Huge /\ Encodable(others)
    <3>1. 1 \in 1..Len(exts) /\ \A i \in 1..(n - 1) : i + 1 \in 1..Len(exts)
      BY <2>a
    <3> QED
      BY <2>a, <2>2, <3>1 DEF Encodable
  <2> HIDE DEF e, others
  <2>4. /\ code \in Seq(Nat) /\ Len(code) = 8 + Len(e.data) /\ Len(e.data) \in Nat
    BY <2>2, EncodeExtensionBytes, ExtensionFields
  <2>5. EncodeExtensions(exts) = code \o more /\ more \in Seq(Nat)
    BY <2>2, EncodeExtensionsCons
  <2> HIDE DEF code, more
  <2>b. code \in Seq(Nat) /\ more \in Seq(Nat) /\ x \in Seq(Nat)
    BY <2>4, <2>5
  <2>6. buf = y \o more /\ y \in Seq(Nat) /\ buf \in Seq(Nat)
    <3>1. x \o (code \o more) = (x \o code) \o more
      BY <2>b, SMTT(30)
    <3>2. y \in Seq(Nat)
      BY <2>4, Joined
    <3>3. y \o more \in Seq(Nat)
      BY <2>5, <3>2, Joined
    <3> QED
      BY <2>5, <3>1, <3>2, <3>3
  <2>7. /\ Len(y) = Len(x) + Len(code)
        /\ \A i \in 1..Len(code) : y[Len(x) + i] = code[i]
    BY <2>b, Joined
  <2> HIDE DEF y
  <2>8. /\ Len(y \o more) = Len(y) + Len(more)
        /\ \A i \in 1..Len(y) : (y \o more)[i] = y[i]
    BY <2>5, <2>6, Joined
  <2> HIDE DEF buf
  <2>9. Len(x) \in Nat /\ Len(y) \in Nat /\ Len(more) \in Nat /\ Len(code) \in Nat
    BY <2>4, <2>5, <2>6
  <2>10. HoldsAt(buf, Len(x), code)
    <3>1. Len(x) + Len(code) <= Len(buf)
      BY <2>6, <2>7, <2>8, <2>9
    <3>2. ASSUME NEW i \in 1..Len(code) PROVE buf[Len(x) + i] = code[i]
      <4>1. Len(x) + i \in 1..Len(y)
        BY <2>7, <2>9
      <4> QED
        BY <2>6, <2>7, <2>8, <4>1
    <3> QED
      BY <3>1, <3>2 DEF HoldsAt
  <2>11. ExtensionAt(buf, Len(x)) = Value(e, Len(y))
    <3>1. ExtensionAt(buf, Len(x)) = Value(e, Len(x) + 8 + Len(e.data))
      BY <2>2, <2>3, <2>6, <2>9, <2>10, ReadsBack DEF code
    <3>2. Len(x) + 8 + Len(e.data) = Len(y)
      <4> DEFINE
            k == Len(e.data)
            l == Len(x)
      <4>1. Len(y) = l + Len(code) /\ Len(code) = 8 + k /\ k \in Nat /\ l \in Nat
        BY <2>4, <2>7, <2>9
      <4> HIDE DEF k, l
      <4>2. l + 8 + k = Len(y)
        BY <4>1
      <4> QED
        BY <4>2 DEF k, l
    <3> QED
      BY <3>1, <3>2
  <2>12. From(buf)[Len(y)] = Value(others, Len(buf))
    <3>1. Good(others)
      <4> HIDE DEF Good
      <4> QED
        BY <1>2, <2>2, <2>3
    <3> QED
      BY <2>6, <3>1 DEF more
  <2>13. Len(x) \in 0..Len(buf) /\ ~(Len(x) >= Len(buf))
    BY <2>4, <2>6, <2>7, <2>8, <2>9, SMTT(30)
  <2>14. From(buf)[Len(x)] = FromStep(buf, From(buf), Len(x))
    BY <2>6, <2>13, FromUnfold
  <2>15. FromStep(buf, From(buf), Len(x)) = Value(<<e>> \o others, Len(buf))
    <3> DEFINE
          first == ExtensionAt(buf, Len(x))
          rest == From(buf)[first.pos]
    <3>1. first.res = "ok" /\ first.v = e /\ first.pos = Len(y)
      BY <2>11 DEF Value
    <3>2. rest = Value(others, Len(buf))
      BY <2>12, <3>1
    <3>3. rest.res = "ok" /\ rest.v = others /\ rest.pos = Len(buf)
      BY <3>2 DEF Value
    <3>4. FromStep(buf, From(buf), Len(x)) = Value(<<first.v>> \o rest.v, rest.pos)
      BY <2>13, <3>1, <3>3 DEF FromStep
    <3> HIDE DEF first, rest
    <3> QED
      BY <3>1, <3>3, <3>4
  <2>16. From(buf)[Len(x)] = Value(exts, Len(buf))
    BY <2>2, <2>14, <2>15
  <2> QED
    BY <2>16 DEF buf
<1>3. N \in G
  <2> HIDE DEF G
  <2>1. 0..N \subseteq G
    BY <1>1, <1>2, UpInduction
  <2> QED
    BY <2>1
<1> QED
  BY <1>3

\* Decoding an encoded section gives the extensions it was made of.
LEMMA DecodeOfEncode ==
    ASSUME NEW exts \in Seq(Extensions), Encodable(exts)
    PROVE  DecodeExtensions(EncodeExtensions(exts)) = Value(exts, Len(EncodeExtensions(exts)))
<1> DEFINE
      s == EncodeExtensions(exts)
      N == Len(exts)
<1>1. s \in Seq(Nat)
  <2>1. \E e : e \in Extensions
    BY SomeExtension
  <2> QED
    BY <2>1, EncodeExtensionsCons
<1>2. N \in Nat
  OBVIOUS
<1>3. \A x \in Seq(Nat) : From(x \o s)[Len(x)] = Value(exts, Len(x \o s))
  BY <1>2, DecodesEncoded
<1> HIDE DEF s
<1>4. <<>> \in Seq(Nat) /\ <<>> \o s = s /\ Len(<<>>) = 0
  BY <1>1
<1>5. From(s)[0] = Value(exts, Len(s))
  BY <1>3, <1>4
<1> QED
  BY <1>1, <1>5, FromUnfold DEF s

\* exts, from position p of buf on, take all the bytes that are left.
LaidOut(buf, p, exts) ==
    /\ exts \in Seq(Extensions)
    /\ \A i \in 1..Len(exts) : Len(exts[i].data) <= Len(buf)
    /\ Len(EncodeExtensions(exts)) = Len(buf) - p

\* One more extension in front.
LEMMA LaidOutCons ==
    ASSUME NEW buf \in Seq(Byte), NEW p \in 0..Len(buf), NEW e \in Extensions,
           p + 8 + Len(e.data) <= Len(buf),
           NEW exts, LaidOut(buf, p + 8 + Len(e.data), exts)
    PROVE  LaidOut(buf, p, <<e>> \o exts)
<1> DEFINE
      all == <<e>> \o exts
      k == Len(e.data)
      n == Len(exts)
<1>1. k \in Nat /\ Len(buf) \in Nat /\ p \in Nat /\ k <= Len(buf)
  <2>1. k \in Nat
    BY ExtensionFields
  <2> HIDE DEF k
  <2>2. p + 8 + k <= Len(buf)
    BY DEF k
  <2> QED
    BY <2>1, <2>2
<1>2. /\ exts \in Seq(Extensions) /\ n \in Nat
      /\ \A i \in 1..n : Len(exts[i].data) <= Len(buf)
      /\ Len(EncodeExtensions(exts)) = Len(buf) - (p + 8 + k)
  BY DEF LaidOut
<1>3. all \in Seq(Extensions) /\ Len(all) = n + 1 /\ all[1] = e
      /\ \A i \in 1..n : all[i + 1] = exts[i]
  <2>1. exts \in Seq(Extensions)
    BY <1>2
  <2> QED
    BY <2>1
<1>4. ASSUME NEW i \in 1..Len(all) PROVE Len(all[i].data) <= Len(buf)
  <2> HIDE DEF all
  <2>1. CASE i = 1
    BY <1>1, <1>3, <2>1
  <2>2. CASE i # 1
    <3>1. i - 1 \in 1..n /\ (i - 1) + 1 = i
      BY <1>2, <1>3, <2>2
    <3>2. all[i] = exts[i - 1]
      BY <1>3, <3>1
    <3> QED
      BY <1>2, <3>1, <3>2
  <2> QED
    BY <2>1, <2>2
<1>5. Len(EncodeExtensions(all)) = Len(buf) - p
  <2> DEFINE
        c == EncodeExtension(e)
        m == EncodeExtensions(exts)
  <2>1. EncodeExtensions(all) = c \o m /\ m \in Seq(Nat)
    BY <1>2, EncodeExtensionsCons
  <2>2. c \in Seq(Nat) /\ Len(c) = 8 + k
    BY EncodeExtensionBytes
  <2> HIDE DEF c, m, all, k
  <2>3. c \in Seq(Nat) /\ m \in Seq(Nat)
    BY <2>1, <2>2
  <2>4. Len(c \o m) = Len(c) + Len(m)
    BY <2>3, Joined
  <2>5. Len(m) = Len(buf) - (p + 8 + k)
    BY <1>2 DEF m
  <2> QED
    BY <1>1, <2>1, <2>2, <2>4, <2>5
<1> HIDE DEF all
<1>6. LaidOut(buf, p, all)
  BY <1>3, <1>4, <1>5 DEF LaidOut
<1> QED
  BY <1>6 DEF all

\* What is decoded from a position on is laid out over the rest of the section.
LEMMA DecodedLaidOut ==
    ASSUME NEW buf \in Seq(Byte), NEW p \in 0..Len(buf), From(buf)[p].res = "ok"
    PROVE  \E exts : LaidOut(buf, p, exts) /\ From(buf)[p] = Value(exts, Len(buf))
<1> DEFINE
      N == Len(buf)
      Good(q) == From(buf)[q].res = "ok" =>
                    \E exts : LaidOut(buf, q, exts) /\ From(buf)[q] = Value(exts, Len(buf))
      G == {q \in 0..N : Good(q)}
<1>1. N \in Nat
  OBVIOUS
<1>2. buf \in Seq(Nat)
  <2>1. Byte \subseteq Nat
    BY DEF Byte
  <2> QED
    BY <2>1, SeqMonotonic
<1>3. ASSUME NEW q \in 0..N, \A j \in (q + 1)..N : j \in G PROVE q \in G
  <2>1. SUFFICES ASSUME From(buf)[q].res = "ok"
                 PROVE  \E exts : LaidOut(buf, q, exts) /\ From(buf)[q] = Value(exts, Len(buf))
    BY <1>3
  <2>2. From(buf)[q] = FromStep(buf, From(buf), q)
    BY <1>2, FromUnfold
  <2>3. CASE q >= Len(buf)
    <3>1. q = Len(buf) /\ FromStep(buf, From(buf), q) = Value(<<>>, q)
      BY <1>1, <2>3 DEF FromStep
    <3>2. EncodeExtensions(<<>>) = <<>>
      <4>1. \E e : e \in Extensions
        BY SomeExtension
      <4>2. <<>> \in Seq(Extensions)
        OBVIOUS
      <4> QED
        BY <4>1, <4>2, EncodeExtensionsCons
    <3>3. Len(EncodeExtensions(<<>>)) = Len(buf) - q
      BY <1>1, <3>1, <3>2
    <3>4. LaidOut(buf, q, <<>>)
      BY <3>3 DEF LaidOut
    <3> QED
      BY <2>2, <3>1, <3>4
  <2>4. CASE ~(q >= Len(buf))
    <3> DEFINE
          first == ExtensionAt(buf, q)
          rest == From(buf)[first.pos]
    <3>1. /\ first.res = "ok" /\ rest.res = "ok"
          /\ FromStep(buf, From(buf), q) = Value(<<first.v>> \o rest.v, rest.pos)
      BY <2>1, <2>2, <2>4 DEF FromStep, Fail
    <3>2. PICK e \in Extensions : /\ first = Value(e, q + 8 + Len(e.data))
                                  /\ q + 8 + Len(e.data) <= Len(buf)
      BY <3>1, ExtensionAtOk
    <3> DEFINE next == q + 8 + Len(e.data)
    <3>3. first.v = e /\ first.pos = next
      BY <3>2 DEF Value
    <3>4. Len(e.data) \in Nat
      BY ExtensionFields
    <3>5. next \in (q + 1)..N
      <4> DEFINE k == Len(e.data)
      <4>1. k \in Nat /\ q + 8 + k <= N
        BY <3>2, <3>4
      <4> HIDE DEF k
      <4>2. q + 8 + k \in (q + 1)..N
        BY <1>1, <4>1
      <4> QED
        BY <4>2 DEF k
    <3> HIDE DEF first
    <3>6. Good(next)
      <4> HIDE DEF Good, next
      <4> QED
        BY <1>3, <3>5
    <3>7. PICK exts : LaidOut(buf, next, exts) /\ From(buf)[next] = Value(exts, Len(buf))
      BY <3>1, <3>3, <3>6
    <3>8. rest.v = exts /\ rest.pos = Len(buf)
      BY <3>3, <3>7 DEF Value
    <3>9. LaidOut(buf, q, <<e>> \o exts)
      BY <3>2, <3>7, LaidOutCons
    <3>10. From(buf)[q] = Value(<<e>> \o exts, Len(buf))
      BY <2>2, <3>1, <3>3, <3>8
    <3> QED
      BY <3>9, <3>10
  <2> QED
    BY <2>3, <2>4
<1>4. p \in G
  <2> HIDE DEF G
  <2>1. 0..N \subseteq G
    BY <1>1, <1>3, DownInduction
  <2> QED
    BY <2>1
<1> QED
  BY <1>4

\* A section as long as the frame decoder lets through decodes to extensions
\* that take all its bytes, and encoding them loses nothing (frameext.go:28-79).
LEMMA SectionTiles ==
    ASSUME NEW buf \in Seq(Byte), Len(buf) < Huge, DecodeExtensions(buf).res = "ok"
    PROVE  \E exts \in Seq(Extensions) :
              /\ DecodeExtensions(buf) = Value(exts, Len(buf))
              /\ Len(EncodeExtensions(exts)) = Len(buf)
              /\ DecodeExtensions(EncodeExtensions(exts)) = Value(exts, Len(buf))
<1>1. buf \in Seq(Nat)
  <2>1. Byte \subseteq Nat
    BY DEF Byte
  <2> QED
    BY <2>1, SeqMonotonic
<1>2. DecodeExtensions(buf) = From(buf)[0] /\ 0 \in 0..Len(buf) /\ Len(buf) \in Nat
  BY <1>1, FromUnfold
<1>3. PICK exts : LaidOut(buf, 0, exts) /\ From(buf)[0] = Value(exts, Len(buf))
  BY <1>2, DecodedLaidOut
<1>4. exts \in Seq(Extensions) /\ Len(EncodeExtensions(exts)) = Len(buf)
  <2>1. exts \in Seq(Extensions) /\ Len(EncodeExtensions(exts)) = Len(buf) - 0
    BY <1>3 DEF LaidOut
  <2> QED
    BY <1>2, <2>1
<1>5. Encodable(exts)
  <2> SUFFICES ASSUME NEW i \in 1..Len(exts) PROVE Len(exts[i].data) < Huge
    BY DEF Encodable
  <2>1. exts[i] \in Extensions
    BY <1>4
  <2>2. Len(exts[i].data) \in Nat
    BY <2>1, ExtensionFields
  <2>3. Len(exts[i].data) <= Len(buf)
    BY <1>3 DEF LaidOut
  <2>4. Huge \in Nat
    BY DEF Huge
  <2> QED
    BY <1>2, <2>2, <2>3, <2>4
<1>6. DecodeExtensions(EncodeExtensions(exts)) = Value(exts, Len(EncodeExtensions(exts)))
  BY <1>4, <1>5, DecodeOfEncode
<1> QED
  BY <1>2, <1>3, <1>4, <1>6

\* FindUnknownCritical returns the type of the first unknown critical
\* extension, and FindExtension the first extension of that type
\* (frameext.go:84-100).
LEMMA UnknownCriticalIsFound ==
    ASSUME NEW exts \in Seq(Extensions), NEW known, NEW i \in DOMAIN exts,
           exts[i].critical, exts[i].extType \notin known
    PROVE  LET found == FindUnknownCritical(exts, known)
           IN  /\ FindExtension(exts, found) \in 1..i
               /\ found \notin known
<1> DEFINE
      unknown == {j \in DOMAIN exts : exts[j].critical /\ exts[j].extType \notin known}
      t == FindUnknownCritical(exts, known)
      same == {j \in DOMAIN exts : exts[j].extType = t}
<1>1. DOMAIN exts \subseteq Nat \ {0}
  OBVIOUS
<1>2. i \in unknown /\ unknown \subseteq Nat
  BY <1>1
<1>3. Min(unknown) \in unknown /\ Min(unknown) <= i
  <2> HIDE DEF unknown
  <2>1. unknown # {}
    BY <1>2
  <2> QED
    BY <1>2, <2>1, MinIsLeast
<1>4. t = exts[Min(unknown)].extType
  BY <1>2 DEF FindUnknownCritical
<1> HIDE DEF t
<1>5. t \notin known /\ Min(unknown) \in same
  BY <1>3, <1>4
<1>6. same \subseteq Nat /\ same # {}
  BY <1>1, <1>5
<1>7. Min(same) \in same /\ Min(same) <= Min(unknown)
  <2> HIDE DEF same, unknown
  <2> QED
    BY <1>5, <1>6, MinIsLeast
<1>8. Min(same) \in Nat \ {0} /\ Min(unknown) \in Nat /\ i \in Nat
  BY <1>1, <1>2, <1>3, <1>7
<1>9. FindExtension(exts, t) = Min(same)
  BY <1>6 DEF FindExtension
<1> HIDE DEF same, unknown
<1>10. Min(same) \in 1..i
  BY <1>3, <1>7, <1>8
<1> QED
  BY <1>5, <1>9, <1>10 DEF t

-----------------------------------------------------------------------------
(* Frames *)

\* What is appended to a buffer is held behind it, and stays where it is when
\* more is appended.
LEMMA HoldsAtEnd ==
    ASSUME NEW S, NEW s \in Seq(S), NEW t \in Seq(S)
    PROVE  HoldsAt(s \o t, Len(s), t)
<1> DEFINE u == s \o t
<1>1. Len(u) = Len(s) + Len(t) /\ \A i \in 1..Len(t) : u[Len(s) + i] = t[i]
  BY Joined
<1>2. Len(s) \in Nat /\ Len(t) \in Nat
  OBVIOUS
<1> HIDE DEF u
<1>3. HoldsAt(u, Len(s), t)
  <2>1. Len(s) + Len(t) <= Len(u)
    BY <1>1, <1>2
  <2> QED
    BY <1>1, <2>1, Zenon DEF HoldsAt
<1> QED
  BY <1>3 DEF u

\* What is held stays held when more bytes follow.
LEMMA HoldsAtStays ==
    ASSUME NEW S, NEW s \in Seq(S), NEW t \in Seq(S), NEW p \in Nat, NEW x \in Seq(S),
           HoldsAt(s, p, x)
    PROVE  HoldsAt(s \o t, p, x)
<1> DEFINE u == s \o t
<1>1. Len(u) = Len(s) + Len(t) /\ \A i \in 1..Len(s) : u[i] = s[i]
  BY Joined
<1>2. Len(s) \in Nat /\ Len(t) \in Nat /\ Len(x) \in Nat
  OBVIOUS
<1> HIDE DEF u
<1>3. p + Len(x) <= Len(s) /\ \A i \in 1..Len(x) : s[p + i] = x[i]
  BY DEF HoldsAt
<1>4. p + Len(x) <= Len(u) /\ \A i \in 1..Len(x) : p + i \in 1..Len(s)
  BY <1>1, <1>2, <1>3
<1>5. \A i \in 1..Len(x) : u[p + i] = x[i]
  BY <1>1, <1>3, <1>4
<1>6. HoldsAt(u, p, x)
  BY <1>4, <1>5 DEF HoldsAt
<1> QED
  BY <1>6 DEF u

\* ... and it can be sliced out.
LEMMA HeldSlice ==
    ASSUME NEW buf \in Seq(Nat), NEW p \in Nat, NEW x \in Seq(Nat), HoldsAt(buf, p, x)
    PROVE  SubSeq(buf, p + 1, p + Len(x)) = x
<1> DEFINE
      n == Len(x)
      s == SubSeq(buf, p + 1, p + n)
<1>0. n \in Nat
  OBVIOUS
<1>1. p + n <= Len(buf) /\ \A i \in 1..n : buf[p + i] = x[i]
  BY DEF HoldsAt
<1>2. p + 1 \in Nat /\ p + n \in Nat /\ 1 <= p + 1 /\ p + 1 <= (p + n) + 1
      /\ (p + n) - (p + 1) + 1 = n
  <2> HIDE DEF n
  <2> QED
    BY <1>0
<1>3. /\ s \in Seq(Nat) /\ Len(s) = (p + n) - (p + 1) + 1
      /\ \A i \in 1..((p + n) - (p + 1) + 1) : s[i] = buf[(p + 1) + i - 1]
  BY <1>1, <1>2, Slice
<1> HIDE DEF s
<1>4. s \in Seq(Nat) /\ Len(s) = n
  BY <1>2, <1>3
<1>5. ASSUME NEW i \in 1..n PROVE s[i] = x[i]
  <2>1. (p + 1) + i - 1 = p + i
    OBVIOUS
  <2> QED
    BY <1>1, <1>2, <1>3, <2>1
<1>6. s = x
  BY <1>4, <1>5, SeqEqual
<1> QED
  BY <1>6 DEF s

\* A buffer that starts with a frame, in its parts.
FrameParts(bytes, buf, h, sid, pl, el, ext, pay, rest) ==
    /\ h \in Seq(Nat) /\ sid \in Seq(Nat) /\ pl \in Seq(Nat) /\ el \in Seq(Nat)
    /\ ext \in Seq(Nat) /\ pay \in Seq(Nat) /\ rest \in Seq(Nat)
    /\ Len(h) = 4 /\ Len(sid) = 8 /\ Len(pl) = 8 /\ Len(el) = 8
    /\ bytes = h \o sid \o pl \o el \o ext \o pay
    /\ buf = bytes \o rest

\* Where the parts are: the header of 28 bytes, the extension section, the
\* payload.
FrameHolds(bytes, buf, h, sid, pl, el, ext, pay) ==
    /\ bytes \in Seq(Nat) /\ buf \in Seq(Nat)
    /\ Len(bytes) = 28 + Len(ext) + Len(pay)
    /\ Len(bytes) <= Len(buf)
    /\ HoldsAt(buf, 0, h) /\ HoldsAt(buf, 4, sid)
    /\ HoldsAt(buf, 12, pl) /\ HoldsAt(buf, 20, el)
    /\ HoldsAt(buf, 28, ext) /\ HoldsAt(buf, 28 + Len(ext), pay)

\* The parts are there.
LEMMA FramePositions ==
    ASSUME NEW h, NEW sid, NEW pl, NEW el, NEW ext, NEW pay, NEW rest, NEW bytes, NEW buf,
           FrameParts(bytes, buf, h, sid, pl, el, ext, pay, rest)
    PROVE  FrameHolds(bytes, buf, h, sid, pl, el, ext, pay)
<1>l. Len(h) = 4 /\ Len(sid) = 8 /\ Len(pl) = 8 /\ Len(el) = 8 /\ Len(ext) \in Nat /\ Len(pay) \in Nat
  BY DEF FrameParts
<1>a. /\ h \in Seq(Nat) /\ sid \in Seq(Nat) /\ pl \in Seq(Nat) /\ el \in Seq(Nat)
      /\ ext \in Seq(Nat) /\ pay \in Seq(Nat) /\ rest \in Seq(Nat)
  BY DEF FrameParts
<1> DEFINE
      b1 == h \o sid
      b2 == b1 \o pl
      b3 == b2 \o el
      b4 == b3 \o ext
      b5 == b4 \o pay
      b6 == b5 \o rest
<1>1. /\ b1 \in Seq(Nat) /\ Len(b1) = Len(h) + Len(sid)
      /\ HoldsAt(b1, 0, h) /\ HoldsAt(b1, Len(h), sid)
  <2>1. b1 \in Seq(Nat) /\ Len(b1) = Len(h) + Len(sid) /\ \A i \in 1..Len(h) : b1[i] = h[i]
    BY <1>a, Joined
  <2>2. HoldsAt(b1, Len(h), sid)
    BY <1>a, HoldsAtEnd
  <2> HIDE DEF b1
  <2>3. HoldsAt(b1, 0, h)
    BY <1>l, <2>1 DEF HoldsAt
  <2> QED
    BY <2>1, <2>2, <2>3
<1> HIDE DEF b1
<1>2. /\ b2 \in Seq(Nat) /\ Len(b2) = Len(b1) + Len(pl)
      /\ HoldsAt(b2, Len(b1), pl)
      /\ \A p \in Nat : \A x \in Seq(Nat) : HoldsAt(b1, p, x) => HoldsAt(b2, p, x)
  BY <1>a, <1>1, Joined, HoldsAtEnd, HoldsAtStays
<1> HIDE DEF b2
<1>3. /\ b3 \in Seq(Nat) /\ Len(b3) = Len(b2) + Len(el)
      /\ HoldsAt(b3, Len(b2), el)
      /\ \A p \in Nat : \A x \in Seq(Nat) : HoldsAt(b2, p, x) => HoldsAt(b3, p, x)
  BY <1>a, <1>2, Joined, HoldsAtEnd, HoldsAtStays
<1> HIDE DEF b3
<1>4. /\ b4 \in Seq(Nat) /\ Len(b4) = Len(b3) + Len(ext)
      /\ HoldsAt(b4, Len(b3), ext)
      /\ \A p \in Nat : \A x \in Seq(Nat) : HoldsAt(b3, p, x) => HoldsAt(b4, p, x)
  BY <1>a, <1>3, Joined, HoldsAtEnd, HoldsAtStays
<1> HIDE DEF b4
<1>5. /\ b5 \in Seq(Nat) /\ Len(b5) = Len(b4) + Len(pay)
      /\ HoldsAt(b5, Len(b4), pay)
      /\ \A p \in Nat : \A x \in Seq(Nat) : HoldsAt(b4, p, x) => HoldsAt(b5, p, x)
  BY <1>a, <1>4, Joined, HoldsAtEnd, HoldsAtStays
<1> HIDE DEF b5
<1>6. /\ b6 \in Seq(Nat) /\ Len(b6) = Len(b5) + Len(rest)
      /\ \A p \in Nat : \A x \in Seq(Nat) : HoldsAt(b5, p, x) => HoldsAt(b6, p, x)
  BY <1>a, <1>5, Joined, HoldsAtStays
<1> HIDE DEF b6
<1>7. /\ Len(b1) = 12 /\ Len(b2) = 20 /\ Len(b3) = 28 /\ Len(b4) = 28 + Len(ext)
      /\ Len(b5) = 28 + Len(ext) + Len(pay)
  BY <1>l, <1>1, <1>2, <1>3, <1>4, <1>5
<1>8. Len(b5) <= Len(b6)
  BY <1>5, <1>6
<1>9. 0 \in Nat /\ 4 \in Nat /\ 12 \in Nat /\ 20 \in Nat /\ 28 \in Nat /\ 28 + Len(ext) \in Nat
  BY <1>l
<1>10. HoldsAt(b6, 0, h) /\ HoldsAt(b6, 4, sid)
  <2>1. HoldsAt(b1, 0, h) /\ HoldsAt(b1, 4, sid)
    BY <1>l, <1>1
  <2>2. HoldsAt(b2, 0, h) /\ HoldsAt(b2, 4, sid)
    BY <1>2, <1>9, <1>a, <2>1
  <2>3. HoldsAt(b3, 0, h) /\ HoldsAt(b3, 4, sid)
    BY <1>3, <1>9, <1>a, <2>2
  <2>4. HoldsAt(b4, 0, h) /\ HoldsAt(b4, 4, sid)
    BY <1>4, <1>9, <1>a, <2>3
  <2>5. HoldsAt(b5, 0, h) /\ HoldsAt(b5, 4, sid)
    BY <1>5, <1>9, <1>a, <2>4
  <2> QED
    BY <1>6, <1>9, <1>a, <2>5
<1>11. HoldsAt(b6, 12, pl) /\ HoldsAt(b6, 20, el)
  <2>1. HoldsAt(b2, 12, pl)
    BY <1>2, <1>7
  <2>2. HoldsAt(b3, 12, pl) /\ HoldsAt(b3, 20, el)
    BY <1>3, <1>7, <1>9, <1>a, <2>1
  <2>3. HoldsAt(b4, 12, pl) /\ HoldsAt(b4, 20, el)
    BY <1>4, <1>9, <1>a, <2>2
  <2>4. HoldsAt(b5, 12, pl) /\ HoldsAt(b5, 20, el)
    BY <1>5, <1>9, <1>a, <2>3
  <2> QED
    BY <1>6, <1>9, <1>a, <2>4
<1>12. HoldsAt(b6, 28, ext) /\ HoldsAt(b6, 28 + Len(ext), pay)
  <2>1. HoldsAt(b4, 28, ext)
    BY <1>4, <1>7
  <2>2. HoldsAt(b5, 28, ext) /\ HoldsAt(b5, 28 + Len(ext), pay)
    BY <1>5, <1>7, <1>9, <1>a, <2>1
  <2> QED
    BY <1>6, <1>9, <1>a, <2>2
<1>13. bytes = b5 /\ buf = b6
  BY DEF FrameParts, b1, b2, b3, b4, b5, b6
<1> QED
  BY <1>5, <1>6, <1>7, <1>8, <1>10, <1>11, <1>12, <1>13 DEF FrameHolds

\* Decode reads back what EncodeFrame writes, whatever follows it
\* (frame.go:62-149).
LEMMA FrameReadsBack ==
    ASSUME NEW ft \in Nat, NEW fl \in Nat, NEW sid \in Seq(Nat), NEW ext \in Seq(Nat),
           NEW pay \in Seq(Nat), NEW rest \in Seq(Nat), Len(sid) = 8,
           Len(ext) <= MaxExtensionSize, Len(pay) <= MaxPayloadSize
    PROVE  LET f == [version |-> Version, frameType |-> ft, flags |-> fl,
                     streamID |-> sid, extensions |-> ext, payload |-> pay]
               sent == EncodeFrame(f)
           IN  /\ sent.res = "ok"
               /\ DecodeFrame(sent.bytes \o rest)
                     = IF IsCriticalUnknownFrameType(ft, fl) THEN Fail
                       ELSE Value(f, Len(sent.bytes))
<1> DEFINE
      f == [version |-> Version, frameType |-> ft, flags |-> fl,
            streamID |-> sid, extensions |-> ext, payload |-> pay]
      h == <<Version, ft, fl, 0>>
      pl == Small(Len(pay))
      el == Small(Len(ext))
      bytes == h \o sid \o pl \o el \o ext \o pay
      buf == bytes \o rest
      k == Len(ext)
      n == Len(pay)
<1>s. SUFFICES /\ EncodeFrame(f).res = "ok"
               /\ DecodeFrame(EncodeFrame(f).bytes \o rest)
                     = IF IsCriticalUnknownFrameType(ft, fl) THEN Fail
                       ELSE Value(f, Len(EncodeFrame(f).bytes))
  OBVIOUS
<1>0. /\ k \in Nat /\ n \in Nat /\ k <= MaxExtensionSize /\ n <= MaxPayloadSize
      /\ k < Huge /\ n < Huge /\ ~(n > MaxPayloadSize) /\ ~(k > MaxExtensionSize)
  <2>1. k \in Nat /\ n \in Nat /\ k <= MaxExtensionSize /\ n <= MaxPayloadSize
    OBVIOUS
  <2>2. Huge \in Nat
    BY DEF Huge
  <2> HIDE DEF k, n
  <2> QED
    BY <2>1, <2>2, FrameSizes
<1>1. EncodeFrame(f) = [res |-> "ok", bytes |-> bytes]
  <2>1. f.payload = pay /\ f.extensions = ext /\ f.version = Version /\ f.frameType = ft
        /\ f.flags = fl /\ f.streamID = sid
    OBVIOUS
  <2> HIDE DEF f
  <2>2. ~(Len(f.payload) > MaxPayloadSize) /\ ~(Len(f.extensions) > MaxExtensionSize)
    BY <1>0, <2>1
  <2> QED
    BY <2>1, <2>2 DEF EncodeFrame
<1>2. EncodeFrame(f).res = "ok" /\ EncodeFrame(f).bytes = bytes
  <2> HIDE DEF bytes, f
  <2> QED
    BY <1>1
<1>3. h \in Seq(Nat) /\ Len(h) = 4 /\ h[1] = Version /\ h[2] = ft /\ h[3] = fl
  BY DEF Version
<1>4. pl \in Seq(Nat) /\ el \in Seq(Nat) /\ Len(pl) = 8 /\ Len(el) = 8
  BY <1>0, SmallIsWord
<1>5. Length(pl) = n /\ Length(el) = k
  BY <1>0, LengthOfSmall
<1>6. Len(sid) = 8 /\ sid \in Seq(Nat) /\ ext \in Seq(Nat) /\ pay \in Seq(Nat) /\ rest \in Seq(Nat)
  OBVIOUS
<1> HIDE DEF h, pl, el, f
<1>7. /\ bytes \in Seq(Nat) /\ buf \in Seq(Nat)
      /\ Len(bytes) = 28 + k + n /\ Len(bytes) <= Len(buf)
      /\ HoldsAt(buf, 0, h) /\ HoldsAt(buf, 4, sid)
      /\ HoldsAt(buf, 12, pl) /\ HoldsAt(buf, 20, el)
      /\ HoldsAt(buf, 28, ext) /\ HoldsAt(buf, 28 + k, pay)
  <2>1. FrameParts(bytes, buf, h, sid, pl, el, ext, pay, rest)
    BY <1>3, <1>4, <1>6 DEF FrameParts
  <2> HIDE DEF bytes, buf, k, n
  <2>2. FrameHolds(bytes, buf, h, sid, pl, el, ext, pay)
    BY <2>1, FramePositions
  <2> QED
    BY <2>2 DEF FrameHolds, k, n
<1> HIDE DEF bytes, buf
<1>b. Len(buf) \in Nat /\ Len(bytes) \in Nat
  BY <1>7
<1>8. buf[1] = Version /\ buf[2] = ft /\ buf[3] = fl
  <2>1. \A i \in 1..4 : buf[0 + i] = h[i]
    BY <1>3, <1>7 DEF HoldsAt
  <2>2. 1 \in 1..4 /\ 2 \in 1..4 /\ 3 \in 1..4 /\ 0 + 1 = 1 /\ 0 + 2 = 2 /\ 0 + 3 = 3
    OBVIOUS
  <2>3. buf[1] = h[1] /\ buf[2] = h[2] /\ buf[3] = h[3]
    BY <2>1, <2>2
  <2> QED
    BY <1>3, <2>3
<1>9. SubSeq(buf, 5, 12) = sid
  <2> DEFINE p == 4
  <2>1. p \in Nat /\ HoldsAt(buf, p, sid)
    BY <1>0, <1>7
  <2>2. buf \in Seq(Nat) /\ sid \in Seq(Nat)
    BY <1>4, <1>6, <1>7
  <2>3. p + 1 = 5 /\ p + Len(sid) = 12
    BY <1>4, <1>6
  <2> HIDE DEF p
  <2>4. SubSeq(buf, p + 1, p + Len(sid)) = sid
    BY <2>1, <2>2, HeldSlice
  <2> QED
    BY <2>3, <2>4
<1>10. SubSeq(buf, 13, 20) = pl
  <2> DEFINE p == 12
  <2>1. p \in Nat /\ HoldsAt(buf, p, pl)
    BY <1>0, <1>7
  <2>2. buf \in Seq(Nat) /\ pl \in Seq(Nat)
    BY <1>4, <1>6, <1>7
  <2>3. p + 1 = 13 /\ p + Len(pl) = 20
    BY <1>4, <1>6
  <2> HIDE DEF p
  <2>4. SubSeq(buf, p + 1, p + Len(pl)) = pl
    BY <2>1, <2>2, HeldSlice
  <2> QED
    BY <2>3, <2>4
<1>11. SubSeq(buf, 21, 28) = el
  <2> DEFINE p == 20
  <2>1. p \in Nat /\ HoldsAt(buf, p, el)
    BY <1>0, <1>7
  <2>2. buf \in Seq(Nat) /\ el \in Seq(Nat)
    BY <1>4, <1>6, <1>7
  <2>3. p + 1 = 21 /\ p + Len(el) = 28
    BY <1>4, <1>6
  <2> HIDE DEF p
  <2>4. SubSeq(buf, p + 1, p + Len(el)) = el
    BY <2>1, <2>2, HeldSlice
  <2> QED
    BY <2>3, <2>4
<1>12. SubSeq(buf, 28 + 1, 28 + k) = ext
  <2> DEFINE p == 28
  <2>1. p \in Nat /\ HoldsAt(buf, p, ext)
    BY <1>0, <1>7
  <2>2. buf \in Seq(Nat) /\ ext \in Seq(Nat)
    BY <1>4, <1>6, <1>7
  <2>3. p + 1 = 28 + 1 /\ p + Len(ext) = 28 + k
    BY <1>4, <1>6
  <2> HIDE DEF p
  <2>4. SubSeq(buf, p + 1, p + Len(ext)) = ext
    BY <2>1, <2>2, HeldSlice
  <2> QED
    BY <2>3, <2>4
<1>13. SubSeq(buf, 28 + k + 1, 28 + k + n) = pay
  <2> DEFINE p == 28 + k
  <2>1. p \in Nat /\ HoldsAt(buf, p, pay)
    BY <1>0, <1>7
  <2>2. buf \in Seq(Nat) /\ pay \in Seq(Nat)
    BY <1>4, <1>6, <1>7
  <2>3. p + 1 = 28 + k + 1 /\ p + Len(pay) = 28 + k + n
    BY <1>4, <1>6
  <2> HIDE DEF p
  <2>4. SubSeq(buf, p + 1, p + Len(pay)) = pay
    BY <2>1, <2>2, HeldSlice
  <2> QED
    BY <2>3, <2>4
<1>14. /\ Len(buf) \in Nat /\ ~(Len(buf) < 28) /\ ~(Len(buf) < 28 + k + n)
  <2> DEFINE l == Len(buf)
  <2>1. l \in Nat /\ k \in Nat /\ n \in Nat /\ 28 + k + n <= l
    BY <1>0, <1>b, <1>7
  <2> HIDE DEF k, n, l
  <2>2. l \in Nat /\ ~(l < 28) /\ ~(l < 28 + k + n)
    BY <2>1
  <2> QED
    BY <2>2 DEF l
<1> HIDE DEF k, n
<1>15. DecodeFrame(buf)
          = IF IsCriticalUnknownFrameType(ft, fl) THEN Fail ELSE Value(f, 28 + k + n)
  <2>1. CASE IsCriticalUnknownFrameType(ft, fl)
    BY <1>8, <2>1 DEF DecodeFrame
  <2>2. CASE ~IsCriticalUnknownFrameType(ft, fl)
    <3> DEFINE
          payloadLen == Length(SubSeq(buf, 13, 20))
          extLen == Length(SubSeq(buf, 21, 28))
          total == 28 + extLen + payloadLen
          g == [version |-> buf[1], frameType |-> buf[2], flags |-> buf[3],
                streamID |-> SubSeq(buf, 5, 12),
                extensions |-> SubSeq(buf, 28 + 1, 28 + extLen),
                payload |-> SubSeq(buf, 28 + extLen + 1, total)]
    <3>1. payloadLen = n /\ extLen = k
      BY <1>5, <1>10, <1>11
    <3>2. g = f
      BY <1>8, <1>9, <1>12, <1>13, <3>1 DEF f
    <3> HIDE DEF g
    <3>3. DecodeFrame(buf) = Value(g, total)
      <4>1. ~(\/ Len(buf) < 28
              \/ buf[1] # Version
              \/ payloadLen > MaxPayloadSize
              \/ extLen > MaxExtensionSize
              \/ Len(buf) < total
              \/ IsCriticalUnknownFrameType(buf[2], buf[3]))
        BY <1>0, <1>8, <1>14, <2>2, <3>1
      <4> QED
        BY <4>1 DEF DecodeFrame, HeaderSize, g
    <3> QED
      BY <2>2, <3>1, <3>2, <3>3
  <2> QED
    BY <2>1, <2>2
<1> QED
  BY <1>2, <1>7, <1>15 DEF buf

-----------------------------------------------------------------------------
(* CBOR items: heads *)

\* Whether an item takes at least a byte and no more than there are, from
\* position k on.
Advances(buf, item, k) ==
    \A q \in k..Len(buf) : item[q].res = "ok" => item[q].pos \in (q + 1)..Len(buf)

\* Two functions return the same from position k on.
SameFrom(buf, f, g, k) == \A q \in k..Len(buf) : f[q] = g[q]

\* What is returned from position k on never is a panic.
NoPanicFrom(buf, item, k) == \A q \in k..Len(buf) : item[q].res # "panic"

\* What the canonical decoder returns from position k on, the other one does.
AgreeFrom(buf, strict, plain, k) ==
    \A q \in k..Len(buf) : strict[q].res = "ok" => plain[q] = strict[q]

\* The argument of an initial byte: a word, of at most four bytes unless eight
\* are read, and the bytes it takes are there (cbor.go:668-705).
LEMMA readArgResult ==
    ASSUME NEW buf \in Seq(Byte), NEW p \in 0..Len(buf), NEW ai \in 0..31
    PROVE  LET r == readArg(buf, p, ai)
           IN  /\ r.res # "panic"
               /\ r.res = "ok" => /\ r.arg \in Words
                                  /\ r.pos \in p..Len(buf)
                                  /\ ai # 27 => FitsIn(r.arg, 4)
<1> DEFINE
      n == <<1, 2, 4, 8>>[ai - 24 + 1]
      r == readArg(buf, p, ai)
<1>0. Len(buf) \in Nat /\ p \in Nat /\ buf \in Seq(Nat)
  <2>1. Byte \subseteq Nat
    BY DEF Byte
  <2>2. buf \in Seq(Nat)
    BY <2>1, SeqMonotonic
  <2> QED
    BY <2>2
<1>1. CASE ai < 24
  <2>1. r = [res |-> "ok", arg |-> Small(ai), pos |-> p]
    BY <1>1 DEF readArg, aiOneByte
  <2>2. r.res = "ok" /\ r.arg = Small(ai) /\ r.pos = p
    BY <2>1
  <2>3. Small(ai) \in Words /\ FitsIn(Small(ai), 4)
    <3>1. /\ Small(ai) \in Seq(Nat) /\ Len(Small(ai)) = 8
          /\ \A i \in 1..5 : Small(ai)[i] = 0
      <4>1. ai \in Nat
        OBVIOUS
      <4> QED
        BY <4>1, SmallIsWord
    <3>2. Small(ai) \in [1..Len(Small(ai)) -> Nat]
      <4> DEFINE w == Small(ai)
      <4>1. w \in Seq(Nat)
        BY <3>1
      <4> HIDE DEF w
      <4>2. w \in [1..Len(w) -> Nat]
        BY <4>1
      <4> QED
        BY <4>2 DEF w
    <3> QED
      BY <3>1, <3>2 DEF FitsIn, Words
  <2> QED
    BY <1>0, <2>2, <2>3
<1>2. CASE ai > 27 \/ p + n > Len(buf)
  <2>1. CASE ai < 24
    BY <1>1, <2>1
  <2>2. CASE ~(ai < 24)
    <3>1. r = Fail
      BY <1>2, <2>2 DEF readArg, aiOneByte, aiEightBytes
    <3> QED
      BY <3>1 DEF Fail
  <2> QED
    BY <2>1, <2>2
<1>3. CASE ~(ai < 24) /\ ~(ai > 27 \/ p + n > Len(buf))
  <2> DEFINE bs == SubSeq(buf, p + 1, p + n)
  <2>1. r = [res |-> "ok", arg |-> Word(bs), pos |-> p + n]
    BY <1>3 DEF readArg, aiOneByte, aiEightBytes
  <2>2. n \in 1..8 /\ (ai # 27 => n \in 1..4)
    <3>1. ai = 24 \/ ai = 25 \/ ai = 26 \/ ai = 27
      BY <1>3
    <3> QED
      BY <3>1
  <2> HIDE DEF n
  <2>3. p + n <= Len(buf)
    BY <1>0, <1>3, <2>2
  <2>4. /\ p + 1 \in Nat /\ p + n \in Nat /\ 1 <= p + 1 /\ p + 1 <= (p + n) + 1
        /\ (p + n) - (p + 1) + 1 = n
    BY <1>0, <2>2
  <2>5. bs \in Seq(Nat) /\ Len(bs) = (p + n) - (p + 1) + 1
    BY <1>0, <2>3, <2>4, Slice
  <2> HIDE DEF bs
  <2>6. bs \in Seq(Nat) /\ Len(bs) = n /\ Len(bs) \in 0..8
    BY <2>2, <2>4, <2>5
  <2>7. Word(bs) \in Words
    BY <2>6, WordIsWord
  <2>8. ASSUME ai # 27 PROVE FitsIn(Word(bs), 4)
    <3>1. n \in 1..4
      BY <2>2, <2>8
    <3>2. Word(bs) = [i \in 1..8 |-> IF i + n > 8 THEN bs[i + n - 8] ELSE 0]
      BY <2>6 DEF Word
    <3>3. \A i \in 1..4 : ~(i + n > 8) /\ i \in 1..8
      BY <3>1
    <3>4. \A i \in 1..4 : Word(bs)[i] = 0
      BY <3>2, <3>3
    <3> QED
      BY <3>4 DEF FitsIn
  <2>9. r.res = "ok" /\ r.arg = Word(bs) /\ r.pos = p + n
    BY <2>1
  <2>10. p + n \in p..Len(buf)
    BY <1>0, <2>2, <2>3
  <2> QED
    BY <2>7, <2>8, <2>9, <2>10
<1> QED
  BY <1>1, <1>2, <1>3

\* The canonical decoder's argument is the same or an error (cbor.go:479-532).
LEMMA readArgCanonicalResult ==
    ASSUME NEW buf, NEW p, NEW ai
    PROVE  readArgCanonical(buf, p, ai) \in {Fail, readArg(buf, p, ai)}
  BY DEF readArgCanonical

\* A word below Huge has a first byte of 0.
LEMMA ShortIsPositive ==
    ASSUME NEW w \in Words, Length(w) < Huge
    PROVE  w[1] = 0 /\ ~Negative(w)
<1>1. CASE FitsIn(w, 3)
  <2>1. w[1] = 0
    BY <1>1 DEF FitsIn
  <2> QED
    BY <2>1 DEF Negative
<1>2. CASE ~FitsIn(w, 3)
  <2>1. Length(w) = Huge /\ Huge \in Nat
    BY <1>2 DEF Length, Huge
  <2> QED
    BY <2>1
<1> QED
  BY <1>1, <1>2

\* So has one of four bytes, and it is neither negative nor makes a sum wrap.
LEMMA FourBytesArePositive ==
    ASSUME NEW w \in Words, FitsIn(w, 4)
    PROVE  ~Negative(w) /\ \A start : ~SumWraps(start, w)
<1>1. \A i \in 1..4 : w[i] = 0
  BY DEF FitsIn
<1>2. w[1] = 0
  BY <1>1
<1>3. ~Negative(w)
  BY <1>2 DEF Negative
<1>4. \A start : ~SumWraps(start, w)
  BY <1>2 DEF SumWraps
<1> QED
  BY <1>3, <1>4

-----------------------------------------------------------------------------
(* CBOR items: the loop over the elements of an array or map *)

\* One turn takes at least a byte, and no more than there are.
LEMMA NextElementAdvances ==
    ASSUME NEW buf \in Seq(Byte), NEW k \in Nat, NEW item, Advances(buf, item, k),
           NEW c, NEW mt, NEW s, s.res = "ok" => s.pos \in k..Len(buf),
           NextElement(c, mt, item, s).res = "ok"
    PROVE  s.res = "ok" /\ NextElement(c, mt, item, s).pos \in (s.pos + 1)..Len(buf)
<1> DEFINE
      x == item[s.pos]
      v == IF mt = mtArray \/ x.res # "ok" THEN x ELSE item[x.pos]
      r == NextElement(c, mt, item, s)
<1>1. s.res = "ok" /\ v.res = "ok" /\ r.pos = v.pos
  BY DEF NextElement, Value, Fail
<1>2. s.pos \in k..Len(buf) /\ Len(buf) \in Nat
  BY <1>1
<1>3. x.res = "ok" => x.pos \in (s.pos + 1)..Len(buf)
  BY <1>2 DEF Advances
<1>4. CASE mt = mtArray \/ x.res # "ok"
  <2>1. v = x
    BY <1>4
  <2> HIDE DEF v, x, r
  <2> QED
    BY <1>1, <1>3, <2>1 DEF r
<1>5. CASE ~(mt = mtArray \/ x.res # "ok")
  <2>1. v = item[x.pos] /\ x.res = "ok"
    BY <1>5
  <2>2. x.pos \in (s.pos + 1)..Len(buf) /\ x.pos \in k..Len(buf)
    BY <1>2, <1>3, <2>1
  <2>3. item[x.pos].res = "ok" => item[x.pos].pos \in (x.pos + 1)..Len(buf)
    BY <2>2 DEF Advances
  <2>4. v.pos \in (x.pos + 1)..Len(buf)
    <3> HIDE DEF v, x, r
    <3> QED
      BY <1>1, <2>1, <2>3
  <2>5. v.pos \in (s.pos + 1)..Len(buf)
    <3> HIDE DEF v, x, r
    <3> QED
      BY <1>2, <2>2, <2>4
  <2> HIDE DEF v, x, r
  <2> QED
    BY <1>1, <2>5 DEF r
<1> QED
  BY <1>4, <1>5

\* It only depends on what is returned from the loop's position on.
LEMMA NextElementLocal ==
    ASSUME NEW buf \in Seq(Byte), NEW k \in Nat, NEW f, NEW g,
           Advances(buf, f, k), SameFrom(buf, f, g, k),
           NEW c, NEW mt, NEW s, s.res = "ok" => s.pos \in k..Len(buf)
    PROVE  NextElement(c, mt, f, s) = NextElement(c, mt, g, s)
<1>1. CASE s.res # "ok"
  BY <1>1 DEF NextElement
<1>2. CASE s.res = "ok"
  <2>1. s.pos \in k..Len(buf) /\ Len(buf) \in Nat
    BY <1>2
  <2>2. f[s.pos] = g[s.pos]
    BY <2>1 DEF SameFrom
  <2>3. f[s.pos].res = "ok" => f[f[s.pos].pos] = g[f[s.pos].pos]
    <3>1. SUFFICES ASSUME f[s.pos].res = "ok" PROVE f[f[s.pos].pos] = g[f[s.pos].pos]
      OBVIOUS
    <3>2. f[s.pos].pos \in (s.pos + 1)..Len(buf)
      BY <2>1, <3>1 DEF Advances
    <3>3. f[s.pos].pos \in k..Len(buf)
      BY <2>1, <3>2
    <3> QED
      BY <3>3 DEF SameFrom
  <2>4. (IF mt = mtArray \/ f[s.pos].res # "ok" THEN f[s.pos] ELSE f[f[s.pos].pos])
           = (IF mt = mtArray \/ g[s.pos].res # "ok" THEN g[s.pos] ELSE g[g[s.pos].pos])
    BY <2>2, <2>3
  <2> QED
    BY <2>2, <2>4 DEF NextElement
<1> QED
  BY <1>1, <1>2

\* The canonical decoder, and the other one.
BothModes(c, d) == c = TRUE /\ d = FALSE

\* The other decoder takes the same element: it knows no duplicates.
LEMMA NextElementAgrees ==
    ASSUME NEW buf \in Seq(Byte), NEW k \in Nat, NEW strict, NEW plain,
           Advances(buf, strict, k), AgreeFrom(buf, strict, plain, k),
           NEW c, NEW d, BothModes(c, d), NEW mt, NEW s, s.res = "ok" => s.pos \in k..Len(buf),
           NextElement(c, mt, strict, s).res = "ok"
    PROVE  NextElement(d, mt, plain, s) = NextElement(c, mt, strict, s)
<1> DEFINE
      x == strict[s.pos]
      v == IF mt = mtArray \/ x.res # "ok" THEN x ELSE strict[x.pos]
      y == plain[s.pos]
      w == IF mt = mtArray \/ y.res # "ok" THEN y ELSE plain[y.pos]
      elem(a, b) == IF mt = mtArray THEN b.v ELSE MapEntry(a.v, b.v)
<1>1. /\ s.res = "ok" /\ v.res = "ok"
      /\ NextElement(c, mt, strict, s) = Value(Append(s.v, elem(x, v)), v.pos)
  BY DEF NextElement, Fail
<1>2. s.pos \in k..Len(buf) /\ Len(buf) \in Nat
  BY <1>1
<1>3. x.res = "ok"
  BY <1>1
<1>4. y = x
  BY <1>2, <1>3 DEF AgreeFrom
<1>5. w = v
  <2>1. CASE mt = mtArray
    BY <1>4, <2>1
  <2>2. CASE mt # mtArray
    <3>1. v = strict[x.pos] /\ w = plain[x.pos]
      BY <1>3, <1>4, <2>2
    <3>2. x.pos \in (s.pos + 1)..Len(buf)
      BY <1>2, <1>3 DEF Advances
    <3>3. x.pos \in k..Len(buf)
      BY <1>2, <3>2
    <3>4. strict[x.pos].res = "ok"
      BY <1>1, <3>1
    <3>5. plain[x.pos] = strict[x.pos]
      BY <3>3, <3>4 DEF AgreeFrom
    <3> QED
      BY <3>1, <3>5
  <2> QED
    BY <2>1, <2>2
<1>6. NextElement(d, mt, plain, s) = Value(Append(s.v, elem(y, w)), w.pos)
  <2>1. w.res = "ok"
    BY <1>1, <1>5
  <2> QED
    BY <1>1, <2>1 DEF NextElement, BothModes
<1> HIDE DEF v, w, x, y, elem
<1> QED
  BY <1>1, <1>4, <1>5, <1>6

\* A turn panics only if an element does.
LEMMA NextElementNoPanic ==
    ASSUME NEW buf \in Seq(Byte), NEW k \in Nat, NEW item,
           Advances(buf, item, k), NoPanicFrom(buf, item, k),
           NEW c, NEW mt, NEW s, s.res = "ok" => s.pos \in k..Len(buf), s.res # "panic"
    PROVE  NextElement(c, mt, item, s).res # "panic"
<1> DEFINE
      x == item[s.pos]
      v == IF mt = mtArray \/ x.res # "ok" THEN x ELSE item[x.pos]
<1>1. CASE s.res # "ok"
  BY <1>1 DEF NextElement
<1>2. CASE s.res = "ok"
  <2>1. s.pos \in k..Len(buf) /\ Len(buf) \in Nat
    BY <1>2
  <2>2. x.res # "panic"
    BY <2>1 DEF NoPanicFrom
  <2>3. x.res = "ok" => item[x.pos].res # "panic"
    <3>1. SUFFICES ASSUME x.res = "ok" PROVE item[x.pos].res # "panic"
      OBVIOUS
    <3>2. x.pos \in (s.pos + 1)..Len(buf)
      BY <2>1, <3>1 DEF Advances
    <3>3. x.pos \in k..Len(buf)
      BY <2>1, <3>2
    <3> QED
      BY <3>3 DEF NoPanicFrom
  <2>4. v.res # "panic"
    BY <2>2, <2>3
  <2> QED
    BY <1>2, <2>4 DEF NextElement, Value, Fail
<1> QED
  BY <1>1, <1>2

\* The turns of the loop, one after the other.
IsLoop(L, c, mt, item, pos, n) ==
    /\ L[0] = Value(<<>>, pos)
    /\ \A i \in 1..n : L[i] = NextElement(c, mt, item, L[i - 1])

\* They are what Elements computes.
LEMMA ElementsUnfold ==
    ASSUME NEW n \in Nat, NEW c, NEW mt, NEW item, NEW pos
    PROVE  \E L : IsLoop(L, c, mt, item, pos, n) /\ Elements(c, mt, item, pos, n) = L[n]
<1> DEFINE
      turn(s) == NextElement(c, mt, item, s)
      start == Value(<<>>, pos)
      Upto(L, k) == L[0] = start /\ \A i \in 1..k : L[i] = turn(L[i - 1])
      G == {k \in 0..n : \E L : Upto(L, k)}
      Body(L, i) == IF i = 0 THEN start ELSE turn(L[i - 1])
      loop == CHOOSE L : L = [i \in 0..n |-> Body(L, i)]
<1>0. Elements(c, mt, item, pos, n) = loop[n]
  BY DEF Elements
<1> HIDE DEF turn, start
<1>1. 0 \in G
  <2> DEFINE L == [i \in 0..0 |-> start]
  <2>1. Upto(L, 0)
    OBVIOUS
  <2> HIDE DEF L, Upto
  <2> QED
    BY <2>1
<1>2. ASSUME NEW k \in 1..n, k - 1 \in G PROVE k \in G
  <2>1. PICK L : Upto(L, k - 1)
    BY <1>2
  <2> DEFINE
        last == turn(L[k - 1])
        H == [i \in 0..k |-> IF i = k THEN last ELSE L[i]]
  <2> HIDE DEF last
  <2>2. k - 1 \in 0..(k - 1) /\ 0 \in 0..(k - 1) /\ k \in Nat
    OBVIOUS
  <2>3. \A i \in 0..(k - 1) : H[i] = L[i]
    OBVIOUS
  <2>4. H[k] = last
    OBVIOUS
  <2> HIDE DEF H
  <2>5. H[0] = start
    BY <2>1, <2>2, <2>3
  <2>6. ASSUME NEW i \in 1..k PROVE H[i] = turn(H[i - 1])
    <3>1. CASE i = k
      <4>1. H[i - 1] = L[k - 1]
        BY <2>2, <2>3, <3>1
      <4> QED
        BY <2>4, <3>1, <4>1 DEF last
    <3>2. CASE i # k
      <4>1. i \in 1..(k - 1) /\ i \in 0..(k - 1) /\ i - 1 \in 0..(k - 1)
        BY <3>2
      <4>2. L[i] = turn(L[i - 1])
        BY <2>1, <4>1
      <4> QED
        BY <2>3, <4>1, <4>2
    <3> QED
      BY <3>1, <3>2
  <2>7. Upto(H, k)
    BY <2>5, <2>6
  <2> HIDE DEF Upto
  <2> QED
    BY <2>7
<1>3. n \in G
  <2> HIDE DEF G
  <2>1. 0..n \subseteq G
    BY <1>1, <1>2, UpInduction
  <2> QED
    BY <2>1
<1>4. PICK L : Upto(L, n)
  <2> HIDE DEF Upto
  <2> QED
    BY <1>3
<1> DEFINE M == [i \in 0..n |-> L[i]]
<1>5. M = [i \in 0..n |-> Body(M, i)]
  <2>1. ASSUME NEW i \in 0..n PROVE L[i] = Body(M, i)
    <3>1. CASE i = 0
      BY <1>4, <3>1
    <3>2. CASE i # 0
      <4>1. i \in 1..n /\ i - 1 \in 0..n
        BY <3>2
      <4>2. L[i] = turn(L[i - 1])
        BY <1>4, <4>1
      <4>3. M[i - 1] = L[i - 1]
        BY <4>1
      <4> HIDE DEF M
      <4> QED
        BY <3>2, <4>2, <4>3
    <3> QED
      BY <3>1, <3>2
  <2> DEFINE b(i) == Body(M, i)
  <2>2. \A i \in 0..n : L[i] = b(i)
    BY <2>1
  <2> HIDE DEF b
  <2>3. M = [i \in 0..n |-> b(i)]
    BY <2>2
  <2> QED
    BY <2>3 DEF b
<1>6. loop = [i \in 0..n |-> Body(loop, i)]
  <2> HIDE DEF M, Body
  <2> QED
    BY <1>5
<1>7. \A i \in 0..n : loop[i] = Body(loop, i)
  <2> HIDE DEF loop
  <2> DEFINE b(i) == Body(loop, i)
  <2>1. loop = [i \in 0..n |-> b(i)]
    BY <1>6
  <2> HIDE DEF b
  <2>2. \A i \in 0..n : loop[i] = b(i)
    BY <2>1
  <2> QED
    BY <2>2 DEF b
<1> HIDE DEF loop
<1>8. loop[0] = start /\ \A i \in 1..n : loop[i] = turn(loop[i - 1])
  <2>1. 0 \in 0..n /\ \A i \in 1..n : i \in 0..n /\ i # 0
    OBVIOUS
  <2> QED
    BY <1>7, <2>1
<1>9. IsLoop(loop, c, mt, item, pos, n)
  BY <1>8 DEF IsLoop, turn, start
<1> QED
  BY <1>0, <1>9

\* Every turn of the loop has taken at least a byte.
LEMMA LoopAdvances ==
    ASSUME NEW buf \in Seq(Byte), NEW k \in Nat, NEW item, Advances(buf, item, k),
           NEW c, NEW mt, NEW pos \in k..Len(buf), NEW n \in Nat,
           NEW L, IsLoop(L, c, mt, item, pos, n)
    PROVE  \A i \in 0..n : L[i].res = "ok" =>
              /\ L[i].pos \in (pos + i)..Len(buf)
              /\ L[i].pos \in k..Len(buf)
<1> DEFINE
      Good(i) == L[i].res = "ok" => L[i].pos \in (pos + i)..Len(buf)
      G == {i \in 0..n : Good(i)}
<1>0. Len(buf) \in Nat /\ pos \in Nat
  OBVIOUS
<1>1. 0 \in G
  <2>1. L[0] = Value(<<>>, pos)
    BY DEF IsLoop
  <2>2. L[0].pos = pos
    BY <2>1 DEF Value
  <2> QED
    BY <1>0, <2>2
<1>2. ASSUME NEW i \in 1..n, i - 1 \in G PROVE i \in G
  <2>1. SUFFICES ASSUME L[i].res = "ok" PROVE L[i].pos \in (pos + i)..Len(buf)
    OBVIOUS
  <2> DEFINE s == L[i - 1]
  <2>2. L[i] = NextElement(c, mt, item, s)
    BY DEF IsLoop
  <2>3. s.res = "ok" => s.pos \in (pos + (i - 1))..Len(buf)
    BY <1>2
  <2> HIDE DEF s
  <2>4. s.res = "ok" => s.pos \in k..Len(buf)
    BY <1>0, <2>3
  <2>5. s.res = "ok" /\ NextElement(c, mt, item, s).pos \in (s.pos + 1)..Len(buf)
    BY <2>1, <2>2, <2>4, NextElementAdvances
  <2> QED
    BY <1>0, <2>2, <2>3, <2>5
<1>3. 0..n \subseteq G
  <2> HIDE DEF G
  <2> QED
    BY <1>1, <1>2, UpInduction
<1>4. ASSUME NEW i \in 0..n, L[i].res = "ok"
      PROVE  L[i].pos \in (pos + i)..Len(buf) /\ L[i].pos \in k..Len(buf)
  <2>1. L[i].pos \in (pos + i)..Len(buf)
    BY <1>3, <1>4
  <2> QED
    BY <1>0, <2>1
<1> QED
  BY <1>4

\* So has the whole loop.
LEMMA ElementsAdvance ==
    ASSUME NEW buf \in Seq(Byte), NEW k \in Nat, NEW item, Advances(buf, item, k),
           NEW c, NEW mt, NEW pos \in k..Len(buf), NEW n \in Nat,
           Elements(c, mt, item, pos, n).res = "ok"
    PROVE  Elements(c, mt, item, pos, n).pos \in (pos + n)..Len(buf)
<1>1. PICK L : IsLoop(L, c, mt, item, pos, n) /\ Elements(c, mt, item, pos, n) = L[n]
  BY ElementsUnfold
<1>2. n \in 0..n
  OBVIOUS
<1> QED
  BY <1>1, <1>2, LoopAdvances

\* The loop only depends on what is returned from its start on.
LEMMA ElementsLocal ==
    ASSUME NEW buf \in Seq(Byte), NEW k \in Nat, NEW f, NEW g,
           Advances(buf, f, k), SameFrom(buf, f, g, k),
           NEW c, NEW mt, NEW pos \in k..Len(buf), NEW n \in Nat
    PROVE  Elements(c, mt, f, pos, n) = Elements(c, mt, g, pos, n)
<1>1. PICK L : IsLoop(L, c, mt, f, pos, n) /\ Elements(c, mt, f, pos, n) = L[n]
  BY ElementsUnfold
<1>2. PICK M : IsLoop(M, c, mt, g, pos, n) /\ Elements(c, mt, g, pos, n) = M[n]
  BY ElementsUnfold
<1> DEFINE G == {i \in 0..n : L[i] = M[i]}
<1>3. 0 \in G
  BY <1>1, <1>2 DEF IsLoop
<1>4. ASSUME NEW i \in 1..n, i - 1 \in G PROVE i \in G
  <2> DEFINE s == L[i - 1]
  <2>1. L[i] = NextElement(c, mt, f, s) /\ M[i] = NextElement(c, mt, g, s)
    <3>1. M[i - 1] = s
      BY <1>4
    <3>2. L[i] = NextElement(c, mt, f, L[i - 1]) /\ M[i] = NextElement(c, mt, g, M[i - 1])
      BY <1>1, <1>2 DEF IsLoop
    <3> QED
      BY <3>1, <3>2
  <2>2. s.res = "ok" => s.pos \in k..Len(buf)
    <3>1. i - 1 \in 0..n
      OBVIOUS
    <3> QED
      BY <1>1, <3>1, LoopAdvances
  <2> HIDE DEF s
  <2>3. NextElement(c, mt, f, s) = NextElement(c, mt, g, s)
    BY <2>2, NextElementLocal
  <2> QED
    BY <2>1, <2>3
<1>5. n \in G
  <2> HIDE DEF G
  <2>1. 0..n \subseteq G
    BY <1>3, <1>4, UpInduction
  <2> QED
    BY <2>1
<1> QED
  BY <1>1, <1>2, <1>5

\* The elements that the canonical decoder collects, the other one does.
LEMMA ElementsAgree ==
    ASSUME NEW buf \in Seq(Byte), NEW k \in Nat, NEW strict, NEW plain,
           Advances(buf, strict, k), AgreeFrom(buf, strict, plain, k),
           NEW c, NEW d, BothModes(c, d), NEW mt, NEW pos \in k..Len(buf), NEW n \in Nat,
           Elements(c, mt, strict, pos, n).res = "ok"
    PROVE  Elements(d, mt, plain, pos, n) = Elements(c, mt, strict, pos, n)
<1>1. PICK L : IsLoop(L, c, mt, strict, pos, n) /\ Elements(c, mt, strict, pos, n) = L[n]
  BY ElementsUnfold
<1>2. PICK M : IsLoop(M, d, mt, plain, pos, n) /\ Elements(d, mt, plain, pos, n) = M[n]
  BY ElementsUnfold
<1> DEFINE
      Good(i) == L[i].res = "ok" => M[i] = L[i]
      G == {i \in 0..n : Good(i)}
<1>3. 0 \in G
  BY <1>1, <1>2 DEF IsLoop
<1>4. ASSUME NEW i \in 1..n, i - 1 \in G PROVE i \in G
  <2>1. SUFFICES ASSUME L[i].res = "ok" PROVE M[i] = L[i]
    OBVIOUS
  <2> DEFINE s == L[i - 1]
  <2>2. /\ L[i] = NextElement(c, mt, strict, s)
        /\ M[i] = NextElement(d, mt, plain, M[i - 1])
    BY <1>1, <1>2 DEF IsLoop
  <2>3. s.res = "ok" => s.pos \in k..Len(buf)
    <3>1. i - 1 \in 0..n
      OBVIOUS
    <3> QED
      BY <1>1, <3>1, LoopAdvances
  <2>4. s.res = "ok" => M[i - 1] = s
    BY <1>4
  <2> HIDE DEF s
  <2>a. NextElement(c, mt, strict, s).res = "ok"
    BY <2>1, <2>2
  <2>5. s.res = "ok"
    BY <2>3, <2>a, NextElementAdvances
  <2>6. NextElement(d, mt, plain, s) = NextElement(c, mt, strict, s)
    BY <2>3, <2>a, NextElementAgrees
  <2> QED
    BY <2>2, <2>4, <2>5, <2>6
<1>5. Good(n)
  <2> HIDE DEF G, Good
  <2>1. 0..n \subseteq G
    BY <1>3, <1>4, UpInduction
  <2> QED
    BY <2>1 DEF G
<1> QED
  BY <1>1, <1>2, <1>5

\* The loop panics only if an element does.
LEMMA ElementsNoPanic ==
    ASSUME NEW buf \in Seq(Byte), NEW k \in Nat, NEW item,
           Advances(buf, item, k), NoPanicFrom(buf, item, k),
           NEW c, NEW mt, NEW pos \in k..Len(buf), NEW n \in Nat
    PROVE  Elements(c, mt, item, pos, n).res # "panic"
<1>1. PICK L : IsLoop(L, c, mt, item, pos, n) /\ Elements(c, mt, item, pos, n) = L[n]
  BY ElementsUnfold
<1> DEFINE G == {i \in 0..n : L[i].res # "panic"}
<1>2. 0 \in G
  <2>1. L[0] = Value(<<>>, pos)
    BY <1>1 DEF IsLoop
  <2> QED
    BY <2>1 DEF Value
<1>3. ASSUME NEW i \in 1..n, i - 1 \in G PROVE i \in G
  <2> DEFINE s == L[i - 1]
  <2>1. L[i] = NextElement(c, mt, item, s)
    BY <1>1 DEF IsLoop
  <2>2. s.res = "ok" => s.pos \in k..Len(buf)
    <3>1. i - 1 \in 0..n
      OBVIOUS
    <3> QED
      BY <1>1, <3>1, LoopAdvances
  <2>3. s.res # "panic"
    BY <1>3
  <2> HIDE DEF s
  <2>4. NextElement(c, mt, item, s).res # "panic"
    BY <2>2, <2>3, NextElementNoPanic
  <2> QED
    BY <2>1, <2>4
<1>4. n \in G
  <2> HIDE DEF G
  <2>1. 0..n \subseteq G
    BY <1>2, <1>3, UpInduction
  <2> QED
    BY <2>1
<1> QED
  BY <1>1, <1>4

-----------------------------------------------------------------------------
(* CBOR items: one of them *)

\* What is collected into a value ends where the loop did.
LEMMA CollectResult ==
    ASSUME NEW mt, NEW all
    PROVE  /\ Collect(mt, all).res = "ok" => all.res = "ok" /\ Collect(mt, all).pos = all.pos
           /\ all.res # "panic" => Collect(mt, all).res # "panic"
<1> DEFINE
      numbers == \A i \in DOMAIN all.v : IsNumber(all.v[i].key)
      strings == \A i \in DOMAIN all.v : all.v[i].key.kind = "TextString"
      byInt == [i \in DOMAIN all.v |-> MapEntry(Int64(all.v[i].key), all.v[i].value)]
      byStr == [i \in DOMAIN all.v |-> MapEntry(all.v[i].key.str, all.v[i].value)]
<1>1. Collect(mt, all) =
        IF all.res # "ok" THEN all
        ELSE IF mt = mtArray THEN Value(Arr(all.v), all.pos)
        ELSE IF numbers THEN Value(IMap(byInt), all.pos)
        ELSE IF strings THEN Value(SMap(byStr), all.pos)
        ELSE Fail
  BY DEF Collect
<1> HIDE DEF numbers, strings, byInt, byStr
<1> QED
  BY <1>1 DEF Value, Fail

\* A string ends within the data (cbor.go:378-399, 568-592).
LEMMA StringItemResult ==
    ASSUME NEW buf \in Seq(Byte), NEW c, NEW mt, NEW pos \in 0..Len(buf), NEW arg \in Words
    PROVE  /\ StringItem(c, mt, buf, pos, arg).res = "ok" =>
                 StringItem(c, mt, buf, pos, arg).pos \in pos..Len(buf)
           /\ FitsIn(arg, 4) => StringItem(c, mt, buf, pos, arg).res # "panic"
<1> DEFINE
      end == StringEnd(c, buf, pos, arg)
      bytes == SubSeq(buf, pos + 1, end.pos)
      r == StringItem(c, mt, buf, pos, arg)
<1>0. Len(buf) \in Nat /\ pos \in Nat /\ Length(arg) \in Nat
  BY LengthIsNat
<1>1. r = IF end.res # "ok" THEN end
          ELSE IF mt = mtByteStr THEN Value(BStr(bytes), end.pos)
          ELSE IF c /\ ~isValidUTF8(bytes) THEN Fail
          ELSE Value(TStr(bytes), end.pos)
  BY DEF StringItem
<1>2. end.res = "ok" => end.pos \in pos..Len(buf)
  <2> SUFFICES ASSUME end.res = "ok" PROVE end.pos \in pos..Len(buf)
    OBVIOUS
  <2>1. end.pos = pos + Length(arg) /\ ~(pos + Length(arg) > Len(buf))
    BY DEF StringEnd, Panic, Fail
  <2> QED
    BY <1>0, <2>1
<1>3. FitsIn(arg, 4) => end.res # "panic"
  <2> SUFFICES ASSUME FitsIn(arg, 4) PROVE end.res # "panic"
    OBVIOUS
  <2>1. ~Negative(arg) /\ ~SumWraps(pos, arg)
    BY FourBytesArePositive
  <2> QED
    BY <2>1 DEF StringEnd, Fail
<1> HIDE DEF end, bytes, r
<1>4. r.res = "ok" => end.res = "ok" /\ r.pos = end.pos
  BY <1>1 DEF Value, Fail
<1>5. end.res # "panic" => r.res # "panic"
  BY <1>1 DEF Value, Fail
<1>6. (r.res = "ok" => r.pos \in pos..Len(buf)) /\ (FitsIn(arg, 4) => r.res # "panic")
  BY <1>2, <1>3, <1>4, <1>5
<1> QED
  BY <1>6 DEF r

\* The strings that the canonical decoder returns, the other one does.
LEMMA StringItemAgrees ==
    ASSUME NEW c, NEW d, BothModes(c, d), NEW mt, NEW buf, NEW pos, NEW arg,
           StringItem(c, mt, buf, pos, arg).res = "ok"
    PROVE  StringItem(d, mt, buf, pos, arg) = StringItem(c, mt, buf, pos, arg)
<1> DEFINE
      end == StringEnd(c, buf, pos, arg)
      plain == StringEnd(d, buf, pos, arg)
      bytes == SubSeq(buf, pos + 1, end.pos)
      r == StringItem(c, mt, buf, pos, arg)
<1>0. c = TRUE /\ d = FALSE
  BY DEF BothModes
<1>1. end.res = "ok"
  BY DEF StringItem
<1>2. plain = end
  <2>1. ~(Negative(arg) \/ SumWraps(pos, arg))
    BY <1>0, <1>1 DEF StringEnd, Panic
  <2>2. ~Negative(arg)
    BY <2>1
  <2>3. end = IF pos + Length(arg) > Len(buf) THEN Fail
              ELSE [res |-> "ok", pos |-> pos + Length(arg)]
    BY <2>1, <2>2 DEF StringEnd
  <2>4. plain = IF pos + Length(arg) > Len(buf) THEN Fail
                ELSE [res |-> "ok", pos |-> pos + Length(arg)]
    BY <1>0, <2>2 DEF StringEnd
  <2> HIDE DEF end, plain
  <2> QED
    BY <2>3, <2>4
<1>3. r # Fail
  <2>1. r.res = "ok"
    OBVIOUS
  <2> HIDE DEF r
  <2> QED
    BY <2>1 DEF Fail
<1>4. r = IF mt = mtByteStr THEN Value(BStr(bytes), end.pos)
          ELSE IF c /\ ~isValidUTF8(bytes) THEN Fail
          ELSE Value(TStr(bytes), end.pos)
  BY <1>1 DEF StringItem
<1>5. StringItem(d, mt, buf, pos, arg)
        = IF mt = mtByteStr THEN Value(BStr(bytes), end.pos)
          ELSE IF d /\ ~isValidUTF8(bytes) THEN Fail
          ELSE Value(TStr(bytes), end.pos)
  <2>1. StringItem(d, mt, buf, pos, arg)
          = IF plain.res # "ok" THEN plain
            ELSE IF mt = mtByteStr THEN Value(BStr(SubSeq(buf, pos + 1, plain.pos)), plain.pos)
            ELSE IF d /\ ~isValidUTF8(SubSeq(buf, pos + 1, plain.pos)) THEN Fail
            ELSE Value(TStr(SubSeq(buf, pos + 1, plain.pos)), plain.pos)
    BY DEF StringItem
  <2> HIDE DEF end, plain
  <2> QED
    BY <1>1, <1>2, <2>1
<1> HIDE DEF r, bytes, end
<1>6. StringItem(d, mt, buf, pos, arg) = r
  BY <1>0, <1>3, <1>4, <1>5
<1> QED
  BY <1>6 DEF r

\* The turns the model gives the loop over the elements of a container.
Turns(buf, arg) == IF Length(arg) > Len(buf) THEN Len(buf) + 1 ELSE Length(arg)

\* Their number is one.
LEMMA TurnsIsNat ==
    ASSUME NEW buf \in Seq(Byte), NEW arg \in Words
    PROVE  Turns(buf, arg) \in Nat
<1>1. Len(buf) \in Nat /\ Length(arg) \in Nat
  BY LengthIsNat
<1> QED
  BY <1>1 DEF Turns

\* A container, in its parts.
LEMMA ContainerItemParts ==
    ASSUME NEW c, NEW mt, NEW buf, NEW item, NEW pos, NEW arg
    PROVE  ContainerItem(c, mt, buf, item, pos, arg)
              = IF ContainerStart(c, mt, buf, pos, arg) = "panic" THEN Panic
                ELSE IF ContainerStart(c, mt, buf, pos, arg) = "error" THEN Fail
                ELSE Collect(mt, Elements(c, mt, item, pos, Turns(buf, arg)))
  BY DEF ContainerItem, Turns

\* A container ends within the data (cbor.go:400-458, 593-648).
LEMMA ContainerItemAdvances ==
    ASSUME NEW buf \in Seq(Byte), NEW k \in Nat, NEW item, Advances(buf, item, k),
           NEW c, NEW mt, NEW pos \in k..Len(buf), NEW arg \in Words,
           ContainerItem(c, mt, buf, item, pos, arg).res = "ok"
    PROVE  ContainerItem(c, mt, buf, item, pos, arg).pos \in pos..Len(buf)
<1> DEFINE
      start == ContainerStart(c, mt, buf, pos, arg)
      n == Turns(buf, arg)
      all == Elements(c, mt, item, pos, n)
      r == ContainerItem(c, mt, buf, item, pos, arg)
<1>1. r.res = "ok" /\ n \in Nat /\ Len(buf) \in Nat /\ pos \in Nat
  BY TurnsIsNat
<1>2. r = IF start = "panic" THEN Panic ELSE IF start = "error" THEN Fail
          ELSE Collect(mt, all)
  BY ContainerItemParts
<1> HIDE DEF r, start, n
<1>3. r = Collect(mt, all)
  BY <1>1, <1>2 DEF Panic, Fail
<1>4. all.res = "ok" /\ r.pos = all.pos
  BY <1>1, <1>3, CollectResult
<1>5. all.pos \in (pos + n)..Len(buf)
  BY <1>1, <1>4, ElementsAdvance
<1> HIDE DEF all
<1>6. r.pos \in pos..Len(buf)
  BY <1>1, <1>4, <1>5
<1> QED
  BY <1>6 DEF r

\* A container only depends on what is returned from its elements on.
LEMMA ContainerItemLocal ==
    ASSUME NEW buf \in Seq(Byte), NEW k \in Nat, NEW f, NEW g,
           Advances(buf, f, k), SameFrom(buf, f, g, k),
           NEW c, NEW mt, NEW pos \in k..Len(buf), NEW arg \in Words
    PROVE  ContainerItem(c, mt, buf, f, pos, arg) = ContainerItem(c, mt, buf, g, pos, arg)
<1> DEFINE n == Turns(buf, arg)
<1>1. n \in Nat
  BY TurnsIsNat
<1> HIDE DEF n
<1>2. Elements(c, mt, f, pos, n) = Elements(c, mt, g, pos, n)
  BY <1>1, ElementsLocal
<1> QED
  BY <1>2, ContainerItemParts DEF n

\* A container that the canonical decoder returns, the other one does: its
\* elements are there, so there are no more of them than bytes.
LEMMA ContainerItemAgrees ==
    ASSUME NEW buf \in Seq(Byte), NEW k \in Nat, NEW strict, NEW plain, Len(buf) < Huge,
           Advances(buf, strict, k), AgreeFrom(buf, strict, plain, k),
           NEW c, NEW d, BothModes(c, d),
           NEW mt, NEW pos \in k..Len(buf), NEW arg \in Words,
           ContainerItem(c, mt, buf, strict, pos, arg).res = "ok"
    PROVE  ContainerItem(d, mt, buf, plain, pos, arg) = ContainerItem(c, mt, buf, strict, pos, arg)
<1> DEFINE
      start == ContainerStart(c, mt, buf, pos, arg)
      n == Turns(buf, arg)
      all == Elements(c, mt, strict, pos, n)
      r == ContainerItem(c, mt, buf, strict, pos, arg)
      len == Length(arg)
<1>1. r.res = "ok" /\ n \in Nat /\ Len(buf) \in Nat /\ pos \in Nat /\ len \in Nat /\ pos <= Len(buf)
  BY TurnsIsNat, LengthIsNat
<1>2. r = IF start = "panic" THEN Panic ELSE IF start = "error" THEN Fail
          ELSE Collect(mt, all)
  BY ContainerItemParts
<1>3. n = IF len > Len(buf) THEN Len(buf) + 1 ELSE len
  BY DEF Turns
<1> HIDE DEF r, start, n, len
<1>4. r = Collect(mt, all)
  BY <1>1, <1>2 DEF Panic, Fail
<1>5. all.res = "ok"
  BY <1>1, <1>4, CollectResult
<1>6. all.pos \in (pos + n)..Len(buf)
  BY <1>1, <1>5, ElementsAdvance
<1>7. Elements(d, mt, plain, pos, n) = all
  BY <1>1, <1>5, ElementsAgree
<1> HIDE DEF all
<1>8. len <= Len(buf) - pos /\ len < Huge
  <2>1. pos + n <= Len(buf)
    BY <1>1, <1>6
  <2>2. Huge \in Nat
    BY DEF Huge
  <2> QED
    BY <1>1, <1>3, <2>1, <2>2
<1>9. ~Negative(arg)
  BY <1>8, ShortIsPositive DEF len
<1>10. ContainerStart(d, mt, buf, pos, arg) = "ok"
  <2>1. d = FALSE
    BY DEF BothModes
  <2>2. ~(len > Len(buf) - pos)
    BY <1>1, <1>8
  <2> QED
    BY <1>9, <2>1, <2>2 DEF ContainerStart, len
<1>11. ContainerItem(d, mt, buf, plain, pos, arg) = Collect(mt, Elements(d, mt, plain, pos, n))
  BY <1>10, ContainerItemParts DEF n
<1> QED
  BY <1>4, <1>7, <1>11 DEF r

\* A container panics only for a length of eight bytes, or, in the canonical
\* decoder, of an array beyond memory, or if an element does.
LEMMA ContainerItemNoPanic ==
    ASSUME NEW buf \in Seq(Byte), NEW k \in Nat, NEW item,
           Advances(buf, item, k), NoPanicFrom(buf, item, k),
           NEW c, NEW mt, NEW pos \in k..Len(buf), NEW arg \in Words, FitsIn(arg, 4),
           c /\ mt = mtArray => CanAllocate(arg)
    PROVE  ContainerItem(c, mt, buf, item, pos, arg).res # "panic"
<1> DEFINE
      start == ContainerStart(c, mt, buf, pos, arg)
      n == Turns(buf, arg)
      all == Elements(c, mt, item, pos, n)
      r == ContainerItem(c, mt, buf, item, pos, arg)
<1>1. n \in Nat
  BY TurnsIsNat
<1>2. ~Negative(arg)
  BY FourBytesArePositive
<1>3. start # "panic"
  BY <1>2 DEF ContainerStart
<1>4. r = IF start = "panic" THEN Panic ELSE IF start = "error" THEN Fail
          ELSE Collect(mt, all)
  BY ContainerItemParts
<1> HIDE DEF r, start, n
<1>5. all.res # "panic"
  BY <1>1, ElementsNoPanic
<1>6. Collect(mt, all).res # "panic"
  BY <1>5, CollectResult
<1> HIDE DEF all
<1>7. r.res # "panic"
  BY <1>3, <1>4, <1>6 DEF Fail
<1> QED
  BY <1>7 DEF r

\* The head of an item: its initial byte and its argument.
MajorType(buf, p) == (buf[p + 1] \div 32) * 32
Additional(buf, p) == buf[p + 1] % 32
Argument(c, buf, p) == IF c THEN readArgCanonical(buf, p + 1, Additional(buf, p))
                            ELSE readArg(buf, p + 1, Additional(buf, p))

\* The item behind a head.
Behind(c, buf, item, mt, ai, r) ==
    IF mt = mtUnsigned THEN Value(UUint(r.arg), r.pos)
    ELSE IF mt = mtNegative
         THEN IF Negative(r.arg) THEN Fail ELSE Value(NInt(Complement(r.arg)), r.pos)
    ELSE IF mt \in {mtByteStr, mtTextStr}
         THEN StringItem(c, mt, buf, r.pos, r.arg)
    ELSE IF mt \in {mtArray, mtMap}
         THEN ContainerItem(c, mt, buf, item, r.pos, r.arg)
    ELSE IF mt = mtSimple THEN SimpleItem(ai, r.pos)
    ELSE Fail

\* An item is a head and what is behind it.
LEMMA ItemAtParts ==
    ASSUME NEW c, NEW buf, NEW item, NEW p
    PROVE  ItemAt(c, buf, item, p)
              = IF p >= Len(buf) THEN Fail
                ELSE IF Argument(c, buf, p).res # "ok" THEN Fail
                ELSE Behind(c, buf, item, MajorType(buf, p), Additional(buf, p),
                            Argument(c, buf, p))
  BY DEF ItemAt, Argument, MajorType, Additional, Behind

\* What is known of a head whose argument could be read.
GoodHead(buf, p, ai, r) ==
    /\ r.arg \in Words
    /\ r.pos \in (p + 1)..Len(buf)
    /\ ai # 27 => FitsIn(r.arg, 4)

\* It is known.
LEMMA HeadIsGood ==
    ASSUME NEW c, NEW buf \in Seq(Byte), NEW p \in 0..Len(buf), ~(p >= Len(buf)),
           Argument(c, buf, p).res = "ok"
    PROVE  /\ GoodHead(buf, p, Additional(buf, p), Argument(c, buf, p))
           /\ Argument(c, buf, p) = readArg(buf, p + 1, Additional(buf, p))
<1> DEFINE
      ai == Additional(buf, p)
      r == Argument(c, buf, p)
      plain == readArg(buf, p + 1, ai)
<1>1. p + 1 \in 1..Len(buf) /\ p + 1 \in 0..Len(buf)
  OBVIOUS
<1>2. ai \in 0..31
  <2>1. buf[p + 1] \in Byte
    BY <1>1, ElementOfSeq
  <2>2. \A b \in 0..255 : b % 32 \in 0..31
    OBVIOUS
  <2> QED
    BY <2>1, <2>2 DEF Byte, Additional
<1>3. r.res = "ok"
  OBVIOUS
<1>4. r \in {Fail, plain}
  <2>1. readArgCanonical(buf, p + 1, ai) \in {Fail, plain}
    BY readArgCanonicalResult
  <2> QED
    BY <2>1 DEF Argument
<1> HIDE DEF r, ai
<1>5. r = plain
  BY <1>3, <1>4 DEF Fail
<1>6. plain.res = "ok" =>
        plain.arg \in Words /\ plain.pos \in (p + 1)..Len(buf) /\ (ai # 27 => FitsIn(plain.arg, 4))
  BY <1>1, <1>2, readArgResult
<1> HIDE DEF plain
<1>7. GoodHead(buf, p, ai, r)
  BY <1>3, <1>5, <1>6 DEF GoodHead
<1> QED
  BY <1>5, <1>7 DEF r, ai, plain

\* A simple value is its head.
LEMMA SimpleItemResult ==
    ASSUME NEW ai, NEW pos
    PROVE  /\ SimpleItem(ai, pos).res = "ok" => SimpleItem(ai, pos).pos = pos
           /\ SimpleItem(ai, pos).res # "panic"
<1> DEFINE
      a == Value(Bool(ai = simpleTrue), pos)
      b == Value(Null, pos)
<1>1. SimpleItem(ai, pos) = IF ai \in {simpleFalse, simpleTrue} THEN a
                            ELSE IF ai \in {simpleNull, simpleUndef} THEN b ELSE Fail
  BY DEF SimpleItem
<1>2. a.res = "ok" /\ a.pos = pos /\ b.res = "ok" /\ b.pos = pos /\ Fail.res = "error"
  BY DEF Value, Fail
<1> HIDE DEF a, b
<1> QED
  BY <1>1, <1>2

\* An item takes at least a byte and ends within the data.
LEMMA ItemAtAdvances ==
    ASSUME NEW c, NEW buf \in Seq(Byte), NEW p \in 0..Len(buf), NEW item,
           Advances(buf, item, p + 1), ItemAt(c, buf, item, p).res = "ok"
    PROVE  ItemAt(c, buf, item, p).pos \in (p + 1)..Len(buf)
<1> DEFINE
      mt == MajorType(buf, p)
      ai == Additional(buf, p)
      r == Argument(c, buf, p)
      it == ItemAt(c, buf, item, p)
      num == Value(UUint(r.arg), r.pos)
      neg == Value(NInt(Complement(r.arg)), r.pos)
      str == StringItem(c, mt, buf, r.pos, r.arg)
      con == ContainerItem(c, mt, buf, item, r.pos, r.arg)
      sim == SimpleItem(ai, r.pos)
<1>0. it.res = "ok" /\ Len(buf) \in Nat /\ p \in Nat /\ p + 1 \in Nat
  OBVIOUS
<1>1. it = IF p >= Len(buf) THEN Fail ELSE IF r.res # "ok" THEN Fail
           ELSE Behind(c, buf, item, mt, ai, r)
  BY ItemAtParts
<1> HIDE DEF it, mt, ai
<1>2. ~(p >= Len(buf)) /\ r.res = "ok" /\ it = Behind(c, buf, item, mt, ai, r)
  BY <1>0, <1>1 DEF Fail
<1>3. GoodHead(buf, p, ai, r)
  BY <1>2, HeadIsGood DEF ai
<1>4. r.arg \in Words /\ r.pos \in (p + 1)..Len(buf) /\ r.pos \in 0..Len(buf)
  BY <1>0, <1>3 DEF GoodHead
<1> HIDE DEF r
<1>5. num.pos = r.pos /\ neg.pos = r.pos
  BY DEF Value
<1>6. str.res = "ok" => str.pos \in r.pos..Len(buf)
  BY <1>4, StringItemResult
<1>7. con.res = "ok" => con.pos \in r.pos..Len(buf)
  BY <1>0, <1>4, ContainerItemAdvances
<1>8. sim.res = "ok" => sim.pos = r.pos
  BY SimpleItemResult
<1>9. it \in {num, neg, str, con, sim, Fail}
  <2> HIDE DEF num, neg, str, con, sim
  <2> QED
    BY <1>2 DEF Behind, num, neg, str, con, sim
<1> HIDE DEF num, neg, str, con, sim
<1>10. it.pos = r.pos \/ it.pos \in r.pos..Len(buf)
  BY <1>0, <1>5, <1>6, <1>7, <1>8, <1>9 DEF Fail
<1>11. it.pos \in (p + 1)..Len(buf)
  BY <1>0, <1>4, <1>10
<1> QED
  BY <1>11 DEF it

\* An item only depends on what is returned further on.
LEMMA ItemAtLocal ==
    ASSUME NEW c, NEW buf \in Seq(Byte), NEW p \in 0..Len(buf), NEW f, NEW g,
           Advances(buf, f, p + 1), SameFrom(buf, f, g, p + 1)
    PROVE  ItemAt(c, buf, f, p) = ItemAt(c, buf, g, p)
<1> DEFINE
      mt == MajorType(buf, p)
      ai == Additional(buf, p)
      r == Argument(c, buf, p)
<1>0. Len(buf) \in Nat /\ p \in Nat /\ p + 1 \in Nat
  OBVIOUS
<1>1. CASE p >= Len(buf) \/ r.res # "ok"
  BY <1>1, ItemAtParts
<1>2. CASE ~(p >= Len(buf)) /\ r.res = "ok"
  <2>1. /\ ItemAt(c, buf, f, p) = Behind(c, buf, f, mt, ai, r)
        /\ ItemAt(c, buf, g, p) = Behind(c, buf, g, mt, ai, r)
    BY <1>2, ItemAtParts
  <2>2. GoodHead(buf, p, ai, r)
    BY <1>2, HeadIsGood
  <2>3. r.arg \in Words /\ r.pos \in (p + 1)..Len(buf)
    BY <2>2 DEF GoodHead
  <2> HIDE DEF r, mt, ai
  <2>4. ContainerItem(c, mt, buf, f, r.pos, r.arg) = ContainerItem(c, mt, buf, g, r.pos, r.arg)
    BY <1>0, <2>3, ContainerItemLocal
  <2>5. Behind(c, buf, f, mt, ai, r) = Behind(c, buf, g, mt, ai, r)
    BY <2>4 DEF Behind
  <2> QED
    BY <2>1, <2>5
<1> QED
  BY <1>1, <1>2

\* An item that the canonical decoder returns, the other one does.
LEMMA ItemAtAgrees ==
    ASSUME NEW buf \in Seq(Byte), Len(buf) < Huge, NEW p \in 0..Len(buf),
           NEW strict, NEW plain, Advances(buf, strict, p + 1),
           AgreeFrom(buf, strict, plain, p + 1), NEW c, NEW d, BothModes(c, d),
           ItemAt(c, buf, strict, p).res = "ok"
    PROVE  ItemAt(d, buf, plain, p) = ItemAt(c, buf, strict, p)
<1> DEFINE
      mt == MajorType(buf, p)
      ai == Additional(buf, p)
      r == Argument(c, buf, p)
      it == ItemAt(c, buf, strict, p)
<1>0. it.res = "ok" /\ Len(buf) \in Nat /\ p \in Nat /\ p + 1 \in Nat
  OBVIOUS
<1>1. it = IF p >= Len(buf) THEN Fail ELSE IF r.res # "ok" THEN Fail
           ELSE Behind(c, buf, strict, mt, ai, r)
  BY ItemAtParts
<1> HIDE DEF it, mt, ai
<1>2. ~(p >= Len(buf)) /\ r.res = "ok" /\ it = Behind(c, buf, strict, mt, ai, r)
  BY <1>0, <1>1 DEF Fail
<1>3. GoodHead(buf, p, ai, r) /\ r = readArg(buf, p + 1, ai)
  BY <1>2, HeadIsGood DEF ai
<1>4. Argument(d, buf, p) = r
  <2>1. d = FALSE
    BY DEF BothModes
  <2>2. Argument(d, buf, p) = readArg(buf, p + 1, ai)
    BY <2>1 DEF Argument, ai
  <2> QED
    BY <1>3, <2>2
<1>5. ItemAt(d, buf, plain, p) = Behind(d, buf, plain, mt, ai, r)
  BY <1>2, <1>4, ItemAtParts DEF mt, ai
<1>6. r.arg \in Words /\ r.pos \in (p + 1)..Len(buf)
  BY <1>3 DEF GoodHead
<1> HIDE DEF r
<1> DEFINE
      str == StringItem(c, mt, buf, r.pos, r.arg)
      con == ContainerItem(c, mt, buf, strict, r.pos, r.arg)
<1>7. str.res = "ok" => StringItem(d, mt, buf, r.pos, r.arg) = str
  BY StringItemAgrees
<1>8. con.res = "ok" => ContainerItem(d, mt, buf, plain, r.pos, r.arg) = con
  BY <1>0, <1>6, ContainerItemAgrees
<1> HIDE DEF str, con
<1>9. Behind(d, buf, plain, mt, ai, r) = it
  <2>1. CASE mt = mtUnsigned \/ mt = mtNegative
    BY <1>2, <2>1 DEF Behind
  <2>2. CASE ~(mt = mtUnsigned \/ mt = mtNegative) /\ mt \in {mtByteStr, mtTextStr}
    <3>1. it = str /\ Behind(d, buf, plain, mt, ai, r) = StringItem(d, mt, buf, r.pos, r.arg)
      BY <1>2, <2>2 DEF Behind, str
    <3> QED
      BY <1>0, <1>7, <3>1
  <2>3. CASE /\ ~(mt = mtUnsigned \/ mt = mtNegative \/ mt \in {mtByteStr, mtTextStr})
             /\ mt \in {mtArray, mtMap}
    <3>1. it = con
      BY <1>2, <2>3 DEF Behind, con
    <3>2. Behind(d, buf, plain, mt, ai, r) = ContainerItem(d, mt, buf, plain, r.pos, r.arg)
      BY <2>3 DEF Behind
    <3> QED
      BY <1>0, <1>8, <3>1, <3>2
  <2>4. CASE ~(\/ mt = mtUnsigned \/ mt = mtNegative \/ mt \in {mtByteStr, mtTextStr}
               \/ mt \in {mtArray, mtMap})
    BY <1>2, <2>4 DEF Behind
  <2> QED
    BY <2>1, <2>2, <2>3, <2>4
<1> QED
  BY <1>5, <1>9 DEF it

\* Nothing else makes an item panic that has no element that does.
LEMMA ItemAtNoPanic ==
    ASSUME NEW c, NEW buf \in Seq(Byte), NEW p \in 0..Len(buf), NEW item,
           Advances(buf, item, p + 1), NoPanicFrom(buf, item, p + 1),
           \A i \in DOMAIN buf : ~(buf[i] >= 64 /\ buf[i] % 32 = 27),
           \A i \in DOMAIN buf : c => ~GreatArrayAt(buf, i)
    PROVE  ItemAt(c, buf, item, p).res # "panic"
<1> DEFINE
      mt == MajorType(buf, p)
      ai == Additional(buf, p)
      r == Argument(c, buf, p)
      num == Value(UUint(r.arg), r.pos)
      neg == Value(NInt(Complement(r.arg)), r.pos)
      str == StringItem(c, mt, buf, r.pos, r.arg)
      con == ContainerItem(c, mt, buf, item, r.pos, r.arg)
      sim == SimpleItem(ai, r.pos)
<1>0. Len(buf) \in Nat /\ p \in Nat /\ p + 1 \in Nat /\ Fail.res = "error"
  BY DEF Fail
<1>1. CASE p >= Len(buf) \/ r.res # "ok"
  <2>1. ItemAt(c, buf, item, p) = Fail
    BY <1>1, ItemAtParts
  <2> QED
    BY <1>0, <2>1
<1>2. CASE ~(p >= Len(buf)) /\ r.res = "ok"
  <2>1. ItemAt(c, buf, item, p) = Behind(c, buf, item, mt, ai, r)
    BY <1>2, ItemAtParts
  <2>2. GoodHead(buf, p, ai, r)
    BY <1>2, HeadIsGood
  <2>3. /\ r.arg \in Words /\ r.pos \in (p + 1)..Len(buf) /\ r.pos \in 0..Len(buf)
        /\ ai # 27 => FitsIn(r.arg, 4)
    BY <1>0, <2>2 DEF GoodHead
  <2>4. mt >= 64 => ai # 27
    <3>1. p + 1 \in DOMAIN buf /\ p + 1 \in 1..Len(buf)
      BY <1>0, <1>2
    <3>2. buf[p + 1] \in Byte
      BY <3>1, ElementOfSeq
    <3>3. ~(buf[p + 1] >= 64 /\ buf[p + 1] % 32 = 27)
      BY <3>1
    <3>4. \A b \in 0..255 : (b \div 32) * 32 >= 64 => b >= 64
      OBVIOUS
    <3>5. (buf[p + 1] \div 32) * 32 >= 64 => buf[p + 1] >= 64
      BY <3>2, <3>4 DEF Byte
    <3> QED
      BY <3>3, <3>5 DEF MajorType, Additional
  <2>4a. c /\ mt = mtArray => CanAllocate(r.arg)
    <3> SUFFICES ASSUME c, mt = mtArray PROVE CanAllocate(r.arg)
      OBVIOUS
    <3>1. p + 1 \in DOMAIN buf
      BY <1>0, <1>2
    <3>2. ~GreatArrayAt(buf, p + 1)
      BY <3>1
    <3>3. r = readArgCanonical(buf, p + 1, ai)
      BY DEF Argument
    <3>4. r = readArg(buf, p + 1, ai)
      BY <1>0, <1>2, <3>3, readArgCanonicalResult
    <3> QED
      BY <1>2, <3>2, <3>4 DEF GreatArrayAt, MajorType, Additional
  <2> HIDE DEF r, mt, ai
  <2>5. num.res # "panic" /\ neg.res # "panic"
    BY DEF Value
  <2>6. mt >= 64 => str.res # "panic" /\ con.res # "panic"
    <3> SUFFICES ASSUME mt >= 64 PROVE str.res # "panic" /\ con.res # "panic"
      OBVIOUS
    <3>1. FitsIn(r.arg, 4)
      BY <2>3, <2>4
    <3>2. str.res # "panic"
      BY <2>3, <3>1, StringItemResult
    <3>3. con.res # "panic"
      BY <1>0, <2>3, <2>4a, <3>1, ContainerItemNoPanic
    <3> QED
      BY <3>2, <3>3
  <2>7. sim.res # "panic"
    BY SimpleItemResult
  <2>8. mtByteStr >= 64 /\ mtTextStr >= 64 /\ mtArray >= 64 /\ mtMap >= 64
    BY DEF mtByteStr, mtTextStr, mtArray, mtMap
  <2>9. Behind(c, buf, item, mt, ai, r)
          = IF mt = mtUnsigned THEN num
            ELSE IF mt = mtNegative THEN IF Negative(r.arg) THEN Fail ELSE neg
            ELSE IF mt \in {mtByteStr, mtTextStr} THEN str
            ELSE IF mt \in {mtArray, mtMap} THEN con
            ELSE IF mt = mtSimple THEN sim ELSE Fail
    BY DEF Behind
  <2> HIDE DEF num, neg, str, con, sim
  <2>10. mt \in {mtByteStr, mtTextStr} \/ mt \in {mtArray, mtMap} => mt >= 64
    BY <2>8
  <2> DEFINE it == Behind(c, buf, item, mt, ai, r)
  <2>11. it.res # "panic"
    <3> HIDE DEF it
    <3>1. \/ it = num \/ it = neg \/ it = sim \/ it = Fail
          \/ mt >= 64 /\ (it = str \/ it = con)
      BY <2>9, <2>10 DEF it
    <3> QED
      BY <1>0, <2>5, <2>6, <2>7, <3>1
  <2> QED
    BY <2>1, <2>11
<1> QED
  BY <1>1, <1>2

-----------------------------------------------------------------------------
(* CBOR items: the decoders *)

\* What a decoder returns from each position on.
Items(c, buf) == CHOOSE f : f = [p \in 0..Len(buf) |-> ItemAt(c, buf, f, p)]

\* Whether an item takes at least a byte, one position earlier.
LEMMA AdvancesMore ==
    ASSUME NEW c, NEW buf \in Seq(Byte), NEW p \in 0..Len(buf), NEW f,
           Advances(buf, f, p + 1), f[p] = ItemAt(c, buf, f, p)
    PROVE  Advances(buf, f, p)
<1> SUFFICES ASSUME NEW q \in p..Len(buf), f[q].res = "ok"
             PROVE  f[q].pos \in (q + 1)..Len(buf)
  BY DEF Advances
<1>1. CASE q = p
  BY <1>1, ItemAtAdvances
<1>2. CASE q # p
  <2>1. q \in (p + 1)..Len(buf)
    BY <1>2
  <2> QED
    BY <2>1 DEF Advances
<1> QED
  BY <1>1, <1>2

\* The recursive definition of the decoder has a solution, and defines one.
LEMMA ItemsUnfold ==
    ASSUME NEW c, NEW buf \in Seq(Byte)
    PROVE  /\ \A p \in 0..Len(buf) : Items(c, buf)[p] = ItemAt(c, buf, Items(c, buf), p)
           /\ decodeItem(c, buf, 0) = Items(c, buf)[0]
<1> DEFINE
      N == Len(buf)
      Solves(g, k) == /\ Advances(buf, g, k)
                      /\ \A p \in k..N : g[p] = ItemAt(c, buf, g, p)
      G == {k \in 0..N : \E g : Solves(g, k)}
<1>1. N \in Nat
  OBVIOUS
<1>2. ASSUME NEW i \in 0..N, \A j \in (i + 1)..N : j \in G PROVE i \in G
  <2>1. \E g : Solves(g, i + 1)
    <3>1. CASE i = N
      <4>1. \A g : Solves(g, i + 1)
        <5>1. (i + 1)..N = {}
          BY <1>1, <3>1
        <5> QED
          BY <5>1 DEF Advances
      <4> HIDE DEF Solves
      <4> QED
        BY <4>1
    <3>2. CASE i # N
      <4>1. i + 1 \in (i + 1)..N
        BY <1>1, <3>2
      <4>2. i + 1 \in G
        BY <1>2, <4>1
      <4> HIDE DEF Solves
      <4> QED
        BY <4>2
    <3> QED
      BY <3>1, <3>2
  <2>2. PICK g : Solves(g, i + 1)
    BY <2>1
  <2> DEFINE
        here == ItemAt(c, buf, g, i)
        h == [p \in i..N |-> IF p = i THEN here ELSE g[p]]
  <2> HIDE DEF here
  <2>3. \A p \in (i + 1)..N : h[p] = g[p] /\ p \in i..N
    BY <1>1
  <2>4. h[i] = here
    BY <1>1
  <2> HIDE DEF h
  <2>5. ASSUME NEW p \in i..N PROVE h[p] = ItemAt(c, buf, h, p)
    <3>1. p \in 0..Len(buf) /\ \A q \in (p + 1)..Len(buf) : q \in (i + 1)..N
      BY <1>1
    <3>2. Advances(buf, g, p + 1) /\ SameFrom(buf, g, h, p + 1)
      BY <2>2, <2>3, <3>1 DEF Advances, SameFrom
    <3>3. ItemAt(c, buf, g, p) = ItemAt(c, buf, h, p)
      BY <3>1, <3>2, ItemAtLocal
    <3>4. CASE p = i
      BY <2>4, <3>3, <3>4 DEF here
    <3>5. CASE p # i
      <4>1. p \in (i + 1)..N
        BY <1>1, <3>5
      <4>2. g[p] = ItemAt(c, buf, g, p)
        BY <2>2, <4>1
      <4> QED
        BY <2>3, <3>3, <4>1, <4>2
    <3> QED
      BY <3>4, <3>5
  <2>6. Advances(buf, h, i)
    <3>1. Advances(buf, h, i + 1)
      BY <2>2, <2>3 DEF Advances
    <3>2. h[i] = ItemAt(c, buf, h, i)
      <4>1. i \in i..N
        BY <1>1
      <4> QED
        BY <2>5, <4>1
    <3> QED
      BY <3>1, <3>2, AdvancesMore
  <2>7. Solves(h, i)
    BY <2>5, <2>6
  <2> HIDE DEF Solves
  <2> QED
    BY <2>7
<1>3. 0 \in G
  <2> HIDE DEF G
  <2>1. 0..N \subseteq G
    BY <1>1, <1>2, DownInduction
  <2> QED
    BY <1>1, <2>1
<1>4. PICK g : Solves(g, 0)
  <2> HIDE DEF Solves
  <2> QED
    BY <1>3
<1> DEFINE h == [p \in 0..Len(buf) |-> g[p]]
<1>5. h = [p \in 0..Len(buf) |-> ItemAt(c, buf, h, p)]
  <2>1. ASSUME NEW p \in 0..Len(buf) PROVE g[p] = ItemAt(c, buf, h, p)
    <3>1. \A q \in (p + 1)..Len(buf) : q \in 0..Len(buf) /\ h[q] = g[q]
      BY <1>1
    <3> HIDE DEF h
    <3>2. Advances(buf, g, p + 1) /\ SameFrom(buf, g, h, p + 1)
      BY <1>4, <3>1 DEF Advances, SameFrom
    <3>3. ItemAt(c, buf, g, p) = ItemAt(c, buf, h, p)
      BY <3>2, ItemAtLocal
    <3> QED
      BY <1>4, <3>3
  <2> DEFINE k(p) == ItemAt(c, buf, h, p)
  <2>2. \A p \in 0..Len(buf) : g[p] = k(p)
    BY <2>1
  <2> HIDE DEF k
  <2>3. h = [p \in 0..Len(buf) |-> k(p)]
    BY <2>2
  <2> QED
    BY <2>3 DEF k
<1>6. Items(c, buf) = [p \in 0..Len(buf) |-> ItemAt(c, buf, Items(c, buf), p)]
  <2> HIDE DEF h
  <2> QED
    BY <1>5 DEF Items
<1>7. \A p \in 0..Len(buf) : Items(c, buf)[p] = ItemAt(c, buf, Items(c, buf), p)
  <2> DEFINE
        k(p) == ItemAt(c, buf, Items(c, buf), p)
        r == [p \in 0..Len(buf) |-> k(p)]
  <2>1. Items(c, buf) = r
    BY <1>6
  <2> HIDE DEF k
  <2>2. \A p \in 0..Len(buf) : r[p] = k(p)
    OBVIOUS
  <2> HIDE DEF r
  <2>3. \A p \in 0..Len(buf) : Items(c, buf)[p] = k(p)
    BY <2>1, <2>2
  <2> QED
    BY <2>3 DEF k
<1>8. decodeItem(c, buf, 0) = Items(c, buf)[0]
  BY DEF decodeItem, Items
<1> QED
  BY <1>7, <1>8

\* Every item takes at least a byte and ends within the data.
LEMMA ItemsAdvance ==
    ASSUME NEW c, NEW buf \in Seq(Byte)
    PROVE  \A p \in 0..Len(buf) : Advances(buf, Items(c, buf), p)
<1> DEFINE
      N == Len(buf)
      f == Items(c, buf)
      G == {p \in 0..N : Advances(buf, f, p)}
<1>1. N \in Nat /\ \A p \in 0..N : f[p] = ItemAt(c, buf, f, p)
  BY ItemsUnfold
<1> HIDE DEF f
<1>2. ASSUME NEW i \in 0..N, \A j \in (i + 1)..N : j \in G PROVE i \in G
  <2>1. Advances(buf, f, i + 1)
    <3>1. CASE i = N
      <4>1. (i + 1)..Len(buf) = {}
        BY <1>1, <3>1
      <4> QED
        BY <4>1 DEF Advances
    <3>2. CASE i # N
      <4>1. i + 1 \in (i + 1)..N
        BY <1>1, <3>2
      <4> QED
        BY <1>2, <4>1
    <3> QED
      BY <3>1, <3>2
  <2>2. Advances(buf, f, i)
    BY <1>1, <2>1, AdvancesMore
  <2> QED
    BY <2>2
<1>3. 0..N \subseteq G
  <2> HIDE DEF G
  <2> QED
    BY <1>1, <1>2, DownInduction
<1> QED
  BY <1>3 DEF f

\* What the canonical decoder returns, the other one does (cbor.go:349-476,
\* 544-666).
LEMMA ItemsAgree ==
    ASSUME NEW buf \in Seq(Byte), Len(buf) < Huge, NEW c, NEW d, BothModes(c, d),
           Items(c, buf)[0].res = "ok"
    PROVE  Items(d, buf)[0] = Items(c, buf)[0]
<1> DEFINE
      N == Len(buf)
      strict == Items(c, buf)
      plain == Items(d, buf)
      Good(q) == strict[q].res = "ok" => plain[q] = strict[q]
      G == {q \in 0..N : Good(q)}
<1>1. /\ N \in Nat
      /\ \A p \in 0..N : strict[p] = ItemAt(c, buf, strict, p)
      /\ \A p \in 0..N : plain[p] = ItemAt(d, buf, plain, p)
  BY ItemsUnfold
<1>2. \A p \in 0..N : Advances(buf, strict, p)
  BY ItemsAdvance
<1>a. strict[0].res = "ok"
  OBVIOUS
<1> HIDE DEF strict, plain
<1>3. ASSUME NEW i \in 0..N, \A j \in (i + 1)..N : j \in G PROVE i \in G
  <2>1. SUFFICES ASSUME strict[i].res = "ok" PROVE plain[i] = strict[i]
    BY <1>3
  <2>2. Advances(buf, strict, i + 1)
    <3>1. \A q \in (i + 1)..Len(buf) : q \in i..Len(buf)
      BY <1>1
    <3>2. Advances(buf, strict, i)
      BY <1>2
    <3> QED
      BY <3>1, <3>2 DEF Advances
  <2>3. AgreeFrom(buf, strict, plain, i + 1)
    <3> SUFFICES ASSUME NEW q \in (i + 1)..Len(buf), strict[q].res = "ok"
                 PROVE  plain[q] = strict[q]
      BY DEF AgreeFrom
    <3>1. q \in G
      BY <1>3
    <3> QED
      BY <3>1
  <2>4. ItemAt(c, buf, strict, i).res = "ok"
    BY <1>1, <2>1
  <2>5. ItemAt(d, buf, plain, i) = ItemAt(c, buf, strict, i)
    BY <2>2, <2>3, <2>4, ItemAtAgrees
  <2> QED
    BY <1>1, <2>5
<1>4. Good(0)
  <2> HIDE DEF G, Good
  <2>1. 0..N \subseteq G
    BY <1>1, <1>3, DownInduction
  <2>2. 0 \in 0..N
    BY <1>1
  <2> QED
    BY <2>1, <2>2 DEF G
<1>5. plain[0] = strict[0]
  BY <1>4, <1>a
<1> QED
  BY <1>5 DEF strict, plain

\* Without a length of eight bytes, or an array beyond memory if it is the
\* canonical one, a decoder does not panic.
LEMMA ItemsNoPanic ==
    ASSUME NEW c, NEW buf \in Seq(Byte),
           \A i \in DOMAIN buf : ~(buf[i] >= 64 /\ buf[i] % 32 = 27),
           \A i \in DOMAIN buf : c => ~GreatArrayAt(buf, i)
    PROVE  Items(c, buf)[0].res # "panic"
<1> DEFINE
      N == Len(buf)
      f == Items(c, buf)
      G == {q \in 0..N : f[q].res # "panic"}
<1>1. N \in Nat /\ \A p \in 0..N : f[p] = ItemAt(c, buf, f, p)
  BY ItemsUnfold
<1>2. \A p \in 0..N : Advances(buf, f, p)
  BY ItemsAdvance
<1> HIDE DEF f
<1>3. ASSUME NEW i \in 0..N, \A j \in (i + 1)..N : j \in G PROVE i \in G
  <2>1. Advances(buf, f, i + 1)
    <3>1. \A q \in (i + 1)..Len(buf) : q \in i..Len(buf)
      BY <1>1
    <3>2. Advances(buf, f, i)
      BY <1>2
    <3> QED
      BY <3>1, <3>2 DEF Advances
  <2>2. NoPanicFrom(buf, f, i + 1)
    BY <1>3 DEF NoPanicFrom
  <2>3. ItemAt(c, buf, f, i).res # "panic"
    BY <2>1, <2>2, ItemAtNoPanic
  <2> QED
    BY <1>1, <2>3
<1>4. 0 \in G
  <2> HIDE DEF G
  <2>1. 0..N \subseteq G
    BY <1>1, <1>3, DownInduction
  <2>2. 0 \in 0..N
    BY <1>1
  <2> QED
    BY <2>1, <2>2
<1> QED
  BY <1>4 DEF f

-----------------------------------------------------------------------------
(* CBOR heads, there and back *)

\* A head whose argument takes the n bytes behind the initial one.
HeadForm(h, mt, ai, w, n) ==
    /\ h \in Seq(Nat) /\ Len(h) = 1 + n /\ h[1] = mt + ai
    /\ \A i \in 1..n : h[1 + i] = w[8 - n + i]

\* A word is a sequence of eight numbers.
LEMMA WordIsSeq ==
    ASSUME NEW w \in Words
    PROVE  w \in Seq(Nat) /\ Len(w) = 8 /\ w[8] \in Nat
<1>1. w \in [1..8 -> Nat] /\ 8 \in Nat
  BY DEF Words
<1>2. w \in Seq(Nat)
  BY <1>1, SeqDef
<1>3. DOMAIN w = 1..8
  BY <1>1
<1>4. Len(w) = 8
  BY <1>2, <1>3
<1> QED
  BY <1>1, <1>2, <1>4

\* The initial byte and the last bytes of a word make a head.
LEMMA HeadFormOfTail ==
    ASSUME NEW mt \in Nat, NEW ai \in Nat, NEW w \in Words, NEW n \in 1..8
    PROVE  HeadForm(<<mt + ai>> \o SubSeq(w, 9 - n, 8), mt, ai, w, n)
<1> DEFINE
      first == <<mt + ai>>
      s == SubSeq(w, 9 - n, 8)
      h == first \o s
<1>1. w \in Seq(Nat) /\ Len(w) = 8
  BY WordIsSeq
<1>2. 9 - n \in Nat /\ 8 \in Nat /\ 1 <= 9 - n /\ 9 - n <= 8 + 1 /\ 8 - (9 - n) + 1 = n
  OBVIOUS
<1>3. /\ s \in Seq(Nat) /\ Len(s) = 8 - (9 - n) + 1
      /\ \A i \in 1..(8 - (9 - n) + 1) : s[i] = w[(9 - n) + i - 1]
  <2> DEFINE
        lo == 9 - n
        hi == 8
        t == SubSeq(w, lo, hi)
  <2>1. lo \in Nat /\ hi \in Nat /\ 1 <= lo /\ lo <= hi + 1 /\ hi <= Len(w) /\ w \in Seq(Nat)
    BY <1>1, <1>2
  <2> HIDE DEF lo, hi
  <2>2. /\ t \in Seq(Nat) /\ Len(t) = hi - lo + 1
        /\ \A i \in 1..(hi - lo + 1) : t[i] = w[lo + i - 1]
    BY <2>1, Slice
  <2> QED
    BY <2>2 DEF lo, hi
<1> HIDE DEF s
<1>4. s \in Seq(Nat) /\ Len(s) = n /\ \A i \in 1..n : s[i] = w[8 - n + i]
  <2>1. \A i \in 1..n : (9 - n) + i - 1 = 8 - n + i
    OBVIOUS
  <2> QED
    BY <1>2, <1>3, <2>1
<1>5. first \in Seq(Nat) /\ Len(first) = 1 /\ first[1] = mt + ai
  OBVIOUS
<1> HIDE DEF first
<1>6. first \in Seq(Nat) /\ s \in Seq(Nat)
  BY <1>4, <1>5
<1>7. /\ h \in Seq(Nat) /\ Len(h) = Len(first) + Len(s)
      /\ \A i \in 1..Len(first) : h[i] = first[i]
      /\ \A i \in 1..Len(s) : h[Len(first) + i] = s[i]
  BY <1>6, Joined
<1> HIDE DEF h
<1>8. h \in Seq(Nat) /\ Len(h) = 1 + n /\ h[1] = mt + ai
  BY <1>4, <1>5, <1>7
<1>9. ASSUME NEW i \in 1..n PROVE h[1 + i] = w[8 - n + i]
  BY <1>4, <1>5, <1>7
<1>10. HeadForm(h, mt, ai, w, n)
  BY <1>8, <1>9 DEF HeadForm
<1> QED
  BY <1>10 DEF h, first, s

\* The forms of encodeHead (cbor.go:251-273).
LEMMA EncodedForms ==
    ASSUME NEW mt \in Nat, NEW w \in Words
    PROVE  LET h == encodeHead(mt, w)
           IN  /\ FitsIn(w, 1) /\ w[8] < 24 => h = <<mt + w[8]>>
               /\ FitsIn(w, 1) /\ ~(w[8] < 24) => HeadForm(h, mt, 24, w, 1)
               /\ ~FitsIn(w, 1) /\ FitsIn(w, 2) => HeadForm(h, mt, 25, w, 2)
               /\ ~FitsIn(w, 2) /\ FitsIn(w, 4) => HeadForm(h, mt, 26, w, 4)
               /\ ~FitsIn(w, 4) => HeadForm(h, mt, 27, w, 8)
<1> DEFINE h == encodeHead(mt, w)
<1>0. w \in Seq(Nat) /\ Len(w) = 8 /\ w[8] \in Nat
  BY WordIsSeq
<1>1. (FitsIn(w, 1) => FitsIn(w, 2)) /\ (FitsIn(w, 2) => FitsIn(w, 4))
  BY DEF FitsIn
<1>2. ASSUME FitsIn(w, 1), w[8] < 24 PROVE h = <<mt + w[8]>>
  BY <1>2 DEF encodeHead
<1>3. ASSUME FitsIn(w, 1), ~(w[8] < 24) PROVE HeadForm(h, mt, 24, w, 1)
  <2>1. h = <<mt + 24, w[8]>>
    BY <1>3 DEF encodeHead, aiOneByte
  <2>2. h \in Seq(Nat) /\ Len(h) = 2 /\ h[1] = mt + 24 /\ h[2] = w[8]
    BY <1>0, <2>1
  <2> HIDE DEF h
  <2>3. \A i \in 1..1 : h[1 + i] = w[8 - 1 + i]
    <3>1. \A i \in 1..1 : 1 + i = 2 /\ 8 - 1 + i = 8
      OBVIOUS
    <3> QED
      BY <2>2, <3>1
  <2> QED
    BY <2>2, <2>3 DEF HeadForm
<1>4. ASSUME ~FitsIn(w, 1), FitsIn(w, 2) PROVE HeadForm(h, mt, 25, w, 2)
  <2>1. h = <<mt + 25>> \o SubSeq(w, 7, 8)
    BY <1>4 DEF encodeHead, aiTwoBytes
  <2>2. 7 = 9 - 2 /\ 2 \in 1..8 /\ 25 \in Nat
    OBVIOUS
  <2>3. HeadForm(<<mt + 25>> \o SubSeq(w, 9 - 2, 8), mt, 25, w, 2)
    BY <2>2, HeadFormOfTail
  <2> QED
    BY <2>1, <2>2, <2>3
<1>5. ASSUME ~FitsIn(w, 2), FitsIn(w, 4) PROVE HeadForm(h, mt, 26, w, 4)
  <2>1. h = <<mt + 26>> \o SubSeq(w, 5, 8)
    BY <1>1, <1>5 DEF encodeHead, aiFourBytes
  <2>2. 5 = 9 - 4 /\ 4 \in 1..8 /\ 26 \in Nat
    OBVIOUS
  <2>3. HeadForm(<<mt + 26>> \o SubSeq(w, 9 - 4, 8), mt, 26, w, 4)
    BY <2>2, HeadFormOfTail
  <2> QED
    BY <2>1, <2>2, <2>3
<1>6. ASSUME ~FitsIn(w, 4) PROVE HeadForm(h, mt, 27, w, 8)
  <2>1. h = <<mt + 27>> \o w
    BY <1>1, <1>6 DEF encodeHead, aiEightBytes
  <2>2. 1 = 9 - 8 /\ 8 \in 1..8 /\ 27 \in Nat
    OBVIOUS
  <2>3. HeadForm(<<mt + 27>> \o SubSeq(w, 9 - 8, 8), mt, 27, w, 8)
    BY <2>2, HeadFormOfTail
  <2>4. SubSeq(w, 1, 8) = w
    BY <1>0
  <2> QED
    BY <2>1, <2>2, <2>3, <2>4
<1> QED
  BY <1>2, <1>3, <1>4, <1>5, <1>6

\* A word is made of its last bytes, if the others are 0.
LEMMA WordOfTail ==
    ASSUME NEW w \in Words, NEW n \in 1..8, FitsIn(w, n), NEW bs \in Seq(Nat), Len(bs) = n,
           \A i \in 1..n : bs[i] = w[8 - n + i]
    PROVE  Word(bs) = w
<1>1. Word(bs) = [i \in 1..8 |-> IF i + n > 8 THEN bs[i + n - 8] ELSE 0]
  BY DEF Word
<1>2. ASSUME NEW i \in 1..8 PROVE (IF i + n > 8 THEN bs[i + n - 8] ELSE 0) = w[i]
  <2>1. CASE i + n > 8
    <3>1. i + n - 8 \in 1..n /\ 8 - n + (i + n - 8) = i
      <4>1. \A j, k \in 1..8 : j + k > 8 => j + k - 8 \in 1..k /\ 8 - k + (j + k - 8) = j
        OBVIOUS
      <4> QED
        BY <2>1, <4>1
    <3>2. bs[i + n - 8] = w[8 - n + (i + n - 8)]
      BY <3>1
    <3> QED
      BY <2>1, <3>1, <3>2
  <2>2. CASE ~(i + n > 8)
    <3>1. i \in 1..(8 - n)
      BY <2>2
    <3> QED
      BY <2>2, <3>1 DEF FitsIn
  <2> QED
    BY <2>1, <2>2
<1>3. w = [i \in 1..8 |-> w[i]]
  BY DEF Words
<1> QED
  BY <1>1, <1>2, <1>3

\* The initial byte taken apart, and put together.
LEMMA InitialByte ==
    /\ \A k \in 0..7 : \A a \in 0..31 :
          ((32 * k + a) \div 32) * 32 = 32 * k /\ (32 * k + a) % 32 = a
    /\ \A b \in 0..255 : (b \div 32) * 32 + (b % 32) = b /\ b % 32 \in 0..31
                         /\ (b \div 32) * 32 \in Nat
<1>1. \A k \in 0..7 : \A a \in 0..31 : (32 * k + a) \div 32 = k /\ (32 * k + a) % 32 = a
  OBVIOUS
<1>2. \A k \in 0..7 : k * 32 = 32 * k
  OBVIOUS
<1>3. \A b \in 0..255 : (b \div 32) * 32 + (b % 32) = b /\ b % 32 \in 0..31
                        /\ (b \div 32) * 32 \in Nat
  OBVIOUS
<1> QED
  BY <1>1, <1>2, <1>3

\* The number of bytes of an argument.
ArgSize(ai) == <<1, 2, 4, 8>>[ai - 24 + 1]

\* They are 1, 2, 4 or 8.
LEMMA ArgSizes ==
    /\ ArgSize(24) = 1 /\ ArgSize(25) = 2 /\ ArgSize(26) = 4 /\ ArgSize(27) = 8
    /\ \A ai \in 24..27 : ArgSize(ai) \in 1..8
<1>1. ArgSize(24) = 1 /\ ArgSize(25) = 2 /\ ArgSize(26) = 4 /\ ArgSize(27) = 8
  BY DEF ArgSize
<1>2. \A ai \in 24..27 : ai = 24 \/ ai = 25 \/ ai = 26 \/ ai = 27
  OBVIOUS
<1> QED
  BY <1>1, <1>2

\* The n bytes behind position q are the last ones of w.
TailAt(buf, q, w, n) ==
    /\ q + n <= Len(buf)
    /\ \A i \in 1..n : buf[q + i] = w[8 - n + i]

\* An argument behind the initial byte is the word made of its bytes ...
LEMMA ReadsForm ==
    ASSUME NEW buf \in Seq(Nat), NEW q \in Nat, NEW ai \in 24..27, NEW w \in Words,
           FitsIn(w, ArgSize(ai)), TailAt(buf, q, w, ArgSize(ai))
    PROVE  readArg(buf, q, ai) = [res |-> "ok", arg |-> w, pos |-> q + ArgSize(ai)]
<1> DEFINE
      n == ArgSize(ai)
      bs == SubSeq(buf, q + 1, q + n)
<1>1. n \in 1..8 /\ Len(buf) \in Nat
  BY ArgSizes
<1>2. q + n <= Len(buf) /\ \A i \in 1..n : buf[q + i] = w[8 - n + i]
  BY DEF TailAt
<1>3. readArg(buf, q, ai) = IF ai > 27 \/ q + n > Len(buf) THEN Fail
                            ELSE [res |-> "ok", arg |-> Word(bs), pos |-> q + n]
  <2>1. ~(ai < 24)
    OBVIOUS
  <2> QED
    BY <2>1 DEF readArg, aiOneByte, aiEightBytes, ArgSize
<1>a. FitsIn(w, n)
  OBVIOUS
<1> HIDE DEF n
<1>4. ~(ai > 27 \/ q + n > Len(buf))
  BY <1>1, <1>2
<1>5. /\ q + 1 \in Nat /\ q + n \in Nat /\ 1 <= q + 1 /\ q + 1 <= (q + n) + 1
      /\ (q + n) - (q + 1) + 1 = n
  BY <1>1
<1>b. q + n <= Len(buf)
  BY <1>2
<1>6. /\ bs \in Seq(Nat) /\ Len(bs) = (q + n) - (q + 1) + 1
      /\ \A i \in 1..((q + n) - (q + 1) + 1) : bs[i] = buf[(q + 1) + i - 1]
  <2> DEFINE
        lo == q + 1
        hi == q + n
        t == SubSeq(buf, lo, hi)
  <2>1. lo \in Nat /\ hi \in Nat /\ 1 <= lo /\ lo <= hi + 1 /\ hi <= Len(buf)
    BY <1>5, <1>b
  <2> HIDE DEF lo, hi
  <2>2. /\ t \in Seq(Nat) /\ Len(t) = hi - lo + 1
        /\ \A i \in 1..(hi - lo + 1) : t[i] = buf[lo + i - 1]
    BY <2>1, Slice, SMTT(30)
  <2> QED
    BY <2>2 DEF lo, hi
<1> HIDE DEF bs
<1>7. bs \in Seq(Nat) /\ Len(bs) = n
  BY <1>5, <1>6
<1>8. ASSUME NEW i \in 1..n PROVE bs[i] = w[8 - n + i]
  <2>1. (q + 1) + i - 1 = q + i
    BY <1>1
  <2> QED
    BY <1>2, <1>5, <1>6, <2>1
<1>9. Word(bs) = w
  BY <1>1, <1>a, <1>7, <1>8, WordOfTail
<1> QED
  BY <1>3, <1>4, <1>9 DEF n

\* ... and is nothing else.
LEMMA ReadHasForm ==
    ASSUME NEW buf \in Seq(Nat), NEW q \in Nat, NEW ai \in 24..27,
           readArg(buf, q, ai).res = "ok"
    PROVE  LET r == readArg(buf, q, ai)
           IN  /\ r.arg \in Words /\ FitsIn(r.arg, ArgSize(ai))
               /\ TailAt(buf, q, r.arg, ArgSize(ai)) /\ r.pos = q + ArgSize(ai)
<1> DEFINE
      n == ArgSize(ai)
      bs == SubSeq(buf, q + 1, q + n)
      r == readArg(buf, q, ai)
      w == Word(bs)
<1>1. n \in 1..8 /\ Len(buf) \in Nat /\ r.res = "ok"
  BY ArgSizes
<1>3. r = IF ai > 27 \/ q + n > Len(buf) THEN Fail
          ELSE [res |-> "ok", arg |-> w, pos |-> q + n]
  <2>1. ~(ai < 24)
    OBVIOUS
  <2> QED
    BY <2>1 DEF readArg, aiOneByte, aiEightBytes, ArgSize
<1> HIDE DEF n, r, w
<1>4. ~(q + n > Len(buf)) /\ r.arg = w /\ r.pos = q + n
  BY <1>1, <1>3 DEF Fail
<1>5. /\ q + 1 \in Nat /\ q + n \in Nat /\ 1 <= q + 1 /\ q + 1 <= (q + n) + 1
      /\ (q + n) - (q + 1) + 1 = n /\ q + n <= Len(buf)
  BY <1>1, <1>4
<1>6. /\ bs \in Seq(Nat) /\ Len(bs) = (q + n) - (q + 1) + 1
      /\ \A i \in 1..((q + n) - (q + 1) + 1) : bs[i] = buf[(q + 1) + i - 1]
  <2> DEFINE
        lo == q + 1
        hi == q + n
        t == SubSeq(buf, lo, hi)
  <2>1. lo \in Nat /\ hi \in Nat /\ 1 <= lo /\ lo <= hi + 1 /\ hi <= Len(buf)
    BY <1>5
  <2> HIDE DEF lo, hi
  <2>2. /\ t \in Seq(Nat) /\ Len(t) = hi - lo + 1
        /\ \A i \in 1..(hi - lo + 1) : t[i] = buf[lo + i - 1]
    BY <2>1, Slice, SMTT(30)
  <2> QED
    BY <2>2 DEF lo, hi
<1> HIDE DEF bs
<1>7. bs \in Seq(Nat) /\ Len(bs) = n /\ Len(bs) \in 0..8
  BY <1>1, <1>5, <1>6
<1>8. w \in Words
  BY <1>7, WordIsWord DEF w
<1>9. w = [i \in 1..8 |-> IF i + n > 8 THEN bs[i + n - 8] ELSE 0]
  BY <1>7 DEF w, Word
<1>10. FitsIn(w, n)
  <2>1. \A i \in 1..(8 - n) : i \in 1..8 /\ ~(i + n > 8)
    BY <1>1
  <2> QED
    BY <1>9, <2>1 DEF FitsIn
<1>11. ASSUME NEW i \in 1..n PROVE buf[q + i] = w[8 - n + i]
  <2>1. /\ 8 - n + i \in 1..8 /\ (8 - n + i) + n > 8 /\ (8 - n + i) + n - 8 = i
        /\ (q + 1) + i - 1 = q + i
    <3>1. \A m \in 1..8 : \A j \in 1..m :
             8 - m + j \in 1..8 /\ (8 - m + j) + m > 8 /\ (8 - m + j) + m - 8 = j
      OBVIOUS
    <3>2. (q + 1) + i - 1 = q + i
      BY <1>1
    <3> QED
      BY <1>1, <3>1, <3>2
  <2>2. w[8 - n + i] = bs[i]
    BY <1>9, <2>1
  <2>3. bs[i] = buf[q + i]
    BY <1>5, <1>6, <2>1
  <2> QED
    BY <2>2, <2>3
<1>12. TailAt(buf, q, w, n)
  BY <1>5, <1>11 DEF TailAt
<1> QED
  BY <1>4, <1>8, <1>10, <1>12 DEF n, r

\* No shorter head has the same argument.
Shortest(ai, w) ==
    /\ ai = 24 => ~(w[8] <= 23)
    /\ ai = 25 => ~FitsIn(w, 1)
    /\ ai = 26 => ~FitsIn(w, 2)
    /\ ai = 27 => ~FitsIn(w, 4)

\* The canonical decoder asks for just that (cbor.go:479-532).
LEMMA CanonicalIsShortest ==
    ASSUME NEW buf, NEW q, NEW ai
    PROVE  LET r == readArg(buf, q, ai)
           IN  readArgCanonical(buf, q, ai)
                  = IF r.res = "ok" /\ ~Shortest(ai, r.arg) THEN Fail ELSE r
<1> DEFINE
      r == readArg(buf, q, ai)
      shorter == \/ ai = 24 /\ r.arg[8] <= 23
                 \/ ai = 25 /\ FitsIn(r.arg, 1)
                 \/ ai = 26 /\ FitsIn(r.arg, 2)
                 \/ ai = 27 /\ FitsIn(r.arg, 4)
<1>1. readArgCanonical(buf, q, ai) = IF r.res = "ok" /\ shorter THEN Fail ELSE r
  BY DEF readArgCanonical, aiOneByte, aiTwoBytes, aiFourBytes, aiEightBytes
<1>2. shorter <=> ~Shortest(ai, r.arg)
  BY DEF Shortest
<1> HIDE DEF r, shorter
<1>3. readArgCanonical(buf, q, ai) = IF r.res = "ok" /\ ~Shortest(ai, r.arg) THEN Fail ELSE r
  BY <1>1, <1>2
<1> QED
  BY <1>3 DEF r

\* An immediate argument is its initial byte's.
LEMMA ImmediateWord ==
    ASSUME NEW n \in 0..23
    PROVE  /\ Small(n) \in Words /\ FitsIn(Small(n), 1) /\ Small(n)[8] = n
           /\ \A w \in Words : FitsIn(w, 1) /\ w[8] = n => w = Small(n)
<1> DEFINE
      v == [i \in 1..8 |-> IF i = 8 THEN n ELSE 0]
      bs == <<0, 0, n>>
<1>1. v \in Words /\ v[8] = n /\ \A i \in 1..7 : v[i] = 0
  BY DEF Words
<1>2. v[6] = 0 /\ v[7] = 0
  OBVIOUS
<1>3. bs \in Seq(Nat) /\ Len(bs) = 3 /\ bs[1] = 0 /\ bs[2] = 0 /\ bs[3] = n
  OBVIOUS
<1>4. Small(n) = Word(bs)
  <2>1. \A m \in 0..23 : m \div (256 * 256) = 0 /\ m \div 256 = 0 /\ m % 256 = m
    OBVIOUS
  <2>2. 0 % 256 = 0
    OBVIOUS
  <2> QED
    BY <2>1, <2>2 DEF Small
<1> HIDE DEF v, bs
<1>5. FitsIn(v, 1) /\ FitsIn(v, 3)
  BY <1>1 DEF FitsIn
<1>6. ASSUME NEW i \in 1..3 PROVE bs[i] = v[8 - 3 + i]
  <2>1. i = 1 \/ i = 2 \/ i = 3
    OBVIOUS
  <2> QED
    BY <1>1, <1>2, <1>3, <2>1
<1>7. Word(bs) = v
  <2>1. 3 \in 1..8
    OBVIOUS
  <2> QED
    BY <1>1, <1>3, <1>5, <1>6, <2>1, WordOfTail
<1>8. ASSUME NEW w \in Words, FitsIn(w, 1), w[8] = n PROVE w = v
  <2>1. \A i \in 1..7 : w[i] = 0
    BY <1>8 DEF FitsIn
  <2>2. ASSUME NEW i \in 1..8 PROVE w[i] = v[i]
    <3>1. i \in 1..7 \/ i = 8
      OBVIOUS
    <3> QED
      BY <1>1, <1>8, <2>1, <3>1
  <2> QED
    BY <1>1, <2>2 DEF Words
<1> QED
  BY <1>1, <1>4, <1>5, <1>7, <1>8

\* The major types, in the high three bits.
MajorTypes == {32 * k : k \in 0..7}

\* An initial byte is a major type and additional information.
LEMMA InitialBytes ==
    /\ MajorTypes \subseteq Nat
    /\ \A mt \in MajorTypes : \A a \in 0..31 :
          mt + a \in Nat /\ ((mt + a) \div 32) * 32 = mt /\ (mt + a) % 32 = a
<1>1. ASSUME NEW mt \in MajorTypes
      PROVE  mt \in Nat /\ \A a \in 0..31 :
                mt + a \in Nat /\ ((mt + a) \div 32) * 32 = mt /\ (mt + a) % 32 = a
  <2>1. PICK k \in 0..7 : mt = 32 * k
    BY DEF MajorTypes
  <2>2. 32 * k \in Nat /\ \A a \in 0..31 : 32 * k + a \in Nat
    OBVIOUS
  <2> QED
    BY <2>1, <2>2, InitialByte
<1> QED
  BY <1>1

\* What the n bytes behind the initial one are, read where the head is held.
LEMMA HeldForm ==
    ASSUME NEW buf \in Seq(Nat), NEW p \in Nat, NEW mt \in MajorTypes, NEW ai \in 0..31,
           NEW w, NEW n \in 0..8, NEW h, HeadForm(h, mt, ai, w, n), HoldsAt(buf, p, h)
    PROVE  /\ p < Len(buf) /\ MajorType(buf, p) = mt /\ Additional(buf, p) = ai
           /\ TailAt(buf, p + 1, w, n) /\ Len(h) = 1 + n
<1>1. /\ h \in Seq(Nat) /\ Len(h) = 1 + n /\ h[1] = mt + ai
      /\ \A i \in 1..n : h[1 + i] = w[8 - n + i]
  BY DEF HeadForm
<1>2. p + Len(h) <= Len(buf) /\ \A i \in 1..Len(h) : buf[p + i] = h[i]
  BY DEF HoldsAt
<1>3. Len(buf) \in Nat /\ 1 \in 1..(1 + n)
  OBVIOUS
<1>4. p + 1 + n <= Len(buf) /\ p < Len(buf)
  BY <1>1, <1>2, <1>3
<1>5. buf[p + 1] = mt + ai
  BY <1>1, <1>2, <1>3
<1>6. MajorType(buf, p) = mt /\ Additional(buf, p) = ai
  BY <1>5, InitialBytes DEF MajorType, Additional
<1>7. ASSUME NEW i \in 1..n PROVE buf[p + 1 + i] = w[8 - n + i]
  <2>1. 1 + i \in 1..(1 + n) /\ p + (1 + i) = p + 1 + i
    OBVIOUS
  <2> QED
    BY <1>1, <1>2, <2>1
<1> QED
  BY <1>1, <1>4, <1>6, <1>7 DEF TailAt

\* A head of 2, 3, 5 or 9 bytes is read back.
LEMMA LongHeadReadsBack ==
    ASSUME NEW buf \in Seq(Nat), NEW p \in Nat, NEW mt \in MajorTypes, NEW ai \in 24..27,
           NEW w \in Words, NEW h, HeadForm(h, mt, ai, w, ArgSize(ai)), HoldsAt(buf, p, h),
           FitsIn(w, ArgSize(ai)), Shortest(ai, w), NEW c
    PROVE  /\ p < Len(buf) /\ MajorType(buf, p) = mt
           /\ Argument(c, buf, p) = [res |-> "ok", arg |-> w, pos |-> p + Len(h)]
<1> DEFINE
      n == ArgSize(ai)
      q == p + 1
      r == readArg(buf, q, ai)
<1>1. n \in 1..8 /\ n \in 0..8 /\ ai \in 0..31 /\ q \in Nat
  BY ArgSizes
<1>2. /\ p < Len(buf) /\ MajorType(buf, p) = mt /\ Additional(buf, p) = ai
      /\ TailAt(buf, q, w, n) /\ Len(h) = 1 + n
  BY <1>1, HeldForm
<1>3. r = [res |-> "ok", arg |-> w, pos |-> q + n]
  <2>1. TailAt(buf, q, w, ArgSize(ai)) /\ FitsIn(w, ArgSize(ai)) /\ q \in Nat
    BY <1>1, <1>2
  <2> HIDE DEF q
  <2> QED
    BY <2>1, ReadsForm
<1>5. readArgCanonical(buf, q, ai) = IF r.res = "ok" /\ ~Shortest(ai, r.arg) THEN Fail ELSE r
  BY CanonicalIsShortest
<1>4. q + n = p + Len(h)
  <2> DEFINE l == Len(h)
  <2>1. l = 1 + n
    BY <1>2
  <2> HIDE DEF l, n
  <2>2. p + 1 + n = p + l
    BY <1>1, <2>1
  <2> QED
    BY <2>2 DEF l
<1> HIDE DEF n, r, q
<1>6. readArgCanonical(buf, q, ai) = r
  BY <1>3, <1>5
<1>7. Argument(c, buf, p) = r
  BY <1>2, <1>6 DEF Argument, r, q
<1> QED
  BY <1>2, <1>3, <1>4, <1>7

\* The word of an argument in the initial byte.
Immediate(w, ai) == ai \in 0..23 /\ w = Small(ai)

\* A head of one byte is read back.
LEMMA ShortHeadReadsBack ==
    ASSUME NEW buf \in Seq(Nat), NEW p \in Nat, NEW mt \in MajorTypes, NEW ai,
           NEW w, Immediate(w, ai), NEW n, n = 0, NEW h, HeadForm(h, mt, ai, w, n),
           HoldsAt(buf, p, h), NEW c
    PROVE  /\ p < Len(buf) /\ MajorType(buf, p) = mt
           /\ Argument(c, buf, p) = [res |-> "ok", arg |-> w, pos |-> p + Len(h)]
<1> DEFINE
      q == p + 1
      r == readArg(buf, q, ai)
<1>b. ai \in 0..23 /\ w = Small(ai)
  BY DEF Immediate
<1>1. ai \in 0..31 /\ ai < 24 /\ q \in Nat /\ n \in 0..8
  BY <1>b
<1>4. p < Len(buf) /\ MajorType(buf, p) = mt /\ Additional(buf, p) = ai
      /\ Len(h) = 1 + n
  BY <1>1, HeldForm
<1>5. r = [res |-> "ok", arg |-> w, pos |-> q]
  BY <1>1, <1>b DEF readArg, aiOneByte
<1>6. readArgCanonical(buf, q, ai) = IF r.res = "ok" /\ ~Shortest(ai, r.arg) THEN Fail ELSE r
  BY CanonicalIsShortest
<1>7. Shortest(ai, w)
  BY <1>1 DEF Shortest
<1> HIDE DEF r, q
<1>8. readArgCanonical(buf, q, ai) = r
  BY <1>5, <1>6, <1>7
<1>9. Argument(c, buf, p) = r
  BY <1>4, <1>8 DEF Argument, r, q
<1>10. p + Len(h) = q
  <2> DEFINE l == Len(h)
  <2>1. l = 1 + 0
    BY <1>4
  <2> HIDE DEF l
  <2>2. p + l = p + 1
    BY <2>1
  <2> QED
    BY <2>2 DEF l, q
<1> QED
  BY <1>4, <1>5, <1>9, <1>10

\* Every head that encodeHead writes (cbor.go:251-273) is read back with its
\* major type and all 64 bits of its argument, by readArg and by
\* readArgCanonical (668-705, 479-532), which refuses none of them as too long.
THEOREM HeadsReadBack ==
    ASSUME NEW buf \in Seq(Byte), NEW p \in Nat, NEW mt \in MajorTypes, NEW w \in [1..8 -> Byte],
           HoldsAt(buf, p, encodeHead(mt, w)), NEW c
    PROVE  /\ p < Len(buf) /\ MajorType(buf, p) = mt
           /\ Argument(c, buf, p)
                = [res |-> "ok", arg |-> w, pos |-> p + Len(encodeHead(mt, w))]
<1> DEFINE h == encodeHead(mt, w)
<1>1. buf \in Seq(Nat) /\ w \in Words /\ mt \in Nat /\ w[8] \in Nat
  <2>1. Byte \subseteq Nat
    BY DEF Byte
  <2>2. buf \in Seq(Nat)
    BY <2>1, SeqMonotonic
  <2>3. w \in Words
    BY <2>1 DEF Words
  <2> QED
    BY <2>2, <2>3, WordIsSeq, InitialBytes
<1>2. /\ FitsIn(w, 1) /\ w[8] < 24 => h = <<mt + w[8]>>
      /\ FitsIn(w, 1) /\ ~(w[8] < 24) => HeadForm(h, mt, 24, w, 1)
      /\ ~FitsIn(w, 1) /\ FitsIn(w, 2) => HeadForm(h, mt, 25, w, 2)
      /\ ~FitsIn(w, 2) /\ FitsIn(w, 4) => HeadForm(h, mt, 26, w, 4)
      /\ ~FitsIn(w, 4) => HeadForm(h, mt, 27, w, 8)
  BY <1>1, EncodedForms
<1>3. FitsIn(w, 1) => FitsIn(w, 2)
  BY DEF FitsIn
<1>4. FitsIn(w, 2) => FitsIn(w, 4)
  BY DEF FitsIn
<1>5. FitsIn(w, 8)
  BY DEF FitsIn
<1>a. HoldsAt(buf, p, h)
  OBVIOUS
<1>6. CASE FitsIn(w, 1) /\ w[8] < 24
  <2>1. h = <<mt + w[8]>>
    BY <1>2, <1>6
  <2>3. w[8] \in 0..23
    <3> DEFINE a == w[8]
    <3>1. a \in Nat /\ a < 24
      BY <1>1, <1>6
    <3> HIDE DEF a
    <3>2. a \in 0..23
      BY <3>1
    <3> QED
      BY <3>2 DEF a
  <2>5. w = Small(w[8])
    BY <1>1, <1>6, <2>3, ImmediateWord
  <2>4. /\ p < Len(buf) /\ MajorType(buf, p) = mt
        /\ Argument(c, buf, p) = [res |-> "ok", arg |-> w, pos |-> p + Len(h)]
    <3> DEFINE
          ai == w[8]
          n == 0
    <3>1. ai \in 0..23 /\ w = Small(ai) /\ h = <<mt + ai>>
      BY <2>1, <2>3, <2>5
    <3> HIDE DEF ai, h
    <3>2. mt + ai \in Nat
      BY <1>1, <3>1
    <3>3. h \in Seq(Nat) /\ Len(h) = 1 /\ h[1] = mt + ai
      BY <3>1, <3>2
    <3>4. HeadForm(h, mt, ai, w, n) /\ n = 0
      BY <3>3 DEF HeadForm
    <3> HIDE DEF n
    <3>5. buf \in Seq(Nat) /\ Immediate(w, ai) /\ HoldsAt(buf, p, h)
      BY <1>1, <1>a, <3>1 DEF Immediate
    <3> QED
      BY <3>4, <3>5, ShortHeadReadsBack
  <2> QED
    BY <2>4
<1>7. CASE ~(FitsIn(w, 1) /\ w[8] < 24)
  <2> HIDE DEF h
  <2>1. PICK ai \in 24..27 :
           HeadForm(h, mt, ai, w, ArgSize(ai)) /\ FitsIn(w, ArgSize(ai)) /\ Shortest(ai, w)
    <3>1. CASE FitsIn(w, 1)
      <4>1. Shortest(24, w)
        BY <1>1, <1>7, <3>1 DEF Shortest
      <4> QED
        BY <1>2, <1>7, <3>1, <4>1, ArgSizes
    <3>2. CASE ~FitsIn(w, 1) /\ FitsIn(w, 2)
      <4>1. Shortest(25, w)
        BY <3>2 DEF Shortest
      <4> QED
        BY <1>2, <3>2, <4>1, ArgSizes
    <3>3. CASE ~FitsIn(w, 2) /\ FitsIn(w, 4)
      <4>1. Shortest(26, w)
        BY <3>3 DEF Shortest
      <4> QED
        BY <1>2, <3>3, <4>1, ArgSizes
    <3>4. CASE ~FitsIn(w, 4)
      <4>1. Shortest(27, w)
        BY <3>4 DEF Shortest
      <4> QED
        BY <1>2, <1>5, <3>4, <4>1, ArgSizes
    <3> QED
      BY <1>3, <1>4, <3>1, <3>2, <3>3, <3>4
  <2>2. /\ p < Len(buf) /\ MajorType(buf, p) = mt
        /\ Argument(c, buf, p) = [res |-> "ok", arg |-> w, pos |-> p + Len(h)]
    <3>1. buf \in Seq(Nat) /\ w \in Words /\ HoldsAt(buf, p, h) /\ p \in Nat
         
      BY <1>1, <1>a
    <3>2. HeadForm(h, mt, ai, w, ArgSize(ai)) /\ FitsIn(w, ArgSize(ai)) /\ Shortest(ai, w)
      BY <2>1
    <3> QED
      BY <3>1, <3>2, LongHeadReadsBack
  <2> QED
    BY <2>2 DEF h
<1> QED
  BY <1>6, <1>7

\* The initial byte at p, in front of q.
InitialAt(buf, p, q, mt, ai) ==
    buf \in Seq(Nat) /\ p \in Nat /\ q = p + 1 /\ p < Len(buf) /\ buf[q] = mt + ai

\* Where the initial byte and the argument stand, the head stands.
LEMMA FormIsHeld ==
    ASSUME NEW buf, NEW p, NEW q, NEW mt, NEW ai, NEW w, NEW n, n \in 0..8, NEW h,
           InitialAt(buf, p, q, mt, ai), TailAt(buf, q, w, n), HeadForm(h, mt, ai, w, n)
    PROVE  HoldsAt(buf, p, h) /\ Len(h) = 1 + n
<1>0. buf \in Seq(Nat) /\ p \in Nat /\ q = p + 1 /\ p < Len(buf) /\ buf[p + 1] = mt + ai
      /\ n \in 0..8 /\ Len(buf) \in Nat
  BY DEF InitialAt
<1>1. /\ h \in Seq(Nat) /\ Len(h) = 1 + n /\ h[1] = mt + ai
      /\ \A i \in 1..n : h[1 + i] = w[8 - n + i]
  BY DEF HeadForm
<1>2. (p + 1) + n <= Len(buf) /\ \A i \in 1..n : buf[(p + 1) + i] = w[8 - n + i]
  BY <1>0 DEF TailAt
<1>3. p + (1 + n) <= Len(buf)
  BY <1>0, <1>2
<1>4. ASSUME NEW i \in 1..(1 + n) PROVE buf[p + i] = h[i]
  <2>1. CASE i = 1
    BY <1>0, <1>1, <2>1
  <2>2. CASE i # 1
    <3> DEFINE j == i - 1
    <3>1. j \in 1..n /\ 1 + j = i /\ (p + 1) + j = p + i
      BY <1>0, <2>2
    <3> HIDE DEF j
    <3>2. h[1 + j] = w[8 - n + j] /\ buf[(p + 1) + j] = w[8 - n + j]
      BY <1>1, <1>2, <3>1
    <3> QED
      BY <3>1, <3>2
  <2> QED
    BY <2>1, <2>2
<1> QED
  BY <1>1, <1>3, <1>4 DEF HoldsAt

\* The canonical decoder accepts no head but the one encodeHead writes for the
\* argument it read (cbor.go:479-532, 251-273): one value has one head.
THEOREM OnlyEncodedHeads ==
    ASSUME NEW buf \in Seq(Byte), NEW p \in Nat, p < Len(buf), NEW canonical, canonical = TRUE,
           Argument(canonical, buf, p).res = "ok"
    PROVE  LET r == Argument(canonical, buf, p)
               h == encodeHead(MajorType(buf, p), r.arg)
           IN  HoldsAt(buf, p, h) /\ r.pos = p + Len(h)
<1> DEFINE
      mt == MajorType(buf, p)
      ai == Additional(buf, p)
      q == p + 1
      plain == readArg(buf, q, ai)
      w == plain.arg
      r == Argument(canonical, buf, p)
      h == encodeHead(mt, w)
<1>1. buf \in Seq(Nat)
  <2>1. Byte \subseteq Nat
    BY DEF Byte
  <2> QED
    BY <2>1, SeqMonotonic
<1>2. mt \in Nat /\ ai \in 0..31 /\ buf[q] = mt + ai
  <2>1. q \in 1..Len(buf)
    OBVIOUS
  <2>2. buf[q] \in 0..255
    BY <2>1, ElementOfSeq DEF Byte
  <2> QED
    BY <2>2, InitialByte DEF MajorType, Additional
<1>3. readArgCanonical(buf, q, ai)
        = IF plain.res = "ok" /\ ~Shortest(ai, plain.arg) THEN Fail ELSE plain
  BY CanonicalIsShortest
<1>4. r = readArgCanonical(buf, q, ai) /\ r.res = "ok"
  BY DEF Argument
<1>5. p \in Nat /\ q \in Nat /\ q = p + 1 /\ p < Len(buf) /\ Len(buf) \in Nat
  OBVIOUS
<1> HIDE DEF mt, ai, plain, r, q
<1>a. InitialAt(buf, p, q, mt, ai)
  BY <1>1, <1>2, <1>5 DEF InitialAt
<1>6. r = plain /\ plain.res = "ok" /\ Shortest(ai, w)
  BY <1>3, <1>4 DEF Fail
<1>7. ai \in 0..27
  <2>1. ASSUME ai > 27 PROVE plain = Fail
    <3>1. ~(ai < 24)
      BY <1>2, <2>1
    <3> QED
      BY <2>1, <3>1 DEF plain, readArg, aiOneByte, aiEightBytes
  <2> QED
    BY <1>2, <1>6, <2>1 DEF Fail
<1>8. CASE ai < 24
  <2>1. ai \in 0..23
    BY <1>7, <1>8
  <2>2. plain = [res |-> "ok", arg |-> Small(ai), pos |-> q]
    BY <1>8 DEF plain, readArg, aiOneByte
  <2>3. w = Small(ai) /\ plain.pos = q
    BY <2>2
  <2>4. w \in Words /\ FitsIn(w, 1) /\ w[8] = ai
    BY <2>1, <2>3, ImmediateWord
  <2> HIDE DEF w
  <2>5. h = <<mt + ai>>
    <3>1. FitsIn(w, 1) /\ w[8] < 24 => h = <<mt + w[8]>>
      BY <1>2, <2>4, EncodedForms
    <3> QED
      BY <1>8, <2>4, <3>1
  <2>6. mt + ai \in Nat
    BY <1>2
  <2> HIDE DEF h
  <2>7. h \in Seq(Nat) /\ Len(h) = 1 /\ h[1] = mt + ai
    BY <2>5, <2>6
  <2>8. HeadForm(h, mt, ai, w, 0)
    BY <2>7 DEF HeadForm
  <2>9. TailAt(buf, q, w, 0)
    BY <1>5 DEF TailAt, q
  <2>10. HoldsAt(buf, p, h)
    <3> DEFINE n == 0
    <3>1. n \in 0..8 /\ HeadForm(h, mt, ai, w, n) /\ TailAt(buf, q, w, n)
      BY <2>8, <2>9
    <3> HIDE DEF n
    <3> QED
      BY <1>a, <3>1, FormIsHeld
  <2>11. r.pos = p + Len(h)
    BY <1>5, <1>6, <2>3, <2>7 DEF q
  <2> QED
    BY <1>6, <2>10, <2>11 DEF h, w, mt, r
<1>9. CASE ~(ai < 24)
  <2> DEFINE n == ArgSize(ai)
  <2>1. ai \in 24..27
    BY <1>7, <1>9
  <2>2. n \in 1..8 /\ n \in 0..8
    BY <2>1, ArgSizes
  <2>3. plain.arg \in Words /\ FitsIn(plain.arg, n) /\ TailAt(buf, q, plain.arg, n) /\ plain.pos = q + n
    BY <1>1, <1>5, <1>6, <2>1, ReadHasForm DEF plain
  <2>4. w \in Words /\ FitsIn(w, n) /\ TailAt(buf, q, w, n) /\ Shortest(ai, w)
    BY <1>6, <2>3
  <2>5. r.pos = q + n
    BY <1>6, <2>3
  <2>a. r.arg = w
    BY <1>6
  <2> HIDE DEF w
  <2>6. /\ FitsIn(w, 1) /\ ~(w[8] < 24) => HeadForm(h, mt, 24, w, 1)
        /\ ~FitsIn(w, 1) /\ FitsIn(w, 2) => HeadForm(h, mt, 25, w, 2)
        /\ ~FitsIn(w, 2) /\ FitsIn(w, 4) => HeadForm(h, mt, 26, w, 4)
        /\ ~FitsIn(w, 4) => HeadForm(h, mt, 27, w, 8)
    BY <1>2, <2>4, EncodedForms
  <2> HIDE DEF h
  <2>7. HeadForm(h, mt, ai, w, n)
    <3>1. w[8] \in Nat
      BY <2>4, WordIsSeq
    <3>2. CASE ai = 24
      <4>1. ~(w[8] <= 23)
        BY <2>4, <3>2 DEF Shortest
      <4>2. ~(w[8] < 24)
        BY <3>1, <4>1
      <4> QED
        BY <2>4, <2>6, <3>2, <4>2, ArgSizes
    <3>3. CASE ai = 25
      BY <2>4, <2>6, <3>3, ArgSizes DEF Shortest
    <3>4. CASE ai = 26
      BY <2>4, <2>6, <3>4, ArgSizes DEF Shortest
    <3>5. CASE ai = 27
      BY <2>4, <2>6, <3>5, ArgSizes DEF Shortest
    <3> QED
      BY <2>1, <3>2, <3>3, <3>4, <3>5
  <2> HIDE DEF n
  <2>8. HoldsAt(buf, p, h) /\ Len(h) = 1 + n
    BY <1>a, <2>2, <2>4, <2>7, FormIsHeld
  <2>9. r.pos = p + Len(h)
    BY <1>5, <2>2, <2>5, <2>8 DEF q
  <2> QED
    BY <2>a, <2>8, <2>9 DEF h, mt, r
<1> QED
  BY <1>8, <1>9

-----------------------------------------------------------------------------
(* The specification *)

\* No extension is longer than the section it is in.
LEMMA WithinSection ==
    ASSUME NEW N \in Nat
    PROVE  \A exts \in Seq(Extensions) : Len(exts) = N =>
              /\ EncodeExtensions(exts) \in Seq(Nat)
              /\ \A i \in 1..N : Len(exts[i].data) <= Len(EncodeExtensions(exts))
<1> DEFINE
      Good(exts) == /\ EncodeExtensions(exts) \in Seq(Nat)
                    /\ \A i \in 1..Len(exts) : Len(exts[i].data) <= Len(EncodeExtensions(exts))
      G == {n \in 0..N : \A exts \in Seq(Extensions) : Len(exts) = n => Good(exts)}
<1>0. \E e : e \in Extensions
  BY SomeExtension
<1>1. 0 \in G
  <2> SUFFICES ASSUME NEW exts \in Seq(Extensions), Len(exts) = 0 PROVE Good(exts)
    OBVIOUS
  <2>1. EncodeExtensions(exts) \in Seq(Nat)
    BY <1>0, EncodeExtensionsCons
  <2> QED
    BY <2>1
<1>2. ASSUME NEW n \in 1..N, n - 1 \in G PROVE n \in G
  <2>a. SUFFICES ASSUME NEW exts \in Seq(Extensions), Len(exts) = n PROVE Good(exts)
    OBVIOUS
  <2> DEFINE
        e == exts[1]
        others == Tail(exts)
        c == EncodeExtension(e)
        m == EncodeExtensions(others)
        all == EncodeExtensions(exts)
  <2>1. exts # <<>>
    BY <2>a
  <2>2. /\ exts = <<e>> \o others /\ e \in Extensions /\ others \in Seq(Extensions)
        /\ Len(others) = n - 1
        /\ \A i \in 1..(n - 1) : others[i] = exts[i + 1]
    BY <2>a, <2>1, FirstAndOthers
  <2>3. Good(others)
    <3> HIDE DEF Good, others, e
    <3> QED
      BY <1>2, <2>2
  <2>4. \A i \in 1..(n - 1) : Len(exts[i + 1].data) <= Len(m)
    BY <2>2, <2>3
  <2>b. exts[1] = e
    OBVIOUS
  <2> HIDE DEF e, others
  <2>5. all = c \o m /\ m \in Seq(Nat)
    BY <2>2, EncodeExtensionsCons
  <2>6. c \in Seq(Nat) /\ Len(c) = 8 + Len(e.data) /\ Len(e.data) \in Nat
    BY <2>2, EncodeExtensionBytes, ExtensionFields
  <2> HIDE DEF c, m, all
  <2>7. c \in Seq(Nat) /\ m \in Seq(Nat)
    BY <2>5, <2>6
  <2>8. all \in Seq(Nat) /\ Len(all) = Len(c) + Len(m) /\ Len(c) \in Nat /\ Len(m) \in Nat
    BY <2>5, <2>7, Joined
  <2>9. ASSUME NEW i \in 1..n PROVE Len(exts[i].data) <= Len(all)
    <3>1. CASE i = 1
      BY <2>6, <2>8, <2>b, <3>1
    <3>2. CASE i # 1
      <4>1. i - 1 \in 1..(n - 1) /\ (i - 1) + 1 = i
        BY <3>2
      <4>2. Len(exts[i].data) <= Len(m)
        BY <2>4, <4>1
      <4>3. exts[i] \in Extensions
        BY <2>a
      <4>4. Len(exts[i].data) \in Nat
        BY <4>3, ExtensionFields
      <4> QED
        BY <2>8, <4>2, <4>4
    <3> QED
      BY <3>1, <3>2
  <2> QED
    BY <2>a, <2>8, <2>9 DEF all
<1>3. N \in G
  <2> HIDE DEF G
  <2>1. 0..N \subseteq G
    BY <1>1, <1>2, UpInduction
  <2> QED
    BY <2>1
<1> QED
  BY <1>3

\* Init holds of, and every step preserves: what is received is bytes, no
\* longer than the section it is taken for may be.
WireInv ==
    /\ source \in {"sender"} \cup Sections
    /\ msg \in Messages \cup {NoMessage}
    /\ data \in Seq(Byte)
    /\ source # "sender" => Len(data) <= MaxSectionSize

\* WireInv is an invariant (frame.go:110-135 bounds the sections).
THEOREM WireInvariant == Spec => []WireInv
<1>1. Init => WireInv
  <2> SUFFICES ASSUME Init PROVE WireInv
    OBVIOUS
  <2>1. source \in {"sender"} \cup Sections /\ msg \in Messages \cup {NoMessage}
    BY DEF Init
  <2>2. data = <<>> /\ data \in Seq(Byte) /\ Len(data) = 0
    BY DEF Init
  <2>3. 0 <= MaxSectionSize
    BY FrameSizes DEF MaxSectionSize
  <2> QED
    BY <2>1, <2>2, <2>3 DEF WireInv
<1>2. WireInv /\ [Next]_vars => WireInv'
  <2> SUFFICES ASSUME WireInv, [Next]_vars PROVE WireInv'
    OBVIOUS
  <2>1. CASE Next
    <3>1. PICK piece \in Pieces[source] : source # "sender" /\ Receive(piece)
      BY <2>1 DEF Next
    <3>2. source \in Sections
      BY <3>1 DEF WireInv
    <3>3. piece \in Seq(Byte) /\ data \in Seq(Byte)
      BY <3>2, PiecesAssumption DEF WireInv
    <3>4. data' = data \o piece /\ source' = source /\ msg' = msg
          /\ Len(data) + Len(piece) <= MaxSectionSize
      BY <3>1 DEF Receive
    <3>5. data' \in Seq(Byte) /\ Len(data') = Len(data) + Len(piece)
      BY <3>3, <3>4, Joined
    <3>6. MaxSectionSize' = MaxSectionSize
      BY <3>4 DEF MaxSectionSize
    <3>7. Len(data') <= MaxSectionSize'
      BY <3>4, <3>5, <3>6
    <3> QED
      BY <3>4, <3>5, <3>7 DEF WireInv
  <2>2. CASE UNCHANGED vars
    BY <2>2 DEF WireInv, vars, MaxSectionSize
  <2> QED
    BY <2>1, <2>2
<1> QED
  BY <1>1, <1>2, PTL DEF Spec

\* The parts of a message.
LEMMA MessageParts ==
    ASSUME NEW m \in Messages \cup {NoMessage}
    PROVE  /\ m.header.frameType \in Nat /\ m.header.flags \in Nat
           /\ m.header.exts \in Seq(Extensions)
           /\ Encode(m.payload) \in Seq(Nat)
<1> DEFINE h == NoMessage.header
<1>1. m.header \in Headers \cup {h} /\ m.payload \in Payloads \cup {Null}
  BY DEF Messages, NoMessage
<1>2. h.frameType = 1 /\ h.flags = 0 /\ h.exts = <<>>
  BY DEF NoMessage
<1>3. Byte \subseteq Nat
  BY DEF Byte
<1>4. Encode(m.payload) \in Seq(Byte)
  BY <1>1, PayloadsAssumption
<1>5. Encode(m.payload) \in Seq(Nat)
  BY <1>3, <1>4, SeqMonotonic
<1>6. CASE m.header = h
  <2>1. <<>> \in Seq(Extensions) /\ 0 \in Nat /\ 1 \in Nat
    OBVIOUS
  <2>2. m.header.frameType = 1 /\ m.header.flags = 0 /\ m.header.exts = <<>>
    BY <1>2, <1>6
  <2> QED
    BY <1>5, <2>1, <2>2
<1>7. CASE m.header \in Headers
  BY <1>3, <1>5, <1>7, HeadersAssumption
<1> QED
  BY <1>1, <1>6, <1>7

\* A message arrives as it was sent, or is too large to be sent.
LEMMA MessageArrives ==
    ASSUME NEW m \in Messages \cup {NoMessage}
    PROVE  LET f == FrameOf(m)
               sent == EncodeFrame(f)
               got == DecodeFrame(sent.bytes \o <<1, 255>>)
               exts == DecodeExtensions(got.v.extensions)
           IN  IF sent.res # "ok"
               THEN Len(f.payload) > MaxPayloadSize \/ Len(f.extensions) > MaxExtensionSize
               ELSE IF IsCriticalUnknownFrameType(f.frameType, f.flags) THEN got = Fail
               ELSE /\ got = Value(f, Len(sent.bytes))
                    /\ exts = Value(m.header.exts, Len(f.extensions))
<1> DEFINE
      ft == m.header.frameType
      fl == m.header.flags
      list == m.header.exts
      ext == EncodeExtensions(list)
      pay == Encode(m.payload)
      sid == Small(4)
      f == [version |-> Version, frameType |-> ft, flags |-> fl,
            streamID |-> sid, extensions |-> ext, payload |-> pay]
      sent == EncodeFrame(f)
      rest == <<1, 255>>
      got == DecodeFrame(sent.bytes \o rest)
      exts == DecodeExtensions(got.v.extensions)
<1>1. FrameOf(m) = f
  BY DEF FrameOf
<1>2. ft \in Nat /\ fl \in Nat /\ list \in Seq(Extensions) /\ pay \in Seq(Nat)
  BY MessageParts
<1>3. f.frameType = ft /\ f.flags = fl /\ f.extensions = ext /\ f.payload = pay
  OBVIOUS
<1>4. sid \in Seq(Nat) /\ Len(sid) = 8 /\ rest \in Seq(Nat)
  BY SmallIsWord
<1>5. /\ ext \in Seq(Nat)
      /\ \A i \in 1..Len(list) : Len(list[i].data) <= Len(ext)
  <2> HIDE DEF list
  <2>1. Len(list) \in Nat
    BY <1>2
  <2> QED
    BY <1>2, <2>1, WithinSection
<1> SUFFICES IF sent.res # "ok"
             THEN Len(f.payload) > MaxPayloadSize \/ Len(f.extensions) > MaxExtensionSize
             ELSE IF IsCriticalUnknownFrameType(f.frameType, f.flags) THEN got = Fail
             ELSE /\ got = Value(f, Len(sent.bytes))
                  /\ exts = Value(list, Len(f.extensions))
  BY <1>1
<1>6. CASE Len(pay) > MaxPayloadSize \/ Len(ext) > MaxExtensionSize
  <2> HIDE DEF f
  <2>1. sent = Fail
    BY <1>3, <1>6 DEF EncodeFrame
  <2>2. sent.res # "ok"
    BY <2>1 DEF Fail
  <2> HIDE DEF sent
  <2> QED
    BY <1>3, <1>6, <2>2
<1>7. CASE ~(Len(pay) > MaxPayloadSize \/ Len(ext) > MaxExtensionSize)
  <2>1. /\ Len(pay) <= MaxPayloadSize /\ Len(ext) <= MaxExtensionSize
        /\ Len(ext) \in Nat /\ Len(pay) \in Nat
    <3>1. Len(ext) \in Nat /\ Len(pay) \in Nat
      BY <1>2, <1>5
    <3> QED
      BY <1>7, <3>1, FrameSizes
  <2> HIDE DEF ft, fl, ext, pay, sid, rest, list
  <2>2. /\ sent.res = "ok"
        /\ got = IF IsCriticalUnknownFrameType(ft, fl) THEN Fail
                 ELSE Value(f, Len(sent.bytes))
    BY <1>2, <1>4, <1>5, <2>1, FrameReadsBack
  <2>3. Encodable(list)
    <3> SUFFICES ASSUME NEW i \in 1..Len(list) PROVE Len(list[i].data) < Huge
      BY DEF Encodable
    <3>1. list[i] \in Extensions
      BY <1>2
    <3>2. Len(list[i].data) \in Nat /\ Huge \in Nat
      <4>1. Len(list[i].data) \in Nat
        BY <3>1, ExtensionFields
      <4> QED
        BY <4>1 DEF Huge
    <3>3. Len(list[i].data) <= Len(ext)
      BY <1>5
    <3> QED
      BY <2>1, <3>2, <3>3, FrameSizes
  <2>4. DecodeExtensions(ext) = Value(list, Len(ext))
    BY <1>2, <2>3, DecodeOfEncode DEF ext
  <2> HIDE DEF sent, f
  <2>5. CASE IsCriticalUnknownFrameType(ft, fl)
    BY <1>3, <2>2, <2>5
  <2>6. CASE ~IsCriticalUnknownFrameType(ft, fl)
    <3>1. got = Value(f, Len(sent.bytes))
      BY <2>2, <2>6
    <3>2. got.v = f
      BY <3>1 DEF Value
    <3>3. exts = Value(list, Len(f.extensions))
      BY <1>3, <2>4, <3>2
    <3> QED
      BY <1>3, <2>2, <2>6, <3>1, <3>3
  <2> QED
    BY <2>5, <2>6
<1> QED
  BY <1>6, <1>7

\* For every message, and whatever the payload's encoder writes: the frame is
\* decoded to what was encoded and takes exactly its own bytes, whatever
\* follows, or is refused as critical and unknown, or was too large to encode
\* (frame.go:62-149, frameext.go:28-79).
THEOREM FramesArrive == Spec => []FrameArrives
<1>1. WireInv => FrameArrives
  <2> SUFFICES ASSUME WireInv PROVE FrameArrives
    OBVIOUS
  <2>1. msg \in Messages \cup {NoMessage}
    BY DEF WireInv
  <2> QED
    BY <2>1, MessageArrives DEF FrameArrives
<1> QED
  BY <1>1, WireInvariant, PTL

\* For every section received, of any bytes and any length a frame may carry:
\* the extensions decoded from it take all of its bytes and survive encoding,
\* and an unknown critical one is found, unless a first one of type 0 hides it
\* (frameext.go:28-100).
THEOREM ExtensionsAreTiled == Spec => []ExtensionsTile
<1>1. WireInv => ExtensionsTile
  <2> SUFFICES ASSUME WireInv, source = "extensions", DecodeExtensions(data).res = "ok"
               PROVE  LET got == DecodeExtensions(data)
                          again == EncodeExtensions(got.v)
                      IN  /\ Len(again) = Len(data)
                          /\ DecodeExtensions(again) = got
                          /\ \A i \in DOMAIN got.v :
                                got.v[i].critical /\ got.v[i].extType \notin KnownTypes =>
                                    LET found == FindUnknownCritical(got.v, KnownTypes)
                                    IN  /\ FindExtension(got.v, found) \in 1..i
                                        /\ found \notin KnownTypes
    BY DEF ExtensionsTile
  <2>1. data \in Seq(Byte) /\ Len(data) <= MaxSectionSize
    BY DEF WireInv
  <2>2. Len(data) < Huge
    <3>1. MaxSectionSize = MaxExtensionSize
      BY DEF MaxSectionSize
    <3>2. Len(data) \in Nat /\ Huge \in Nat
      BY <2>1 DEF Huge
    <3> QED
      BY <2>1, <3>1, <3>2, FrameSizes
  <2>3. PICK exts \in Seq(Extensions) :
              /\ DecodeExtensions(data) = Value(exts, Len(data))
              /\ Len(EncodeExtensions(exts)) = Len(data)
              /\ DecodeExtensions(EncodeExtensions(exts)) = Value(exts, Len(data))
    BY <2>1, <2>2, SectionTiles
  <2>4. DecodeExtensions(data).v = exts
    BY <2>3 DEF Value
  <2>5. \A i \in DOMAIN exts :
           exts[i].critical /\ exts[i].extType \notin KnownTypes =>
               LET found == FindUnknownCritical(exts, KnownTypes)
               IN  /\ FindExtension(exts, found) \in 1..i
                   /\ found \notin KnownTypes
    BY UnknownCriticalIsFound
  <2> QED
    BY <2>3, <2>4, <2>5
<1> QED
  BY <1>1, WireInvariant, PTL

\* For every payload received, of any bytes and any length a frame may carry:
\* what the canonical decoder accepts the other one returns; only a length of
\* eight bytes makes the latter panic, and only such a length, or an array that
\* claims more elements than memory holds, the former (cbor.go:349-476, 544-666).
THEOREM CborDecodersAgree == Spec => []DecodersAgree
<1>1. WireInv => DecodersAgree
  <2> SUFFICES ASSUME WireInv, source = "payload" PROVE DecodersAgree
    BY DEF DecodersAgree
  <2> DEFINE
        c == TRUE
        d == FALSE
        strict == decodeValueCanonical(data, 0)
        plain == decodeValue(data, 0)
  <2>1. data \in Seq(Byte) /\ Len(data) <= MaxSectionSize
    BY DEF WireInv
  <2>2. Len(data) < Huge
    <3>1. MaxSectionSize = MaxPayloadSize
      BY DEF MaxSectionSize
    <3>2. Len(data) \in Nat /\ Huge \in Nat
      BY <2>1 DEF Huge
    <3> QED
      BY <2>1, <3>1, <3>2, FrameSizes
  <2>3. BothModes(c, d)
    BY DEF BothModes
  <2>4. strict = decodeItem(c, data, 0) /\ plain = decodeItem(d, data, 0)
    BY DEF decodeValueCanonical, decodeValue
  <2> HIDE DEF c, d, strict, plain
  <2>5. strict = Items(c, data)[0] /\ plain = Items(d, data)[0]
    BY <2>1, <2>4, ItemsUnfold
  <2>6. strict.res = "ok" => plain = strict
    BY <2>1, <2>2, <2>3, <2>5, ItemsAgree
  <2>7. ASSUME ~HasGreatLength
        PROVE  \A i \in DOMAIN data : ~(data[i] >= 64 /\ data[i] % 32 = 27)
    BY <2>7 DEF HasGreatLength, mtByteStr, aiEightBytes
  <2>8. plain.res = "panic" => HasGreatLength
    <3> SUFFICES ASSUME ~HasGreatLength PROVE plain.res # "panic"
      OBVIOUS
    <3>1. \A i \in DOMAIN data : d => ~GreatArrayAt(data, i)
      BY DEF d
    <3> QED
      BY <2>1, <2>5, <2>7, <3>1, ItemsNoPanic
  <2>9. strict.res = "panic" => HasGreatLength \/ HasGreatArray
    <3> SUFFICES ASSUME ~HasGreatLength, ~HasGreatArray PROVE strict.res # "panic"
      OBVIOUS
    <3>1. \A i \in DOMAIN data : c => ~GreatArrayAt(data, i)
      BY DEF HasGreatArray
    <3> QED
      BY <2>1, <2>5, <2>7, <3>1, ItemsNoPanic
  <2> QED
    BY <2>6, <2>8, <2>9 DEF DecodersAgree, strict, plain
<1> QED
  BY <1>1, WireInvariant, PTL
=============================================================================
