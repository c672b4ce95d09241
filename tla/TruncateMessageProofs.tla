----------------------- MODULE TruncateMessageProofs -----------------------
(***************************************************************************)
(* Proofs about TruncateMessage, for messages and limits of any length.    *)
(***************************************************************************)
EXTENDS TruncateMessage, WellFoundedInduction, TLAPS

-----------------------------------------------------------------------------
(* Induction over data, in the forms the provers can use *)

\* A non-empty set of naturals has a least element.
LEMMA LeastElement ==
    ASSUME NEW S, S \subseteq Nat, S # {}
    PROVE  \E x \in S : \A y \in S : x <= y
<1>1. PICK x \in S : \A y \in S : <<y, x>> \notin OpToRel(<, Nat)
  BY WFMin, NatLessThanWellFounded
<1>2. \A y \in S : ~(y < x)
  BY <1>1 DEF OpToRel
<1> QED
  BY <1>2

\* Induction from 0 up to N, over the set of the numbers that are good.
LEMMA UpInduction ==
    ASSUME NEW N \in Nat, NEW G, 0 \in G,
           \A n \in 0..N : n \in G /\ n + 1 \in 0..N => n + 1 \in G
    PROVE  0..N \subseteq G
<1> DEFINE S == {n \in 0..N : n \notin G}
<1>1. SUFFICES ASSUME S # {} PROVE FALSE
  OBVIOUS
<1>2. S \subseteq Nat
  OBVIOUS
<1>3. PICK n \in S : \A k \in S : n <= k
  <2> HIDE DEF S
  <2> QED
    BY <1>1, <1>2, LeastElement
<1>4. n \in 0..N /\ n # 0 /\ n \notin G
  OBVIOUS
<1>5. n - 1 \in 0..N /\ ~(n <= n - 1) /\ (n - 1) + 1 = n
  BY <1>4
<1>6. n - 1 \in G
  BY <1>3, <1>5
<1> QED
  BY <1>4, <1>5, <1>6

\* Induction from N down to 1: i is good if all numbers above it are.
LEMMA DownInduction ==
    ASSUME NEW N \in Nat, NEW G,
           \A i \in 1..N : (\A j \in (i + 1)..N : j \in G) => i \in G
    PROVE  1..N \subseteq G
<1> DEFINE S == {k \in 0..(N - 1) : N - k \notin G}
<1>1. SUFFICES ASSUME NEW i \in 1..N, i \notin G PROVE FALSE
  OBVIOUS
<1>2. N - i \in S
  BY <1>1
<1>3. S \subseteq Nat
  OBVIOUS
<1>4. PICK k \in S : \A j \in S : k <= j
  <2> HIDE DEF S
  <2> QED
    BY <1>2, <1>3, LeastElement
<1>5. k \in 0..(N - 1) /\ N - k \notin G /\ N - k \in 1..N
  OBVIOUS
<1>6. \A j \in (N - k + 1)..N : j \in G
  <2> SUFFICES ASSUME NEW j \in (N - k + 1)..N, j \notin G PROVE FALSE
    OBVIOUS
  <2>1. N - j \in 0..(N - 1) /\ N - (N - j) = j /\ ~(k <= N - j)
    BY <1>5
  <2>2. N - j \in S
    BY <2>1
  <2> QED
    BY <2>1, <2>2, <1>4
<1> QED
  BY <1>5, <1>6

\* A bounded, non-empty set of naturals has a maximum, and Max gives it.
LEMMA MaxIsGreatest ==
    ASSUME NEW N \in Nat, NEW S, S \subseteq 0..N, S # {}
    PROVE  Max(S) \in S /\ \A y \in S : y <= Max(S)
<1> DEFINE D == {n \in 0..N : N - n \in S}
<1>1. D \subseteq Nat /\ D # {}
  <2>1. PICK x \in S : TRUE
    OBVIOUS
  <2>2. N - x \in 0..N /\ N - (N - x) = x
    BY <2>1
  <2>3. N - x \in D
    BY <2>2
  <2>4. D \subseteq Nat
    OBVIOUS
  <2> HIDE DEF D
  <2> QED
    BY <2>3, <2>4
<1>2. PICK d \in D : \A y \in D : d <= y
  <2> HIDE DEF D
  <2> QED
    BY <1>1, LeastElement
<1>3. N - d \in S
  OBVIOUS
<1>4. \A y \in S : N - d >= y
  <2> SUFFICES ASSUME NEW y \in S PROVE N - d >= y
    OBVIOUS
  <2>1. y \in 0..N /\ d \in 0..N /\ N - (N - y) = y /\ N - y \in 0..N
    OBVIOUS
  <2>2. N - y \in D
    BY <2>1
  <2>3. d <= N - y
    BY <1>2, <2>2
  <2> QED
    BY <2>1, <2>3
<1>5. \E x \in S : \A y \in S : x >= y
  BY <1>3, <1>4
<1>6. Max(S) \in S /\ \A y \in S : Max(S) >= y
  BY <1>5 DEF Max
<1>7. \A y \in S : y \in 0..N
  OBVIOUS
<1> HIDE DEF D
<1> QED
  BY <1>6, <1>7

-----------------------------------------------------------------------------
(* Valid strings *)

\* The rest of the string, from position i on, is valid.
ValidFrom(str) ==
    CHOOSE f : f = [i \in 1..(Len(str) + 1) |->
                       i > Len(str) \/ (RuneAt(str, i) /\ f[i + str[i]])]

\* A rune ends within its string.
LEMMA RuneEnds ==
    ASSUME NEW str \in Seq(Bytes), NEW i \in 1..Len(str), RuneAt(str, i)
    PROVE  str[i] \in 1..3 /\ i + str[i] \in (i + 1)..(Len(str) + 1)
  BY DEF RuneAt

\* The recursive definition of ValidString has a solution, and so defines one.
LEMMA ValidUnfold ==
    ASSUME NEW str \in Seq(Bytes)
    PROVE  /\ ValidString(str) = ValidFrom(str)[1]
           /\ ValidFrom(str)[Len(str) + 1]
           /\ \A i \in 1..Len(str) :
                 ValidFrom(str)[i] <=> (RuneAt(str, i) /\ ValidFrom(str)[i + str[i]])
<1> DEFINE
      N == Len(str)
      Step(f, i) == i > Len(str) \/ (RuneAt(str, i) /\ f[i + str[i]])
      Closed(C) == \A j \in C : RuneAt(str, j) /\ (j + str[j] \in C \/ j + str[j] = N + 1)
      Ok(i) == \E C \in SUBSET (1..N) : (i \in C \/ i = N + 1) /\ Closed(C)
      g == [i \in 1..(Len(str) + 1) |-> Ok(i)]
<1>1. N \in Nat
  OBVIOUS
<1>2. Ok(N + 1)
  <2>1. Closed({}) /\ {} \in SUBSET (1..N)
    OBVIOUS
  <2> HIDE DEF Closed
  <2> QED
    BY <2>1
<1>3. ASSUME NEW i \in 1..N PROVE Ok(i) <=> (RuneAt(str, i) /\ Ok(i + str[i]))
  <2>1. ASSUME Ok(i) PROVE RuneAt(str, i) /\ Ok(i + str[i])
    <3>1. PICK C \in SUBSET (1..N) : (i \in C \/ i = N + 1) /\ Closed(C)
      BY <2>1
    <3>2. i \in C
      BY <1>1, <3>1
    <3>3. RuneAt(str, i) /\ (i + str[i] \in C \/ i + str[i] = N + 1)
      BY <3>1, <3>2
    <3> HIDE DEF Closed
    <3> QED
      BY <3>1, <3>3
  <2>2. ASSUME RuneAt(str, i), Ok(i + str[i]) PROVE Ok(i)
    <3>1. PICK C \in SUBSET (1..N) : (i + str[i] \in C \/ i + str[i] = N + 1) /\ Closed(C)
      BY <2>2
    <3>2. Closed(C \cup {i})
      <4> SUFFICES ASSUME NEW j \in C \cup {i}
                   PROVE  RuneAt(str, j) /\ (j + str[j] \in C \cup {i} \/ j + str[j] = N + 1)
        OBVIOUS
      <4>1. CASE j \in C
        BY <3>1, <4>1
      <4>2. CASE j = i
        BY <2>2, <3>1, <4>2
      <4> QED
        BY <4>1, <4>2
    <3>3. C \cup {i} \in SUBSET (1..N) /\ i \in C \cup {i}
      OBVIOUS
    <3> HIDE DEF Closed
    <3> QED
      BY <3>2, <3>3
  <2> QED
    BY <2>1, <2>2
<1> HIDE DEF Ok
<1>4. g = [i \in 1..(Len(str) + 1) |-> Step(g, i)]
  <2> SUFFICES ASSUME NEW i \in 1..(Len(str) + 1) PROVE Ok(i) = Step(g, i)
    OBVIOUS
  <2>1. CASE i > Len(str)
    <3>1. i = N + 1
      BY <1>1, <2>1
    <3>2. Ok(i)
      BY <1>2, <3>1
    <3> QED
      BY <2>1, <3>2 DEF Ok
  <2>2. CASE ~(i > Len(str))
    <3>1. i \in 1..N
      BY <1>1, <2>2
    <3>2. CASE RuneAt(str, i)
      <4>1. i + str[i] \in 1..(Len(str) + 1)
        BY <1>1, <3>1, <3>2, RuneEnds
      <4>2. g[i + str[i]] = Ok(i + str[i])
        BY <4>1
      <4>3. Ok(i) <=> Ok(i + str[i])
        BY <1>3, <3>1, <3>2
      <4> QED
        BY <2>2, <3>2, <4>2, <4>3 DEF Ok
    <3>3. CASE ~RuneAt(str, i)
      BY <1>3, <2>2, <3>1, <3>3 DEF Ok
    <3> QED
      BY <3>2, <3>3
  <2> QED
    BY <2>1, <2>2
<1>5. ValidFrom(str) = [i \in 1..(Len(str) + 1) |-> Step(ValidFrom(str), i)]
  BY <1>4 DEF ValidFrom
<1>6. \A i \in 1..(Len(str) + 1) : ValidFrom(str)[i] = Step(ValidFrom(str), i)
  <2> DEFINE h == [i \in 1..(Len(str) + 1) |-> Step(ValidFrom(str), i)]
  <2> HIDE DEF Step
  <2>1. \A i \in 1..(Len(str) + 1) : h[i] = Step(ValidFrom(str), i)
    OBVIOUS
  <2>2. ValidFrom(str) = h
    BY <1>5
  <2> HIDE DEF h
  <2> QED
    BY <2>1, <2>2
<1>7. ValidString(str) = ValidFrom(str)[1]
  BY DEF ValidString, ValidFrom
<1>8. ValidFrom(str)[Len(str) + 1]
  <2>1. Len(str) + 1 \in 1..(Len(str) + 1) /\ Len(str) + 1 > Len(str)
    BY <1>1
  <2> QED
    BY <1>6, <2>1
<1>9. ASSUME NEW i \in 1..Len(str)
      PROVE  ValidFrom(str)[i] <=> (RuneAt(str, i) /\ ValidFrom(str)[i + str[i]])
  <2>1. i \in 1..(Len(str) + 1) /\ ~(i > Len(str))
    BY <1>1
  <2> QED
    BY <1>6, <2>1
<1> QED
  BY <1>7, <1>8, <1>9

\* A prefix has the bytes of its string.
LEMMA PrefixBytes ==
    ASSUME NEW str \in Seq(Bytes), NEW n \in 0..Len(str)
    PROVE  /\ Prefix(str, n) \in Seq(Bytes) /\ Len(Prefix(str, n)) = n
           /\ \A i \in 1..n : Prefix(str, n)[i] = str[i]
  BY DEF Prefix

\* Cutting a valid string before a byte that starts a rune, or not at all,
\* leaves a valid string (closemanager.go:436-443).
LEMMA CutAtStartIsValid ==
    ASSUME NEW str \in Seq(Bytes), ValidString(str), NEW n \in 0..Len(str),
           n = Len(str) \/ RuneStart(str[n + 1])
    PROVE  ValidString(Prefix(str, n))
<1> DEFINE
      p == Prefix(str, n)
      G == {i \in 1..(n + 1) : ValidFrom(str)[i] => ValidFrom(p)[i]}
<1>1. /\ p \in Seq(Bytes) /\ Len(p) = n /\ \A i \in 1..n : p[i] = str[i]
      /\ Len(str) \in Nat /\ n \in Nat /\ n <= Len(str)
  BY PrefixBytes
<1> HIDE DEF p
<1>2. ASSUME NEW i \in 1..(n + 1), \A j \in (i + 1)..(n + 1) : j \in G
      PROVE  i \in G
  <2> SUFFICES ASSUME ValidFrom(str)[i] PROVE ValidFrom(p)[i]
    OBVIOUS
  <2>1. CASE i = n + 1
    BY <1>1, <2>1, ValidUnfold
  <2>2. CASE i # n + 1
    <3>1. i \in 1..n /\ i \in 1..Len(str) /\ i \in 1..Len(p)
      BY <1>1, <2>2
    <3>2. RuneAt(str, i) /\ ValidFrom(str)[i + str[i]]
      BY <3>1, ValidUnfold
    <3>3. /\ str[i] \in 1..3 /\ i + str[i] - 1 <= Len(str)
          /\ \A j \in (i + 1)..(i + str[i] - 1) : str[j] = Cont
      BY <3>2 DEF RuneAt
    <3>4. i + str[i] - 1 <= n
      <4> SUFFICES ASSUME ~(i + str[i] - 1 <= n) PROVE FALSE
        OBVIOUS
      <4>1. n + 1 \in (i + 1)..(i + str[i] - 1) /\ n # Len(str)
        BY <1>1, <3>1, <3>3
      <4>2. str[n + 1] = Cont
        BY <3>3, <4>1
      <4> QED
        BY <4>1, <4>2 DEF RuneStart
    <3>5. p[i] = str[i] /\ \A j \in (i + 1)..(i + str[i] - 1) : p[j] = Cont
      <4>1. \A j \in (i + 1)..(i + str[i] - 1) : j \in 1..n
        BY <1>1, <3>1, <3>3, <3>4
      <4> QED
        BY <1>1, <3>1, <3>3, <4>1
    <3>6. RuneAt(p, i)
      BY <1>1, <3>3, <3>4, <3>5 DEF RuneAt
    <3>7. i + str[i] \in (i + 1)..(n + 1)
      BY <1>1, <3>1, <3>3, <3>4
    <3>8. ValidFrom(p)[i + str[i]]
      BY <1>2, <3>2, <3>7
    <3> QED
      BY <1>1, <3>1, <3>5, <3>6, <3>8, ValidUnfold
  <2> QED
    BY <2>1, <2>2
<1>3. 1..(n + 1) \subseteq G
  <2> HIDE DEF G
  <2>1. n + 1 \in Nat
    BY <1>1
  <2> QED
    BY <1>2, <2>1, DownInduction
<1>4. ValidFrom(str)[1] => ValidFrom(p)[1]
  <2>1. 1 \in G
    <3> HIDE DEF G
    <3> QED
      BY <1>1, <1>3
  <2> QED
    BY <2>1
<1>5. ValidString(p)
  <2>1. ValidFrom(str)[1]
    BY ValidUnfold
  <2>2. ValidFrom(p)[1]
    BY <1>4, <2>1
  <2> QED
    BY <1>1, <2>2, ValidUnfold
<1> QED
  BY <1>5 DEF p

\* And only there: a valid string is not cut inside a rune, or what is left is
\* not valid.
LEMMA ValidCutIsAtStart ==
    ASSUME NEW str \in Seq(Bytes), ValidString(str), NEW n \in 0..Len(str), n # Len(str),
           ValidString(Prefix(str, n))
    PROVE  RuneStart(str[n + 1])
<1> DEFINE
      p == Prefix(str, n)
      G == {i \in 1..(n + 1) : ValidFrom(str)[i] /\ ValidFrom(p)[i] => RuneStart(str[n + 1])}
<1>1. /\ p \in Seq(Bytes) /\ Len(p) = n /\ \A i \in 1..n : p[i] = str[i]
      /\ Len(str) \in Nat /\ n \in Nat /\ n + 1 <= Len(str)
  BY PrefixBytes
<1>2. ValidFrom(str)[1] /\ ValidFrom(p)[1]
  BY <1>1, ValidUnfold
<1> HIDE DEF p
<1>3. ASSUME NEW i \in 1..(n + 1), \A j \in (i + 1)..(n + 1) : j \in G
      PROVE  i \in G
  <2> SUFFICES ASSUME ValidFrom(str)[i], ValidFrom(p)[i] PROVE RuneStart(str[n + 1])
    OBVIOUS
  <2>0. i \in 1..Len(str)
    BY <1>1
  <2>1. RuneAt(str, i) /\ ValidFrom(str)[i + str[i]]
    BY <2>0, ValidUnfold
  <2>2. CASE i = n + 1
    BY <2>1, <2>2 DEF RuneAt, RuneStart, Cont
  <2>3. CASE i # n + 1
    <3>1. i \in 1..n /\ i \in 1..Len(p)
      BY <1>1, <2>3
    <3>2. RuneAt(p, i) /\ ValidFrom(p)[i + p[i]]
      BY <1>1, <3>1, ValidUnfold
    <3>3. p[i] = str[i]
      BY <1>1, <3>1
    <3>4. i + str[i] \in (i + 1)..(n + 1)
      BY <1>1, <3>1, <3>2, <3>3, RuneEnds
    <3> QED
      BY <1>3, <2>1, <3>2, <3>3, <3>4
  <2> QED
    BY <2>2, <2>3
<1>4. 1..(n + 1) \subseteq G
  <2> HIDE DEF G
  <2>1. n + 1 \in Nat
    BY <1>1
  <2> QED
    BY <1>3, <2>1, DownInduction
<1>5. 1 \in G
  <2> HIDE DEF G
  <2> QED
    BY <1>1, <1>4
<1> QED
  BY <1>2, <1>5

\* The empty string is valid.
LEMMA EmptyIsValid == ValidString(<<>>)
<1>1. <<>> \in Seq(Bytes) /\ Len(<<>>) = 0
  OBVIOUS
<1>2. ValidFrom(<<>>)[Len(<<>>) + 1] /\ ValidString(<<>>) = ValidFrom(<<>>)[1]
  BY <1>1, ValidUnfold
<1> QED
  BY <1>1, <1>2

\* Of a valid message, the longest valid prefix that fits is kept, and the
\* fallback is not needed (closemanager.go:432-443).
LEMMA LongestPrefix ==
    ASSUME NEW str \in Seq(Bytes), ValidString(str)
    PROVE  truncateMessage(str) =
               Prefix(str, Max({n \in 0..Len(str) :
                   n <= MaxCloseMessageLen /\ ValidString(Prefix(str, n))}))
<1> DEFINE
      M == MaxCloseMessageLen
      S == {n \in 0..Len(str) : n <= M /\ ValidString(Prefix(str, n))}
<1>0. Len(str) \in Nat /\ M \in Nat
  BY LengthAssumption
<1>1. S \subseteq 0..Len(str)
  OBVIOUS
<1>2. 0 \in S
  <2>1. Prefix(str, 0) = <<>>
    BY DEF Prefix
  <2> QED
    BY <1>0, <2>1, EmptyIsValid
<1>3. Max(S) \in S /\ \A y \in S : y <= Max(S)
  <2> HIDE DEF S
  <2> QED
    BY <1>0, <1>1, <1>2, MaxIsGreatest
<1>4. CASE Len(str) <= M
  <2>1. Prefix(str, Len(str)) = str
    BY DEF Prefix
  <2>2. Len(str) \in S
    BY <1>0, <1>4, <2>1
  <2>3. Max(S) = Len(str)
    <3>1. Max(S) \in 0..Len(str) /\ Len(str) <= Max(S)
      <4> HIDE DEF S
      <4> QED
        BY <1>1, <1>3, <2>2
    <3> HIDE DEF S
    <3> QED
      BY <1>0, <3>1
  <2>4. truncateMessage(str) = str
    BY <1>4 DEF truncateMessage
  <2> HIDE DEF S
  <2>5. truncateMessage(str) = Prefix(str, Max(S))
    BY <2>1, <2>3, <2>4
  <2> QED
    BY <2>5 DEF S
<1>5. CASE ~(Len(str) <= M)
  <2> DEFINE Bd == {0} \cup {n \in 1..M : RuneStart(str[n + 1])}
  <2>1. ASSUME NEW n \in S PROVE n \in Bd
    <3>1. n \in 0..Len(str) /\ n <= M /\ ValidString(Prefix(str, n)) /\ n # Len(str)
      BY <1>0, <1>5
    <3>2. RuneStart(str[n + 1])
      BY <3>1, ValidCutIsAtStart
    <3> QED
      BY <1>0, <3>1, <3>2
  <2>2. ASSUME NEW n \in Bd PROVE n \in S
    <3>1. CASE n = 0
      BY <1>2, <3>1
    <3>2. CASE n # 0
      <4>1. n \in 1..M /\ RuneStart(str[n + 1])
        BY <3>2
      <4>2. n \in 0..Len(str) /\ n <= M
        BY <1>0, <1>5, <4>1
      <4>3. ValidString(Prefix(str, n))
        BY <4>1, <4>2, CutAtStartIsValid
      <4> QED
        BY <4>2, <4>3
    <3> QED
      BY <3>1, <3>2
  <2>3. Bd = S
    <3> HIDE DEF Bd, S
    <3> QED
      BY <2>1, <2>2
  <2>4. Boundary(str) = Max(S)
    <3>1. Boundary(str) = Max(Bd)
      BY DEF Boundary
    <3> HIDE DEF Bd, S
    <3> QED
      BY <2>3, <3>1
  <2>5. ValidString(Prefix(str, Max(S)))
    BY <1>3
  <2> HIDE DEF S
  <2>6. truncateMessage(str) = Prefix(str, Max(S))
    BY <1>5, <2>4, <2>5 DEF truncateMessage
  <2> QED
    BY <2>6 DEF S
<1> QED
  BY <1>4, <1>5

-----------------------------------------------------------------------------
(* Runes *)

\* The bytes of one whole rune
Rune == {r \in Seq(Bytes) :
            Len(r) >= 1 /\ r[1] \in 1..3 /\ Len(r) = r[1] /\ \A j \in 2..Len(r) : r[j] = Cont}

\* The rune []rune(str) has for position i, and how many bytes of str it takes
RuneOf(str, i) == IF RuneAt(str, i) THEN SubSeq(str, i, i + str[i] - 1) ELSE RuneError
Width(str, i) == IF RuneAt(str, i) THEN str[i] ELSE 1

\* The runes from position i on
RunesFrom(str) ==
    CHOOSE f : f = [i \in 1..(Len(str) + 1) |->
            CASE i > Len(str) -> <<>>
              [] i <= Len(str) /\ RuneAt(str, i) ->
                    <<SubSeq(str, i, i + str[i] - 1)>> \o f[i + str[i]]
              [] OTHER -> <<RuneError>> \o f[i + 1]]

\* Every rune is whole, U+FFFD too.
LEMMA RuneOfIsWhole ==
    ASSUME NEW str \in Seq(Bytes), NEW i \in 1..Len(str)
    PROVE  RuneOf(str, i) \in Rune /\ i + Width(str, i) \in (i + 1)..(Len(str) + 1)
<1>0. Len(str) \in Nat
  OBVIOUS
<1>1. CASE RuneAt(str, i)
  <2> DEFINE r == SubSeq(str, i, i + str[i] - 1)
  <2>1. /\ str[i] \in 1..3 /\ i + str[i] - 1 <= Len(str)
        /\ \A j \in (i + 1)..(i + str[i] - 1) : str[j] = Cont
    BY <1>1 DEF RuneAt
  <2>2. /\ r \in Seq(Bytes) /\ Len(r) = str[i]
        /\ \A j \in 1..str[i] : r[j] = str[i + j - 1]
    BY <1>0, <2>1
  <2> HIDE DEF r
  <2>3. r[1] = str[i]
    <3>1. 1 \in 1..str[i] /\ i + 1 - 1 = i
      BY <2>1
    <3> QED
      BY <2>2, <3>1
  <2>4. \A j \in 2..Len(r) : r[j] = Cont
    <3> SUFFICES ASSUME NEW j \in 2..Len(r) PROVE r[j] = Cont
      OBVIOUS
    <3>1. j \in 1..str[i] /\ i + j - 1 \in (i + 1)..(i + str[i] - 1)
      BY <1>0, <2>1, <2>2
    <3> QED
      BY <2>1, <2>2, <3>1
  <2>5. r \in Rune
    BY <2>1, <2>2, <2>3, <2>4 DEF Rune
  <2>6. RuneOf(str, i) = r /\ Width(str, i) = str[i]
    BY <1>1 DEF RuneOf, Width, r
  <2> QED
    BY <1>0, <2>1, <2>5, <2>6
<1>2. CASE ~RuneAt(str, i)
  <2>1. RuneError \in Rune
    <3>1. RuneError \in Seq(Bytes)
      BY DEF RuneError, Bytes, Cont
    <3>2. /\ Len(RuneError) = 3 /\ RuneError[1] = 3
          /\ RuneError[2] = Cont /\ RuneError[3] = Cont
      BY DEF RuneError
    <3>3. \A j \in 2..Len(RuneError) : j = 2 \/ j = 3
      BY <3>2
    <3>4. \A j \in 2..Len(RuneError) : RuneError[j] = Cont
      BY <3>2, <3>3
    <3>5. Len(RuneError) >= 1 /\ RuneError[1] \in 1..3 /\ Len(RuneError) = RuneError[1]
      BY <3>2
    <3> QED
      BY <3>1, <3>4, <3>5, Zenon DEF Rune
  <2>2. RuneOf(str, i) = RuneError /\ Width(str, i) = 1
    BY <1>2 DEF RuneOf, Width
  <2> QED
    BY <1>0, <2>1, <2>2
<1> QED
  BY <1>1, <1>2

\* The recursive definition of Runes has a solution, and all runes of it are
\* whole, whatever the bytes of the string are.
LEMMA RunesAreWhole ==
    ASSUME NEW str \in Seq(Bytes)
    PROVE  Runes(str) \in Seq(Rune)
<1> DEFINE
      N == Len(str)
      Step(f, i) ==
          CASE i > Len(str) -> <<>>
            [] i <= Len(str) /\ RuneAt(str, i) ->
                  <<SubSeq(str, i, i + str[i] - 1)>> \o f[i + str[i]]
            [] OTHER -> <<RuneError>> \o f[i + 1]
      Next1(f, i) == <<RuneOf(str, i)>> \o f[i + Width(str, i)]
      Solves(f, k) == /\ f[N + 1] = <<>>
                      /\ \A i \in (N + 1 - k)..N : f[i] = Next1(f, i)
      G == {k \in 0..N : \E f \in [(N + 1 - k)..(N + 1) -> Seq(Rune)] : Solves(f, k)}
<1>0. N \in Nat
  OBVIOUS
<1>1. \A f : Step(f, N + 1) = <<>>
  <2>1. N + 1 > Len(str)
    BY <1>0
  <2> QED
    BY <2>1
<1>2. \A f, i : i \in 1..N => Step(f, i) = Next1(f, i)
  <2> SUFFICES ASSUME NEW f, NEW i \in 1..N PROVE Step(f, i) = Next1(f, i)
    OBVIOUS
  <2>1. ~(i > Len(str)) /\ i <= Len(str)
    BY <1>0
  <2>2. CASE RuneAt(str, i)
    BY <2>1, <2>2 DEF RuneOf, Width
  <2>3. CASE ~RuneAt(str, i)
    BY <2>1, <2>3 DEF RuneOf, Width
  <2> QED
    BY <2>2, <2>3
<1> HIDE DEF Step
<1>3. 0 \in G
  <2> DEFINE f == [i \in (N + 1)..(N + 1) |-> <<>>]
  <2>1. <<>> \in Seq(Rune)
    OBVIOUS
  <2>2. (N + 1 - 0)..(N + 1) = (N + 1)..(N + 1) /\ N + 1 \in (N + 1)..(N + 1)
    BY <1>0
  <2>3. f \in [(N + 1 - 0)..(N + 1) -> Seq(Rune)]
    BY <2>1, <2>2
  <2>4. Solves(f, 0)
    <3>1. f[N + 1] = <<>>
      BY <2>2
    <3>2. \A i \in (N + 1 - 0)..N : FALSE
      BY <1>0
    <3> HIDE DEF f, Next1
    <3> QED
      BY <3>1, <3>2
  <2> HIDE DEF f, Solves
  <2> QED
    BY <1>0, <2>3, <2>4
<1>4. ASSUME NEW k \in 0..N, k \in G, k + 1 \in 0..N PROVE k + 1 \in G
  <2>1. PICK f \in [(N + 1 - k)..(N + 1) -> Seq(Rune)] : Solves(f, k)
    BY <1>4
  <2> DEFINE
        a == N - k
        g == [i \in a..(N + 1) |-> IF i = a THEN Next1(f, a) ELSE f[i]]
  <2>2. /\ a \in 1..N /\ N + 1 - (k + 1) = a /\ N + 1 - k = a + 1
        /\ \A i \in (a + 1)..(N + 1) : i \in a..(N + 1) /\ i # a
        /\ N + 1 \in (a + 1)..(N + 1)
    BY <1>0, <1>4
  <2>3. a + Width(str, a) \in (a + 1)..(N + 1) /\ RuneOf(str, a) \in Rune
    BY <2>2, RuneOfIsWhole
  <2>4. f[a + Width(str, a)] \in Seq(Rune)
    BY <2>1, <2>2, <2>3
  <2>5. Next1(f, a) \in Seq(Rune)
    BY <2>3, <2>4
  <2>6. \A i \in (a + 1)..(N + 1) : g[i] = f[i] /\ f[i] \in Seq(Rune)
    <3> HIDE DEF Next1, a
    <3> QED
      BY <2>1, <2>2
  <2>7. g[a] = Next1(f, a)
    <3> HIDE DEF Next1
    <3> QED
      BY <2>2
  <2>8. g \in [a..(N + 1) -> Seq(Rune)]
    <3>1. \A i \in a..(N + 1) : i = a \/ i \in (a + 1)..(N + 1)
      BY <1>0
    <3>2. \A i \in a..(N + 1) : g[i] \in Seq(Rune)
      <4> HIDE DEF g, Next1, a
      <4> QED
        BY <2>5, <2>6, <2>7, <3>1
    <3> HIDE DEF Next1, a
    <3> QED
      BY <3>2
  <2> HIDE DEF g
  <2>9. ASSUME NEW i \in a..N PROVE g[i] = Next1(g, i)
    <3>1. i \in 1..N
      BY <2>2
    <3>2. i + Width(str, i) \in (i + 1)..(N + 1)
      BY <3>1, RuneOfIsWhole
    <3>3. i + Width(str, i) \in (a + 1)..(N + 1)
      BY <1>0, <2>2, <3>1, <3>2
    <3>4. Next1(g, i) = Next1(f, i)
      BY <2>6, <3>3
    <3>5. CASE i = a
      BY <2>7, <3>4, <3>5
    <3>6. CASE i # a
      <4>1. i \in (N + 1 - k)..N /\ i \in (a + 1)..(N + 1)
        BY <1>0, <3>6
      <4>2. f[i] = Next1(f, i)
        BY <2>1, <4>1
      <4> HIDE DEF Next1
      <4> QED
        BY <2>6, <3>4, <4>1, <4>2
    <3> QED
      BY <3>5, <3>6
  <2>10. g[N + 1] = <<>>
    BY <2>1, <2>2, <2>6
  <2>11. Solves(g, k + 1)
    <3> HIDE DEF Next1, a
    <3> QED
      BY <2>2, <2>9, <2>10
  <2> HIDE DEF Solves, a
  <2> QED
    BY <1>4, <2>2, <2>8, <2>11
<1>5. N \in G
  <2> HIDE DEF G, N
  <2>1. \A k \in 0..N : k \in G /\ k + 1 \in 0..N => k + 1 \in G
    BY <1>4
  <2>2. 0..N \subseteq G
    BY <1>0, <1>3, <2>1, UpInduction
  <2> QED
    BY <1>0, <2>2
<1>6. PICK g \in [1..(N + 1) -> Seq(Rune)] : Solves(g, N)
  <2>1. N + 1 - N = 1
    BY <1>0
  <2> HIDE DEF Solves
  <2> QED
    BY <1>5, <2>1
<1>7. g = [i \in 1..(Len(str) + 1) |-> Step(g, i)]
  <2>1. \A i \in 1..(Len(str) + 1) : g[i] = Step(g, i)
    <3> SUFFICES ASSUME NEW i \in 1..(Len(str) + 1) PROVE g[i] = Step(g, i)
      OBVIOUS
    <3>1. CASE i = N + 1
      BY <1>1, <1>6, <3>1
    <3>2. CASE i # N + 1
      <4>1. i \in 1..N /\ i \in (N + 1 - N)..N
        BY <1>0, <3>2
      <4>2. g[i] = Next1(g, i)
        BY <1>6, <4>1
      <4> HIDE DEF Next1
      <4> QED
        BY <1>2, <4>1, <4>2
    <3> QED
      BY <3>1, <3>2
  <2> QED
    BY <2>1
<1> DEFINE h == RunesFrom(str)
<1>8. h = [i \in 1..(Len(str) + 1) |-> Step(h, i)]
  BY <1>7 DEF RunesFrom, Step
<1> HIDE DEF h
<1>9. \A i \in 1..(Len(str) + 1) : h[i] = Step(h, i)
  <2> DEFINE q == [i \in 1..(Len(str) + 1) |-> Step(h, i)]
  <2>1. \A i \in 1..(Len(str) + 1) : q[i] = Step(h, i)
    OBVIOUS
  <2>2. h = q
    BY <1>8
  <2> HIDE DEF q
  <2> QED
    BY <2>1, <2>2
<1> DEFINE W == {i \in 1..(N + 1) : h[i] \in Seq(Rune)}
<1>10. ASSUME NEW i \in 1..(N + 1), \A j \in (i + 1)..(N + 1) : j \in W PROVE i \in W
  <2>1. CASE i = N + 1
    <3>1. h[i] = <<>> /\ <<>> \in Seq(Rune)
      BY <1>1, <1>9, <2>1
    <3> QED
      BY <3>1
  <2>2. CASE i # N + 1
    <3>1. i \in 1..N
      BY <1>0, <2>2
    <3>2. i + Width(str, i) \in (i + 1)..(N + 1) /\ RuneOf(str, i) \in Rune
      BY <3>1, RuneOfIsWhole
    <3>3. h[i + Width(str, i)] \in Seq(Rune)
      BY <1>10, <3>2
    <3>4. Next1(h, i) \in Seq(Rune)
      BY <3>2, <3>3
    <3>5. h[i] = Next1(h, i)
      BY <1>2, <1>9, <3>1
    <3> QED
      BY <3>4, <3>5
  <2> QED
    BY <2>1, <2>2
<1>11. 1 \in W
  <2>1. N + 1 \in Nat /\ 1 \in 1..(N + 1)
    BY <1>0
  <2> HIDE DEF W
  <2> QED
    BY <1>10, <2>1, DownInduction
<1>12. Runes(str) = h[1]
  BY DEF Runes, RunesFrom, h
<1> QED
  BY <1>11, <1>12

\* A valid string followed by a whole rune is valid.
LEMMA AppendRuneIsValid ==
    ASSUME NEW a \in Seq(Bytes), ValidString(a), NEW r \in Rune
    PROVE  a \o r \in Seq(Bytes) /\ ValidString(a \o r)
<1> DEFINE
      N == Len(a)
      b == a \o r
      G == {i \in 1..(N + 1) : ValidFrom(a)[i] => ValidFrom(b)[i]}
<1>1. /\ r \in Seq(Bytes) /\ r[1] \in 1..3 /\ Len(r) = r[1]
      /\ \A j \in 2..Len(r) : r[j] = Cont
  BY DEF Rune
<1>2. /\ N \in Nat /\ Len(r) \in 1..3 /\ b \in Seq(Bytes) /\ Len(b) = N + Len(r)
      /\ \A i \in 1..N : b[i] = a[i]
      /\ \A j \in 1..Len(r) : b[N + j] = r[j]
  BY <1>1
<1> HIDE DEF b
<1>3. ValidFrom(b)[N + 1]
  <2>1. b[N + 1] = r[1] /\ b[N + 1] = Len(r)
    BY <1>1, <1>2
  <2>2. \A j \in (N + 1 + 1)..(N + 1 + b[N + 1] - 1) : b[j] = Cont
    <3> SUFFICES ASSUME NEW j \in (N + 1 + 1)..(N + 1 + b[N + 1] - 1) PROVE b[j] = Cont
      OBVIOUS
    <3>1. j - N \in 2..Len(r) /\ j - N \in 1..Len(r) /\ N + (j - N) = j
      BY <1>2, <2>1
    <3>2. b[N + (j - N)] = r[j - N]
      BY <1>2, <3>1
    <3> QED
      BY <1>1, <3>1, <3>2
  <2>3. RuneAt(b, N + 1)
    <3>1. N + 1 + b[N + 1] - 1 <= Len(b) /\ b[N + 1] \in 1..3
      BY <1>1, <1>2, <2>1
    <3> QED
      BY <2>2, <3>1 DEF RuneAt
  <2>4. N + 1 + b[N + 1] = Len(b) + 1 /\ N + 1 \in 1..Len(b)
    BY <1>2, <2>1
  <2>5. ValidFrom(b)[Len(b) + 1]
    BY <1>2, ValidUnfold
  <2> QED
    BY <1>2, <2>3, <2>4, <2>5, ValidUnfold
<1>4. ASSUME NEW i \in 1..(N + 1), \A j \in (i + 1)..(N + 1) : j \in G
      PROVE  i \in G
  <2> SUFFICES ASSUME ValidFrom(a)[i] PROVE ValidFrom(b)[i]
    OBVIOUS
  <2>1. CASE i = N + 1
    BY <1>3, <2>1
  <2>2. CASE i # N + 1
    <3>1. i \in 1..N /\ i \in 1..Len(b)
      BY <1>2, <2>2
    <3>2. RuneAt(a, i) /\ ValidFrom(a)[i + a[i]]
      BY <3>1, ValidUnfold
    <3>3. /\ a[i] \in 1..3 /\ i + a[i] - 1 <= N
          /\ \A j \in (i + 1)..(i + a[i] - 1) : a[j] = Cont
      BY <3>2 DEF RuneAt
    <3>4. b[i] = a[i] /\ \A j \in (i + 1)..(i + a[i] - 1) : b[j] = Cont
      <4>1. \A j \in (i + 1)..(i + a[i] - 1) : j \in 1..N
        BY <1>2, <3>1, <3>3
      <4> QED
        BY <1>2, <3>1, <3>3, <4>1
    <3>5. RuneAt(b, i)
      <4>1. i + a[i] - 1 <= Len(b)
        BY <1>2, <3>1, <3>3
      <4> QED
        BY <3>3, <3>4, <4>1 DEF RuneAt
    <3>6. i + a[i] \in (i + 1)..(N + 1)
      BY <1>2, <3>1, <3>3
    <3>7. ValidFrom(b)[i + a[i]]
      BY <1>4, <3>2, <3>6
    <3> QED
      BY <1>2, <3>1, <3>4, <3>5, <3>7, ValidUnfold
  <2> QED
    BY <2>1, <2>2
<1>5. 1 \in G
  <2>1. N + 1 \in Nat /\ 1 \in 1..(N + 1)
    BY <1>2
  <2> HIDE DEF G
  <2> QED
    BY <1>4, <2>1, DownInduction
<1>6. ValidFrom(a)[1]
  BY ValidUnfold
<1>7. ValidFrom(b)[1]
  BY <1>5, <1>6
<1>8. b \in Seq(Bytes) /\ ValidString(b)
  BY <1>2, <1>7, ValidUnfold
<1> QED
  BY <1>8 DEF b

\* Whole runes one after the other are a valid string.
LEMMA FlattenIsValid ==
    ASSUME NEW runes \in Seq(Rune)
    PROVE  FlattenSeq(runes) \in Seq(Bytes) /\ ValidString(FlattenSeq(runes))
<1> DEFINE
      N == Len(runes)
      Step(f, i) == IF i = 1 THEN runes[i] ELSE f[i - 1] \o runes[i]
      Solves(f, k) == \A i \in 1..(k + 1) : f[i] = Step(f, i)
      G == {k \in 0..(N - 1) : \E f \in [1..(k + 1) -> Seq(Bytes)] : Solves(f, k)}
<1>0. N \in Nat /\ \A i \in 1..N : runes[i] \in Rune /\ runes[i] \in Seq(Bytes)
  BY DEF Rune
<1>1. CASE N = 0
  <2>1. runes = <<>>
    BY <1>1
  <2>2. FlattenSeq(runes) = runes
    BY <1>1 DEF FlattenSeq
  <2>3. <<>> \in Seq(Bytes)
    OBVIOUS
  <2> QED
    BY <2>1, <2>2, <2>3, EmptyIsValid
<1>2. CASE N # 0
  <2>0. N - 1 \in Nat /\ (N - 1) + 1 = N
    BY <1>0, <1>2
  <2>1. 0 \in G
    <3> DEFINE f == [i \in 1..(0 + 1) |-> runes[1]]
    <3>1. 1 \in 1..N /\ 1..(0 + 1) = {1}
      BY <1>0, <1>2
    <3>2. f \in [1..(0 + 1) -> Seq(Bytes)] /\ f[1] = runes[1]
      BY <1>0, <3>1
    <3> HIDE DEF f
    <3>3. Solves(f, 0)
      BY <3>1, <3>2
    <3> HIDE DEF Solves
    <3> QED
      BY <2>0, <3>2, <3>3
  <2>2. ASSUME NEW k \in 0..(N - 1), k \in G, k + 1 \in 0..(N - 1) PROVE k + 1 \in G
    <3>1. PICK f \in [1..(k + 1) -> Seq(Bytes)] : Solves(f, k)
      BY <2>2
    <3> DEFINE
          e == k + 2
          g == [i \in 1..e |-> IF i = e THEN f[k + 1] \o runes[e] ELSE f[i]]
    <3>2. /\ k \in Nat /\ e = (k + 1) + 1 /\ e \in 1..N /\ e \in 1..e /\ e # 1 /\ e - 1 = k + 1
          /\ k + 1 \in 1..(k + 1)
          /\ \A i \in 1..(k + 1) : i \in 1..e /\ i # e
          /\ \A i \in 1..e : i = e \/ i \in 1..(k + 1)
      BY <1>0, <2>2
    <3>3. f[k + 1] \o runes[e] \in Seq(Bytes)
      BY <1>0, <3>1, <3>2
    <3> HIDE DEF e
    <3>4. g[e] = f[k + 1] \o runes[e] /\ \A i \in 1..(k + 1) : g[i] = f[i] /\ f[i] \in Seq(Bytes)
      BY <3>1, <3>2
    <3>5. g \in [1..e -> Seq(Bytes)]
      <4>1. \A i \in 1..e : g[i] \in Seq(Bytes)
        <5> HIDE DEF g
        <5> QED
          BY <3>2, <3>3, <3>4
      <4> QED
        BY <4>1
    <3> HIDE DEF g
    <3>6. ASSUME NEW i \in 1..e PROVE g[i] = Step(g, i)
      <4>1. CASE i = e
        <5>1. Step(g, i) = g[k + 1] \o runes[e]
          BY <3>2, <4>1
        <5> QED
          BY <3>2, <3>4, <4>1, <5>1
      <4>2. CASE i # e
        <5>1. i \in 1..(k + 1) /\ f[i] = Step(f, i) /\ g[i] = f[i]
          BY <3>1, <3>2, <3>4, <4>2
        <5>2. CASE i = 1
          BY <5>1, <5>2
        <5>3. CASE i # 1
          <6>1. i - 1 \in 1..(k + 1)
            BY <3>2, <5>1, <5>3
          <6>2. g[i - 1] = f[i - 1]
            BY <3>4, <6>1
          <6> QED
            BY <5>1, <5>3, <6>2
        <5> QED
          BY <5>2, <5>3
      <4> QED
        BY <4>1, <4>2
    <3>7. Solves(g, k + 1)
      <4> HIDE DEF Step
      <4> QED
        BY <3>2, <3>6
    <3> HIDE DEF Solves
    <3> QED
      BY <2>2, <3>2, <3>5, <3>7
  <2>3. N - 1 \in G
    <3> DEFINE K == N - 1
    <3>1. K \in Nat
      BY <2>0
    <3>2. \A k \in 0..K : k \in G /\ k + 1 \in 0..K => k + 1 \in G
      BY <2>2
    <3> HIDE DEF G, K
    <3>3. 0..K \subseteq G
      BY <2>1, <3>1, <3>2, UpInduction
    <3>4. K \in G
      BY <3>1, <3>3
    <3> QED
      BY <3>4 DEF K
  <2>4. PICK g \in [1..N -> Seq(Bytes)] : \A i \in 1..N : g[i] = Step(g, i)
    <3> HIDE DEF Step
    <3> QED
      BY <2>0, <2>3
  <2> DEFINE h == CHOOSE f : f = [i \in 1..Len(runes) |-> Step(f, i)]
  <2>5. h = [i \in 1..Len(runes) |-> Step(h, i)]
    <3> HIDE DEF Step
    <3>1. g = [i \in 1..Len(runes) |-> Step(g, i)]
      BY <2>4
    <3> QED
      BY <3>1
  <2>6. FlattenSeq(runes) = h[N]
    BY <1>2 DEF FlattenSeq
  <2> HIDE DEF h
  <2>7. \A i \in 1..N : h[i] = Step(h, i)
    <3> HIDE DEF Step
    <3> DEFINE q == [i \in 1..Len(runes) |-> Step(h, i)]
    <3>1. \A i \in 1..N : q[i] = Step(h, i)
      OBVIOUS
    <3>2. h = q
      BY <2>5
    <3> HIDE DEF q
    <3> QED
      BY <3>1, <3>2
  <2> DEFINE V == {k \in 0..(N - 1) : h[k + 1] \in Seq(Bytes) /\ ValidString(h[k + 1])}
  <2>8. 0 \in V
    <3>1. 1 \in 1..N /\ h[1] = runes[1] /\ runes[1] \in Rune
      BY <1>0, <1>2, <2>7
    <3>2. <<>> \in Seq(Bytes)
      OBVIOUS
    <3>3. <<>> \o runes[1] = runes[1]
      BY <1>0, <3>1
    <3>4. runes[1] \in Seq(Bytes) /\ ValidString(runes[1])
      BY <3>1, <3>2, <3>3, EmptyIsValid, AppendRuneIsValid
    <3> QED
      BY <2>0, <3>1, <3>4
  <2>9. ASSUME NEW k \in 0..(N - 1), k \in V, k + 1 \in 0..(N - 1) PROVE k + 1 \in V
    <3>1. /\ k + 2 \in 1..N /\ k + 2 # 1 /\ (k + 2) - 1 = k + 1 /\ (k + 1) + 1 = k + 2
      BY <1>0, <2>9
    <3>2. h[k + 2] = h[k + 1] \o runes[k + 2]
      BY <2>7, <3>1
    <3>3. h[k + 1] \in Seq(Bytes) /\ ValidString(h[k + 1]) /\ runes[k + 2] \in Rune
      BY <1>0, <2>9, <3>1
    <3>4. h[k + 2] \in Seq(Bytes) /\ ValidString(h[k + 2])
      BY <3>2, <3>3, AppendRuneIsValid
    <3> QED
      BY <2>9, <3>1, <3>4
  <2>10. N - 1 \in V
    <3> DEFINE K == N - 1
    <3>1. K \in Nat
      BY <2>0
    <3>2. \A k \in 0..K : k \in V /\ k + 1 \in 0..K => k + 1 \in V
      BY <2>9
    <3> HIDE DEF V, K
    <3>3. 0..K \subseteq V
      BY <2>8, <3>1, <3>2, UpInduction
    <3>4. K \in V
      BY <3>1, <3>3
    <3> QED
      BY <3>4 DEF K
  <2>11. h[N] \in Seq(Bytes) /\ ValidString(h[N])
    BY <2>0, <2>10
  <2> QED
    BY <2>6, <2>11
<1> QED
  BY <1>1, <1>2

-----------------------------------------------------------------------------
(* What truncateMessage returns *)

\* As many runes as the fallback keeps fit, and they are a valid string
\* (closemanager.go:444-456).
LEMMA FallbackIsValid ==
    ASSUME NEW str \in Seq(Bytes)
    PROVE  /\ Fallback(str) \in Seq(Bytes) /\ ValidString(Fallback(str))
           /\ Len(Fallback(str)) <= MaxCloseMessageLen
<1> DEFINE
      runes == Runes(str)
      Fits(n) == Len(FlattenSeq(Prefix(runes, n))) <= MaxCloseMessageLen
      S == {n \in 0..Len(runes) : Fits(n)}
      m == Max(S)
<1>1. runes \in Seq(Rune) /\ Len(runes) \in Nat
  BY RunesAreWhole
<1>2. Fallback(str) = FlattenSeq(Prefix(runes, m))
  BY DEF Fallback
<1> HIDE DEF runes
<1>3. 0 \in S
  <2>1. Prefix(runes, 0) = <<>>
    BY <1>1 DEF Prefix
  <2>2. Len(<<>>) = 0
    OBVIOUS
  <2>3. FlattenSeq(<<>>) = <<>>
    BY <2>2 DEF FlattenSeq
  <2>4. Fits(0)
    BY <2>1, <2>2, <2>3, LengthAssumption
  <2> HIDE DEF Fits
  <2> QED
    BY <1>1, <2>4
<1>4. S \subseteq 0..Len(runes)
  OBVIOUS
<1>5. m \in S
  <2> HIDE DEF S
  <2> QED
    BY <1>1, <1>3, <1>4, MaxIsGreatest
<1>6. m \in 0..Len(runes) /\ Fits(m)
  <2> HIDE DEF m, Fits
  <2> QED
    BY <1>5
<1> HIDE DEF m, S
<1>7. Prefix(runes, m) \in Seq(Rune)
  BY <1>1, <1>6 DEF Prefix
<1> QED
  BY <1>2, <1>6, <1>7, FlattenIsValid

\* Whatever the message, what is returned fits, and it is a valid string if
\* the message had to be cut.
LEMMA TruncatedMessage ==
    ASSUME NEW str \in Seq(Bytes)
    PROVE  /\ truncateMessage(str) \in Seq(Bytes)
           /\ Len(truncateMessage(str)) <= MaxCloseMessageLen
           /\ Len(str) > MaxCloseMessageLen => ValidString(truncateMessage(str))
<1>0. Len(str) \in Nat /\ MaxCloseMessageLen \in Nat
  BY LengthAssumption
<1>1. CASE Len(str) <= MaxCloseMessageLen
  <2>1. truncateMessage(str) = str /\ ~(Len(str) > MaxCloseMessageLen)
    BY <1>0, <1>1 DEF truncateMessage
  <2> QED
    BY <1>1, <2>1
<1>2. CASE ~(Len(str) <= MaxCloseMessageLen)
  <2> DEFINE
        Bd == {0} \cup {n \in 1..MaxCloseMessageLen : RuneStart(str[n + 1])}
        t == Prefix(str, Boundary(str))
  <2>1. Boundary(str) \in 0..MaxCloseMessageLen
    <3>1. Bd \subseteq 0..MaxCloseMessageLen /\ Bd # {}
      BY <1>0
    <3>2. Boundary(str) = Max(Bd)
      BY DEF Boundary
    <3> HIDE DEF Bd
    <3>3. Max(Bd) \in Bd
      BY <1>0, <3>1, MaxIsGreatest
    <3> QED
      BY <3>1, <3>2, <3>3
  <2>2. Boundary(str) \in 0..Len(str)
    BY <1>0, <1>2, <2>1
  <2>3. t \in Seq(Bytes) /\ Len(t) <= MaxCloseMessageLen
    BY <1>0, <2>1, <2>2, PrefixBytes
  <2> HIDE DEF t
  <2>4. CASE ValidString(t)
    <3>1. truncateMessage(str) = t
      BY <1>2, <2>4 DEF truncateMessage, t
    <3> QED
      BY <2>3, <2>4, <3>1
  <2>5. CASE ~ValidString(t)
    <3>1. truncateMessage(str) = Fallback(str)
      BY <1>2, <2>5 DEF truncateMessage, t
    <3> QED
      BY <3>1, FallbackIsValid
  <2> QED
    BY <2>4, <2>5
<1> QED
  BY <1>1, <1>2

\* Cutting a message that was cut changes nothing, which is what CloseManager
\* assumes of its constant Truncate: the receiver of a CLOSE frame cuts the
\* message that its sender has cut (closemanager.go:432-456).
THEOREM TruncateIdempotent ==
    \A str \in Seq(Bytes) : truncateMessage(truncateMessage(str)) = truncateMessage(str)
<1> SUFFICES ASSUME NEW str \in Seq(Bytes)
             PROVE  truncateMessage(truncateMessage(str)) = truncateMessage(str)
  OBVIOUS
<1>1. Len(truncateMessage(str)) <= MaxCloseMessageLen
  BY TruncatedMessage
<1> DEFINE t == truncateMessage(str)
<1>2. Len(t) <= MaxCloseMessageLen
  BY <1>1
<1> HIDE DEF t
<1>3. truncateMessage(t) = t
  BY <1>2 DEF truncateMessage
<1> QED
  BY <1>3 DEF t

\* A message is a sequence of bytes.
THEOREM MessageType == DraftSpec => [](draft \in Seq(Bytes))
<1>1. NoDraft => draft \in Seq(Bytes)
  <2>1. <<>> \in Seq(Bytes)
    OBVIOUS
  <2> QED
    BY <2>1 DEF NoDraft
<1>2. draft \in Seq(Bytes) /\ [WriteByte]_draft => (draft \in Seq(Bytes))'
  BY DEF WriteByte
<1> QED
  BY <1>1, <1>2, PTL DEF DraftSpec

\* The message sent never exceeds the limit (closemanager.go:433-456).
THEOREM FitsInFrameHolds == DraftSpec => []FitsInFrame
<1>1. draft \in Seq(Bytes) => FitsInFrame
  BY TruncatedMessage DEF FitsInFrame
<1> QED
  BY <1>1, MessageType, PTL

\* What is left after a cut is valid UTF-8, whatever the message was
\* (closemanager.go:430, 441-456).
THEOREM CutIsValidHolds == DraftSpec => []CutIsValid
<1>1. draft \in Seq(Bytes) => CutIsValid
  BY TruncatedMessage DEF CutIsValid
<1> QED
  BY <1>1, MessageType, PTL

\* Of a valid message exactly the longest prefix of whole runes that fits is
\* kept (closemanager.go:436-440).
THEOREM LongestPrefixKeptHolds == DraftSpec => []LongestPrefixKept
<1>1. draft \in Seq(Bytes) => LongestPrefixKept
  BY LongestPrefix DEF LongestPrefixKept
<1> QED
  BY <1>1, MessageType, PTL
=============================================================================
