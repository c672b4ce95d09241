------------------------- MODULE AgentRecordProofs -------------------------
(***************************************************************************)
(* Proofs about AgentRecord, for any records, changes and times.           *)
(***************************************************************************)
EXTENDS AgentRecord, WellFoundedInduction, TLAPS

-----------------------------------------------------------------------------
(* Encoding and decoding *)

\* A non-empty set of naturals has a least element: induction over data, in
\* the form the provers can use.
LEMMA LeastElement ==
    ASSUME NEW S, S \subseteq Nat, S # {}
    PROVE  \E x \in S : \A y \in S : x <= y
<1>1. PICK x \in S : \A y \in S : <<y, x>> \notin OpToRel(<, Nat)
  BY WFMin, NatLessThanWellFounded
<1>2. \A y \in S : ~(y < x)
  BY <1>1 DEF OpToRel
<1> QED
  BY <1>2

\* The loop of the decoder keeps all items of an array of texts
\* (identity.go:193-199).
LEMMA TextsKeepsTexts ==
    ASSUME NEW items, Len(items) \in Nat,
           items = [i \in 1..Len(items) |-> items[i]],
           \A i \in 1..Len(items) : Kind(items[i]) = "TextString"
    PROVE  Texts(items) = items
<1> DEFINE
      N == Len(items)
      Step(f, n) == IF n = 0 THEN <<>>
                    ELSE IF Kind(items[n]) = "TextString" THEN Append(f[n - 1], items[n])
                    ELSE f[n - 1]
      IsKept(f) == f = [n \in 0..N |-> Step(f, n)]
      First(n) == [i \in 1..n |-> items[i]]
      kept == CHOOSE f : IsKept(f)
<1>1. \A n \in 0..N : First(n) \in Seq({items[i] : i \in 1..N}) /\ Len(First(n)) = n
  OBVIOUS
<1>2. \A n \in 1..N : Append(First(n - 1), items[n]) = First(n)
  BY <1>1
<1>3. IsKept([n \in 0..N |-> First(n)])
  <2> DEFINE g == [n \in 0..N |-> First(n)]
  <2>1. \A n \in 0..N : g[n] = Step(g, n)
    <3>1. g[0] = <<>>
      OBVIOUS
    <3>2. \A n \in 1..N : g[n] = Append(g[n - 1], items[n])
      BY <1>2
    <3> QED
      BY <3>1, <3>2
  <2> QED
    BY <2>1
<1>4. IsKept(kept)
  BY <1>3
<1>5. Texts(items) = kept[N]
  BY DEF Texts
<1> HIDE DEF kept
<1>6. \A n \in 0..N : kept[n] = Step(kept, n)
  <2> HIDE DEF Step
  <2>1. kept = [n \in 0..N |-> Step(kept, n)]
    BY <1>4
  <2> DEFINE g == [n \in 0..N |-> Step(kept, n)]
  <2>2. \A n \in 0..N : g[n] = Step(kept, n)
    OBVIOUS
  <2>3. kept = g
    BY <2>1
  <2> HIDE DEF g
  <2> QED
    BY <2>2, <2>3
<1>7. /\ kept[0] = <<>>
      /\ \A n \in 1..N : kept[n] = Append(kept[n - 1], items[n])
  <2>1. 0 \in 0..N /\ Step(kept, 0) = <<>>
    OBVIOUS
  <2>2. ASSUME NEW n \in 1..N PROVE kept[n] = Append(kept[n - 1], items[n])
    <3>1. Step(kept, n) = Append(kept[n - 1], items[n])
      OBVIOUS
    <3>2. n \in 0..N
      OBVIOUS
    <3> HIDE DEF Step
    <3> QED
      BY <1>6, <3>1, <3>2
  <2> HIDE DEF Step
  <2> QED
    BY <1>6, <2>1, <2>2
<1>8. \A n \in 0..N : kept[n] = First(n)
  <2> DEFINE Wrong == {n \in 0..N : kept[n] # First(n)}
  <2>1. SUFFICES ASSUME Wrong # {} PROVE FALSE
    OBVIOUS
  <2>2. Wrong \subseteq Nat
    OBVIOUS
  <2>3. PICK n \in Wrong : \A k \in Wrong : n <= k
    <3> HIDE DEF Wrong
    <3> QED
      BY <2>1, <2>2, LeastElement
  <2>4. n \in 0..N /\ kept[n] # First(n)
    OBVIOUS
  <2>5. n # 0
    BY <1>7, <2>4
  <2>6. n - 1 \in 0..N /\ n \in 1..N /\ ~(n <= n - 1)
    BY <2>4, <2>5
  <2>7. n - 1 \notin Wrong
    <3> HIDE DEF Wrong
    <3> QED
      BY <2>3, <2>6
  <2>8. kept[n - 1] = First(n - 1)
    BY <2>6, <2>7
  <2> HIDE DEF First
  <2> QED
    BY <1>2, <1>7, <2>4, <2>6, <2>8
<1> QED
  BY <1>5, <1>8

\* The fields of a record are at their keys, the signature at key 8 only.
LEMMA FieldsOfRecord ==
    ASSUME NEW r
    PROVE  LET m == Content(ToCBORWithoutSig(r)) IN
           /\ ToCBORWithoutSig(r) = IMap(m)
           /\ DOMAIN m = {1, 2, 3, 4, 5, 6, 7, 9, 10}
           /\ m[1] = T(r.RecordType) /\ m[2] = B(r.AgentId) /\ m[3] = B(r.PublicKey)
           /\ m[4] = Arr([i \in DOMAIN r.Capabilities |-> CapabilityToCBOR(r.Capabilities[i])])
           /\ m[5] = Arr([i \in DOMAIN r.Endpoints |-> T(r.Endpoints[i])])
           /\ m[6] = U(r.CreatedAt) /\ m[7] = U(r.ExpiresAt)
           /\ m[9] = U(r.KeyAlgorithm) /\ m[10] = U(r.RecordVersion)
<1> DEFINE
      caps == Arr([i \in DOMAIN r.Capabilities |-> CapabilityToCBOR(r.Capabilities[i])])
      eps == Arr([i \in DOMAIN r.Endpoints |-> T(r.Endpoints[i])])
      m3 == (1 :> T(r.RecordType)) @@ (2 :> B(r.AgentId)) @@ (3 :> B(r.PublicKey))
      m4 == m3 @@ (4 :> caps)
      m5 == m4 @@ (5 :> eps)
      m6 == m5 @@ (6 :> U(r.CreatedAt))
      m7 == m6 @@ (7 :> U(r.ExpiresAt))
      m9 == m7 @@ (9 :> U(r.KeyAlgorithm))
      m == m9 @@ (10 :> U(r.RecordVersion))
<1>1. ToCBORWithoutSig(r) = IMap(m) /\ Content(ToCBORWithoutSig(r)) = m
  BY DEF ToCBORWithoutSig, IMap, Content
<1> HIDE DEF caps, eps
<1>2. /\ DOMAIN m = {1, 2, 3, 4, 5, 6, 7, 9, 10}
      /\ m[1] = T(r.RecordType) /\ m[2] = B(r.AgentId) /\ m[3] = B(r.PublicKey)
      /\ m[4] = caps /\ m[5] = eps
      /\ m[6] = U(r.CreatedAt) /\ m[7] = U(r.ExpiresAt)
      /\ m[9] = U(r.KeyAlgorithm) /\ m[10] = U(r.RecordVersion)
  <2>1. /\ DOMAIN m3 = {1, 2, 3}
        /\ m3[1] = T(r.RecordType) /\ m3[2] = B(r.AgentId) /\ m3[3] = B(r.PublicKey)
    <3> DEFINE m2 == (1 :> T(r.RecordType)) @@ (2 :> B(r.AgentId))
               D == {1, 2}
    <3>1. DOMAIN m2 = D /\ m2[1] = T(r.RecordType) /\ m2[2] = B(r.AgentId)
      <4> DEFINE m1 == 1 :> T(r.RecordType)
                 E == {1}
      <4>1. DOMAIN m1 = E /\ m1[1] = T(r.RecordType)
        BY DEF :>
      <4>2. m2 = m1 @@ (2 :> B(r.AgentId)) /\ 1 \in E /\ 2 \notin E
        OBVIOUS
      <4> HIDE DEF m1, m2, E
      <4>3. DOMAIN m2 = E \cup {2} /\ m2[2] = B(r.AgentId) /\ \A x \in E : m2[x] = m1[x]
        BY <4>1, <4>2 DEF @@, :>
      <4>4. m2[1] = T(r.RecordType)
        BY <4>1, <4>2, <4>3
      <4>5. DOMAIN m2 = D
        BY <4>3 DEF E
      <4> QED
        BY <4>3, <4>4, <4>5
    <3>2. m3 = m2 @@ (3 :> B(r.PublicKey)) /\ 1 \in D /\ 2 \in D /\ 3 \notin D
      OBVIOUS
    <3> HIDE DEF m2, m3, D
    <3>3. DOMAIN m3 = D \cup {3} /\ m3[3] = B(r.PublicKey) /\ \A x \in D : m3[x] = m2[x]
      BY <3>1, <3>2 DEF @@, :>
    <3>4. m3[1] = T(r.RecordType) /\ m3[2] = B(r.AgentId)
      BY <3>1, <3>2, <3>3
    <3> QED
      BY <3>3, <3>4 DEF D
  <2>2. /\ DOMAIN m4 = {1, 2, 3, 4} /\ m4[4] = caps
        /\ \A x \in {1, 2, 3} : m4[x] = m3[x]
    <3> DEFINE D == {1, 2, 3}
    <3>1. DOMAIN m3 = D /\ 4 \notin D
      BY <2>1
    <3> HIDE DEF m3, D
    <3>2. DOMAIN m4 = D \cup {4} /\ m4[4] = caps /\ \A x \in D : m4[x] = m3[x]
      BY <3>1 DEF @@, :>
    <3> HIDE DEF m4
    <3> QED
      BY <3>2 DEF D
  <2>3. /\ DOMAIN m5 = {1, 2, 3, 4, 5} /\ m5[5] = eps
        /\ \A x \in {1, 2, 3, 4} : m5[x] = m4[x]
    <3> DEFINE D == {1, 2, 3, 4}
    <3>1. DOMAIN m4 = D /\ 5 \notin D
      BY <2>2
    <3> HIDE DEF m4, D
    <3>2. DOMAIN m5 = D \cup {5} /\ m5[5] = eps /\ \A x \in D : m5[x] = m4[x]
      BY <3>1 DEF @@, :>
    <3> HIDE DEF m5
    <3> QED
      BY <3>2 DEF D
  <2>4. /\ DOMAIN m6 = {1, 2, 3, 4, 5, 6} /\ m6[6] = U(r.CreatedAt)
        /\ \A x \in {1, 2, 3, 4, 5} : m6[x] = m5[x]
    <3> DEFINE D == {1, 2, 3, 4, 5}
    <3>1. DOMAIN m5 = D /\ 6 \notin D
      BY <2>3
    <3> HIDE DEF m5, D
    <3>2. DOMAIN m6 = D \cup {6} /\ m6[6] = U(r.CreatedAt) /\ \A x \in D : m6[x] = m5[x]
      BY <3>1 DEF @@, :>
    <3> HIDE DEF m6
    <3> QED
      BY <3>2 DEF D
  <2>5. /\ DOMAIN m7 = {1, 2, 3, 4, 5, 6, 7} /\ m7[7] = U(r.ExpiresAt)
        /\ \A x \in {1, 2, 3, 4, 5, 6} : m7[x] = m6[x]
    <3> DEFINE D == {1, 2, 3, 4, 5, 6}
    <3>1. DOMAIN m6 = D /\ 7 \notin D
      BY <2>4
    <3> HIDE DEF m6, D
    <3>2. DOMAIN m7 = D \cup {7} /\ m7[7] = U(r.ExpiresAt) /\ \A x \in D : m7[x] = m6[x]
      BY <3>1 DEF @@, :>
    <3> HIDE DEF m7
    <3> QED
      BY <3>2 DEF D
  <2>6. /\ DOMAIN m9 = {1, 2, 3, 4, 5, 6, 7, 9} /\ m9[9] = U(r.KeyAlgorithm)
        /\ \A x \in {1, 2, 3, 4, 5, 6, 7} : m9[x] = m7[x]
    <3> DEFINE D == {1, 2, 3, 4, 5, 6, 7}
    <3>1. DOMAIN m7 = D /\ 9 \notin D
      BY <2>5
    <3> HIDE DEF m7, D
    <3>2. DOMAIN m9 = D \cup {9} /\ m9[9] = U(r.KeyAlgorithm) /\ \A x \in D : m9[x] = m7[x]
      BY <3>1 DEF @@, :>
    <3> HIDE DEF m9
    <3> QED
      BY <3>2 DEF D
  <2>7. /\ DOMAIN m = {1, 2, 3, 4, 5, 6, 7, 9, 10} /\ m[10] = U(r.RecordVersion)
        /\ \A x \in {1, 2, 3, 4, 5, 6, 7, 9} : m[x] = m9[x]
    <3> DEFINE D == {1, 2, 3, 4, 5, 6, 7, 9}
    <3>1. DOMAIN m9 = D /\ 10 \notin D
      BY <2>6
    <3> HIDE DEF m9, D
    <3>2. DOMAIN m = D \cup {10} /\ m[10] = U(r.RecordVersion) /\ \A x \in D : m[x] = m9[x]
      BY <3>1 DEF @@, :>
    <3> HIDE DEF m
    <3> QED
      BY <3>2 DEF D
  <2> HIDE DEF m, m3, m4, m5, m6, m7, m9
  <2> QED
    BY <2>1, <2>2, <2>3, <2>4, <2>5, <2>6, <2>7
<1> HIDE DEF m
<1> QED
  BY <1>1, <1>2 DEF caps, eps

\* Two capabilities with one encoding are one (identity.go:62-75).
LEMMA CapabilityInjective ==
    ASSUME NEW c, NEW d, CapabilityToCBOR(c) = CapabilityToCBOR(d)
    PROVE  c.Name = d.Name /\ c.Metadata = d.Metadata
<1> DEFINE Entries(n, m) == (1 :> n) @@ (2 :> m)
<1>1. Entries(T(c.Name), SMap(c.Metadata)) = Entries(T(d.Name), SMap(d.Metadata))
  BY DEF CapabilityToCBOR, IMap
<1>2. \A n, m : Entries(n, m)[1] = n /\ Entries(n, m)[2] = m
  BY DEF @@, :>
<1> HIDE DEF Entries
<1>3. T(c.Name) = T(d.Name) /\ SMap(c.Metadata) = SMap(d.Metadata)
  BY <1>1, <1>2
<1>4. c.Name = d.Name
  BY <1>3 DEF T
<1> QED
  BY <1>3, <1>4 DEF SMap, IMap

\* A document with the fields of a record that was signed, but for the
\* signature, is decoded to that record: nothing the decoder does makes two
\* records one.
LEMMA RecordInjective ==
    ASSUME NEW r, WellFormed(r), NEW v,
           ToCBORWithoutSig(AgentRecordFromCBOR(v)) = ToCBORWithoutSig(r)
    PROVE  AgentRecordFromCBOR(v) = [r EXCEPT !.Signature = AgentRecordFromCBOR(v).Signature]
<1> DEFINE
      h == AgentRecordFromCBOR(v)
      caps == Field(Content(v), 4, "Array", <<>>)
      eps == Texts(Field(Content(v), 5, "Array", <<>>))
<1>1. /\ h = [RecordType |-> h.RecordType, AgentId |-> h.AgentId, PublicKey |-> h.PublicKey,
              Capabilities |-> h.Capabilities, Endpoints |-> h.Endpoints,
              CreatedAt |-> h.CreatedAt, ExpiresAt |-> h.ExpiresAt, Signature |-> h.Signature,
              KeyAlgorithm |-> h.KeyAlgorithm, RecordVersion |-> h.RecordVersion]
      /\ h.Capabilities = [i \in DOMAIN caps |-> CapabilityFromCBOR(caps[i])]
      /\ h.Endpoints = [i \in DOMAIN eps |-> Content(eps[i])]
  BY DEF AgentRecordFromCBOR
<1> HIDE DEF h, caps, eps
<1>2. /\ T(h.RecordType) = T(r.RecordType) /\ B(h.AgentId) = B(r.AgentId)
      /\ B(h.PublicKey) = B(r.PublicKey)
      /\ U(h.CreatedAt) = U(r.CreatedAt) /\ U(h.ExpiresAt) = U(r.ExpiresAt)
      /\ U(h.KeyAlgorithm) = U(r.KeyAlgorithm) /\ U(h.RecordVersion) = U(r.RecordVersion)
      /\ Arr([i \in DOMAIN h.Capabilities |-> CapabilityToCBOR(h.Capabilities[i])]) =
             Arr([i \in DOMAIN r.Capabilities |-> CapabilityToCBOR(r.Capabilities[i])])
      /\ Arr([i \in DOMAIN h.Endpoints |-> T(h.Endpoints[i])]) =
             Arr([i \in DOMAIN r.Endpoints |-> T(r.Endpoints[i])])
  <2>1. ToCBORWithoutSig(h) = ToCBORWithoutSig(r)
    BY DEF h
  <2> DEFINE m == Content(ToCBORWithoutSig(r))
  <2>2. /\ m[1] = T(r.RecordType) /\ m[2] = B(r.AgentId) /\ m[3] = B(r.PublicKey)
        /\ m[4] = Arr([i \in DOMAIN r.Capabilities |-> CapabilityToCBOR(r.Capabilities[i])])
        /\ m[5] = Arr([i \in DOMAIN r.Endpoints |-> T(r.Endpoints[i])])
        /\ m[6] = U(r.CreatedAt) /\ m[7] = U(r.ExpiresAt)
        /\ m[9] = U(r.KeyAlgorithm) /\ m[10] = U(r.RecordVersion)
    BY FieldsOfRecord
  <2>3. /\ m[1] = T(h.RecordType) /\ m[2] = B(h.AgentId) /\ m[3] = B(h.PublicKey)
        /\ m[4] = Arr([i \in DOMAIN h.Capabilities |-> CapabilityToCBOR(h.Capabilities[i])])
        /\ m[5] = Arr([i \in DOMAIN h.Endpoints |-> T(h.Endpoints[i])])
        /\ m[6] = U(h.CreatedAt) /\ m[7] = U(h.ExpiresAt)
        /\ m[9] = U(h.KeyAlgorithm) /\ m[10] = U(h.RecordVersion)
    <3>1. m = Content(ToCBORWithoutSig(h))
      BY <2>1
    <3> HIDE DEF m
    <3> QED
      BY <3>1, FieldsOfRecord
  <2> HIDE DEF m
  <2> QED
    BY <2>2, <2>3
<1>3. /\ h.RecordType = r.RecordType /\ h.AgentId = r.AgentId /\ h.PublicKey = r.PublicKey
      /\ h.CreatedAt = r.CreatedAt /\ h.ExpiresAt = r.ExpiresAt
      /\ h.KeyAlgorithm = r.KeyAlgorithm /\ h.RecordVersion = r.RecordVersion
  BY <1>2 DEF T, B, U
<1>4. h.Capabilities = r.Capabilities
  <2> DEFINE Coded(s) == [i \in DOMAIN s |-> CapabilityToCBOR(s[i])]
  <2>1. Coded(h.Capabilities) = Coded(r.Capabilities)
    BY <1>2 DEF Arr
  <2>2. DOMAIN h.Capabilities = DOMAIN r.Capabilities
    BY <2>1
  <2>3. \A i \in DOMAIN r.Capabilities :
            CapabilityToCBOR(h.Capabilities[i]) = CapabilityToCBOR(r.Capabilities[i])
    BY <2>1, <2>2
  <2>4. \A i \in DOMAIN r.Capabilities :
            /\ h.Capabilities[i].Name = r.Capabilities[i].Name
            /\ h.Capabilities[i].Metadata = r.Capabilities[i].Metadata
    BY <2>3, CapabilityInjective
  <2>5. \A i \in DOMAIN r.Capabilities :
            h.Capabilities[i] = [Name |-> h.Capabilities[i].Name,
                                 Metadata |-> h.Capabilities[i].Metadata]
    BY <1>1, <2>2 DEF CapabilityFromCBOR
  <2>6. /\ r.Capabilities = [i \in DOMAIN r.Capabilities |-> r.Capabilities[i]]
        /\ \A i \in DOMAIN r.Capabilities :
              r.Capabilities[i] = [Name |-> r.Capabilities[i].Name,
                                   Metadata |-> r.Capabilities[i].Metadata]
    BY DEF WellFormed
  <2>7. h.Capabilities = [i \in DOMAIN r.Capabilities |-> h.Capabilities[i]]
    BY <1>1, <2>2
  <2>8. \A i \in DOMAIN r.Capabilities : h.Capabilities[i] = r.Capabilities[i]
    BY <2>4, <2>5, <2>6
  <2> QED
    BY <2>6, <2>7, <2>8
<1>5. h.Endpoints = r.Endpoints
  <2> DEFINE Coded(s) == [i \in DOMAIN s |-> T(s[i])]
  <2>1. Coded(h.Endpoints) = Coded(r.Endpoints)
    BY <1>2 DEF Arr
  <2>2. DOMAIN h.Endpoints = DOMAIN r.Endpoints
    BY <2>1
  <2>3. \A i \in DOMAIN r.Endpoints : h.Endpoints[i] = r.Endpoints[i]
    BY <2>1, <2>2 DEF T
  <2>4. r.Endpoints = [i \in DOMAIN r.Endpoints |-> r.Endpoints[i]]
    BY DEF WellFormed
  <2>5. h.Endpoints = [i \in DOMAIN r.Endpoints |-> h.Endpoints[i]]
    BY <1>1, <2>2
  <2> QED
    BY <2>3, <2>4, <2>5
<1>6. r = [RecordType |-> r.RecordType, AgentId |-> r.AgentId, PublicKey |-> r.PublicKey,
           Capabilities |-> r.Capabilities, Endpoints |-> r.Endpoints,
           CreatedAt |-> r.CreatedAt, ExpiresAt |-> r.ExpiresAt, Signature |-> r.Signature,
           KeyAlgorithm |-> r.KeyAlgorithm, RecordVersion |-> r.RecordVersion]
  BY DEF WellFormed
<1>7. [r EXCEPT !.Signature = h.Signature] =
          [RecordType |-> r.RecordType, AgentId |-> r.AgentId, PublicKey |-> r.PublicKey,
           Capabilities |-> r.Capabilities, Endpoints |-> r.Endpoints,
           CreatedAt |-> r.CreatedAt, ExpiresAt |-> r.ExpiresAt, Signature |-> h.Signature,
           KeyAlgorithm |-> r.KeyAlgorithm, RecordVersion |-> r.RecordVersion]
  BY <1>6
<1>8. h = [r EXCEPT !.Signature = h.Signature]
  BY <1>1, <1>3, <1>4, <1>5, <1>7
<1> QED
  BY <1>8 DEF h

\* A capability is decoded to what was encoded, with empty metadata too, whose
\* kind the bytes do not tell (identity.go:78-108).
LEMMA CapabilityRoundTrip ==
    ASSUME NEW c
    PROVE  /\ CapabilityDecodes(CapabilityToCBOR(c))
           /\ CapabilityFromCBOR(CapabilityToCBOR(c)) = [Name |-> c.Name, Metadata |-> c.Metadata]
<1> DEFINE m == (1 :> T(c.Name)) @@ (2 :> SMap(c.Metadata))
<1>1. Kind(CapabilityToCBOR(c)) = "IntMap" /\ Content(CapabilityToCBOR(c)) = m
  BY DEF CapabilityToCBOR, IMap, Kind, Content
<1>2. DOMAIN m = {1, 2} /\ m[1] = T(c.Name) /\ m[2] = SMap(c.Metadata)
  BY DEF @@, :>
<1> HIDE DEF m
<1>3. Kind(m[1]) = "TextString" /\ Content(m[1]) = c.Name
  BY <1>2 DEF T, Kind, Content
<1>4. CASE c.Metadata = <<>>
  <2>1. m[2] = IMap(<<>>) /\ Kind(m[2]) = "IntMap"
    BY <1>2, <1>4 DEF SMap, IMap, Kind
  <2>2. Field(m, 2, "StrMap", <<>>) = c.Metadata
    BY <2>1, <1>4 DEF Field, Has
  <2> QED
    BY <1>1, <1>2, <1>3, <2>1, <2>2 DEF CapabilityDecodes, CapabilityFromCBOR, Has
<1>5. CASE c.Metadata # <<>>
  <2>1. Kind(m[2]) = "StrMap" /\ Content(m[2]) = c.Metadata
    BY <1>2, <1>5 DEF SMap, Kind, Content
  <2>2. Field(m, 2, "StrMap", <<>>) = c.Metadata
    BY <1>2, <2>1 DEF Field, Has
  <2> QED
    BY <1>1, <1>2, <1>3, <2>1, <2>2 DEF CapabilityDecodes, CapabilityFromCBOR, Has
<1> QED
  BY <1>4, <1>5

\* A record is decoded to what was encoded (identity.go:126-218).
LEMMA RecordRoundTrip ==
    ASSUME NEW r, WellFormed(r)
    PROVE  AgentRecordDecodes(ToCBOR(r)) /\ AgentRecordFromCBOR(ToCBOR(r)) = r
<1> DEFINE
      m == Content(ToCBOR(r))
      caps == [i \in DOMAIN r.Capabilities |-> CapabilityToCBOR(r.Capabilities[i])]
      eps == [i \in DOMAIN r.Endpoints |-> T(r.Endpoints[i])]
<1>1. Kind(ToCBOR(r)) = "IntMap"
  BY DEF ToCBOR, IMap, Kind
<1>2. /\ DOMAIN m = {1, 2, 3, 4, 5, 6, 7, 8, 9, 10}
      /\ m[1] = T(r.RecordType) /\ m[2] = B(r.AgentId) /\ m[3] = B(r.PublicKey)
      /\ m[4] = Arr(caps) /\ m[5] = Arr(eps)
      /\ m[6] = U(r.CreatedAt) /\ m[7] = U(r.ExpiresAt) /\ m[8] = B(r.Signature)
      /\ m[9] = U(r.KeyAlgorithm) /\ m[10] = U(r.RecordVersion)
  <2> DEFINE
        D == {1, 2, 3, 4, 5, 6, 7, 9, 10}
        w == Content(ToCBORWithoutSig(r))
  <2>1. /\ DOMAIN w = D
        /\ w[1] = T(r.RecordType) /\ w[2] = B(r.AgentId) /\ w[3] = B(r.PublicKey)
        /\ w[4] = Arr(caps) /\ w[5] = Arr(eps)
        /\ w[6] = U(r.CreatedAt) /\ w[7] = U(r.ExpiresAt)
        /\ w[9] = U(r.KeyAlgorithm) /\ w[10] = U(r.RecordVersion)
    BY FieldsOfRecord
  <2>2. m = w @@ (8 :> B(r.Signature))
    BY DEF ToCBOR, IMap, Content
  <2>3. 8 \notin D
    OBVIOUS
  <2> HIDE DEF w, m, D
  <2>4. DOMAIN m = D \cup {8} /\ m[8] = B(r.Signature) /\ \A x \in D : m[x] = w[x]
    BY <2>1, <2>2, <2>3 DEF @@, :>
  <2> HIDE DEF caps, eps
  <2> QED
    BY <2>1, <2>4 DEF D
<1> HIDE DEF m, caps, eps
<1>3. /\ Has(m, 1, "TextString") /\ Content(m[1]) = r.RecordType
      /\ Has(m, 2, "ByteString") /\ Content(m[2]) = r.AgentId
      /\ Has(m, 3, "ByteString") /\ Content(m[3]) = r.PublicKey
      /\ Has(m, 4, "Array") /\ Content(m[4]) = caps
      /\ Has(m, 5, "Array") /\ Content(m[5]) = eps
      /\ Has(m, 6, "Unsigned") /\ Content(m[6]) = r.CreatedAt
      /\ Has(m, 7, "Unsigned") /\ Content(m[7]) = r.ExpiresAt
      /\ Has(m, 8, "ByteString") /\ Content(m[8]) = r.Signature
      /\ Has(m, 9, "Unsigned") /\ Content(m[9]) = r.KeyAlgorithm
      /\ Has(m, 10, "Unsigned") /\ Content(m[10]) = r.RecordVersion
  BY <1>2 DEF T, B, U, Arr, Has, Kind, Content
<1>4. /\ DOMAIN caps = DOMAIN r.Capabilities
      /\ \A i \in DOMAIN caps :
            /\ CapabilityDecodes(caps[i])
            /\ CapabilityFromCBOR(caps[i]) = [Name |-> r.Capabilities[i].Name,
                                              Metadata |-> r.Capabilities[i].Metadata]
  BY CapabilityRoundTrip DEF caps
<1>5. [i \in DOMAIN caps |-> CapabilityFromCBOR(caps[i])] = r.Capabilities
  <2>1. /\ r.Capabilities = [i \in DOMAIN r.Capabilities |-> r.Capabilities[i]]
        /\ \A i \in DOMAIN r.Capabilities :
              r.Capabilities[i] = [Name |-> r.Capabilities[i].Name,
                                   Metadata |-> r.Capabilities[i].Metadata]
    BY DEF WellFormed
  <2> QED
    BY <1>4, <2>1
<1>6. Texts(eps) = eps /\ [i \in DOMAIN eps |-> Content(eps[i])] = r.Endpoints
  <2>1. Len(r.Endpoints) \in Nat /\ r.Endpoints = [i \in 1..Len(r.Endpoints) |-> r.Endpoints[i]]
    BY DEF WellFormed
  <2>2. /\ DOMAIN eps = 1..Len(r.Endpoints)
        /\ \A i \in DOMAIN eps : Kind(eps[i]) = "TextString" /\ Content(eps[i]) = r.Endpoints[i]
    BY <2>1 DEF eps, T, Kind, Content
  <2>3. eps = [i \in 1..Len(r.Endpoints) |-> eps[i]]
    BY <2>2 DEF eps
  <2>4. Len(eps) = Len(r.Endpoints)
    BY <2>1, <2>3
  <2>5. Texts(eps) = eps
    BY <2>1, <2>2, <2>3, <2>4, TextsKeepsTexts
  <2> QED
    BY <2>1, <2>2, <2>5
<1>7. AgentRecordDecodes(ToCBOR(r))
  BY <1>1, <1>3, <1>4 DEF AgentRecordDecodes, m
<1>8. AgentRecordFromCBOR(ToCBOR(r)) =
          [RecordType |-> r.RecordType, AgentId |-> r.AgentId, PublicKey |-> r.PublicKey,
           Capabilities |-> r.Capabilities, Endpoints |-> r.Endpoints,
           CreatedAt |-> r.CreatedAt, ExpiresAt |-> r.ExpiresAt, Signature |-> r.Signature,
           KeyAlgorithm |-> r.KeyAlgorithm, RecordVersion |-> r.RecordVersion]
  <2>1. /\ Field(m, 4, "Array", <<>>) = caps /\ Field(m, 5, "Array", <<>>) = eps
        /\ Field(m, 6, "Unsigned", 0) = r.CreatedAt /\ Field(m, 7, "Unsigned", 0) = r.ExpiresAt
        /\ Field(m, 8, "ByteString", Empty) = r.Signature
        /\ Field(m, 9, "Unsigned", 0) = r.KeyAlgorithm
        /\ Field(m, 10, "Unsigned", 0) = r.RecordVersion
    BY <1>3 DEF Field
  <2> QED
    BY <1>3, <1>5, <1>6, <2>1 DEF AgentRecordFromCBOR, m
<1>9. r = [RecordType |-> r.RecordType, AgentId |-> r.AgentId, PublicKey |-> r.PublicKey,
           Capabilities |-> r.Capabilities, Endpoints |-> r.Endpoints,
           CreatedAt |-> r.CreatedAt, ExpiresAt |-> r.ExpiresAt, Signature |-> r.Signature,
           KeyAlgorithm |-> r.KeyAlgorithm, RecordVersion |-> r.RecordVersion]
  BY DEF WellFormed
<1> QED
  BY <1>7, <1>8, <1>9

\* Signing changes the signature only, which is not signed itself.
LEMMA SignedRecord ==
    ASSUME NEW r, WellFormed(r)
    PROVE  /\ WellFormed(Signed(r))
           /\ Signed(r).PublicKey = r.PublicKey
           /\ Signed(r).Signature = <<"signature", r.PublicKey, SignatureInput(r)>>
           /\ ToCBORWithoutSig(Signed(r)) = ToCBORWithoutSig(r)
<1> DEFINE s == Sign(r.PublicKey[2], SignatureInput(r))
<1>1. r.PublicKey = PublicKey(r.PublicKey[2])
  BY DEF WellFormed
<1>2. s = <<"signature", r.PublicKey, SignatureInput(r)>>
  BY <1>1 DEF Sign
<1>3. Signed(r) = [r EXCEPT !.Signature = s]
  BY DEF Signed
<1> HIDE DEF s
<1>4. r = [RecordType |-> r.RecordType, AgentId |-> r.AgentId, PublicKey |-> r.PublicKey,
           Capabilities |-> r.Capabilities, Endpoints |-> r.Endpoints,
           CreatedAt |-> r.CreatedAt, ExpiresAt |-> r.ExpiresAt, Signature |-> r.Signature,
           KeyAlgorithm |-> r.KeyAlgorithm, RecordVersion |-> r.RecordVersion]
  BY DEF WellFormed
<1>5. Signed(r) =
          [RecordType |-> r.RecordType, AgentId |-> r.AgentId, PublicKey |-> r.PublicKey,
           Capabilities |-> r.Capabilities, Endpoints |-> r.Endpoints,
           CreatedAt |-> r.CreatedAt, ExpiresAt |-> r.ExpiresAt, Signature |-> s,
           KeyAlgorithm |-> r.KeyAlgorithm, RecordVersion |-> r.RecordVersion]
  BY <1>3, <1>4
<1> HIDE DEF Signed
<1>6. WellFormed(Signed(r))
  <2>1. /\ r.RecordType = RecordTypeV1 /\ r.AgentId = AgentIdFromPubkey(r.PublicKey)
        /\ r.KeyAlgorithm = KeyAlgMLDSA65 /\ r.ExpiresAt \in 0..UintMax
        /\ Len(r.Capabilities) \in Nat /\ Len(r.Endpoints) \in Nat
        /\ r.Endpoints = [i \in 1..Len(r.Endpoints) |-> r.Endpoints[i]]
        /\ r.Capabilities = [i \in 1..Len(r.Capabilities) |->
               [Name |-> r.Capabilities[i].Name, Metadata |-> r.Capabilities[i].Metadata]]
    BY DEF WellFormed
  <2> DEFINE x == Signed(r)
  <2>2. /\ x.RecordType = r.RecordType /\ x.AgentId = r.AgentId /\ x.PublicKey = r.PublicKey
        /\ x.Capabilities = r.Capabilities /\ x.Endpoints = r.Endpoints
        /\ x.CreatedAt = r.CreatedAt /\ x.ExpiresAt = r.ExpiresAt
        /\ x.KeyAlgorithm = r.KeyAlgorithm /\ x.RecordVersion = r.RecordVersion
    BY <1>5
  <2>3. x = [RecordType |-> x.RecordType, AgentId |-> x.AgentId, PublicKey |-> x.PublicKey,
             Capabilities |-> x.Capabilities, Endpoints |-> x.Endpoints,
             CreatedAt |-> x.CreatedAt, ExpiresAt |-> x.ExpiresAt, Signature |-> x.Signature,
             KeyAlgorithm |-> x.KeyAlgorithm, RecordVersion |-> x.RecordVersion]
    BY <1>5
  <2> HIDE DEF x
  <2>4. /\ x.RecordType = RecordTypeV1 /\ x.AgentId = AgentIdFromPubkey(x.PublicKey)
        /\ x.PublicKey = PublicKey(x.PublicKey[2])
        /\ x.KeyAlgorithm = KeyAlgMLDSA65 /\ x.ExpiresAt \in 0..UintMax
        /\ Len(x.Capabilities) \in Nat /\ Len(x.Endpoints) \in Nat
        /\ x.Endpoints = [i \in 1..Len(x.Endpoints) |-> x.Endpoints[i]]
        /\ x.Capabilities = [i \in 1..Len(x.Capabilities) |->
               [Name |-> x.Capabilities[i].Name, Metadata |-> x.Capabilities[i].Metadata]]
    BY <1>1, <2>1, <2>2
  <2>5. WellFormed(x)
    BY <2>3, <2>4, Zenon DEF WellFormed
  <2> QED
    BY <2>5 DEF x
<1>7. ToCBORWithoutSig(Signed(r)) = ToCBORWithoutSig(r)
  BY <1>5 DEF ToCBORWithoutSig
<1> QED
  BY <1>2, <1>5, <1>6, <1>7

\* A document from before Rev 6 has the fields of the record but key 10, and
\* its signature is over them; like any record it is decoded.
LEMMA LegacyDocumentFields ==
    ASSUME NEW r, WellFormed(r)
    PROVE  LET w == Content(ToCBORWithoutSig(r))
               c == Content(LegacyDocument(r))
           IN  /\ LegacyFields(r) = IMap(Content(LegacyFields(r)))
               /\ DOMAIN Content(LegacyFields(r)) = {1, 2, 3, 4, 5, 6, 7, 9}
               /\ DOMAIN c = 1..9 /\ \A k \in 1..7 : c[k] = w[k]
               /\ c[8] = B(<<"signature", r.PublicKey, LegacyInput(r)>>)
               /\ AgentRecordDecodes(LegacyDocument(r))
<1> DEFINE
      w == Content(ToCBORWithoutSig(r))
      f == Content(LegacyFields(r))
      s == B(<<"signature", r.PublicKey, LegacyInput(r)>>)
      c == Content(LegacyDocument(r))
      D == {1, 2, 3, 4, 5, 6, 7, 9}
<1>1. r.PublicKey = PublicKey(r.PublicKey[2])
  BY DEF WellFormed
<1>2. s = B(Sign(r.PublicKey[2], LegacyInput(r)))
  BY <1>1 DEF Sign
<1>3. LegacyFields(r) = IMap([k \in DOMAIN w \ {10} |-> w[k]]) /\ LegacyFields(r) = IMap(f)
  BY DEF LegacyFields, Without, IMap, Content
<1>4. DOMAIN w = {1, 2, 3, 4, 5, 6, 7, 9, 10}
  BY FieldsOfRecord
<1>5. f = [k \in DOMAIN w \ {10} |-> w[k]]
  BY DEF LegacyFields, Without, IMap, Content
<1>6. Kind(LegacyDocument(r)) = "IntMap" /\ c = (8 :> s) @@ f
  BY <1>2 DEF LegacyDocument, With, IMap, Kind, Content
<1> HIDE DEF w, f, s, c
<1>7. DOMAIN f = D /\ \A k \in D : f[k] = w[k]
  BY <1>4, <1>5
<1>8. 8 \notin D /\ D \cup {8} = 1..9 /\ 1..7 \subseteq D
  OBVIOUS
<1> HIDE DEF D
<1>9. DOMAIN c = D \cup {8} /\ c[8] = s /\ \A k \in D : c[k] = f[k]
  BY <1>6, <1>7, <1>8 DEF @@, :>
<1>10. DOMAIN c = 1..9 /\ \A k \in 1..7 : c[k] = w[k]
  BY <1>7, <1>8, <1>9
<1>11. AgentRecordDecodes(LegacyDocument(r))
  <2> DEFINE a == Content(ToCBOR(r))
  <2>1. AgentRecordDecodes(ToCBOR(r))
    BY RecordRoundTrip
  <2>2. a = w @@ (8 :> B(r.Signature))
    BY DEF ToCBOR, IMap, Content, w
  <2>3. a[1] = w[1] /\ a[2] = w[2] /\ a[3] = w[3] /\ a[4] = w[4] /\ 4 \in DOMAIN a
    <3> HIDE DEF a
    <3>1. \A x \in DOMAIN w : a[x] = w[x] /\ x \in DOMAIN a
      BY <2>2 DEF @@, :>
    <3> QED
      BY <3>1, <1>4
  <2>4. /\ c[1] = a[1] /\ c[2] = a[2] /\ c[3] = a[3] /\ c[4] = a[4]
        /\ {1, 2, 3, 4} \subseteq DOMAIN c
    BY <1>10, <2>3
  <2>5. /\ Has(a, 1, "TextString") /\ Has(a, 2, "ByteString") /\ Has(a, 3, "ByteString")
        /\ Has(a, 4, "Array") =>
              \A i \in DOMAIN Content(a[4]) : CapabilityDecodes(Content(a[4])[i])
    BY <2>1 DEF AgentRecordDecodes
  <2> HIDE DEF a
  <2>6. /\ Has(c, 1, "TextString") /\ Has(c, 2, "ByteString") /\ Has(c, 3, "ByteString")
        /\ Has(c, 4, "Array") =>
              \A i \in DOMAIN Content(c[4]) : CapabilityDecodes(Content(c[4])[i])
    BY <2>3, <2>4, <2>5 DEF Has
  <2> QED
    BY <1>6, <2>6 DEF AgentRecordDecodes, c
<1> QED
  BY <1>3, <1>7, <1>9, <1>10, <1>11 DEF w, f, s, c, D

-----------------------------------------------------------------------------
(* The invariant *)

\* The clock is a uint64, and the holder asks about the record it holds.
Timed ==
    /\ clock \in 0..MaxClock /\ changes \in Nat
    /\ checkedAt \in (0..clock) \cup {Never}
    /\ held = NoRecord => checkedAt = Never

\* An entry a document in transit may have at key k
Origin(k, w) == w \in Replacements \/ \E d \in Documents : k \in DOMAIN Content(d) /\ w = Content(d)[k]

\* Whatever was changed, every entry of the document is one that was put there,
\* or the one some agent's document has at that very key.
Patched == Kind(doc) = "IntMap" => \A k \in DOMAIN Content(doc) : Origin(k, Content(doc)[k])

\* The document that was not changed is an agent's, and the record that is held
\* was decoded from the document.
Decoded ==
    /\ changes = 0 => doc \in Documents
    /\ held # NoRecord => AgentRecordDecodes(doc) /\ held = AgentRecordFromCBOR(doc)

\* The warning was computed when the holder asked.
Answered == checkedAt # Never => warning = ExceedsMaxExpiryWarning(held, checkedAt)

IndInv == Timed /\ Patched /\ Decoded /\ Answered

\* A document in transit stays one, however it is changed.
LEMMA ChangesPatched ==
    ASSUME NEW v, NEW w, Kind(v) = "IntMap",
           \A k \in DOMAIN Content(v) : Origin(k, Content(v)[k]),
           w \in Changes(v, {Content(d) : d \in Documents}, Replacements),
           Kind(w) = "IntMap"
    PROVE  \A k \in DOMAIN Content(w) : Origin(k, Content(w)[k])
<1> DEFINE m == Content(v)
<1>1. \/ \E gone \in DOMAIN m : w = Without(m, gone)
      \/ \E k \in 1..11, x \in Replacements : w = With(m, k, x)
      \/ \E d \in Documents : \E k \in DOMAIN Content(d) : w = With(m, k, Content(d)[k])
      \/ w = Null
  <2> DEFINE O == {Content(d) : d \in Documents}
  <2>1. w \in Dropped(m) \/ w \in Replaced(m, Replacements) \/ w \in Mixed(m, O) \/ w = Null
    <3> HIDE DEF m, O
    <3>1. w \in Changes(v, O, Replacements)
      BY DEF O
    <3> QED
      BY <3>1 DEF Changes, m
  <2> HIDE DEF m
  <2>2. w \in Dropped(m) => \E gone \in DOMAIN m : w = Without(m, gone)
    BY DEF Dropped
  <2>3. w \in Replaced(m, Replacements) => \E k \in 1..11, x \in Replacements : w = With(m, k, x)
    BY DEF Replaced
  <2>4. w \in Mixed(m, O) => \E o \in O : \E k \in DOMAIN o : w = With(m, k, o[k])
    <3> HIDE DEF O
    <3> QED
      BY DEF Mixed
  <2>5. (\E o \in O : \E k \in DOMAIN o : w = With(m, k, o[k])) =>
            \E d \in Documents : \E k \in DOMAIN Content(d) : w = With(m, k, Content(d)[k])
    BY Zenon
  <2> QED
    BY <2>1, <2>2, <2>3, <2>4, <2>5, Zenon
<1>2. w # Null
  BY DEF Null, Kind
<1>3. ASSUME NEW k, NEW x, Origin(k, x), w = With(m, k, x)
      PROVE  \A j \in DOMAIN Content(w) : Origin(j, Content(w)[j])
  <2>1. Content(w) = (k :> x) @@ m
    BY <1>3 DEF With, IMap, Content
  <2> HIDE DEF m
  <2>2. /\ DOMAIN Content(w) = DOMAIN m \cup {k}
        /\ Content(w)[k] = x
        /\ \A j \in DOMAIN m : j # k => Content(w)[j] = m[j]
    BY <2>1 DEF @@, :>
  <2>3. \A j \in DOMAIN m : Origin(j, m[j])
    BY DEF m
  <2> HIDE DEF Origin, Content
  <2> QED
    BY <1>3, <2>2, <2>3
<1>4. ASSUME NEW gone \in DOMAIN m, w = Without(m, gone)
      PROVE  \A j \in DOMAIN Content(w) : Origin(j, Content(w)[j])
  <2>1. Content(w) = [k \in DOMAIN m \ {gone} |-> m[k]]
    BY <1>4 DEF Without, IMap, Content
  <2>2. \A j \in DOMAIN m : Origin(j, m[j])
    OBVIOUS
  <2> HIDE DEF Origin, m
  <2> QED
    BY <2>1, <2>2
<1>5. \A k, x : x \in Replacements => Origin(k, x)
  BY DEF Origin
<1>6. \A d \in Documents : \A k \in DOMAIN Content(d) : Origin(k, Content(d)[k])
  BY DEF Origin
<1> HIDE DEF Origin, m
<1>7. CASE \E k \in 1..11, x \in Replacements : w = With(m, k, x)
  BY <1>3, <1>5, <1>7
<1>8. CASE \E d \in Documents : \E k \in DOMAIN Content(d) : w = With(m, k, Content(d)[k])
  <2>1. PICK d \in Documents : \E k \in DOMAIN Content(d) : w = With(m, k, Content(d)[k])
    BY <1>8
  <2> QED
    BY <1>3, <1>6, <2>1
<1> QED
  BY <1>1, <1>2, <1>4, <1>7, <1>8

\* The invariant holds in every reachable state (identity.go:163-218, 277-282).
THEOREM RecordInvariant == Spec => []IndInv
<1>1. Init => IndInv
  <2> SUFFICES ASSUME Init PROVE IndInv
    OBVIOUS
  <2>1. Timed
    BY ClockAssumption DEF Init, Timed, Never
  <2>2. Patched
    BY DEF Init, Patched, Origin
  <2>3. Decoded
    BY DEF Init, Decoded
  <2>4. Answered
    BY DEF Init, Answered
  <2> QED
    BY <2>1, <2>2, <2>3, <2>4 DEF IndInv
<1>2. IndInv /\ [Next]_vars => IndInv'
  <2> SUFFICES ASSUME IndInv, [Next]_vars PROVE IndInv'
    OBVIOUS
  <2>0. Timed /\ Patched /\ Decoded /\ Answered
    BY DEF IndInv
  <2>1. CASE Alter
    <3>1. Timed'
      BY <2>0, <2>1 DEF Alter, Timed, Never
    <3>2. Patched'
      BY <2>0, <2>1, ChangesPatched DEF Alter, Patched
    <3>3. Decoded'
      BY <2>0, <2>1 DEF Alter, Decoded, Timed
    <3>4. Answered'
      BY <2>0, <2>1 DEF Alter, Answered, Timed
    <3> QED
      BY <3>1, <3>2, <3>3, <3>4 DEF IndInv
  <2>2. CASE Receive
    <3>1. Timed'
      BY <2>0, <2>2 DEF Receive, Timed, Never
    <3>2. Patched'
      BY <2>0, <2>2 DEF Receive, Patched
    <3>3. Decoded'
      BY <2>0, <2>2 DEF Receive, Decoded
    <3>4. Answered'
      BY <2>0, <2>2 DEF Receive, Answered, Timed
    <3> QED
      BY <3>1, <3>2, <3>3, <3>4 DEF IndInv
  <2>3. CASE Ask
    <3>1. Timed'
      BY <2>0, <2>3 DEF Ask, Timed, Never
    <3>2. Patched'
      BY <2>0, <2>3 DEF Ask, Patched
    <3>3. Decoded'
      BY <2>0, <2>3 DEF Ask, Decoded
    <3>4. Answered'
      BY <2>0, <2>3 DEF Ask, Answered
    <3> QED
      BY <3>1, <3>2, <3>3, <3>4 DEF IndInv
  <2>4. CASE Tick
    <3>1. Timed'
      BY <2>0, <2>4, ClockAssumption DEF Tick, Timed, Never
    <3>2. Patched'
      BY <2>0, <2>4 DEF Tick, Patched
    <3>3. Decoded'
      BY <2>0, <2>4 DEF Tick, Decoded
    <3>4. Answered'
      BY <2>0, <2>4 DEF Tick, Answered
    <3> QED
      BY <3>1, <3>2, <3>3, <3>4 DEF IndInv
  <2>5. CASE UNCHANGED vars
    BY <2>0, <2>5 DEF vars, IndInv, Timed, Patched, Decoded, Answered
  <2> QED
    BY <2>1, <2>2, <2>3, <2>4, <2>5 DEF Next
<1> QED
  BY <1>1, <1>2, PTL DEF Spec

-----------------------------------------------------------------------------
(* What is signed *)

\* What is signed is the encoding of the record, with a prefix.
LEMMA InputInjective ==
    ASSUME NEW r, NEW q, SignatureInput(r) = SignatureInput(q)
    PROVE  ToCBORWithoutSig(r) = ToCBORWithoutSig(q)
<1> DEFINE p == Bytes("aafp-v1-record")
<1>1. p # Empty
  BY DEF Bytes, Empty
<1>2. \A v : Enc(v) # Empty
  BY DEF Enc, Empty, Bytes
<1> HIDE DEF p
<1>3. \A v : Concat(p, Enc(v)) = <<"concat", p, Enc(v)>>
  BY <1>1, <1>2 DEF Concat
<1>4. Enc(ToCBORWithoutSig(r)) = Enc(ToCBORWithoutSig(q))
  <2>1. /\ SignatureInput(r) = <<"concat", p, Enc(ToCBORWithoutSig(r))>>
        /\ SignatureInput(q) = <<"concat", p, Enc(ToCBORWithoutSig(q))>>
    BY <1>3 DEF SignatureInput, p
  <2>2. \A a, b : <<"concat", p, a>> = <<"concat", p, b>> => a = b
    OBVIOUS
  <2>3. <<"concat", p, Enc(ToCBORWithoutSig(r))>> = <<"concat", p, Enc(ToCBORWithoutSig(q))>>
    BY <2>1, Zenon
  <2> QED
    BY <2>2, <2>3, Zenon
<1> QED
  BY <1>4 DEF Enc

\* What was signed before Rev 6 is not what any record is verified against: it
\* has no key 10.
LEMMA LegacyInputDiffers ==
    ASSUME NEW r, NEW q, WellFormed(q)
    PROVE  SignatureInput(r) # LegacyInput(q)
<1> DEFINE p == Bytes("aafp-v1-record")
<1> SUFFICES ASSUME SignatureInput(r) = LegacyInput(q) PROVE FALSE
  OBVIOUS
<1>1. p # Empty
  BY DEF Bytes, Empty
<1>2. \A v : Enc(v) # Empty
  BY DEF Enc, Empty, Bytes
<1> HIDE DEF p
<1>3. \A v : Concat(p, Enc(v)) = <<"concat", p, Enc(v)>>
  BY <1>1, <1>2 DEF Concat
<1>4. /\ SignatureInput(r) = <<"concat", p, Enc(ToCBORWithoutSig(r))>>
      /\ LegacyInput(q) = <<"concat", p, Enc(LegacyFields(q))>>
  BY <1>3 DEF SignatureInput, LegacyInput, p
<1>5. \A a, b : <<"concat", p, a>> = <<"concat", p, b>> => a = b
  OBVIOUS
<1>6. <<"concat", p, Enc(ToCBORWithoutSig(r))>> = <<"concat", p, Enc(LegacyFields(q))>>
  BY <1>4, Zenon
<1>7. Enc(ToCBORWithoutSig(r)) = Enc(LegacyFields(q))
  BY <1>5, <1>6, Zenon
<1>8. Content(ToCBORWithoutSig(r)) = Content(LegacyFields(q))
  BY <1>7 DEF Enc
<1>9. DOMAIN Content(ToCBORWithoutSig(r)) = {1, 2, 3, 4, 5, 6, 7, 9, 10}
  BY FieldsOfRecord
<1>10. DOMAIN Content(LegacyFields(q)) = {1, 2, 3, 4, 5, 6, 7, 9}
  BY LegacyDocumentFields
<1> QED
  BY <1>8, <1>9, <1>10

\* What the document in transit has at keys 7 and 8 is an expiry of 64 bits
\* and, if it is a signature at all, one that an agent gave its record.
LEMMA ExpiryAndSignature ==
    ASSUME Patched, AgentRecordDecodes(doc)
    PROVE  LET h == AgentRecordFromCBOR(doc) IN
           /\ h.ExpiresAt \in 0..UintMax
           /\ ValidSignature(h.Signature) =>
                 \/ \E r \in Records :
                       h.Signature = <<"signature", r.PublicKey, SignatureInput(r)>>
                 \/ \E r \in LegacyRecords :
                       h.Signature = <<"signature", r.PublicKey, LegacyInput(r)>>
<1> DEFINE
      m == Content(doc)
      h == AgentRecordFromCBOR(doc)
      IsSignature(s) ==
          \/ \E r \in Records : s = <<"signature", r.PublicKey, SignatureInput(r)>>
          \/ \E r \in LegacyRecords : s = <<"signature", r.PublicKey, LegacyInput(r)>>
<1>1. h.ExpiresAt = Field(m, 7, "Unsigned", 0) /\ h.Signature = Field(m, 8, "ByteString", Empty)
  BY DEF AgentRecordFromCBOR
<1>2. \A k \in DOMAIN m : Origin(k, m[k])
  BY DEF Patched, AgentRecordDecodes
<1>3. \A d \in CurrentDocuments :
          \E r \in Records :
              /\ Content(d)[7] = U(r.ExpiresAt)
              /\ Content(d)[8] = B(<<"signature", r.PublicKey, SignatureInput(r)>>)
  <2> SUFFICES ASSUME NEW r \in Records
               PROVE  LET c == Content(ToCBOR(Signed(r))) IN
                      /\ c[7] = U(r.ExpiresAt)
                      /\ c[8] = B(<<"signature", r.PublicKey, SignatureInput(r)>>)
    BY DEF CurrentDocuments
  <2> DEFINE
        D == {1, 2, 3, 4, 5, 6, 7, 9, 10}
        w == Content(ToCBORWithoutSig(r))
        c == Content(ToCBOR(Signed(r)))
        s == <<"signature", r.PublicKey, SignatureInput(r)>>
  <2>1. WellFormed(r)
    BY RecordsAssumption
  <2>2. ToCBORWithoutSig(Signed(r)) = ToCBORWithoutSig(r) /\ Signed(r).Signature = s
    BY <2>1, SignedRecord
  <2>3. DOMAIN w = D /\ w[7] = U(r.ExpiresAt)
    BY FieldsOfRecord
  <2>4. c = w @@ (8 :> B(s))
    BY <2>2 DEF ToCBOR, IMap, Content
  <2>5. 8 \notin D /\ 7 \in D
    OBVIOUS
  <2> HIDE DEF w, c, D, s
  <2>6. DOMAIN c = D \cup {8} /\ c[8] = B(s) /\ \A x \in D : c[x] = w[x]
    BY <2>3, <2>4, <2>5 DEF @@, :>
  <2>7. c[7] = U(r.ExpiresAt) /\ c[8] = B(s)
    BY <2>3, <2>5, <2>6
  <2> QED
    BY <2>7 DEF c, s
<1>4. \A r \in LegacyRecords :
          /\ Content(LegacyDocument(r))[7] = U(r.ExpiresAt)
          /\ Content(LegacyDocument(r))[8] = B(<<"signature", r.PublicKey, LegacyInput(r)>>)
  <2> TAKE r \in LegacyRecords
  <2>1. WellFormed(r)
    BY RecordsAssumption
  <2>2. \A k \in 1..7 : Content(LegacyDocument(r))[k] = Content(ToCBORWithoutSig(r))[k]
    BY <2>1, LegacyDocumentFields
  <2>3. 7 \in 1..7
    OBVIOUS
  <2> QED
    BY <2>1, <2>2, <2>3, LegacyDocumentFields, FieldsOfRecord
<1>5. \A d \in Documents :
          /\ \E r \in Records \cup LegacyRecords : Content(d)[7] = U(r.ExpiresAt)
          /\ \E s : Content(d)[8] = B(s) /\ IsSignature(s)
  <2> TAKE d \in Documents
  <2>1. CASE d \in CurrentDocuments
    <3>1. PICK r \in Records :
              /\ Content(d)[7] = U(r.ExpiresAt)
              /\ Content(d)[8] = B(<<"signature", r.PublicKey, SignatureInput(r)>>)
      BY <1>3, <2>1
    <3> QED
      BY <3>1
  <2>2. CASE d \notin CurrentDocuments
    <3>1. PICK r \in LegacyRecords : d = LegacyDocument(r)
      BY <2>2 DEF Documents
    <3> QED
      BY <1>4, <3>1
  <2> QED
    BY <2>1, <2>2
<1> HIDE DEF m, IsSignature
<1>6. Field(m, 7, "Unsigned", 0) \in 0..UintMax
  <2>1. CASE ~Has(m, 7, "Unsigned")
    BY <2>1, ClockAssumption DEF Field
  <2>2. CASE Has(m, 7, "Unsigned")
    <3>1. Field(m, 7, "Unsigned", 0) = Content(m[7]) /\ 7 \in DOMAIN m /\ Kind(m[7]) = "Unsigned"
      BY <2>2 DEF Field, Has
    <3>2. Origin(7, m[7])
      BY <3>1, <1>2
    <3>3. CASE m[7] \in Replacements
      BY <3>1, <3>3, ReplacementsAssumption
    <3>4. CASE \E d \in Documents : 7 \in DOMAIN Content(d) /\ m[7] = Content(d)[7]
      <4>1. PICK r \in Records \cup LegacyRecords : m[7] = U(r.ExpiresAt)
        BY <3>4, <1>5
      <4>2. Content(m[7]) = r.ExpiresAt
        BY <4>1 DEF U, Content
      <4>3. r.ExpiresAt \in 0..UintMax
        BY RecordsAssumption DEF WellFormed
      <4> QED
        BY <3>1, <4>2, <4>3
    <3> QED
      BY <3>2, <3>3, <3>4 DEF Origin
  <2> QED
    BY <2>1, <2>2
<1>7. ASSUME ValidSignature(Field(m, 8, "ByteString", Empty))
      PROVE  IsSignature(Field(m, 8, "ByteString", Empty))
  <2>1. ~ValidSignature(Empty)
    BY DEF ValidSignature, Empty, Bytes
  <2>2. Has(m, 8, "ByteString")
    BY <1>7, <2>1 DEF Field
  <2>3. /\ Field(m, 8, "ByteString", Empty) = Content(m[8])
        /\ 8 \in DOMAIN m /\ Kind(m[8]) = "ByteString"
    BY <2>2 DEF Field, Has
  <2>4. Origin(8, m[8])
    BY <2>3, <1>2
  <2>5. m[8] \notin Replacements
    BY <1>7, <2>3, ReplacementsAssumption
  <2>6. PICK d \in Documents : 8 \in DOMAIN Content(d) /\ m[8] = Content(d)[8]
    BY <2>4, <2>5 DEF Origin
  <2>7. PICK s : m[8] = B(s) /\ IsSignature(s)
    BY <2>6, <1>5
  <2>8. Content(m[8]) = s
    BY <2>7 DEF B, Content
  <2> QED
    BY <2>3, <2>7, <2>8
<1> HIDE DEF h
<1>8. h.ExpiresAt \in 0..UintMax /\ (ValidSignature(h.Signature) => IsSignature(h.Signature))
  BY <1>1, <1>6, <1>7
<1> QED
  BY <1>8 DEF h, IsSignature

\* A record that verifies was signed in every field, its record_version
\* included, and a document that was signed so and not changed gives a record
\* that verifies until it expires (identity.go:163-263).
THEOREM VerifiedMeansSignedHolds == Spec => []VerifiedMeansSigned
<1>1. IndInv => VerifiedMeansSigned
  <2> SUFFICES ASSUME IndInv PROVE VerifiedMeansSigned
    OBVIOUS
  <2>1. ASSUME held # NoRecord, VerifyRecord(held, clock) \in {"ok", "expired"}
        PROVE  \E r \in Records : held = Signed(r)
    <3>1. held = AgentRecordFromCBOR(doc) /\ AgentRecordDecodes(doc) /\ Patched
      BY <2>1 DEF IndInv, Decoded
    <3>2. Verify(held.PublicKey, SignatureInput(held), held.Signature)
      BY <2>1 DEF VerifyRecord
    <3>3. /\ ValidSignature(held.Signature)
          /\ held.Signature = <<"signature", held.PublicKey, SignatureInput(held)>>
      BY <3>2 DEF Verify
    <3>4. PICK r \in Records :
              held.Signature = <<"signature", r.PublicKey, SignatureInput(r)>>
      <4>1. ASSUME NEW q \in LegacyRecords,
                   held.Signature = <<"signature", q.PublicKey, LegacyInput(q)>>
            PROVE  FALSE
        <5>1. SignatureInput(held) = LegacyInput(q)
          BY <3>3, <4>1
        <5> QED
          BY <5>1, LegacyInputDiffers, RecordsAssumption
      <4> QED
        BY <3>1, <3>3, <4>1, ExpiryAndSignature
    <3>5. SignatureInput(held) = SignatureInput(r)
      BY <3>3, <3>4
    <3>6. ToCBORWithoutSig(held) = ToCBORWithoutSig(r)
      BY <3>5, InputInjective
    <3>7. WellFormed(r)
      BY RecordsAssumption
    <3>8. held = [r EXCEPT !.Signature = held.Signature]
      BY <3>1, <3>6, <3>7, RecordInjective
    <3>9. r.PublicKey = PublicKey(r.PublicKey[2])
      BY <3>7 DEF WellFormed
    <3>10. held.Signature = Sign(r.PublicKey[2], SignatureInput(r))
      BY <3>4, <3>9 DEF Sign
    <3> QED
      BY <3>8, <3>10 DEF Signed
  <2>2. ASSUME doc \in CurrentDocuments
        PROVE  \E r \in Records : WellFormed(r) /\ doc = ToCBOR(Signed(r))
    BY <2>2, RecordsAssumption DEF CurrentDocuments
  <2>3. ASSUME changes = 0 PROVE AgentRecordDecodes(doc)
    <3>1. doc \in Documents
      BY <2>3 DEF IndInv, Decoded
    <3>2. CASE doc \in CurrentDocuments
      <4>1. PICK r \in Records : WellFormed(r) /\ doc = ToCBOR(Signed(r))
        BY <2>2, <3>2
      <4> QED
        BY <4>1, SignedRecord, RecordRoundTrip
    <3>3. CASE doc \notin CurrentDocuments
      <4>1. PICK r \in LegacyRecords : doc = LegacyDocument(r)
        BY <3>1, <3>3 DEF Documents
      <4> QED
        BY <4>1, RecordsAssumption, LegacyDocumentFields
    <3> QED
      BY <3>2, <3>3
  <2>4. ASSUME held # NoRecord, changes = 0, doc \in CurrentDocuments
        PROVE  VerifyRecord(held, clock) \in {"ok", "expired"}
    <3>1. PICK r \in Records : WellFormed(r) /\ doc = ToCBOR(Signed(r))
      BY <2>2, <2>4
    <3>2. WellFormed(Signed(r)) /\ held = Signed(r)
      <4>1. held = AgentRecordFromCBOR(doc)
        BY <2>4 DEF IndInv, Decoded
      <4> QED
        BY <3>1, <4>1, SignedRecord, RecordRoundTrip
    <3>3. /\ held.RecordType = RecordTypeV1 /\ held.KeyAlgorithm = KeyAlgMLDSA65
          /\ held.AgentId = AgentIdFromPubkey(held.PublicKey)
          /\ held.PublicKey = PublicKey(held.PublicKey[2])
      BY <3>2 DEF WellFormed
    <3>4. /\ held.Signature = <<"signature", held.PublicKey, SignatureInput(r)>>
          /\ ToCBORWithoutSig(held) = ToCBORWithoutSig(r)
      BY <3>1, <3>2, SignedRecord
    <3>5. SignatureInput(held) = SignatureInput(r)
      BY <3>4 DEF SignatureInput
    <3>6. ValidPublicKey(held.PublicKey)
      BY <3>3 DEF ValidPublicKey, PublicKey
    <3>7. ValidSignature(held.Signature)
      BY <3>4 DEF ValidSignature
    <3>8. Verify(held.PublicKey, SignatureInput(held), held.Signature)
      BY <3>4, <3>5, <3>6, <3>7 DEF Verify
    <3> QED
      BY <3>3, <3>8 DEF VerifyRecord, VerifyAgentId
  <2> QED
    BY <2>1, <2>3, <2>4 DEF VerifiedMeansSigned
<1> QED
  BY <1>1, RecordInvariant, PTL

\* The warning foretells what Verify answers later, whatever the expiry:
\* the difference of the uint64 never wraps around (identity.go:259, 277-282).
THEOREM WarningForetellsHolds == Spec => []WarningForetells
<1>1. IndInv => WarningForetells
  <2> SUFFICES ASSUME IndInv, Asked PROVE
        /\ warning /\ clock <= checkedAt + MaxRecordExpiry =>
              VerifyRecord(held, clock) # "expired"
        /\ ~warning /\ clock >= checkedAt + MaxRecordExpiry =>
              VerifyRecord(held, clock) # "ok"
    BY DEF WarningForetells
  <2> DEFINE e == held.ExpiresAt
  <2>1. e \in 0..UintMax
    BY ExpiryAndSignature DEF IndInv, Decoded, Asked
  <2>2. checkedAt \in 0..clock /\ clock \in 0..MaxClock /\ MaxClock \in 0..UintMax
        /\ UintMax \in Nat /\ MaxRecordExpiry \in Nat
    BY ClockAssumption DEF IndInv, Timed, Asked
  <2>3. warning = (e > checkedAt /\ (e - checkedAt) % (UintMax + 1) > MaxRecordExpiry)
    BY DEF IndInv, Answered, Asked, ExceedsMaxExpiryWarning
  <2>4. VerifyRecord(held, clock) = "expired" => e <= clock
    BY DEF VerifyRecord
  <2>5. VerifyRecord(held, clock) = "ok" => ~(e <= clock)
    BY DEF VerifyRecord
  <2> HIDE DEF e
  <2>6. e > checkedAt => (e - checkedAt) % (UintMax + 1) = e - checkedAt
    <3>1. \A x \in 0..UintMax : x % (UintMax + 1) = x
      BY <2>2
    <3> QED
      BY <2>1, <2>2, <3>1
  <2> DEFINE d == (e - checkedAt) % (UintMax + 1)
  <2>7. warning => e > checkedAt + MaxRecordExpiry
    <3>1. warning => e > checkedAt /\ d > MaxRecordExpiry
      BY <2>3, Zenon
    <3> QED
      BY <2>1, <2>2, <2>6, <3>1
  <2>8. ~warning => e <= checkedAt + MaxRecordExpiry
    <3>1. ~warning => ~(e > checkedAt) \/ ~(d > MaxRecordExpiry)
      BY <2>3, Zenon
    <3> QED
      BY <2>1, <2>2, <2>6, <3>1
  <2>9. clock <= checkedAt + MaxRecordExpiry /\ e > checkedAt + MaxRecordExpiry => ~(e <= clock)
    BY <2>1, <2>2
  <2>10. clock >= checkedAt + MaxRecordExpiry /\ e <= checkedAt + MaxRecordExpiry => e <= clock
    BY <2>1, <2>2
  <2> QED
    BY <2>4, <2>5, <2>7, <2>8, <2>9, <2>10
<1> QED
  BY <1>1, RecordInvariant, PTL
=============================================================================
