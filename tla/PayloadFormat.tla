--------------------------- MODULE PayloadFormat ---------------------------
(***************************************************************************)
(* WireFormat with the payloads that cbor.Encode makes of CBOR values:     *)
(* what the encoder and the decoders of cbor/cbor.go make of each other.   *)
(* The properties compare values by their structure, with RECURSIVE        *)
(* operators.                                                              *)
(***************************************************************************)
EXTENDS WireFormat, CborEncoder

Entries(v) == IF v.kind = "IntMap" THEN v.intMap ELSE v.strMap

IsMap(v) == v.kind \in {"IntMap", "StrMap"}

\* The same value: maps with the same entries in any order are, and so are
\* the two empty ones, which CBOR does not tell apart.
RECURSIVE SameValue(_, _)
SameValue(v, w) ==
    IF IsMap(v) /\ IsMap(w)
    THEN /\ v.kind = w.kind \/ Entries(v) = <<>>
         /\ Len(Entries(v)) = Len(Entries(w))
         /\ \A i \in DOMAIN Entries(v) : \E j \in DOMAIN Entries(w) :
               /\ Entries(v)[i].key = Entries(w)[j].key
               /\ SameValue(Entries(v)[i].value, Entries(w)[j].value)
    ELSE IF v.kind = "Array" /\ w.kind = "Array"
    THEN /\ Len(v.arr) = Len(w.arr)
         /\ \A i \in DOMAIN v.arr : SameValue(v.arr[i], w.arr[i])
    ELSE v = w

\* v and every value in it
RECURSIVE Parts(_)
Parts(v) ==
    {v} \cup
    (IF v.kind = "Array" THEN UNION {Parts(v.arr[i]) : i \in DOMAIN v.arr}
     ELSE IF IsMap(v) THEN UNION {Parts(Entries(v)[i].value) : i \in DOMAIN Entries(v)}
     ELSE {})

\* The texts in v, keys included
TextsOf(v) ==
    {p.str : p \in {q \in Parts(v) : q.kind = "TextString"}}
    \cup UNION {{p.strMap[i].key : i \in DOMAIN p.strMap} :
                  p \in {q \in Parts(v) : q.kind = "StrMap"}}

\* s is valid UTF-8: runes all the way.
IsUTF8(s) ==
    LET runes[i \in 0..Len(s)] ==
            LET n == RuneSize(SubSeq(s, i + 1, Len(s)))
            IN  i = Len(s) \/ (n > 0 /\ runes[i + n])
    IN  runes[0]

HasRuneError(s) ==
    \E i \in 1..(Len(s) - 2) : SubSeq(s, i, i + 2) = RuneError

TextsValid(v) == \A s \in TextsOf(v) : IsUTF8(s)

\* The keys of every map in v come in the order the encoder gives them.
KeysAscend(v) ==
    \A p \in Parts(v) :
        IsMap(p) => \A i \in 1..(Len(Entries(p)) - 1) :
            IF p.kind = "IntMap" THEN IntKeyLess(p.intMap[i], p.intMap[i + 1])
                                 ELSE StrKeyLess(p.strMap[i], p.strMap[i + 1])

\* An unsigned number of 2^63 or more may be encoded in data.
HasGreatNumber ==
    \E i \in 1..(Len(data) - 1) :
        data[i] = mtUnsigned + aiEightBytes /\ data[i + 1] >= 128

-----------------------------------------------------------------------------
(* Properties *)

\* A payload decodes to the value it was made of, all its bytes used.
\* CheckCanonical accepts it only if its texts are valid UTF-8, and does accept
\* it if, besides, none of them contains U+FFFD (ValidTextsAccepted is about
\* that).  Two values have the same encoding exactly if they are the same value:
\* the bytes that are hashed and signed do not depend on the order in which a
\* map was built, and never stand for two values (cbor.go:187-306, 325-476).
EncodingIsFaithful ==
    LET bytes == Encode(msg.payload)
        got == Decode(bytes)
    IN  /\ got.res = "ok" /\ got.pos = Len(bytes)
        /\ SameValue(got.v, msg.payload)
        /\ CheckCanonical(bytes) = "ok" => TextsValid(msg.payload)
        /\ (TextsValid(msg.payload) /\ \A s \in TextsOf(msg.payload) : ~HasRuneError(s)) =>
              CheckCanonical(bytes) = "ok"
        /\ (bytes = Encode(msg.other)) = SameValue(msg.payload, msg.other)

\* CheckCanonical accepts nothing but what Encode makes of the decoded value,
\* up to three things it does not look at: the order of map keys, the value
\* `undefined', which it takes for null, and keys of 2^63 or more, which
\* become negative (cbor.go:325-346, 411-458, 467).
AcceptedReencodes ==
    (source = "payload" /\ CheckCanonical(data) = "ok") =>
        LET v == Decode(data).v
            null == mtSimple + simpleNull
            undef == mtSimple + simpleUndef
        IN  (KeysAscend(v) /\ ~HasGreatNumber) =>
                /\ Len(Encode(v)) = Len(data)
                /\ \A i \in DOMAIN data :
                      data[i] = Encode(v)[i] \/ (data[i] = undef /\ Encode(v)[i] = null)

\* "isValidUTF8 checks if a string is valid UTF-8" (cbor.go:534), and the comment
\* of CheckCanonical (319-321) names nothing else about texts: it accepts what
\* Encode makes of a value whose texts are valid UTF-8.
ValidTextsAccepted ==
    TextsValid(msg.payload) => CheckCanonical(Encode(msg.payload)) = "ok"
=============================================================================
