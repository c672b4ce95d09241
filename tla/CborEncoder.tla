---------------------------- MODULE CborEncoder ----------------------------
(***************************************************************************)
(* cbor.Encode, cbor/cbor.go.  The recursion follows the nesting of the    *)
(* value, so encodeValue is a RECURSIVE operator and is evaluated by TLC   *)
(* only.                                                                   *)
(***************************************************************************)
EXTENDS Cbor

\* bytes.Compare(a, b) < 0, and a < b of Go strings
BytesLess(a, b) ==
    \E n \in 0..(Len(b) - 1) :
        /\ n <= Len(a)
        /\ SubSeq(a, 1, n) = SubSeq(b, 1, n)
        /\ n = Len(a) \/ a[n + 1] < b[n + 1]

encodeIntKey(k) ==
    IF Negative(k) THEN encodeHead(mtNegative, Complement(k))
                   ELSE encodeHead(mtUnsigned, k)

IntKeyLess(e, f) == BytesLess(encodeIntKey(e.key), encodeIntKey(f.key))

StrKeyLess(e, f) ==
    \/ Len(e.key) < Len(f.key)
    \/ Len(e.key) = Len(f.key) /\ BytesLess(e.key, f.key)

\* sort.SliceStable; less holds the pairs of positions that are in order.
StableSort(s, less) ==
    LET Before(i, j) == <<i, j>> \in less \/ (<<j, i>> \notin less /\ i < j)
        Rank(j) == Cardinality({i \in DOMAIN s : i # j /\ Before(i, j)}) + 1
    IN  [r \in DOMAIN s |-> s[CHOOSE j \in DOMAIN s : Rank(j) = r]]

Positions(s) == (DOMAIN s) \X (DOMAIN s)

sortIntMapEntries_Unsorted(entries) == entries

sortIntMapEntries(entries) ==
    StableSort(entries, {p \in Positions(entries) : IntKeyLess(entries[p[1]], entries[p[2]])})

sortStrMapEntries(entries) ==
    StableSort(entries, {p \in Positions(entries) : StrKeyLess(entries[p[1]], entries[p[2]])})

RECURSIVE encodeValue(_)
encodeValue(v) ==
    LET KeyBytes(k) ==
            IF v.kind = "IntMap" THEN encodeIntKey(k)
            ELSE encodeHead(mtTextStr, Small(Len(k))) \o k
        Map(entries) ==
            encodeHead(mtMap, Small(Len(entries))) \o
            FlattenSeq([i \in DOMAIN entries |->
                KeyBytes(entries[i].key) \o encodeValue(entries[i].value)])
    IN  CASE v.kind = "Unsigned"   -> encodeHead(mtUnsigned, v.uint)
          [] v.kind = "Negative"   -> encodeHead(mtNegative, Complement(v.neg))
          [] v.kind = "ByteString" -> encodeHead(mtByteStr, Small(Len(v.bytes))) \o v.bytes
          [] v.kind = "TextString" -> encodeHead(mtTextStr, Small(Len(v.str))) \o v.str
          [] v.kind = "Array"      -> encodeHead(mtArray, Small(Len(v.arr))) \o
                FlattenSeq([i \in DOMAIN v.arr |-> encodeValue(v.arr[i])])
          [] v.kind = "IntMap"     -> Map(sortIntMapEntries(v.intMap))
          [] v.kind = "StrMap"     -> Map(sortStrMapEntries(v.strMap))
          [] v.kind = "Bool"       -> <<mtSimple + (IF v.bool THEN simpleTrue ELSE simpleFalse)>>
          [] v.kind = "Null"       -> <<mtSimple + simpleNull>>

CborEncode(v) == encodeValue(v)
=============================================================================
