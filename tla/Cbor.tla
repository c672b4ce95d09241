-------------------------------- MODULE Cbor --------------------------------
(***************************************************************************)
(* The canonical CBOR codec, cbor/cbor.go: its values, and Decode and      *)
(* CheckCanonical, on bytes (CborEncoder has Encode).  A number is a word, *)
(* the eight bytes of a uint64 or, in two's complement, of an int64, so    *)
(* that nothing is lost of the width of an argument and of the conversions *)
(* between the two: both have the same word.                               *)
(***************************************************************************)
EXTENDS Integers, SequencesExt, FiniteSetsExt

CONSTANT CanAllocate(_)     \* does make([]Value, w) return on this machine

-----------------------------------------------------------------------------
(* Words *)

Byte == 0..255

\* The word whose last bytes are bs.
Word(bs) == [i \in 1..8 |-> IF i + Len(bs) > 8 THEN bs[i + Len(bs) - 8] ELSE 0]

\* uint64(n) for a length n
Small(n) == Word(<<n \div (256 * 256), (n \div 256) % 256, n % 256>>)

FitsIn(w, n) == \A i \in 1..(8 - n) : w[i] = 0

\* A word as a length; every word above Huge - 1 is longer than any buffer.
Huge == 256 * 256 * 256
LowBytes(w) == 256 * 256 * w[6] + 256 * w[7] + w[8]
Length(w) == IF FitsIn(w, 3) THEN LowBytes(w) ELSE Huge

\* The sign of int(w), and ^w, which is -w-1.
Negative(w) == w[1] >= 128
Complement(w) == [i \in 1..8 |-> 255 - w[i]]

\* start + int(w) does not fit an int, for a start below Huge.
SumWraps(start, w) ==
    /\ w[1] = 127 /\ \A i \in 2..5 : w[i] = 255
    /\ start + LowBytes(w) >= Huge

-----------------------------------------------------------------------------
(* Values: what kind tells apart is all a value holds. *)

UUint(w) == [kind |-> "Unsigned", uint |-> w]

NInt(w) == IF Negative(w) THEN [kind |-> "Negative", neg |-> w] ELSE UUint(w)

BStr(b)       == [kind |-> "ByteString", bytes |-> b]
TStr(s)       == [kind |-> "TextString", str |-> s]
Arr(items)    == [kind |-> "Array", arr |-> items]
IMap(entries) == [kind |-> "IntMap", intMap |-> entries]
SMap(entries) == [kind |-> "StrMap", strMap |-> entries]
Bool(b)       == [kind |-> "Bool", bool |-> b]
Null          == [kind |-> "Null"]

MapEntry(k, v) == [key |-> k, value |-> v]

\* Value.Int of a number
Int64(v) == IF v.kind = "Unsigned" THEN v.uint ELSE v.neg

-----------------------------------------------------------------------------
(* Initial bytes *)

\* Major types, in the high three bits of the initial byte
mtUnsigned == 0
mtNegative == 32
mtByteStr == 64
mtTextStr == 96
mtArray == 128
mtMap == 160
mtSimple == 224

\* Additional information, in the low five bits
aiOneByte == 24
aiTwoBytes == 25
aiFourBytes == 26
aiEightBytes == 27

simpleFalse == 20
simpleTrue == 21
simpleNull == 22
simpleUndef == 23

\* The shortest head of major type mt with argument w.
encodeHead(mt, w) ==
    IF FitsIn(w, 1) THEN IF w[8] < 24 THEN <<mt + w[8]>> ELSE <<mt + aiOneByte, w[8]>>
    ELSE IF FitsIn(w, 2) THEN <<mt + aiTwoBytes>> \o SubSeq(w, 7, 8)
    ELSE IF FitsIn(w, 4) THEN <<mt + aiFourBytes>> \o SubSeq(w, 5, 8)
    ELSE <<mt + aiEightBytes>> \o w

-----------------------------------------------------------------------------
(* Decoding.  pos counts the bytes consumed.  A decoder returns a value and *)
(* the new pos, or an error, or it does not return, which is called a panic *)
(* here: a slice has its bounds reversed, or memory does not suffice.       *)

Value(v, pos) == [res |-> "ok", v |-> v, pos |-> pos]
Fail  == [res |-> "error"]
Panic == [res |-> "panic"]

\* The argument of an initial byte at pos: immediate, or in the next 1, 2, 4
\* or 8 bytes.
readArg(data, pos, ai) ==
    LET n == <<1, 2, 4, 8>>[ai - aiOneByte + 1]
    IN  IF ai < aiOneByte THEN [res |-> "ok", arg |-> Small(ai), pos |-> pos]
        ELSE IF ai > aiEightBytes \/ pos + n > Len(data) THEN Fail
        ELSE [res |-> "ok", arg |-> Word(SubSeq(data, pos + 1, pos + n)), pos |-> pos + n]

readArgCanonical_AnyLength(data, pos, ai) == readArg(data, pos, ai)

\* ... and the same value in fewer bytes is an error.
readArgCanonical(data, pos, ai) ==
    LET r == readArg(data, pos, ai)
        shorter == \/ ai = aiOneByte /\ r.arg[8] <= 23
                   \/ ai = aiTwoBytes /\ FitsIn(r.arg, 1)
                   \/ ai = aiFourBytes /\ FitsIn(r.arg, 2)
                   \/ ai = aiEightBytes /\ FitsIn(r.arg, 4)
    IN  IF r.res = "ok" /\ shorter THEN Fail ELSE r

\* unicode/utf8: the size of the rune at the start of s, 0 if there is none.
RuneSize(s) ==
    LET Cont(i, lo, hi) == Len(s) >= i /\ s[i] \in lo..hi
    IN  CASE s[1] < 128 -> 1
          [] s[1] \in 194..223 /\ Cont(2, 128, 191) -> 2
          [] s[1] \in 224..239 /\ Cont(2, IF s[1] = 224 THEN 160 ELSE 128,
                                         IF s[1] = 237 THEN 159 ELSE 191)
                               /\ Cont(3, 128, 191) -> 3
          [] s[1] \in 240..244 /\ Cont(2, IF s[1] = 240 THEN 144 ELSE 128,
                                         IF s[1] = 244 THEN 143 ELSE 191)
                               /\ Cont(3, 128, 191) /\ Cont(4, 128, 191) -> 4
          [] OTHER -> 0

RuneError == <<239, 191, 189>>      \* U+FFFD

\* Ranging over the runes of s meets neither an invalid byte nor U+FFFD,
\* which Go uses for one.
isValidUTF8(s) ==
    LET valid[i \in 0..Len(s)] ==
            LET n == RuneSize(SubSeq(s, i + 1, Len(s)))
            IN  i = Len(s) \/ (/\ n > 0
                               /\ SubSeq(s, i + 1, i + n) # RuneError
                               /\ valid[i + n])
    IN  valid[0]

IsNumber(v) == v.kind \in {"Unsigned", "Negative"}

\* The bytes of a string of length arg: decodeValue adds with checkedAdd,
\* decodeValueCanonical without a check of its own.
StringEnd(canonical, data, pos, arg) ==
    IF canonical /\ (Negative(arg) \/ SumWraps(pos, arg)) THEN Panic
    ELSE IF Negative(arg) \/ pos + Length(arg) > Len(data) THEN Fail
    ELSE [res |-> "ok", pos |-> pos + Length(arg)]

ContainerStart_OffByOne(canonical, mt, data, pos, arg) ==
    LET left == Len(data) - pos
    IN  IF canonical
        THEN IF mt = mtArray /\ ~CanAllocate(arg) THEN "panic" ELSE "ok"
        ELSE IF Negative(arg) THEN "panic"
        ELSE IF Length(arg) >= left THEN "error" ELSE "ok"

\* Whether an array or map of length arg is begun at all.  decodeValue
\* compares int(arg) with what is left of the data and then allocates arg
\* elements, at most as many as there are bytes; decodeValueCanonical grows
\* maps, but allocates an array of arg values, 144 bytes each, whatever is left.
ContainerStart(canonical, mt, data, pos, arg) ==
    LET left == Len(data) - pos
    IN  IF canonical
        THEN IF mt = mtArray /\ ~CanAllocate(arg) THEN "panic" ELSE "ok"
        ELSE IF Negative(arg) THEN "panic"
        ELSE IF Length(arg) > left THEN "error" ELSE "ok"

\* One more turn of the loop over the elements of an array or the entries of a
\* map: soFar holds what the loop has collected, and item[pos] what decoding
\* at pos returns.
NextElement(canonical, mt, item, soFar) ==
    LET k == item[soFar.pos]
        v == IF mt = mtArray \/ k.res # "ok" THEN k ELSE item[k.pos]
        duplicate == canonical /\ \E i \in DOMAIN soFar.v :
                        \/ IsNumber(k.v) /\ IsNumber(soFar.v[i].key)
                           /\ Int64(k.v) = Int64(soFar.v[i].key)
                        \/ k.v.kind = "TextString" /\ k.v = soFar.v[i].key
    IN  IF soFar.res # "ok" THEN soFar
        ELSE IF v.res # "ok" THEN v
        ELSE IF mt = mtMap /\ duplicate THEN Fail
        ELSE Value(Append(soFar.v, IF mt = mtArray THEN v.v ELSE MapEntry(k.v, v.v)), v.pos)

Elements(canonical, mt, item, pos, n) ==
    LET loop[i \in 0..n] ==
            IF i = 0 THEN Value(<<>>, pos)
            ELSE NextElement(canonical, mt, item, loop[i - 1])
    IN  loop[n]

\* The value made of what the loop has collected.  The keys of a map are all
\* numbers or all texts.
Collect(mt, all) ==
    LET numbers == \A i \in DOMAIN all.v : IsNumber(all.v[i].key)
        strings == \A i \in DOMAIN all.v : all.v[i].key.kind = "TextString"
        byInt == [i \in DOMAIN all.v |-> MapEntry(Int64(all.v[i].key), all.v[i].value)]
        byStr == [i \in DOMAIN all.v |-> MapEntry(all.v[i].key.str, all.v[i].value)]
    IN  IF all.res # "ok" THEN all
        ELSE IF mt = mtArray THEN Value(Arr(all.v), all.pos)
        ELSE IF numbers THEN Value(IMap(byInt), all.pos)
        ELSE IF strings THEN Value(SMap(byStr), all.pos)
        ELSE Fail

\* The item whose head ends at pos, by its major type: a string of length arg,
StringItem(canonical, mt, data, pos, arg) ==
    LET end == StringEnd(canonical, data, pos, arg)
        bytes == SubSeq(data, pos + 1, end.pos)
    IN  IF end.res # "ok" THEN end
        ELSE IF mt = mtByteStr THEN Value(BStr(bytes), end.pos)
        ELSE IF canonical /\ ~isValidUTF8(bytes) THEN Fail
        ELSE Value(TStr(bytes), end.pos)

\* an array or map of arg elements (every one takes a byte, so Len(data) + 1 of
\* them never arrive),
ContainerItem(canonical, mt, data, item, pos, arg) ==
    LET start == ContainerStart(canonical, mt, data, pos, arg)
        n == IF Length(arg) > Len(data) THEN Len(data) + 1 ELSE Length(arg)
    IN  IF start = "panic" THEN Panic
        ELSE IF start = "error" THEN Fail
        ELSE Collect(mt, Elements(canonical, mt, item, pos, n))

\* or a simple value.
SimpleItem(ai, pos) ==
    IF ai \in {simpleFalse, simpleTrue} THEN Value(Bool(ai = simpleTrue), pos)
    ELSE IF ai \in {simpleNull, simpleUndef} THEN Value(Null, pos)
    ELSE Fail

\* What decoding at pos returns, given what it returns further on.
ItemAt(canonical, data, item, pos) ==
    LET mt == (data[pos + 1] \div 32) * 32
        ai == data[pos + 1] % 32
        r == IF canonical THEN readArgCanonical(data, pos + 1, ai)
                          ELSE readArg(data, pos + 1, ai)
    IN  IF pos >= Len(data) THEN Fail
        ELSE IF r.res # "ok" THEN Fail
        ELSE IF mt = mtUnsigned THEN Value(UUint(r.arg), r.pos)
        ELSE IF mt = mtNegative
             THEN IF Negative(r.arg) THEN Fail ELSE Value(NInt(Complement(r.arg)), r.pos)
        ELSE IF mt \in {mtByteStr, mtTextStr}
             THEN StringItem(canonical, mt, data, r.pos, r.arg)
        ELSE IF mt \in {mtArray, mtMap}
             THEN ContainerItem(canonical, mt, data, item, r.pos, r.arg)
        ELSE IF mt = mtSimple THEN SimpleItem(ai, r.pos)
        ELSE Fail

\* decodeValue, and with canonical = TRUE decodeValueCanonical
decodeItem(canonical, data, pos) ==
    LET item[p \in 0..Len(data)] == ItemAt(canonical, data, item, p)
    IN  item[pos]

decodeValue(data, pos) == decodeItem(FALSE, data, pos)
decodeValueCanonical(data, pos) == decodeItem(TRUE, data, pos)

Decode(data) == decodeValue(data, 0)

CheckCanonical(data) ==
    LET r == decodeValueCanonical(data, 0)
    IN  IF r.res = "ok" /\ r.pos # Len(data) THEN "error" ELSE r.res
=============================================================================
