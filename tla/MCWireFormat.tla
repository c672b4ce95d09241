---------------------------- MODULE MCWireFormat ----------------------------
(* Numbers on both sides of every boundary of an encoding, values nested two  *)
(* deep, and received bytes that mix whole items with heads that claim more   *)
(* than there is.                                                             *)
EXTENDS PayloadFormat

Top(b) == [i \in 1..8 |-> IF i = 1 THEN b ELSE 0]           \* b * 2^56
Ones(n) == [i \in 1..8 |-> IF i > 8 - n THEN 255 ELSE 0]    \* 256^n - 1

Naturals64 == {Small(0), Small(23), Small(24), Small(255), Small(256), Ones(2),
               Word(<<1, 0, 0>>), Ones(4), Word(<<1, 0, 0, 0, 0>>), Top(128), Ones(8)}
Naturals63 == {w \in Naturals64 : ~Negative(w)}
Integers64 == Naturals63 \cup {Complement(w) : w \in Naturals63} \cup {Top(128)}

\* More than 2^24 values (2.4 GB) are too many for this machine.
MCCanAllocate(w) == FitsIn(w, 3)

a == <<97>>
e == <<195, 169>>                                           \* U+00E9
bad == <<195>>

Texts == {<<>>, a, <<98>>, <<97, 97>>, e, RuneError, bad}

Numbers == {UUint(w) : w \in Naturals64} \cup {NInt(w) : w \in Integers64}

Scalars == Numbers \cup {TStr(s) : s \in Texts}
           \cup {BStr(<<>>), BStr(<<0>>), BStr([i \in 1..24 |-> 7]), BStr([i \in 1..26 |-> 7]),
                 Bool(TRUE), Bool(FALSE), Null}

Few == {UUint(Small(1)), TStr(a), Null}

\* Maps with the given keys, in every order, and values from vs
MapsOver(keys, vs) ==
    UNION {{[i \in 1..n |-> MapEntry(ks[i], x[i])] :
               ks \in {f \in [1..n -> keys] : \A i, j \in 1..n : i # j => f[i] # f[j]},
               x \in [1..n -> vs]} : n \in 0..2}

IntKeys == {Small(1), Small(24), Small(256), Complement(Small(0)), Complement(Small(24))}
StrKeys == {<<>>, a, <<98>>, <<97, 97>>}

Containers(vs) ==
    {Arr(<<>>)} \cup {Arr(<<x>>) : x \in vs} \cup {Arr(<<x, y>>) : x, y \in vs}
    \cup {IMap(m) : m \in MapsOver(IntKeys, vs)}
    \cup {SMap(m) : m \in MapsOver(StrKeys, vs)}

Flat == Containers({Null, TStr(a)})

Three == {IMap(<<MapEntry(x, Null), MapEntry(y, Null), MapEntry(z, Null)>>) :
             x, y, z \in IntKeys}

Distinct(v) == \A i, j \in DOMAIN v.intMap : i # j => v.intMap[i].key # v.intMap[j].key

MCPayloads ==
    Scalars \cup Flat
    \cup {Arr(<<v>>) : v \in Numbers} \cup {IMap(<<MapEntry(Small(2), v)>>) : v \in Scalars}
    \cup {v \in Three : Distinct(v)}
    \cup {SMap(<<MapEntry(a, v), MapEntry(k, Null)>>) :
             v \in {IMap(<<>>), SMap(<<>>), Arr(<<Null, Null>>)}, k \in {<<>>, bad}}

Ext(t, c, d) == [extType |-> t, critical |-> c, data |-> d]

MCHeaders ==
    {[frameType |-> t, flags |-> f, exts |-> x] :
        t \in {1, 8, 9}, f \in {0, 3, 128, 255},
        x \in {<<>>, <<Ext(1, TRUE, <<>>)>>, <<Ext(258, FALSE, <<5, 0>>), Ext(0, TRUE, <<1>>)>>}}
    \cup {[frameType |-> 1, flags |-> 0, exts |-> <<Ext(7, FALSE, [i \in 1..n |-> 1])>>] :
             n \in {MaxExtensionSize - 8, MaxExtensionSize - 7}}

Head8(mt, w) == <<mt + aiEightBytes>> \o w

MCPieces ==
    [payload |->
        {<<b>> : b \in {0, 1, 23, 24, 25, 28, 32, 64, 65, 97, 98, 128, 129, 130, 160, 161, 162,
                        192, 244, 246, 247, 248, 255}}
        \cup {<<24, 24>>, <<25, 1, 0>>, <<25, 0, 255>>, <<95>>, <<98, 195, 169>>,
              <<99, 239, 191, 189>>, <<1, 246>>, <<32, 247>>, <<97, 97, 246>>,
              <<154, 0, 1, 0, 0>>, <<154, 255, 255, 255, 255>>, <<26, 0, 0, 255, 255>>, <<59>> \o Top(128)}
        \cup {Head8(mt, w) : mt \in {mtUnsigned, mtByteStr, mtTextStr, mtArray, mtMap},
                             w \in {Top(127), Top(128), Ones(8), Word(<<127>> \o SubSeq(Ones(7), 2, 8))}},
     extensions |->
        {<<0, 0, 1, 0, 0, 0, 0, 1>>, <<0, 1, 1, 0, 0, 0, 0, 0>>, <<1, 2, 1, 7, 0, 0, 0, 9>>,
         <<0, 3, 2, 0, 0, 0, 0, 0>>, <<0, 3, 0, 0, 0, 0, 1, 0>>, <<0, 3, 0, 0, 255, 255, 255, 255>>,
         <<5>>, <<0, 0, 0>>, <<0, 5, 1, 0>>}]
=============================================================================
