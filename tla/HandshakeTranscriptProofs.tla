---------------------- MODULE HandshakeTranscriptProofs ----------------------
(***************************************************************************)
(* Proofs about HandshakeTranscript, for any connections, hellos and        *)
(* changes.                                                                 *)
(***************************************************************************)
EXTENDS HandshakeTranscript, TLAPS

-----------------------------------------------------------------------------
(* The invariant *)

\* The transcript hashes after each message
H0(c) == Sum256(<<TlsBinding(c)>>)
H1(c, ch) == Sum256(<<H0(c), Enc(ToCBORWithoutSigAndMac(ch))>>)
H2(c, ch, sh) == Sum256(<<H1(c, ch), Enc(ServerHelloToCBORWithoutSig(sh))>>)
H3(c, ch, sh, sid) == Sum256(<<H2(c, ch, sh), Enc(IMap(1 :> B(sid)))>>)

\* The ClientHello a client sends
Mac(c) ==
    IF c \in DosProfile
    THEN ComputeReceiverMac(ServerHellos[c].AgentId, Enc(ToCBORWithoutSigAndMac(ClientHellos[c])))
    ELSE Nil
Sent(c) ==
    [ClientHellos[c] EXCEPT
        !.Signature = Sign(ClientHellos[c].PublicKey[2], SignatureInput(H1(c, ClientHellos[c]))),
        !.ReceiverMac = Mac(c)]

\* The ServerHello a server answers with, and the ClientFinished a client does
ReplyTo(c, ch, sid) ==
    LET sh == [ServerHellos[c] EXCEPT !.SessionId = sid] IN
    [sh EXCEPT !.Signature = Sign(ServerHellos[c].PublicKey[2], SignatureInput(H2(c, ch, sh)))]
FinishFor(c, ch, sh, sid) ==
    [SessionId |-> sid,
     Signature |-> Sign(ClientHellos[c].PublicKey[2], SignatureInput(H3(c, ch, sh, sid)))]

EndFields == {"pc", "th", "h1", "ch", "sh", "sid"}

\* A server's end that has answered has computed a session id.
Answered(end) == end.sid # Empty

\* The transcript hash: a list that grows by one hash with each message
T1(x) == [cells |-> <<x>>, state |-> 1]
T2(x, y) == [cells |-> <<x, y>>, state |-> 2]
T3(x, y, z) == [cells |-> <<x, y, z>>, state |-> 3]
T4(x, y, z, u) == [cells |-> <<x, y, z, u>>, state |-> 4]

\* What a client's end holds
ClientEnd(c, end) ==
    /\ DOMAIN end = EndFields
    /\ end.pc \in {"start", "helloSent", "done", "rejected"}
    /\ end.pc = "start" => end = End(c)
    /\ end.pc \in {"helloSent", "done"} => end.ch = Sent(c)
    /\ end.pc = "helloSent" => end.th = T2(H0(c), H1(c, Sent(c))) /\ end.h1 = 2

\* What a server's end holds
ServerEnd(c, end) ==
    /\ DOMAIN end = EndFields
    /\ end.pc \in {"start", "helloSent", "done", "rejected"}
    /\ end.pc = "start" => end = End(c)
    /\ end.pc \in {"helloSent", "done"} => Answered(end)
    /\ Answered(end) =>
          /\ DOMAIN end.ch = FieldsOfBoth \cup {"ReceiverMac"}
          /\ ExtensionEntries(end.ch.Extensions)
          /\ end.sh = ReplyTo(c, end.ch, end.sid)
    /\ end.pc = "helloSent" => end.th = T3(H0(c), H1(c, end.ch), H2(c, end.ch, end.sh))

\* The two ends know the same.
Agreed(cl, sv) ==
    /\ cl.pc = "done" => Answered(sv) /\ View(cl) = View(sv)
    /\ sv.pc = "done" => cl.pc = "done"

\* The server has the ClientHello as it was sent.
Received(c, sv) ==
    /\ ToCBORWithoutSigAndMac(sv.ch) = ToCBORWithoutSigAndMac(Sent(c))
    /\ sv.ch.PublicKey = Sent(c).PublicKey
    /\ sv.sid = ComputeSessionId(H1(c, Sent(c)), Sent(c).Nonce.bytes,
                                 ServerHellos[c].Nonce.bytes, ServerHellos[c].AgentId)

\* A connection on which nothing was changed has got so far.
Undisturbed(c, cl, sv, w) ==
    \/ cl.pc = "start" /\ sv.pc = "start" /\ w = Nothing
    \/ /\ cl.pc = "helloSent" /\ sv.pc = "start"
       /\ w = [to |-> "server", msg |-> ClientHelloToCBOR(Sent(c))]
    \/ /\ cl.pc = "helloSent" /\ sv.pc = "helloSent" /\ Received(c, sv)
       /\ w = [to |-> "client", msg |-> ServerHelloToCBOR(sv.sh)]
    \/ /\ cl.pc = "done" /\ sv.pc = "helloSent" /\ Received(c, sv)
       /\ w = [to |-> "server", msg |-> ClientFinishedToCBOR(FinishFor(c, sv.ch, sv.sh, sv.sid))]
    \/ cl.pc = "done" /\ sv.pc = "done" /\ w = Nothing

\* A signature that one of the ends has made, by what it signs
Made(s, cls, svs) ==
    \/ \E d \in Conns : s[3] = SignatureInput(H1(d, Sent(d)))
    \/ \E d \in Conns :
          Answered(svs[d]) /\ s[3] = SignatureInput(H2(d, svs[d].ch, svs[d].sh))
    \/ \E d \in Conns :
          cls[d].pc = "done" /\ s[3] = SignatureInput(H3(d, cls[d].ch, cls[d].sh, cls[d].sid))

\* A map in which all signatures were made by an end
Genuine(m, cls, svs) ==
    \A k \in DOMAIN m :
        (Kind(m[k]) = "ByteString" /\ ValidSignature(Content(m[k]))) =>
            Made(Content(m[k]), cls, svs)

GenuineMessage(v, cls, svs) == Kind(v) = "IntMap" => Genuine(Content(v), cls, svs)

Local(c, cl, sv, w) ==
    /\ ClientEnd(c, cl) /\ ServerEnd(c, sv) /\ Agreed(cl, sv)
    /\ w = [to |-> w.to, msg |-> w.msg]

\* What each end holds is tied to the hash it has reached, every signature on
\* the way was made by some end over a hash that end had reached, and a
\* connection that nobody has changed is at one of five points.
IndInv ==
    /\ DOMAIN client = Conns /\ DOMAIN server = Conns /\ DOMAIN wire = Conns
    /\ \A c \in Conns :
          /\ Local(c, client[c], server[c], wire[c])
          /\ GenuineMessage(wire[c].msg, client, server)
          /\ c \notin altered => Undisturbed(c, client[c], server[c], wire[c])

-----------------------------------------------------------------------------
(* Terms *)

\* A hash tells how many parts were hashed and which they were.
LEMMA HashInjective ==
    /\ \A a, b, x, y : Sum256(<<a, x>>) = Sum256(<<b, y>>) => a = b /\ x = y
    /\ \A a, b, x : Sum256(<<a>>) # Sum256(<<b, x>>)
    /\ \A a, b : Sum256(<<a>>) = Sum256(<<b>>) => a = b
<1>1. \A p, q : Sum256(p) = Sum256(q) => p = q
  BY DEF Sum256
<1>2. \A a, b, x, y : <<a, x>> = <<b, y>> => a = b /\ x = y
  OBVIOUS
<1>3. \A a, b, x : <<a>> # <<b, x>>
  OBVIOUS
<1>4. \A a, b : <<a>> = <<b>> => a = b
  OBVIOUS
<1> QED
  BY <1>1, <1>2, <1>3, <1>4, Zenon

\* What is signed is a hash, with a prefix (handshake.go:265-268).
LEMMA InputInjective ==
    \A p, q : SignatureInput(Sum256(p)) = SignatureInput(Sum256(q)) => Sum256(p) = Sum256(q)
<1> DEFINE pre == Bytes("aafp-v1-handshake")
<1>1. pre # Empty
  BY DEF Bytes, Empty
<1>2. \A p : Sum256(p) # Empty
  BY DEF Sum256, Empty, Bytes
<1>3. \A h : SignatureInput(h) = Concat(pre, h)
  BY DEF SignatureInput
<1> HIDE DEF pre
<1>4. \A p : SignatureInput(Sum256(p)) = <<"concat", pre, Sum256(p)>>
  BY <1>1, <1>2, <1>3 DEF Concat
<1>5. \A a, b : <<"concat", pre, a>> = <<"concat", pre, b>> => a = b
  OBVIOUS
<1> QED
  BY <1>4, <1>5, Zenon

\* The hash after each message tells the connection, the message and all
\* messages before it; hashes after different messages differ.
LEMMA HashesTell ==
    ASSUME NEW c, NEW d, NEW ch, NEW ch2, NEW sh, NEW sh2, NEW sid, NEW sid2
    PROVE  /\ H2(c, ch, sh) # H1(d, ch2)
           /\ H3(c, ch, sh, sid) # H1(d, ch2)
           /\ H3(c, ch, sh, sid) # H2(d, ch2, sh2)
           /\ H2(c, ch, sh) = H2(d, ch2, sh2) =>
                 /\ c = d
                 /\ ToCBORWithoutSigAndMac(ch) = ToCBORWithoutSigAndMac(ch2)
                 /\ ServerHelloToCBORWithoutSig(sh) = ServerHelloToCBORWithoutSig(sh2)
           /\ H3(c, ch, sh, sid) = H3(d, ch2, sh2, sid2) => c = d
<1>1. \A e, f : H0(e) = H0(f) => e = f
  <2>1. \A e, f : Bytes(e) = Bytes(f) => e = f
    BY DEF Bytes
  <2> QED
    BY <2>1, HashInjective DEF H0, TlsBinding
<1>2. \A e, a, x : H0(e) # Sum256(<<a, x>>)
  BY HashInjective DEF H0
<1>3. \A e, f, a, b : H1(e, a) = H1(f, b) =>
          e = f /\ ToCBORWithoutSigAndMac(a) = ToCBORWithoutSigAndMac(b)
  <2>1. \A v, w : Enc(v) = Enc(w) => v = w
    BY DEF Enc
  <2> QED
    BY <1>1, <2>1, HashInjective DEF H1
<1>4. \A v, w : Enc(v) = Enc(w) => v = w
  BY DEF Enc
<1>5. \A e, a, h, x, y : H1(e, a) # Sum256(<<Sum256(<<h, x>>), y>>)
  BY <1>2, HashInjective DEF H1
<1>6. H2(c, ch, sh) # H1(d, ch2)
  BY <1>5, Zenon DEF H2, H1
<1>7. H3(c, ch, sh, sid) # H1(d, ch2)
  BY <1>5, Zenon DEF H3, H2
<1>8. H3(c, ch, sh, sid) # H2(d, ch2, sh2)
  <2>1. H2(c, ch, sh) # H1(d, ch2)
    BY <1>6
  <2> QED
    BY <2>1, HashInjective DEF H3, H2
<1>9. H2(c, ch, sh) = H2(d, ch2, sh2) =>
                 /\ c = d
                 /\ ToCBORWithoutSigAndMac(ch) = ToCBORWithoutSigAndMac(ch2)
                 /\ ServerHelloToCBORWithoutSig(sh) = ServerHelloToCBORWithoutSig(sh2)
  BY <1>3, <1>4, HashInjective DEF H2
<1>10. H3(c, ch, sh, sid) = H3(d, ch2, sh2, sid2) => c = d
  <2>1. H3(c, ch, sh, sid) = H3(d, ch2, sh2, sid2) => H2(c, ch, sh) = H2(d, ch2, sh2)
    BY HashInjective DEF H3
  <2> QED
    BY <2>1, <1>9
<1> QED
  BY <1>6, <1>7, <1>8, <1>9, <1>10

-----------------------------------------------------------------------------
(* Encoding and decoding *)

\* Keys 1 to 6 of a hello (handshake.go:100-111)
LEMMA HelloFieldsAre ==
    ASSUME NEW h
    PROVE  /\ DOMAIN HelloFields(h) = 1..6
           /\ HelloFields(h)[1] = U(h.ProtocolVersion) /\ HelloFields(h)[2] = B(h.AgentId)
           /\ HelloFields(h)[3] = B(h.PublicKey) /\ HelloFields(h)[4] = B(h.Nonce.bytes)
           /\ HelloFields(h)[5] = Arr(h.Capabilities)
           /\ HelloFields(h)[6] = ExtensionsToCBOR(h.Extensions)
<1> DEFINE
      m1 == 1 :> U(h.ProtocolVersion)
      m2 == m1 @@ (2 :> B(h.AgentId))
      m3 == m2 @@ (3 :> B(h.PublicKey))
      m4 == m3 @@ (4 :> B(h.Nonce.bytes))
      m5 == m4 @@ (5 :> Arr(h.Capabilities))
      m6 == m5 @@ (6 :> ExtensionsToCBOR(h.Extensions))
<1>1. HelloFields(h) = m6
  BY DEF HelloFields
<1>2. DOMAIN m1 = {1} /\ m1[1] = U(h.ProtocolVersion)
  BY DEF :>
<1> HIDE DEF m1
<1>3. /\ DOMAIN m2 = DOMAIN m1 \cup {2} /\ m2[2] = B(h.AgentId)
      /\ \A x \in DOMAIN m1 : m2[x] = m1[x]
  <2>1. 2 \notin DOMAIN m1
    BY <1>2
  <2> QED
    BY <2>1 DEF @@, :>
<1> HIDE DEF m2
<1>4. /\ DOMAIN m3 = DOMAIN m2 \cup {3} /\ m3[3] = B(h.PublicKey)
      /\ \A x \in DOMAIN m2 : m3[x] = m2[x]
  <2>1. 3 \notin DOMAIN m2
    BY <1>2, <1>3
  <2> QED
    BY <2>1 DEF @@, :>
<1> HIDE DEF m3
<1>5. /\ DOMAIN m4 = DOMAIN m3 \cup {4} /\ m4[4] = B(h.Nonce.bytes)
      /\ \A x \in DOMAIN m3 : m4[x] = m3[x]
  <2>1. 4 \notin DOMAIN m3
    BY <1>2, <1>3, <1>4
  <2> QED
    BY <2>1 DEF @@, :>
<1> HIDE DEF m4
<1>6. /\ DOMAIN m5 = DOMAIN m4 \cup {5} /\ m5[5] = Arr(h.Capabilities)
      /\ \A x \in DOMAIN m4 : m5[x] = m4[x]
  <2>1. 5 \notin DOMAIN m4
    BY <1>2, <1>3, <1>4, <1>5
  <2> QED
    BY <2>1 DEF @@, :>
<1> HIDE DEF m5
<1>7. /\ DOMAIN m6 = DOMAIN m5 \cup {6} /\ m6[6] = ExtensionsToCBOR(h.Extensions)
      /\ \A x \in DOMAIN m5 : m6[x] = m5[x]
  <2>1. 6 \notin DOMAIN m5
    BY <1>2, <1>3, <1>4, <1>5, <1>6
  <2> QED
    BY <2>1 DEF @@, :>
<1> HIDE DEF m6
<1>8. DOMAIN m6 = 1..6
  BY <1>2, <1>3, <1>4, <1>5, <1>6, <1>7
<1>9. /\ m6[1] = U(h.ProtocolVersion) /\ m6[2] = B(h.AgentId) /\ m6[3] = B(h.PublicKey)
      /\ m6[4] = B(h.Nonce.bytes) /\ m6[5] = Arr(h.Capabilities)
      /\ m6[6] = ExtensionsToCBOR(h.Extensions)
  BY <1>2, <1>3, <1>4, <1>5, <1>6, <1>7
<1> QED
  BY <1>1, <1>8, <1>9

\* What the transcript has of a ClientHello (handshake.go:75-93)
LEMMA ClientHelloHashed ==
    ASSUME NEW h
    PROVE  LET m == Content(ToCBORWithoutSigAndMac(h)) IN
           /\ ToCBORWithoutSigAndMac(h) = IMap(m)
           /\ DOMAIN m = (1..6) \cup {8, 10}
           /\ \A x \in 1..6 : m[x] = HelloFields(h)[x]
           /\ m[8] = U(h.ExpiresAt) /\ m[10] = U(h.KeyAlgorithm)
<1> DEFINE
      m6 == HelloFields(h)
      m8 == m6 @@ (8 :> U(h.ExpiresAt))
      m10 == m8 @@ (10 :> U(h.KeyAlgorithm))
<1>1. ToCBORWithoutSigAndMac(h) = IMap(m10) /\ Content(ToCBORWithoutSigAndMac(h)) = m10
  BY DEF ToCBORWithoutSigAndMac, IMap, Content
<1>2. DOMAIN m6 = 1..6
  BY HelloFieldsAre
<1> HIDE DEF m6
<1>3. /\ DOMAIN m8 = DOMAIN m6 \cup {8} /\ m8[8] = U(h.ExpiresAt)
      /\ \A x \in DOMAIN m6 : m8[x] = m6[x]
  <2>1. 8 \notin DOMAIN m6
    BY <1>2
  <2> QED
    BY <2>1 DEF @@, :>
<1> HIDE DEF m8
<1>4. /\ DOMAIN m10 = DOMAIN m8 \cup {10} /\ m10[10] = U(h.KeyAlgorithm)
      /\ \A x \in DOMAIN m8 : m10[x] = m8[x]
  <2>1. 10 \notin DOMAIN m8
    BY <1>2, <1>3
  <2> QED
    BY <2>1 DEF @@, :>
<1> HIDE DEF m10
<1>5. /\ DOMAIN m10 = (1..6) \cup {8, 10}
      /\ \A x \in 1..6 : m10[x] = m6[x]
      /\ m10[8] = U(h.ExpiresAt) /\ m10[10] = U(h.KeyAlgorithm)
  BY <1>2, <1>3, <1>4
<1> QED
  BY <1>1, <1>5 DEF m6

\* What the transcript has of a ServerHello (handshake.go:189-207)
LEMMA ServerHelloHashed ==
    ASSUME NEW h
    PROVE  LET m == Content(ServerHelloToCBORWithoutSig(h)) IN
           /\ ServerHelloToCBORWithoutSig(h) = IMap(m)
           /\ DOMAIN m = (1..6) \cup {7, 9, 10}
           /\ \A x \in 1..6 : m[x] = HelloFields(h)[x]
           /\ m[7] = B(h.SessionId) /\ m[9] = U(h.ExpiresAt) /\ m[10] = U(h.KeyAlgorithm)
<1> DEFINE
      m6 == HelloFields(h)
      m7 == m6 @@ (7 :> B(h.SessionId))
      m9 == m7 @@ (9 :> U(h.ExpiresAt))
      m10 == m9 @@ (10 :> U(h.KeyAlgorithm))
<1>1. ServerHelloToCBORWithoutSig(h) = IMap(m10) /\ Content(ServerHelloToCBORWithoutSig(h)) = m10
  BY DEF ServerHelloToCBORWithoutSig, IMap, Content
<1>2. DOMAIN m6 = 1..6
  BY HelloFieldsAre
<1> HIDE DEF m6
<1>3. /\ DOMAIN m7 = DOMAIN m6 \cup {7} /\ m7[7] = B(h.SessionId)
      /\ \A x \in DOMAIN m6 : m7[x] = m6[x]
  <2>1. 7 \notin DOMAIN m6
    BY <1>2
  <2> QED
    BY <2>1 DEF @@, :>
<1> HIDE DEF m7
<1>4. /\ DOMAIN m9 = DOMAIN m7 \cup {9} /\ m9[9] = U(h.ExpiresAt)
      /\ \A x \in DOMAIN m7 : m9[x] = m7[x]
  <2>1. 9 \notin DOMAIN m7
    BY <1>2, <1>3
  <2> QED
    BY <2>1 DEF @@, :>
<1> HIDE DEF m9
<1>5. /\ DOMAIN m10 = DOMAIN m9 \cup {10} /\ m10[10] = U(h.KeyAlgorithm)
      /\ \A x \in DOMAIN m9 : m10[x] = m9[x]
  <2>1. 10 \notin DOMAIN m9
    BY <1>2, <1>3, <1>4
  <2> QED
    BY <2>1 DEF @@, :>
<1> HIDE DEF m10
<1>6. /\ DOMAIN m10 = (1..6) \cup {7, 9, 10}
      /\ \A x \in 1..6 : m10[x] = m6[x]
      /\ m10[7] = B(h.SessionId) /\ m10[9] = U(h.ExpiresAt) /\ m10[10] = U(h.KeyAlgorithm)
  BY <1>2, <1>3, <1>4, <1>5
<1> QED
  BY <1>1, <1>6 DEF m6

\* An extension is a map of three entries, and is decoded to what was encoded
\* (handshake.go:34-57).
LEMMA ExtensionRoundTrip ==
    ASSUME NEW e
    PROVE  /\ Kind(ExtensionToCBOR(e)) = "IntMap"
           /\ ExtensionFromCBOR(ExtensionToCBOR(e)) =
                 [Type |-> e.Type, Data |-> e.Data, Critical |-> e.Critical]
<1> DEFINE
      m1 == 1 :> U(e.Type)
      m2 == m1 @@ (2 :> B(e.Data))
      m3 == m2 @@ (3 :> Bool(e.Critical))
<1>1. Kind(ExtensionToCBOR(e)) = "IntMap" /\ Content(ExtensionToCBOR(e)) = m3
  BY DEF ExtensionToCBOR, IMap, Kind, Content
<1>2. DOMAIN m1 = {1} /\ m1[1] = U(e.Type)
  BY DEF :>
<1> HIDE DEF m1
<1>3. /\ DOMAIN m2 = DOMAIN m1 \cup {2} /\ m2[2] = B(e.Data)
      /\ \A x \in DOMAIN m1 : m2[x] = m1[x]
  <2>1. 2 \notin DOMAIN m1
    BY <1>2
  <2> QED
    BY <2>1 DEF @@, :>
<1> HIDE DEF m2
<1>4. /\ DOMAIN m3 = DOMAIN m2 \cup {3} /\ m3[3] = Bool(e.Critical)
      /\ \A x \in DOMAIN m2 : m3[x] = m2[x]
  <2>1. 3 \notin DOMAIN m2
    BY <1>2, <1>3
  <2> QED
    BY <2>1 DEF @@, :>
<1> HIDE DEF m3
<1>5. /\ 1 \in DOMAIN m3 /\ 2 \in DOMAIN m3 /\ 3 \in DOMAIN m3
      /\ m3[1] = U(e.Type) /\ m3[2] = B(e.Data) /\ m3[3] = Bool(e.Critical)
  BY <1>2, <1>3, <1>4
<1>6. /\ Has(m3, 1, "Unsigned") /\ Content(m3[1]) = e.Type
      /\ Has(m3, 2, "ByteString") /\ Content(m3[2]) = e.Data
      /\ Has(m3, 3, "Bool") /\ Content(m3[3]) = e.Critical
  BY <1>5 DEF U, B, Bool, Has, Kind, Content
<1>7. /\ Field(m3, 1, "Unsigned", 0) = e.Type /\ Field(m3, 2, "ByteString", Empty) = e.Data
      /\ Field(m3, 3, "Bool", FALSE) = e.Critical
  BY <1>6, Zenon DEF Field
<1>8. ExtensionFromCBOR(ExtensionToCBOR(e)) =
          [Type |-> Field(m3, 1, "Unsigned", 0), Data |-> Field(m3, 2, "ByteString", Empty),
           Critical |-> Field(m3, 3, "Bool", FALSE)]
  BY <1>1, Zenon DEF ExtensionFromCBOR
<1> QED
  BY <1>1, <1>7, <1>8, Zenon

\* So are all of them, and two lists with one encoding are one.
LEMMA ExtensionsRoundTrip ==
    ASSUME NEW exts, ExtensionEntries(exts)
    PROVE  LET items == Content(ExtensionsToCBOR(exts)) IN
           /\ ExtensionsToCBOR(exts) = Arr(items) /\ DOMAIN items = DOMAIN exts
           /\ \A i \in DOMAIN items : Kind(items[i]) = "IntMap"
           /\ [i \in DOMAIN items |-> ExtensionFromCBOR(items[i])] = exts
<1> DEFINE items == [i \in DOMAIN exts |-> ExtensionToCBOR(exts[i])]
<1>1. ExtensionsToCBOR(exts) = Arr(items) /\ Content(ExtensionsToCBOR(exts)) = items
  BY DEF ExtensionsToCBOR, Arr, Content
<1>2. DOMAIN items = DOMAIN exts /\ \A i \in DOMAIN items : items[i] = ExtensionToCBOR(exts[i])
  OBVIOUS
<1> HIDE DEF items
<1>3. \A i \in DOMAIN items :
          /\ Kind(items[i]) = "IntMap"
          /\ ExtensionFromCBOR(items[i]) =
                [Type |-> exts[i].Type, Data |-> exts[i].Data, Critical |-> exts[i].Critical]
  BY <1>2, ExtensionRoundTrip
<1>4. [i \in DOMAIN items |-> ExtensionFromCBOR(items[i])] =
          [i \in DOMAIN exts |-> [Type |-> exts[i].Type, Data |-> exts[i].Data,
                                  Critical |-> exts[i].Critical]]
  BY <1>2, <1>3
<1> QED
  BY <1>1, <1>2, <1>3, <1>4 DEF ExtensionEntries

\* Two hellos with the same content, but for signature and MAC
Alike(a, b) ==
    /\ a.ProtocolVersion = b.ProtocolVersion /\ a.AgentId = b.AgentId
    /\ a.PublicKey = b.PublicKey /\ a.Nonce.bytes = b.Nonce.bytes
    /\ a.Capabilities = b.Capabilities /\ a.Extensions = b.Extensions
    /\ a.ExpiresAt = b.ExpiresAt /\ a.KeyAlgorithm = b.KeyAlgorithm

\* Keys 1 to 6 tell the first six fields.
LEMMA HelloFieldsTell ==
    ASSUME NEW a, NEW b, ExtensionEntries(a.Extensions), ExtensionEntries(b.Extensions),
           \A x \in 1..6 : HelloFields(a)[x] = HelloFields(b)[x]
    PROVE  /\ a.ProtocolVersion = b.ProtocolVersion /\ a.AgentId = b.AgentId
           /\ a.PublicKey = b.PublicKey /\ a.Nonce.bytes = b.Nonce.bytes
           /\ a.Capabilities = b.Capabilities /\ a.Extensions = b.Extensions
<1>1. /\ HelloFields(a)[1] = HelloFields(b)[1] /\ HelloFields(a)[2] = HelloFields(b)[2]
      /\ HelloFields(a)[3] = HelloFields(b)[3] /\ HelloFields(a)[4] = HelloFields(b)[4]
      /\ HelloFields(a)[5] = HelloFields(b)[5] /\ HelloFields(a)[6] = HelloFields(b)[6]
  OBVIOUS
<1>2. /\ U(a.ProtocolVersion) = U(b.ProtocolVersion) /\ B(a.AgentId) = B(b.AgentId)
      /\ B(a.PublicKey) = B(b.PublicKey) /\ B(a.Nonce.bytes) = B(b.Nonce.bytes)
      /\ Arr(a.Capabilities) = Arr(b.Capabilities)
      /\ ExtensionsToCBOR(a.Extensions) = ExtensionsToCBOR(b.Extensions)
  BY <1>1, HelloFieldsAre
<1>3. /\ a.ProtocolVersion = b.ProtocolVersion /\ a.AgentId = b.AgentId
      /\ a.PublicKey = b.PublicKey /\ a.Nonce.bytes = b.Nonce.bytes
      /\ a.Capabilities = b.Capabilities
  BY <1>2 DEF U, B, Arr
<1>4. a.Extensions = b.Extensions
  <2> DEFINE Decoded(v) == [i \in DOMAIN Content(v) |-> ExtensionFromCBOR(Content(v)[i])]
  <2>1. /\ Decoded(ExtensionsToCBOR(a.Extensions)) = a.Extensions
        /\ Decoded(ExtensionsToCBOR(b.Extensions)) = b.Extensions
    BY ExtensionsRoundTrip
  <2> HIDE DEF Decoded
  <2> QED
    BY <1>2, <2>1
<1> QED
  BY <1>3, <1>4

\* A ClientHello is told by what the transcript has of it.
LEMMA ClientHelloTold ==
    ASSUME NEW a, NEW b, ExtensionEntries(a.Extensions), ExtensionEntries(b.Extensions),
           ToCBORWithoutSigAndMac(a) = ToCBORWithoutSigAndMac(b)
    PROVE  Alike(a, b)
<1> DEFINE m == Content(ToCBORWithoutSigAndMac(a))
<1>1. /\ \A x \in 1..6 : m[x] = HelloFields(a)[x]
      /\ m[8] = U(a.ExpiresAt) /\ m[10] = U(a.KeyAlgorithm)
  BY ClientHelloHashed
<1>2. /\ \A x \in 1..6 : m[x] = HelloFields(b)[x]
      /\ m[8] = U(b.ExpiresAt) /\ m[10] = U(b.KeyAlgorithm)
  <2>1. m = Content(ToCBORWithoutSigAndMac(b))
    OBVIOUS
  <2> HIDE DEF m
  <2> QED
    BY <2>1, ClientHelloHashed
<1> HIDE DEF m
<1>3. a.ExpiresAt = b.ExpiresAt /\ a.KeyAlgorithm = b.KeyAlgorithm
  BY <1>1, <1>2 DEF U
<1>4. \A x \in 1..6 : HelloFields(a)[x] = HelloFields(b)[x]
  BY <1>1, <1>2
<1> QED
  BY <1>3, <1>4, HelloFieldsTell DEF Alike

\* So is a ServerHello.
LEMMA ServerHelloTold ==
    ASSUME NEW a, NEW b, ExtensionEntries(a.Extensions), ExtensionEntries(b.Extensions),
           ServerHelloToCBORWithoutSig(a) = ServerHelloToCBORWithoutSig(b)
    PROVE  Alike(a, b) /\ a.SessionId = b.SessionId
<1> DEFINE m == Content(ServerHelloToCBORWithoutSig(a))
<1>1. /\ \A x \in 1..6 : m[x] = HelloFields(a)[x]
      /\ m[7] = B(a.SessionId) /\ m[9] = U(a.ExpiresAt) /\ m[10] = U(a.KeyAlgorithm)
  BY ServerHelloHashed
<1>2. /\ \A x \in 1..6 : m[x] = HelloFields(b)[x]
      /\ m[7] = B(b.SessionId) /\ m[9] = U(b.ExpiresAt) /\ m[10] = U(b.KeyAlgorithm)
  <2>1. m = Content(ServerHelloToCBORWithoutSig(b))
    OBVIOUS
  <2> HIDE DEF m
  <2> QED
    BY <2>1, ServerHelloHashed
<1> HIDE DEF m
<1>3. /\ a.ExpiresAt = b.ExpiresAt /\ a.KeyAlgorithm = b.KeyAlgorithm
      /\ a.SessionId = b.SessionId
  BY <1>1, <1>2 DEF U, B
<1>4. \A x \in 1..6 : HelloFields(a)[x] = HelloFields(b)[x]
  BY <1>1, <1>2
<1> QED
  BY <1>3, <1>4, HelloFieldsTell DEF Alike

\* And the other way round.
LEMMA AlikeHashed ==
    ASSUME NEW a, NEW b, Alike(a, b)
    PROVE  /\ HelloFields(a) = HelloFields(b)
           /\ ToCBORWithoutSigAndMac(a) = ToCBORWithoutSigAndMac(b)
           /\ a.SessionId = b.SessionId =>
                 ServerHelloToCBORWithoutSig(a) = ServerHelloToCBORWithoutSig(b)
<1>1. HelloFields(a) = HelloFields(b)
  BY DEF Alike, HelloFields
<1> QED
  BY <1>1 DEF Alike, ToCBORWithoutSigAndMac, ServerHelloToCBORWithoutSig

\* What an end knows of two such hellos is the same.
LEMMA AlikeKnown ==
    ASSUME NEW a, NEW b, NEW extra, Alike(a, b),
           DOMAIN a = FieldsOfBoth \cup {extra}, DOMAIN b = FieldsOfBoth \cup {extra},
           extra \in {"ReceiverMac", "SessionId"}, extra = "SessionId" => a.SessionId = b.SessionId
    PROVE  Known(a) = Known(b)
<1> DEFINE D == (FieldsOfBoth \cup {extra}) \ {"Signature", "ReceiverMac"}
<1>1. \A f \in D : f # "Nonce" => a[f] = b[f]
  BY DEF Alike, FieldsOfBoth
<1>2. a.Nonce.bytes = b.Nonce.bytes
  BY DEF Alike
<1>3. /\ Known(a) = [f \in D |-> IF f = "Nonce" THEN a.Nonce.bytes ELSE a[f]]
      /\ Known(b) = [f \in D |-> IF f = "Nonce" THEN b.Nonce.bytes ELSE b[f]]
  BY DEF Known
<1> HIDE DEF D
<1> QED
  BY <1>1, <1>2, <1>3

\* Whatever bytes it gets, the decoder fills in all fields of a ClientHello, and
\* its nonce is an array of its own (handshake.go:123-172).
LEMMA ClientHelloDecoded ==
    ASSUME NEW v
    PROVE  LET h == ClientHelloFromCBOR(v)
               m == Content(v)
           IN  /\ DOMAIN h = FieldsOfBoth \cup {"ReceiverMac"}
               /\ ExtensionEntries(h.Extensions) /\ ~h.Nonce.spare
               /\ h.ProtocolVersion = Field(m, 1, "Unsigned", 0)
               /\ h.AgentId = Field(m, 2, "ByteString", Empty)
               /\ h.PublicKey = Field(m, 3, "ByteString", Empty)
               /\ h.Nonce.bytes = Field(m, 4, "ByteString", Empty)
               /\ h.Capabilities = Field(m, 5, "Array", <<>>)
               /\ h.Extensions = [i \in DOMAIN Field(m, 6, "Array", <<>>) |->
                                     ExtensionFromCBOR(Field(m, 6, "Array", <<>>)[i])]
               /\ h.Signature = Field(m, 7, "ByteString", Empty)
               /\ h.ExpiresAt = Field(m, 8, "Unsigned", 0)
               /\ h.ReceiverMac = Field(m, 9, "ByteString", Nil)
               /\ h.KeyAlgorithm = Field(m, 10, "Unsigned", 0)
<1> DEFINE
      m == Content(v)
      first == HelloFromFields(m)
      rest == [Signature   |-> Field(m, 7, "ByteString", Empty),
               ExpiresAt   |-> Field(m, 8, "Unsigned", 0),
               ReceiverMac |-> Field(m, 9, "ByteString", Nil)]
      h == first @@ rest
<1>1. ClientHelloFromCBOR(v) = h
  BY DEF ClientHelloFromCBOR
<1>2. DOMAIN first = {"ProtocolVersion", "AgentId", "PublicKey", "Nonce", "Capabilities",
                      "Extensions", "KeyAlgorithm"}
  BY DEF HelloFromFields
<1>3. DOMAIN rest = {"Signature", "ExpiresAt", "ReceiverMac"}
  OBVIOUS
<1>4. /\ rest.Signature = Field(m, 7, "ByteString", Empty)
      /\ rest.ExpiresAt = Field(m, 8, "Unsigned", 0)
      /\ rest.ReceiverMac = Field(m, 9, "ByteString", Nil)
  OBVIOUS
<1> HIDE DEF first, rest
<1>5. /\ DOMAIN h = DOMAIN first \cup DOMAIN rest
      /\ \A f \in DOMAIN first : h[f] = first[f]
      /\ \A f \in DOMAIN rest \ DOMAIN first : h[f] = rest[f]
  BY DEF @@
<1> HIDE DEF h
<1>6. DOMAIN h = FieldsOfBoth \cup {"ReceiverMac"}
  BY <1>2, <1>3, <1>5 DEF FieldsOfBoth
<1>7. /\ h.Signature = rest.Signature /\ h.ExpiresAt = rest.ExpiresAt
      /\ h.ReceiverMac = rest.ReceiverMac
  BY <1>2, <1>3, <1>5
<1>8. /\ h.ProtocolVersion = first.ProtocolVersion /\ h.AgentId = first.AgentId
      /\ h.PublicKey = first.PublicKey /\ h.Nonce = first.Nonce
      /\ h.Capabilities = first.Capabilities /\ h.Extensions = first.Extensions
      /\ h.KeyAlgorithm = first.KeyAlgorithm
  BY <1>2, <1>5
<1> DEFINE exts == Field(m, 6, "Array", <<>>)
<1>9. /\ first.ProtocolVersion = Field(m, 1, "Unsigned", 0)
      /\ first.AgentId = Field(m, 2, "ByteString", Empty)
      /\ first.PublicKey = Field(m, 3, "ByteString", Empty)
      /\ first.Nonce = [bytes |-> Field(m, 4, "ByteString", Empty), spare |-> FALSE]
      /\ first.Capabilities = Field(m, 5, "Array", <<>>)
      /\ first.Extensions = [i \in DOMAIN exts |-> ExtensionFromCBOR(exts[i])]
      /\ first.KeyAlgorithm = Field(m, 10, "Unsigned", 0)
  BY DEF first, HelloFromFields, decodeBytes
<1>10. ExtensionEntries([i \in DOMAIN exts |-> ExtensionFromCBOR(exts[i])])
  <2> HIDE DEF exts
  <2> QED
    BY DEF ExtensionEntries, ExtensionFromCBOR
<1>11. h.Nonce.bytes = Field(m, 4, "ByteString", Empty) /\ ~h.Nonce.spare
  BY <1>8, <1>9
<1> QED
  BY <1>1, <1>4, <1>6, <1>7, <1>8, <1>9, <1>10, <1>11

\* So does the decoder of a ServerHello.
LEMMA ServerHelloDecoded ==
    ASSUME NEW v
    PROVE  LET h == ServerHelloFromCBOR(v)
               m == Content(v)
           IN  /\ DOMAIN h = FieldsOfBoth \cup {"SessionId"}
               /\ ExtensionEntries(h.Extensions) /\ ~h.Nonce.spare
               /\ h.ProtocolVersion = Field(m, 1, "Unsigned", 0)
               /\ h.AgentId = Field(m, 2, "ByteString", Empty)
               /\ h.PublicKey = Field(m, 3, "ByteString", Empty)
               /\ h.Nonce.bytes = Field(m, 4, "ByteString", Empty)
               /\ h.Capabilities = Field(m, 5, "Array", <<>>)
               /\ h.Extensions = [i \in DOMAIN Field(m, 6, "Array", <<>>) |->
                                     ExtensionFromCBOR(Field(m, 6, "Array", <<>>)[i])]
               /\ h.SessionId = Field(m, 7, "ByteString", Empty)
               /\ h.Signature = Field(m, 8, "ByteString", Empty)
               /\ h.ExpiresAt = Field(m, 9, "Unsigned", 0)
               /\ h.KeyAlgorithm = Field(m, 10, "Unsigned", 0)
<1> DEFINE
      m == Content(v)
      first == HelloFromFields(m)
      rest == [SessionId |-> Field(m, 7, "ByteString", Empty),
               Signature |-> Field(m, 8, "ByteString", Empty),
               ExpiresAt |-> Field(m, 9, "Unsigned", 0)]
      h == first @@ rest
<1>1. ServerHelloFromCBOR(v) = h
  BY DEF ServerHelloFromCBOR
<1>2. DOMAIN first = {"ProtocolVersion", "AgentId", "PublicKey", "Nonce", "Capabilities",
                      "Extensions", "KeyAlgorithm"}
  BY DEF HelloFromFields
<1>3. DOMAIN rest = {"Signature", "ExpiresAt", "SessionId"}
  OBVIOUS
<1>4. /\ rest.SessionId = Field(m, 7, "ByteString", Empty)
      /\ rest.Signature = Field(m, 8, "ByteString", Empty)
      /\ rest.ExpiresAt = Field(m, 9, "Unsigned", 0)
  OBVIOUS
<1> HIDE DEF first, rest
<1>5. /\ DOMAIN h = DOMAIN first \cup DOMAIN rest
      /\ \A f \in DOMAIN first : h[f] = first[f]
      /\ \A f \in DOMAIN rest \ DOMAIN first : h[f] = rest[f]
  BY DEF @@
<1> HIDE DEF h
<1>6. DOMAIN h = FieldsOfBoth \cup {"SessionId"}
  BY <1>2, <1>3, <1>5 DEF FieldsOfBoth
<1>7. /\ h.Signature = rest.Signature /\ h.ExpiresAt = rest.ExpiresAt
      /\ h.SessionId = rest.SessionId
  BY <1>2, <1>3, <1>5
<1>8. /\ h.ProtocolVersion = first.ProtocolVersion /\ h.AgentId = first.AgentId
      /\ h.PublicKey = first.PublicKey /\ h.Nonce = first.Nonce
      /\ h.Capabilities = first.Capabilities /\ h.Extensions = first.Extensions
      /\ h.KeyAlgorithm = first.KeyAlgorithm
  BY <1>2, <1>5
<1> DEFINE exts == Field(m, 6, "Array", <<>>)
<1>9. /\ first.ProtocolVersion = Field(m, 1, "Unsigned", 0)
      /\ first.AgentId = Field(m, 2, "ByteString", Empty)
      /\ first.PublicKey = Field(m, 3, "ByteString", Empty)
      /\ first.Nonce = [bytes |-> Field(m, 4, "ByteString", Empty), spare |-> FALSE]
      /\ first.Capabilities = Field(m, 5, "Array", <<>>)
      /\ first.Extensions = [i \in DOMAIN exts |-> ExtensionFromCBOR(exts[i])]
      /\ first.KeyAlgorithm = Field(m, 10, "Unsigned", 0)
  BY DEF first, HelloFromFields, decodeBytes
<1>10. ExtensionEntries([i \in DOMAIN exts |-> ExtensionFromCBOR(exts[i])])
  <2> HIDE DEF exts
  <2> QED
    BY DEF ExtensionEntries, ExtensionFromCBOR
<1>11. h.Nonce.bytes = Field(m, 4, "ByteString", Empty) /\ ~h.Nonce.spare
  BY <1>8, <1>9
<1> QED
  BY <1>1, <1>4, <1>6, <1>7, <1>8, <1>9, <1>10, <1>11

\* A ClientHello as it is sent (handshake.go:99-120)
LEMMA ClientHelloEncoded ==
    ASSUME NEW h
    PROVE  LET v == ClientHelloToCBOR(h)
               m == Content(v)
           IN  /\ v = IMap(m) /\ Kind(v) = "IntMap"
               /\ DOMAIN m = (1..6) \cup {7, 8, 10} \cup (IF h.ReceiverMac = Nil THEN {} ELSE {9})
               /\ \A x \in 1..6 : m[x] = HelloFields(h)[x]
               /\ m[7] = B(h.Signature) /\ m[8] = U(h.ExpiresAt) /\ m[10] = U(h.KeyAlgorithm)
               /\ h.ReceiverMac # Nil => m[9] = B(h.ReceiverMac)
<1> DEFINE
      m6 == HelloFields(h)
      m7 == m6 @@ (7 :> B(h.Signature))
      m8 == m7 @@ (8 :> U(h.ExpiresAt))
      m10 == m8 @@ (10 :> U(h.KeyAlgorithm))
      last == IF h.ReceiverMac = Nil THEN <<>> ELSE (9 :> B(h.ReceiverMac))
      m == m10 @@ last
<1>1. /\ ClientHelloToCBOR(h) = IMap(m) /\ Content(ClientHelloToCBOR(h)) = m
      /\ Kind(ClientHelloToCBOR(h)) = "IntMap"
  BY DEF ClientHelloToCBOR, IMap, Content, Kind
<1>2. DOMAIN m6 = 1..6
  BY HelloFieldsAre
<1> HIDE DEF m6
<1>3. /\ DOMAIN m7 = DOMAIN m6 \cup {7} /\ m7[7] = B(h.Signature)
      /\ \A x \in DOMAIN m6 : m7[x] = m6[x]
  <2>1. 7 \notin DOMAIN m6
    BY <1>2
  <2> QED
    BY <2>1 DEF @@, :>
<1> HIDE DEF m7
<1>4. /\ DOMAIN m8 = DOMAIN m7 \cup {8} /\ m8[8] = U(h.ExpiresAt)
      /\ \A x \in DOMAIN m7 : m8[x] = m7[x]
  <2>1. 8 \notin DOMAIN m7
    BY <1>2, <1>3
  <2> QED
    BY <2>1 DEF @@, :>
<1> HIDE DEF m8
<1>5. /\ DOMAIN m10 = DOMAIN m8 \cup {10} /\ m10[10] = U(h.KeyAlgorithm)
      /\ \A x \in DOMAIN m8 : m10[x] = m8[x]
  <2>1. 10 \notin DOMAIN m8
    BY <1>2, <1>3, <1>4
  <2> QED
    BY <2>1 DEF @@, :>
<1> HIDE DEF m10
<1>6. /\ DOMAIN m10 = (1..6) \cup {7, 8, 10}
      /\ \A x \in 1..6 : m10[x] = m6[x]
      /\ m10[7] = B(h.Signature) /\ m10[8] = U(h.ExpiresAt) /\ m10[10] = U(h.KeyAlgorithm)
  BY <1>2, <1>3, <1>4, <1>5
<1>7. CASE h.ReceiverMac = Nil
  <2>1. last = <<>> /\ DOMAIN last = {}
    BY <1>7
  <2> HIDE DEF last
  <2>2. DOMAIN m = DOMAIN m10 /\ \A x \in DOMAIN m10 : m[x] = m10[x]
    BY <2>1 DEF @@
  <2> HIDE DEF m
  <2>3. /\ DOMAIN m = (1..6) \cup {7, 8, 10}
        /\ \A x \in 1..6 : m[x] = m6[x]
        /\ m[7] = B(h.Signature) /\ m[8] = U(h.ExpiresAt) /\ m[10] = U(h.KeyAlgorithm)
    BY <1>6, <2>2
  <2> QED
    BY <1>1, <1>7, <2>3 DEF m6
<1>8. CASE h.ReceiverMac # Nil
  <2>1. last = 9 :> B(h.ReceiverMac)
    BY <1>8
  <2> HIDE DEF last
  <2>2. 9 \notin DOMAIN m10
    BY <1>6
  <2>3. /\ DOMAIN m = DOMAIN m10 \cup {9} /\ m[9] = B(h.ReceiverMac)
        /\ \A x \in DOMAIN m10 : m[x] = m10[x]
    BY <2>1, <2>2 DEF @@, :>
  <2> HIDE DEF m
  <2>4. /\ DOMAIN m = (1..6) \cup {7, 8, 10} \cup {9}
        /\ \A x \in 1..6 : m[x] = m6[x]
        /\ m[7] = B(h.Signature) /\ m[8] = U(h.ExpiresAt) /\ m[10] = U(h.KeyAlgorithm)
    BY <1>6, <2>3
  <2> QED
    BY <1>1, <1>8, <2>3, <2>4 DEF m6
<1> QED
  BY <1>7, <1>8

\* A ServerHello as it is sent (handshake.go:210-216)
LEMMA ServerHelloEncoded ==
    ASSUME NEW h
    PROVE  LET v == ServerHelloToCBOR(h)
               m == Content(v)
           IN  /\ v = IMap(m) /\ Kind(v) = "IntMap"
               /\ DOMAIN m = (1..6) \cup {7, 8, 9, 10}
               /\ \A x \in 1..6 : m[x] = HelloFields(h)[x]
               /\ m[7] = B(h.SessionId) /\ m[8] = B(h.Signature)
               /\ m[9] = U(h.ExpiresAt) /\ m[10] = U(h.KeyAlgorithm)
<1> DEFINE
      w == Content(ServerHelloToCBORWithoutSig(h))
      m == w @@ (8 :> B(h.Signature))
<1>1. /\ ServerHelloToCBOR(h) = IMap(m) /\ Content(ServerHelloToCBOR(h)) = m
      /\ Kind(ServerHelloToCBOR(h)) = "IntMap"
  BY DEF ServerHelloToCBOR, IMap, Content, Kind
<1>2. /\ DOMAIN w = (1..6) \cup {7, 9, 10}
      /\ \A x \in 1..6 : w[x] = HelloFields(h)[x]
      /\ w[7] = B(h.SessionId) /\ w[9] = U(h.ExpiresAt) /\ w[10] = U(h.KeyAlgorithm)
  BY ServerHelloHashed
<1> HIDE DEF w
<1>3. /\ DOMAIN m = DOMAIN w \cup {8} /\ m[8] = B(h.Signature)
      /\ \A x \in DOMAIN w : m[x] = w[x]
  <2>1. 8 \notin DOMAIN w
    BY <1>2
  <2> QED
    BY <2>1 DEF @@, :>
<1> HIDE DEF m
<1>4. /\ DOMAIN m = (1..6) \cup {7, 8, 9, 10}
      /\ \A x \in 1..6 : m[x] = HelloFields(h)[x]
      /\ m[7] = B(h.SessionId) /\ m[8] = B(h.Signature)
      /\ m[9] = U(h.ExpiresAt) /\ m[10] = U(h.KeyAlgorithm)
  BY <1>2, <1>3
<1> QED
  BY <1>1, <1>4

\* A ClientFinished as it is sent (handshake.go:232-237)
LEMMA ClientFinishedEncoded ==
    ASSUME NEW cf
    PROVE  LET v == ClientFinishedToCBOR(cf)
               m == Content(v)
           IN  /\ v = IMap(m) /\ Kind(v) = "IntMap"
               /\ DOMAIN m = {1, 2}
               /\ m[1] = B(cf.SessionId) /\ m[2] = B(cf.Signature)
<1> DEFINE
      m1 == 1 :> B(cf.SessionId)
      m == m1 @@ (2 :> B(cf.Signature))
<1>1. /\ ClientFinishedToCBOR(cf) = IMap(m) /\ Content(ClientFinishedToCBOR(cf)) = m
      /\ Kind(ClientFinishedToCBOR(cf)) = "IntMap"
  BY DEF ClientFinishedToCBOR, IMap, Content, Kind
<1>2. DOMAIN m1 = {1} /\ m1[1] = B(cf.SessionId)
  BY DEF :>
<1> HIDE DEF m1
<1>3. /\ DOMAIN m = DOMAIN m1 \cup {2} /\ m[2] = B(cf.Signature)
      /\ \A x \in DOMAIN m1 : m[x] = m1[x]
  <2>1. 2 \notin DOMAIN m1
    BY <1>2
  <2> QED
    BY <2>1 DEF @@, :>
<1> HIDE DEF m
<1> QED
  BY <1>1, <1>2, <1>3

\* Keys 1 to 6 are decoded to what was encoded.
LEMMA HelloFieldsDecoded ==
    ASSUME NEW h, ExtensionEntries(h.Extensions), NEW m, 1..6 \subseteq DOMAIN m,
           \A x \in 1..6 : m[x] = HelloFields(h)[x]
    PROVE  /\ Field(m, 1, "Unsigned", 0) = h.ProtocolVersion
           /\ Field(m, 2, "ByteString", Empty) = h.AgentId
           /\ Field(m, 3, "ByteString", Empty) = h.PublicKey
           /\ Field(m, 4, "ByteString", Empty) = h.Nonce.bytes
           /\ Field(m, 5, "Array", <<>>) = h.Capabilities
           /\ [i \in DOMAIN Field(m, 6, "Array", <<>>) |->
                  ExtensionFromCBOR(Field(m, 6, "Array", <<>>)[i])] = h.Extensions
           /\ ExtensionsDecode(m)
<1> DEFINE items == Content(ExtensionsToCBOR(h.Extensions))
<1>1. /\ 1 \in DOMAIN m /\ 2 \in DOMAIN m /\ 3 \in DOMAIN m
      /\ 4 \in DOMAIN m /\ 5 \in DOMAIN m /\ 6 \in DOMAIN m
  OBVIOUS
<1>2. /\ m[1] = HelloFields(h)[1] /\ m[2] = HelloFields(h)[2] /\ m[3] = HelloFields(h)[3]
      /\ m[4] = HelloFields(h)[4] /\ m[5] = HelloFields(h)[5] /\ m[6] = HelloFields(h)[6]
  OBVIOUS
<1>3. /\ ExtensionsToCBOR(h.Extensions) = Arr(items)
      /\ \A i \in DOMAIN items : Kind(items[i]) = "IntMap"
      /\ [i \in DOMAIN items |-> ExtensionFromCBOR(items[i])] = h.Extensions
  BY ExtensionsRoundTrip
<1> HIDE DEF items
<1>4. /\ m[1] = U(h.ProtocolVersion) /\ m[2] = B(h.AgentId) /\ m[3] = B(h.PublicKey)
      /\ m[4] = B(h.Nonce.bytes) /\ m[5] = Arr(h.Capabilities) /\ m[6] = Arr(items)
  BY <1>2, <1>3, HelloFieldsAre
<1>5. /\ Has(m, 1, "Unsigned") /\ Content(m[1]) = h.ProtocolVersion
      /\ Has(m, 2, "ByteString") /\ Content(m[2]) = h.AgentId
      /\ Has(m, 3, "ByteString") /\ Content(m[3]) = h.PublicKey
      /\ Has(m, 4, "ByteString") /\ Content(m[4]) = h.Nonce.bytes
      /\ Has(m, 5, "Array") /\ Content(m[5]) = h.Capabilities
      /\ Has(m, 6, "Array") /\ Content(m[6]) = items
  BY <1>1, <1>4 DEF U, B, Arr, Has, Kind, Content
<1>6. /\ Field(m, 1, "Unsigned", 0) = h.ProtocolVersion
      /\ Field(m, 2, "ByteString", Empty) = h.AgentId
      /\ Field(m, 3, "ByteString", Empty) = h.PublicKey
      /\ Field(m, 4, "ByteString", Empty) = h.Nonce.bytes
      /\ Field(m, 5, "Array", <<>>) = h.Capabilities
      /\ Field(m, 6, "Array", <<>>) = items
  BY <1>5, Zenon DEF Field
<1>7. ExtensionsDecode(m)
  BY <1>3, <1>5 DEF ExtensionsDecode
<1> QED
  BY <1>3, <1>6, <1>7, Zenon

\* A ClientHello is decoded to what was encoded, with and without a MAC.
LEMMA ClientHelloRoundTrip ==
    ASSUME NEW h, ExtensionEntries(h.Extensions)
    PROVE  LET v == ClientHelloToCBOR(h)
               d == ClientHelloFromCBOR(v)
           IN  /\ ClientHelloDecodes(v) /\ Alike(d, h)
               /\ d.Signature = h.Signature /\ d.ReceiverMac = h.ReceiverMac
<1> DEFINE
      v == ClientHelloToCBOR(h)
      m == Content(v)
      d == ClientHelloFromCBOR(v)
<1>1. /\ Kind(v) = "IntMap"
      /\ DOMAIN m = (1..6) \cup {7, 8, 10} \cup (IF h.ReceiverMac = Nil THEN {} ELSE {9})
      /\ \A x \in 1..6 : m[x] = HelloFields(h)[x]
      /\ m[7] = B(h.Signature) /\ m[8] = U(h.ExpiresAt) /\ m[10] = U(h.KeyAlgorithm)
      /\ h.ReceiverMac # Nil => m[9] = B(h.ReceiverMac)
  BY ClientHelloEncoded
<1>2. /\ d.ProtocolVersion = Field(m, 1, "Unsigned", 0)
      /\ d.AgentId = Field(m, 2, "ByteString", Empty)
      /\ d.PublicKey = Field(m, 3, "ByteString", Empty)
      /\ d.Nonce.bytes = Field(m, 4, "ByteString", Empty)
      /\ d.Capabilities = Field(m, 5, "Array", <<>>)
      /\ d.Extensions = [i \in DOMAIN Field(m, 6, "Array", <<>>) |->
                            ExtensionFromCBOR(Field(m, 6, "Array", <<>>)[i])]
      /\ d.Signature = Field(m, 7, "ByteString", Empty)
      /\ d.ExpiresAt = Field(m, 8, "Unsigned", 0)
      /\ d.ReceiverMac = Field(m, 9, "ByteString", Nil)
      /\ d.KeyAlgorithm = Field(m, 10, "Unsigned", 0)
  BY ClientHelloDecoded, Zenon
<1>3. 1..6 \subseteq DOMAIN m /\ 7 \in DOMAIN m /\ 8 \in DOMAIN m /\ 10 \in DOMAIN m
  <2> HIDE DEF m
  <2> QED
    BY <1>1
<1>4. 9 \in DOMAIN m <=> h.ReceiverMac # Nil
  <2> HIDE DEF m
  <2> QED
    BY <1>1
<1>5. ClientHelloDecodes(v) <=>
          /\ Kind(v) = "IntMap" /\ ExtensionsDecode(m)
          /\ 9 \in DOMAIN m => Has(m, 9, "ByteString")
  BY DEF ClientHelloDecodes
<1> HIDE DEF v, m, d
<1>6. /\ Field(m, 7, "ByteString", Empty) = h.Signature
      /\ Field(m, 8, "Unsigned", 0) = h.ExpiresAt
      /\ Field(m, 10, "Unsigned", 0) = h.KeyAlgorithm
  <2>1. /\ Has(m, 7, "ByteString") /\ Content(m[7]) = h.Signature
        /\ Has(m, 8, "Unsigned") /\ Content(m[8]) = h.ExpiresAt
        /\ Has(m, 10, "Unsigned") /\ Content(m[10]) = h.KeyAlgorithm
    BY <1>1, <1>3 DEF B, U, Has, Kind, Content
  <2> QED
    BY <2>1, Zenon DEF Field
<1>7. Field(m, 9, "ByteString", Nil) = h.ReceiverMac /\ (9 \in DOMAIN m => Has(m, 9, "ByteString"))
  <2>1. CASE h.ReceiverMac = Nil
    BY <1>4, <2>1 DEF Field, Has
  <2>2. CASE h.ReceiverMac # Nil
    <3>1. Has(m, 9, "ByteString") /\ Content(m[9]) = h.ReceiverMac
      BY <1>1, <1>4, <2>2 DEF B, Has, Kind, Content
    <3> QED
      BY <3>1, Zenon DEF Field
  <2> QED
    BY <2>1, <2>2
<1>8. /\ Field(m, 1, "Unsigned", 0) = h.ProtocolVersion
      /\ Field(m, 2, "ByteString", Empty) = h.AgentId
      /\ Field(m, 3, "ByteString", Empty) = h.PublicKey
      /\ Field(m, 4, "ByteString", Empty) = h.Nonce.bytes
      /\ Field(m, 5, "Array", <<>>) = h.Capabilities
      /\ [i \in DOMAIN Field(m, 6, "Array", <<>>) |->
             ExtensionFromCBOR(Field(m, 6, "Array", <<>>)[i])] = h.Extensions
      /\ ExtensionsDecode(m)
  <2>1. \A x \in 1..6 : m[x] = HelloFields(h)[x]
    BY <1>1
  <2> QED
    BY <1>3, <2>1, HelloFieldsDecoded, Zenon
<1>9. Alike(d, h) /\ d.Signature = h.Signature /\ d.ReceiverMac = h.ReceiverMac
  BY <1>2, <1>6, <1>7, <1>8, Zenon DEF Alike
<1>10. ClientHelloDecodes(v)
  BY <1>1, <1>5, <1>7, <1>8, Zenon
<1> QED
  BY <1>9, <1>10 DEF v, d

\* So is a ServerHello.
LEMMA ServerHelloRoundTrip ==
    ASSUME NEW h, ExtensionEntries(h.Extensions)
    PROVE  LET v == ServerHelloToCBOR(h)
               d == ServerHelloFromCBOR(v)
           IN  /\ ServerHelloDecodes(v) /\ Alike(d, h)
               /\ d.Signature = h.Signature /\ d.SessionId = h.SessionId
<1> DEFINE
      v == ServerHelloToCBOR(h)
      m == Content(v)
      d == ServerHelloFromCBOR(v)
<1>1. /\ Kind(v) = "IntMap"
      /\ DOMAIN m = (1..6) \cup {7, 8, 9, 10}
      /\ \A x \in 1..6 : m[x] = HelloFields(h)[x]
      /\ m[7] = B(h.SessionId) /\ m[8] = B(h.Signature)
      /\ m[9] = U(h.ExpiresAt) /\ m[10] = U(h.KeyAlgorithm)
  BY ServerHelloEncoded
<1>2. /\ d.ProtocolVersion = Field(m, 1, "Unsigned", 0)
      /\ d.AgentId = Field(m, 2, "ByteString", Empty)
      /\ d.PublicKey = Field(m, 3, "ByteString", Empty)
      /\ d.Nonce.bytes = Field(m, 4, "ByteString", Empty)
      /\ d.Capabilities = Field(m, 5, "Array", <<>>)
      /\ d.Extensions = [i \in DOMAIN Field(m, 6, "Array", <<>>) |->
                            ExtensionFromCBOR(Field(m, 6, "Array", <<>>)[i])]
      /\ d.SessionId = Field(m, 7, "ByteString", Empty)
      /\ d.Signature = Field(m, 8, "ByteString", Empty)
      /\ d.ExpiresAt = Field(m, 9, "Unsigned", 0)
      /\ d.KeyAlgorithm = Field(m, 10, "Unsigned", 0)
  BY ServerHelloDecoded, Zenon
<1>3. /\ 1..6 \subseteq DOMAIN m
      /\ 7 \in DOMAIN m /\ 8 \in DOMAIN m /\ 9 \in DOMAIN m /\ 10 \in DOMAIN m
  <2> HIDE DEF m
  <2> QED
    BY <1>1
<1>4. ServerHelloDecodes(v) <=> Kind(v) = "IntMap" /\ ExtensionsDecode(m)
  BY DEF ServerHelloDecodes
<1> HIDE DEF v, m, d
<1>5. /\ Field(m, 7, "ByteString", Empty) = h.SessionId
      /\ Field(m, 8, "ByteString", Empty) = h.Signature
      /\ Field(m, 9, "Unsigned", 0) = h.ExpiresAt
      /\ Field(m, 10, "Unsigned", 0) = h.KeyAlgorithm
  <2>1. /\ Has(m, 7, "ByteString") /\ Content(m[7]) = h.SessionId
        /\ Has(m, 8, "ByteString") /\ Content(m[8]) = h.Signature
        /\ Has(m, 9, "Unsigned") /\ Content(m[9]) = h.ExpiresAt
        /\ Has(m, 10, "Unsigned") /\ Content(m[10]) = h.KeyAlgorithm
    BY <1>1, <1>3 DEF B, U, Has, Kind, Content
  <2> QED
    BY <2>1, Zenon DEF Field
<1>6. /\ Field(m, 1, "Unsigned", 0) = h.ProtocolVersion
      /\ Field(m, 2, "ByteString", Empty) = h.AgentId
      /\ Field(m, 3, "ByteString", Empty) = h.PublicKey
      /\ Field(m, 4, "ByteString", Empty) = h.Nonce.bytes
      /\ Field(m, 5, "Array", <<>>) = h.Capabilities
      /\ [i \in DOMAIN Field(m, 6, "Array", <<>>) |->
             ExtensionFromCBOR(Field(m, 6, "Array", <<>>)[i])] = h.Extensions
      /\ ExtensionsDecode(m)
  <2>1. \A x \in 1..6 : m[x] = HelloFields(h)[x]
    BY <1>1
  <2> QED
    BY <1>3, <2>1, HelloFieldsDecoded, Zenon
<1>7. Alike(d, h) /\ d.Signature = h.Signature /\ d.SessionId = h.SessionId
  BY <1>2, <1>5, <1>6, Zenon DEF Alike
<1>8. ServerHelloDecodes(v)
  BY <1>1, <1>4, <1>6, Zenon
<1> QED
  BY <1>7, <1>8 DEF v, d

\* So is a ClientFinished.
LEMMA ClientFinishedRoundTrip ==
    ASSUME NEW cf
    PROVE  LET d == ClientFinishedFromCBOR(ClientFinishedToCBOR(cf)) IN
           /\ Kind(ClientFinishedToCBOR(cf)) = "IntMap"
           /\ d.SessionId = cf.SessionId /\ d.Signature = cf.Signature
<1> DEFINE
      m == Content(ClientFinishedToCBOR(cf))
      d == ClientFinishedFromCBOR(ClientFinishedToCBOR(cf))
<1>1. /\ Kind(ClientFinishedToCBOR(cf)) = "IntMap"
      /\ DOMAIN m = {1, 2} /\ m[1] = B(cf.SessionId) /\ m[2] = B(cf.Signature)
  BY ClientFinishedEncoded
<1>2. /\ d.SessionId = Field(m, 1, "ByteString", Empty)
      /\ d.Signature = Field(m, 2, "ByteString", Empty)
  BY DEF ClientFinishedFromCBOR
<1> HIDE DEF m, d
<1>3. /\ Has(m, 1, "ByteString") /\ Content(m[1]) = cf.SessionId
      /\ Has(m, 2, "ByteString") /\ Content(m[2]) = cf.Signature
  BY <1>1 DEF B, Has, Kind, Content
<1>4. d.SessionId = cf.SessionId /\ d.Signature = cf.Signature
  BY <1>2, <1>3, Zenon DEF Field
<1> QED
  BY <1>1, <1>4 DEF d

-----------------------------------------------------------------------------
(* What the ends send *)

\* Of the terms that occur only signatures are signatures, and a session id is
\* never empty.
LEMMA Signatures ==
    /\ \A x : ~ValidSignature(Sum256(x)) /\ ~ValidSignature(PublicKey(x))
    /\ \A x, y : ~ValidSignature(HMAC(x, y)) /\ HMAC(x, y) # Empty /\ HMAC(x, y) # Nil
    /\ \A x, y : Sign(x, y) = <<"signature", PublicKey(x), y>> /\ Sign(x, y)[3] = y
    /\ \A x, y : ValidSignature(Sign(x, y))
    /\ ~ValidSignature(Empty)
BY DEF ValidSignature, Sum256, PublicKey, HMAC, Sign, Empty, Nil, Bytes

\* A session id is neither empty nor a signature (handshake.go:278-285).
LEMMA SessionIds ==
    \A a, b, x, y :
        /\ ComputeSessionId(a, b, x, y) # Empty
        /\ ~ValidSignature(ComputeSessionId(a, b, x, y))
BY Signatures DEF ComputeSessionId, hkdfExpand

\* Nor is a receiver_mac nil or a signature (handshake.go:317-325).
LEMMA Macs ==
    \A x, y : ComputeReceiverMac(x, y) # Nil /\ ~ValidSignature(ComputeReceiverMac(x, y))
BY Signatures DEF ComputeReceiverMac

\* The ClientHello that is sent
LEMMA SentIs ==
    ASSUME NEW c \in Conns
    PROVE  /\ DOMAIN Sent(c) = FieldsOfBoth \cup {"ReceiverMac"}
           /\ Alike(Sent(c), ClientHellos[c]) /\ FilledIn(Sent(c))
           /\ Sent(c).Signature =
                 <<"signature", Sent(c).PublicKey, SignatureInput(H1(c, Sent(c)))>>
           /\ Sent(c).ReceiverMac = Mac(c)
           /\ H1(c, Sent(c)) = H1(c, ClientHellos[c])
           /\ AfterAppendToNonce(Sent(c)) = Sent(c)
<1> DEFINE
      ch == ClientHellos[c]
      sig == Sign(ch.PublicKey[2], SignatureInput(H1(c, ch)))
      s == [ch EXCEPT !.Signature = sig, !.ReceiverMac = Mac(c)]
<1>1. DOMAIN ch = FieldsOfBoth \cup {"ReceiverMac"} /\ FilledIn(ch)
  BY HellosAssumption
<1>2. Sent(c) = s
  BY DEF Sent
<1> HIDE DEF ch, sig
<1>3. /\ DOMAIN s = DOMAIN ch
      /\ s.Signature = sig /\ s.ReceiverMac = Mac(c)
      /\ s.ProtocolVersion = ch.ProtocolVersion /\ s.AgentId = ch.AgentId
      /\ s.PublicKey = ch.PublicKey /\ s.Nonce = ch.Nonce
      /\ s.Capabilities = ch.Capabilities /\ s.Extensions = ch.Extensions
      /\ s.ExpiresAt = ch.ExpiresAt /\ s.KeyAlgorithm = ch.KeyAlgorithm
  BY <1>1 DEF FieldsOfBoth
<1> HIDE DEF s
<1>4. Alike(s, ch) /\ FilledIn(s) /\ DOMAIN s = FieldsOfBoth \cup {"ReceiverMac"}
  BY <1>1, <1>3 DEF Alike, FilledIn
<1>5. H1(c, s) = H1(c, ch)
  BY <1>4, AlikeHashed DEF H1
<1>6. sig = <<"signature", s.PublicKey, SignatureInput(H1(c, s))>>
  <2>1. PublicKey(ch.PublicKey[2]) = s.PublicKey
    BY <1>1, <1>3 DEF FilledIn
  <2>2. sig = Sign(ch.PublicKey[2], SignatureInput(H1(c, ch)))
    BY DEF sig
  <2> QED
    BY <1>5, <2>1, <2>2, Signatures
<1>7. AfterAppendToNonce(s) = s
  BY <1>4 DEF AfterAppendToNonce, FilledIn
<1> QED
  BY <1>2, <1>3, <1>4, <1>5, <1>6, <1>7 DEF ch

\* The ServerHello that is sent
LEMMA ReplyIs ==
    ASSUME NEW c \in Conns, NEW ch, NEW sid
    PROVE  LET sh == ReplyTo(c, ch, sid) IN
           /\ DOMAIN sh = FieldsOfBoth \cup {"SessionId"}
           /\ Alike(sh, ServerHellos[c]) /\ FilledIn(sh) /\ sh.SessionId = sid
           /\ sh.Signature = <<"signature", sh.PublicKey, SignatureInput(H2(c, ch, sh))>>
<1> DEFINE
      own == ServerHellos[c]
      u == [own EXCEPT !.SessionId = sid]
      sig == Sign(own.PublicKey[2], SignatureInput(H2(c, ch, u)))
      s == [u EXCEPT !.Signature = sig]
<1>1. DOMAIN own = FieldsOfBoth \cup {"SessionId"} /\ FilledIn(own)
  BY HellosAssumption
<1>2. ReplyTo(c, ch, sid) = s
  BY DEF ReplyTo
<1> HIDE DEF own, sig
<1>3. /\ DOMAIN u = DOMAIN own /\ u.SessionId = sid
      /\ u.ProtocolVersion = own.ProtocolVersion /\ u.AgentId = own.AgentId
      /\ u.PublicKey = own.PublicKey /\ u.Nonce = own.Nonce
      /\ u.Capabilities = own.Capabilities /\ u.Extensions = own.Extensions
      /\ u.ExpiresAt = own.ExpiresAt /\ u.KeyAlgorithm = own.KeyAlgorithm
  BY <1>1 DEF FieldsOfBoth
<1> HIDE DEF u
<1>4. /\ DOMAIN s = DOMAIN u /\ s.Signature = sig /\ s.SessionId = u.SessionId
      /\ s.ProtocolVersion = u.ProtocolVersion /\ s.AgentId = u.AgentId
      /\ s.PublicKey = u.PublicKey /\ s.Nonce = u.Nonce
      /\ s.Capabilities = u.Capabilities /\ s.Extensions = u.Extensions
      /\ s.ExpiresAt = u.ExpiresAt /\ s.KeyAlgorithm = u.KeyAlgorithm
  BY <1>1, <1>3 DEF FieldsOfBoth
<1> HIDE DEF s
<1>5. /\ Alike(s, own) /\ Alike(s, u) /\ FilledIn(s) /\ s.SessionId = sid
      /\ DOMAIN s = FieldsOfBoth \cup {"SessionId"}
  BY <1>1, <1>3, <1>4 DEF Alike, FilledIn
<1>6. H2(c, ch, s) = H2(c, ch, u)
  BY <1>4, <1>5, AlikeHashed DEF H2
<1>7. sig = <<"signature", s.PublicKey, SignatureInput(H2(c, ch, s))>>
  <2>1. PublicKey(own.PublicKey[2]) = s.PublicKey
    BY <1>1, <1>3, <1>4 DEF FilledIn
  <2>2. sig = Sign(own.PublicKey[2], SignatureInput(H2(c, ch, u)))
    BY DEF sig
  <2> QED
    BY <1>6, <2>1, <2>2, Signatures
<1> QED
  BY <1>2, <1>4, <1>5, <1>7 DEF own

\* Keys 1 to 6 of a hello hold no signature.
LEMMA NoSignatureInFields ==
    ASSUME NEW h, FilledIn(h), NEW x \in 1..6
    PROVE  ~(Kind(HelloFields(h)[x]) = "ByteString" /\ ValidSignature(Content(HelloFields(h)[x])))
<1> DEFINE m == HelloFields(h)
<1>1. /\ m[1] = U(h.ProtocolVersion) /\ m[2] = B(h.AgentId)
      /\ m[3] = B(h.PublicKey) /\ m[4] = B(h.Nonce.bytes)
      /\ m[5] = Arr(h.Capabilities) /\ m[6] = ExtensionsToCBOR(h.Extensions)
  BY HelloFieldsAre
<1>2. /\ ~ValidSignature(h.AgentId) /\ ~ValidSignature(h.PublicKey)
      /\ ~ValidSignature(h.Nonce.bytes)
  <2>1. ~ValidSignature(AgentIdFromPubkey(h.PublicKey)) /\ ~ValidSignature(PublicKey(h.PublicKey[2]))
    BY Signatures DEF AgentIdFromPubkey
  <2> QED
    BY <2>1 DEF FilledIn
<1> HIDE DEF m
<1>3. /\ Kind(m[1]) # "ByteString" /\ Kind(m[5]) # "ByteString" /\ Kind(m[6]) # "ByteString"
      /\ Content(m[2]) = h.AgentId /\ Content(m[3]) = h.PublicKey /\ Content(m[4]) = h.Nonce.bytes
  BY <1>1 DEF U, B, Arr, ExtensionsToCBOR, Kind, Content
<1>4. x = 1 \/ x = 2 \/ x = 3 \/ x = 4 \/ x = 5 \/ x = 6
  OBVIOUS
<1>5. ~(Kind(m[x]) = "ByteString" /\ ValidSignature(Content(m[x])))
  BY <1>2, <1>3, <1>4
<1> QED
  BY <1>5 DEF m

-----------------------------------------------------------------------------
(* The steps of one connection *)

\* No step takes back what an end has signed: a server that has answered keeps
\* both hellos and the session id, and a client that is done does not change.
Kept(cls, svs, cls2, svs2) ==
    \A d \in Conns :
        /\ Answered(svs[d]) =>
              /\ svs2[d].sid = svs[d].sid
              /\ svs2[d].ch = svs[d].ch /\ svs2[d].sh = svs[d].sh
        /\ cls[d].pc = "done" => cls2[d] = cls[d]

\* So a message stays genuine.
LEMMA GenuineKept ==
    ASSUME NEW cls, NEW svs, NEW cls2, NEW svs2, Kept(cls, svs, cls2, svs2),
           NEW v, GenuineMessage(v, cls, svs)
    PROVE  GenuineMessage(v, cls2, svs2)
<1>1. ASSUME NEW s, Made(s, cls, svs)
      PROVE  Made(s, cls2, svs2)
  <2>1. CASE \E d \in Conns : s[3] = SignatureInput(H1(d, Sent(d)))
    BY <2>1 DEF Made
  <2>2. CASE \E d \in Conns :
                Answered(svs[d]) /\ s[3] = SignatureInput(H2(d, svs[d].ch, svs[d].sh))
    <3>1. PICK d \in Conns :
                Answered(svs[d]) /\ s[3] = SignatureInput(H2(d, svs[d].ch, svs[d].sh))
      BY <2>2
    <3>2. Answered(svs2[d]) /\ s[3] = SignatureInput(H2(d, svs2[d].ch, svs2[d].sh))
      BY <3>1 DEF Kept, Answered
    <3> QED
      BY <3>2 DEF Made
  <2>3. CASE \E d \in Conns :
                cls[d].pc = "done" /\ s[3] = SignatureInput(H3(d, cls[d].ch, cls[d].sh, cls[d].sid))
    <3>1. PICK d \in Conns :
                cls[d].pc = "done" /\ s[3] = SignatureInput(H3(d, cls[d].ch, cls[d].sh, cls[d].sid))
      BY <2>3
    <3>2. cls2[d].pc = "done" /\ s[3] = SignatureInput(H3(d, cls2[d].ch, cls2[d].sh, cls2[d].sid))
      BY <3>1 DEF Kept
    <3> QED
      BY <3>2 DEF Made
  <2> QED
    BY <1>1, <2>1, <2>2, <2>3 DEF Made
<1> QED
  BY <1>1 DEF GenuineMessage, Genuine

\* A step of one connection preserves the invariant if what it makes of that
\* connection satisfies it and it takes nothing back.
LEMMA OneStep ==
    ASSUME IndInv, NEW c \in Conns,
           DOMAIN client' = Conns, DOMAIN server' = Conns, DOMAIN wire' = Conns,
           \A d \in Conns \ {c} :
              client'[d] = client[d] /\ server'[d] = server[d] /\ wire'[d] = wire[d],
           altered' = altered,
           Answered(server[c]) =>
              /\ server'[c].sid = server[c].sid
              /\ server'[c].ch = server[c].ch /\ server'[c].sh = server[c].sh,
           client[c].pc = "done" => client'[c] = client[c],
           Local(c, client'[c], server'[c], wire'[c]),
           GenuineMessage(wire'[c].msg, client', server'),
           c \notin altered => Undisturbed(c, client'[c], server'[c], wire'[c])
    PROVE  IndInv'
<1>1. \A d \in Conns :
          /\ Local(d, client[d], server[d], wire[d])
          /\ GenuineMessage(wire[d].msg, client, server)
          /\ d \notin altered => Undisturbed(d, client[d], server[d], wire[d])
  BY DEF IndInv
<1>2. Kept(client, server, client', server')
  BY DEF Kept
<1>3. ASSUME NEW d \in Conns
      PROVE  /\ Local(d, client'[d], server'[d], wire'[d])
             /\ GenuineMessage(wire'[d].msg, client', server')
             /\ d \notin altered' => Undisturbed(d, client'[d], server'[d], wire'[d])
  <2>1. CASE d = c
    BY <2>1
  <2>2. CASE d # c
    <3>1. GenuineMessage(wire[d].msg, client', server')
      BY <1>1, <1>2, GenuineKept
    <3> QED
      BY <1>1, <2>2, <3>1
  <2> QED
    BY <2>1, <2>2
<1> QED
  BY <1>3 DEF IndInv

\* The ClientHello is folded in.
LEMMA FirstUpdate ==
    ASSUME NEW x, NEW data
    PROVE  Update(T1(x), data) = T2(x, Sum256(<<x, data>>))
BY DEF Update, T1, T2

\* The ServerHello is folded in.
LEMMA SecondUpdate ==
    ASSUME NEW x, NEW y, NEW data
    PROVE  Update(T2(x, y), data) = T3(x, y, Sum256(<<y, data>>))
BY DEF Update, T2, T3

\* The ClientFinished is folded in.
LEMMA ThirdUpdate ==
    ASSUME NEW x, NEW y, NEW z, NEW data
    PROVE  Update(T3(x, y, z), data) = T4(x, y, z, Sum256(<<z, data>>))
BY DEF Update, T3, T4

\* The hash after the ClientHello is the second one.
LEMMA SecondHash ==
    ASSUME NEW x, NEW y
    PROVE  Hash(T2(x, y)) = y /\ Current(T2(x, y)) = 2
BY DEF Hash, At, Current, T2

\* It is still there after the ServerHello.
LEMMA ThirdHash ==
    ASSUME NEW x, NEW y, NEW z
    PROVE  Hash(T3(x, y, z)) = z /\ At(T3(x, y, z), 2) = y
BY DEF Hash, At, Current, T3

\* The hash after the ClientFinished is the fourth one.
LEMMA FourthHash ==
    ASSUME NEW x, NEW y, NEW z, NEW u
    PROVE  Hash(T4(x, y, z, u)) = u
BY DEF Hash, At, Current, T4

\* The ClientHello, as it is sent, is genuine.
LEMMA ClientHelloGenuine ==
    ASSUME NEW c \in Conns, NEW cls, NEW svs
    PROVE  GenuineMessage(ClientHelloToCBOR(Sent(c)), cls, svs)
<1> DEFINE m == Content(ClientHelloToCBOR(Sent(c)))
<1>1. /\ DOMAIN m \subseteq (1..6) \cup {7, 8, 9, 10}
      /\ \A x \in 1..6 : m[x] = HelloFields(Sent(c))[x]
      /\ m[7] = B(Sent(c).Signature) /\ m[8] = U(Sent(c).ExpiresAt)
      /\ m[10] = U(Sent(c).KeyAlgorithm)
      /\ 9 \in DOMAIN m => m[9] = B(Sent(c).ReceiverMac) /\ Sent(c).ReceiverMac # Nil
  <2>1. /\ DOMAIN m = (1..6) \cup {7, 8, 10} \cup (IF Sent(c).ReceiverMac = Nil THEN {} ELSE {9})
        /\ \A x \in 1..6 : m[x] = HelloFields(Sent(c))[x]
        /\ m[7] = B(Sent(c).Signature) /\ m[8] = U(Sent(c).ExpiresAt)
        /\ m[10] = U(Sent(c).KeyAlgorithm)
        /\ Sent(c).ReceiverMac # Nil => m[9] = B(Sent(c).ReceiverMac)
    BY ClientHelloEncoded
  <2> HIDE DEF m
  <2> QED
    BY <2>1
<1> HIDE DEF m
<1>2. /\ FilledIn(Sent(c)) /\ Sent(c).ReceiverMac = Mac(c)
      /\ Sent(c).Signature = <<"signature", Sent(c).PublicKey, SignatureInput(H1(c, Sent(c)))>>
  BY SentIs
<1>3. Made(Sent(c).Signature, cls, svs)
  <2>1. Sent(c).Signature[3] = SignatureInput(H1(c, Sent(c)))
    BY <1>2
  <2> QED
    BY <2>1 DEF Made
<1>4. Mac(c) # Nil => ~ValidSignature(Mac(c))
  BY Macs DEF Mac
<1>5. ASSUME NEW x \in DOMAIN m, Kind(m[x]) = "ByteString", ValidSignature(Content(m[x]))
      PROVE  Made(Content(m[x]), cls, svs)
  <2>1. CASE x \in 1..6
    BY <1>1, <1>2, <1>5, <2>1, NoSignatureInFields
  <2>2. CASE x = 7
    BY <1>1, <1>3, <2>2 DEF B, Content
  <2>3. CASE x \in {8, 10}
    BY <1>1, <1>5, <2>3 DEF U, Kind
  <2>4. CASE x = 9
    BY <1>1, <1>2, <1>4, <1>5, <2>4 DEF B, Content
  <2> QED
    BY <1>1, <2>1, <2>2, <2>3, <2>4
<1> QED
  BY <1>5 DEF GenuineMessage, Genuine, m

\* So is the ServerHello a server has answered with.
LEMMA ServerHelloGenuine ==
    ASSUME NEW c \in Conns, NEW cls, NEW svs, ServerEnd(c, svs[c]), Answered(svs[c]),
           ~ValidSignature(svs[c].sid)
    PROVE  GenuineMessage(ServerHelloToCBOR(svs[c].sh), cls, svs)
<1> DEFINE
      sh == svs[c].sh
      m == Content(ServerHelloToCBOR(sh))
<1>1. /\ DOMAIN m = (1..6) \cup {7, 8, 9, 10}
      /\ \A x \in 1..6 : m[x] = HelloFields(sh)[x]
      /\ m[7] = B(sh.SessionId) /\ m[8] = B(sh.Signature)
      /\ m[9] = U(sh.ExpiresAt) /\ m[10] = U(sh.KeyAlgorithm)
  BY ServerHelloEncoded
<1>2. sh = ReplyTo(c, svs[c].ch, svs[c].sid)
  BY DEF ServerEnd
<1> HIDE DEF m, sh
<1>3. /\ FilledIn(sh) /\ sh.SessionId = svs[c].sid
      /\ sh.Signature = <<"signature", sh.PublicKey, SignatureInput(H2(c, svs[c].ch, sh))>>
  BY <1>2, ReplyIs
<1>4. Made(sh.Signature, cls, svs)
  <2>1. sh.Signature[3] = SignatureInput(H2(c, svs[c].ch, svs[c].sh))
    BY <1>3 DEF sh
  <2> QED
    BY <2>1 DEF Made
<1>5. ASSUME NEW x \in DOMAIN m, Kind(m[x]) = "ByteString", ValidSignature(Content(m[x]))
      PROVE  Made(Content(m[x]), cls, svs)
  <2>1. CASE x \in 1..6
    BY <1>1, <1>3, <1>5, <2>1, NoSignatureInFields
  <2>2. CASE x = 8
    BY <1>1, <1>4, <2>2 DEF B, Content
  <2>3. CASE x \in {9, 10}
    BY <1>1, <1>5, <2>3 DEF U, Kind
  <2>4. CASE x = 7
    BY <1>1, <1>3, <1>5, <2>4 DEF B, Content
  <2> QED
    BY <1>1, <2>1, <2>2, <2>3, <2>4
<1> QED
  BY <1>5 DEF GenuineMessage, Genuine, m, sh

\* So is the ClientFinished of a client that is done.
LEMMA ClientFinishedGenuine ==
    ASSUME NEW c \in Conns, NEW cls, NEW svs, cls[c].pc = "done", ~ValidSignature(cls[c].sid)
    PROVE  GenuineMessage(
               ClientFinishedToCBOR(FinishFor(c, cls[c].ch, cls[c].sh, cls[c].sid)), cls, svs)
<1> DEFINE
      cf == FinishFor(c, cls[c].ch, cls[c].sh, cls[c].sid)
      m == Content(ClientFinishedToCBOR(cf))
<1>1. DOMAIN m = {1, 2} /\ m[1] = B(cf.SessionId) /\ m[2] = B(cf.Signature)
  BY ClientFinishedEncoded
<1>2. /\ cf.SessionId = cls[c].sid
      /\ cf.Signature = Sign(ClientHellos[c].PublicKey[2],
                             SignatureInput(H3(c, cls[c].ch, cls[c].sh, cls[c].sid)))
  BY DEF FinishFor
<1> HIDE DEF m, cf
<1>3. cf.Signature[3] = SignatureInput(H3(c, cls[c].ch, cls[c].sh, cls[c].sid))
  BY <1>2, Signatures
<1>4. Made(cf.Signature, cls, svs)
  BY <1>3 DEF Made
<1>5. Content(m[1]) = cls[c].sid /\ Content(m[2]) = cf.Signature
  BY <1>1, <1>2 DEF B, Content
<1> QED
  BY <1>1, <1>4, <1>5 DEF GenuineMessage, Genuine, m, cf

\* A client that sends its ClientHello
LEMMA SendClientHelloStep ==
    ASSUME IndInv, NEW c \in Conns, SendClientHello(c)
    PROVE  IndInv'
<1> DEFINE
      ch == ClientHellos[c]
      chCbor == Enc(ToCBORWithoutSigAndMac(ch))
      th == Update(client[c].th, chCbor)
      mac == IF c \in DosProfile
             THEN ComputeReceiverMac(ServerHellos[c].AgentId, chCbor) ELSE Nil
      signed == [ch EXCEPT !.Signature = SignHash(th, ch.PublicKey), !.ReceiverMac = mac]
      cl == [client[c] EXCEPT !.pc = "helloSent", !.th = th, !.h1 = Current(th), !.ch = signed]
      w == [to |-> "server", msg |-> ClientHelloToCBOR(signed)]
<1>1. /\ client[c].pc = "start"
      /\ client' = [client EXCEPT ![c] = cl]
      /\ wire' = [wire EXCEPT ![c] = w]
      /\ server' = server /\ altered' = altered
  BY DEF SendClientHello, Send
<1>2. /\ DOMAIN server = Conns
      /\ Local(c, client[c], server[c], wire[c])
      /\ GenuineMessage(wire[c].msg, client, server)
      /\ c \notin altered => Undisturbed(c, client[c], server[c], wire[c])
  BY DEF IndInv
<1>3. client[c] = End(c)
  BY <1>1, <1>2 DEF Local, ClientEnd
<1>4. th = T2(H0(c), H1(c, ch)) /\ Current(th) = 2 /\ Hash(th) = H1(c, ch)
  <2>1. client[c].th = T1(H0(c))
    BY <1>3 DEF End, NewTranscriptHash, H0, T1
  <2>2. th = T2(H0(c), H1(c, ch))
    BY <2>1, FirstUpdate DEF H1
  <2> HIDE DEF th, ch
  <2> QED
    BY <2>2, SecondHash
<1>5. signed = Sent(c)
  <2>1. mac = Mac(c)
    BY DEF Mac
  <2>2. SignHash(th, ch.PublicKey) = Sign(ch.PublicKey[2], SignatureInput(H1(c, ch)))
    BY <1>4 DEF SignHash
  <2> HIDE DEF mac, th
  <2> QED
    BY <2>1, <2>2 DEF Sent
<1>6. H1(c, ch) = H1(c, Sent(c))
  BY SentIs
<1> HIDE DEF signed, th, ch
<1>7. /\ cl.pc = "helloSent" /\ cl.th = T2(H0(c), H1(c, Sent(c)))
      /\ cl.h1 = 2 /\ cl.ch = Sent(c) /\ DOMAIN cl = EndFields
  BY <1>2, <1>4, <1>5, <1>6 DEF Local, ClientEnd, EndFields
<1>8. w = [to |-> "server", msg |-> ClientHelloToCBOR(Sent(c))]
  BY <1>5
<1> HIDE DEF cl, w
<1>9. Local(c, cl, server[c], w)
  BY <1>1, <1>2, <1>7, <1>8 DEF Local, ClientEnd, Agreed
<1>10. c \notin altered => Undisturbed(c, cl, server[c], w)
  BY <1>1, <1>2, <1>7, <1>8 DEF Undisturbed
<1>11. GenuineMessage(w.msg, client', server')
  BY <1>8, ClientHelloGenuine
<1>12. /\ DOMAIN client' = Conns /\ DOMAIN server' = Conns /\ DOMAIN wire' = Conns
       /\ client'[c] = cl /\ server'[c] = server[c] /\ wire'[c] = w
       /\ \A d \in Conns \ {c} :
             client'[d] = client[d] /\ server'[d] = server[d] /\ wire'[d] = wire[d]
  BY <1>1 DEF IndInv
<1> QED
  BY <1>1, <1>9, <1>10, <1>11, <1>12, OneStep

\* The ClientHello a client has sent is accepted, if it arrives as it was sent,
\* and the server has its content.
LEMMA SentIsAccepted ==
    ASSUME NEW c \in Conns
    PROVE  LET v == ClientHelloToCBOR(Sent(c))
               ch == ClientHelloFromCBOR(v)
               chCbor == Enc(ToCBORWithoutSigAndMac(ch))
               th == T2(H0(c), H1(c, ch))
           IN  /\ ClientHelloDecodes(v) /\ ClientHelloVerified(c, ch, chCbor, th)
               /\ ToCBORWithoutSigAndMac(ch) = ToCBORWithoutSigAndMac(Sent(c))
               /\ ch.PublicKey = Sent(c).PublicKey /\ ch.Nonce.bytes = Sent(c).Nonce.bytes
<1> DEFINE
      v == ClientHelloToCBOR(Sent(c))
      ch == ClientHelloFromCBOR(v)
      chCbor == Enc(ToCBORWithoutSigAndMac(ch))
      th == T2(H0(c), H1(c, ch))
<1>1. /\ FilledIn(Sent(c)) /\ Sent(c).ReceiverMac = Mac(c) /\ Alike(Sent(c), ClientHellos[c])
      /\ Sent(c).Signature = <<"signature", Sent(c).PublicKey, SignatureInput(H1(c, Sent(c)))>>
  BY SentIs
<1>2. /\ ClientHelloDecodes(v) /\ Alike(ch, Sent(c))
      /\ ch.Signature = Sent(c).Signature /\ ch.ReceiverMac = Sent(c).ReceiverMac
  BY <1>1, ClientHelloRoundTrip DEF FilledIn
<1> HIDE DEF ch
<1>3. /\ ToCBORWithoutSigAndMac(ch) = ToCBORWithoutSigAndMac(Sent(c))
      /\ ToCBORWithoutSigAndMac(ch) = ToCBORWithoutSigAndMac(ClientHellos[c])
  BY <1>1, <1>2, AlikeHashed
<1>4. ch.PublicKey = Sent(c).PublicKey /\ ch.AgentId = Sent(c).AgentId
      /\ ch.Nonce.bytes = Sent(c).Nonce.bytes
  BY <1>2 DEF Alike
<1>5. ch.ReceiverMac # Nil => VerifyReceiverMac(ServerHellos[c].AgentId, chCbor, ch.ReceiverMac)
  BY <1>1, <1>2, <1>3 DEF Mac, VerifyReceiverMac
<1>6. VerifyAgentId(ch.AgentId, ch.PublicKey)
  BY <1>1, <1>4 DEF FilledIn, VerifyAgentId
<1>7. HashSigned(th, ch.PublicKey, ch.Signature)
  <2>1. Hash(th) = H1(c, ch) /\ H1(c, ch) = H1(c, Sent(c))
    BY <1>3, SecondHash DEF H1
  <2>2. ValidPublicKey(ch.PublicKey)
    <3>1. ch.PublicKey = PublicKey(Sent(c).PublicKey[2])
      BY <1>1, <1>4 DEF FilledIn
    <3> QED
      BY <3>1 DEF PublicKey, ValidPublicKey
  <2>3. ch.Signature = <<"signature", ch.PublicKey, SignatureInput(Hash(th))>>
    BY <1>1, <1>2, <1>4, <2>1
  <2> HIDE DEF th
  <2>4. ValidSignature(ch.Signature)
    BY <2>3 DEF ValidSignature
  <2> QED
    BY <2>2, <2>3, <2>4 DEF HashSigned, Verify
<1>8. ClientHelloVerified(c, ch, chCbor, th)
  BY <1>5, <1>6, <1>7 DEF ClientHelloVerified
<1> QED
  BY <1>2, <1>3, <1>4, <1>8 DEF ch

\* A server that receives a ClientHello
LEMMA ReceiveClientHelloStep ==
    ASSUME IndInv, NEW c \in Conns, ReceiveClientHello(c)
    PROVE  IndInv'
<1> DEFINE
      v == wire[c].msg
      ch == ClientHelloFromCBOR(v)
      chCbor == Enc(ToCBORWithoutSigAndMac(ch))
      th1 == Update(server[c].th, chCbor)
      own == ServerHellos[c]
      sid == ComputeSessionId(Hash(th1), ch.Nonce.bytes, own.Nonce.bytes, own.AgentId)
      sh == [own EXCEPT !.SessionId = sid]
      th2 == Update(th1, Enc(ServerHelloToCBORWithoutSig(sh)))
      signed == [sh EXCEPT !.Signature = SignHash(th2, own.PublicKey)]
      ok == ClientHelloDecodes(v) /\ ClientHelloVerified(c, ch, chCbor, th1)
      sv == [pc |-> "helloSent", th |-> th2, h1 |-> Current(th1),
             ch |-> AfterAppendToNonce(ch), sh |-> signed, sid |-> sid]
      w == [to |-> "client", msg |-> ServerHelloToCBOR(signed)]
<1>1. /\ wire[c].to = "server" /\ server[c].pc = "start"
      /\ client' = client /\ altered' = altered
      /\ ok => server' = [server EXCEPT ![c] = sv] /\ wire' = [wire EXCEPT ![c] = w]
      /\ ~ok => /\ server' = [server EXCEPT ![c].pc = "rejected"]
                /\ wire' = [wire EXCEPT ![c] = Nothing]
  BY DEF ReceiveClientHello, Arrived, Send, Consume
<1>2. /\ Local(c, client[c], server[c], wire[c])
      /\ GenuineMessage(wire[c].msg, client, server)
      /\ c \notin altered => Undisturbed(c, client[c], server[c], wire[c])
      /\ DOMAIN client = Conns /\ DOMAIN server = Conns /\ DOMAIN wire = Conns
  BY DEF IndInv
<1>3. server[c] = End(c) /\ server[c].sid = Empty /\ ~Answered(server[c]) /\ client[c].pc # "done"
  BY <1>1, <1>2 DEF Local, ServerEnd, Agreed, Answered, End
<1>4. th1 = T2(H0(c), H1(c, ch)) /\ Current(th1) = 2 /\ Hash(th1) = H1(c, ch)
  <2>1. server[c].th = T1(H0(c))
    BY <1>3 DEF End, NewTranscriptHash, H0, T1
  <2>2. th1 = T2(H0(c), H1(c, ch))
    BY <2>1, FirstUpdate DEF H1
  <2> HIDE DEF th1, ch
  <2> QED
    BY <2>2, SecondHash
<1>5. c \notin altered => /\ client[c].pc = "helloSent" /\ v = ClientHelloToCBOR(Sent(c))
  <2>1. ASSUME wire[c] = Nothing
        PROVE  FALSE
    BY <1>1, <2>1 DEF Nothing
  <2>2. ASSUME wire[c] = [to |-> "server", msg |-> ClientHelloToCBOR(Sent(c))]
        PROVE  v = ClientHelloToCBOR(Sent(c))
    BY <2>2
  <2> QED
    BY <1>1, <1>2, <2>1, <2>2 DEF Undisturbed
<1>6. ch.Extensions = ch.Extensions /\ DOMAIN ch = FieldsOfBoth \cup {"ReceiverMac"}
      /\ ExtensionEntries(ch.Extensions) /\ ~ch.Nonce.spare
  BY ClientHelloDecoded
<1>7. c \notin altered =>
          /\ ok /\ ToCBORWithoutSigAndMac(ch) = ToCBORWithoutSigAndMac(Sent(c))
          /\ ch.PublicKey = Sent(c).PublicKey /\ ch.Nonce.bytes = Sent(c).Nonce.bytes
  <2> SUFFICES ASSUME c \notin altered
               PROVE  /\ ok /\ ToCBORWithoutSigAndMac(ch) = ToCBORWithoutSigAndMac(Sent(c))
                      /\ ch.PublicKey = Sent(c).PublicKey /\ ch.Nonce.bytes = Sent(c).Nonce.bytes
    OBVIOUS
  <2> QED
    BY <1>4, <1>5, SentIsAccepted
<1> HIDE DEF ok, ch, v, th1
<1>8. CASE ok
  <2>1. server' = [server EXCEPT ![c] = sv] /\ wire' = [wire EXCEPT ![c] = w]
    BY <1>1, <1>8
  <2>2. sid # Empty /\ ~ValidSignature(sid)
    BY SessionIds
  <2>3. sid = ComputeSessionId(H1(c, ch), ch.Nonce.bytes, own.Nonce.bytes, own.AgentId)
    BY <1>4
  <2> HIDE DEF sid
  <2>4. th2 = T3(H0(c), H1(c, ch), H2(c, ch, sh)) /\ Hash(th2) = H2(c, ch, sh)
    <3>1. th2 = T3(H0(c), H1(c, ch), H2(c, ch, sh))
      BY <1>4, SecondUpdate DEF H2
    <3> HIDE DEF th2, sh
    <3> QED
      BY <3>1, ThirdHash
  <2>5. signed = ReplyTo(c, ch, sid)
    <3>1. SignHash(th2, own.PublicKey) = Sign(own.PublicKey[2], SignatureInput(H2(c, ch, sh)))
      BY <2>4 DEF SignHash
    <3> HIDE DEF th2
    <3> QED
      BY <3>1 DEF ReplyTo
  <2>6. H2(c, ch, signed) = H2(c, ch, sh)
    <3>1. DOMAIN own = FieldsOfBoth \cup {"SessionId"}
      BY HellosAssumption
    <3> HIDE DEF own, th2
    <3>2. /\ DOMAIN sh = DOMAIN own
          /\ sh.SessionId = sid
      BY <3>1 DEF FieldsOfBoth
    <3> HIDE DEF sh
    <3>3. Alike(signed, sh) /\ signed.SessionId = sh.SessionId
      BY <3>1, <3>2 DEF FieldsOfBoth, Alike
    <3> HIDE DEF signed
    <3> QED
      BY <3>3, AlikeHashed DEF H2
  <2>7. AfterAppendToNonce(ch) = ch
    BY <1>6 DEF AfterAppendToNonce
  <2> HIDE DEF th2, signed, sh, own
  <2>8. /\ DOMAIN sv = EndFields /\ sv.pc = "helloSent" /\ sv.ch = ch /\ sv.sh = ReplyTo(c, ch, sid)
        /\ sv.sh = signed /\ sv.sid = sid
        /\ sv.th = T3(H0(c), H1(c, sv.ch), H2(c, sv.ch, sv.sh))
    BY <2>4, <2>5, <2>6, <2>7 DEF EndFields
  <2>9. w = [to |-> "client", msg |-> ServerHelloToCBOR(sv.sh)]
    OBVIOUS
  <2> HIDE DEF sv, w
  <2>10. ServerEnd(c, sv) /\ Answered(sv)
    BY <1>6, <2>2, <2>8 DEF ServerEnd, Answered
  <2>11. Local(c, client[c], sv, w)
    BY <1>2, <1>3, <2>8, <2>9, <2>10 DEF Local, Agreed
  <2>12. c \notin altered => Undisturbed(c, client[c], sv, w)
    <3>1. c \notin altered => H1(c, ch) = H1(c, Sent(c))
      BY <1>7 DEF H1
    <3>2. c \notin altered => Received(c, sv)
      BY <1>7, <2>3, <2>8, <3>1 DEF Received, own
    <3> QED
      BY <1>5, <2>8, <2>9, <3>2 DEF Undisturbed
  <2>13. /\ DOMAIN client' = Conns /\ DOMAIN server' = Conns /\ DOMAIN wire' = Conns
         /\ client'[c] = client[c] /\ server'[c] = sv /\ wire'[c] = w
         /\ \A d \in Conns \ {c} :
               client'[d] = client[d] /\ server'[d] = server[d] /\ wire'[d] = wire[d]
    BY <1>1, <1>2, <2>1
  <2>14. GenuineMessage(w.msg, client', server')
    <3>1. ~ValidSignature(server'[c].sid) /\ ServerEnd(c, server'[c]) /\ Answered(server'[c])
      BY <2>2, <2>8, <2>10, <2>13
    <3>2. GenuineMessage(ServerHelloToCBOR(server'[c].sh), client', server')
      BY <3>1, ServerHelloGenuine
    <3> QED
      BY <2>9, <2>13, <3>2
  <2> QED
    BY <1>1, <1>3, <2>11, <2>12, <2>13, <2>14, OneStep
<1>9. CASE ~ok
  <2> DEFINE rj == [server[c] EXCEPT !.pc = "rejected"]
  <2>1. /\ DOMAIN client' = Conns /\ DOMAIN server' = Conns /\ DOMAIN wire' = Conns
        /\ client'[c] = client[c] /\ server'[c] = rj /\ wire'[c] = Nothing
        /\ \A d \in Conns \ {c} :
              client'[d] = client[d] /\ server'[d] = server[d] /\ wire'[d] = wire[d]
    BY <1>1, <1>2, <1>9
  <2>2. DOMAIN rj = EndFields /\ rj.pc = "rejected" /\ rj.sid = Empty
    BY <1>2, <1>3 DEF Local, ServerEnd, EndFields
  <2> HIDE DEF rj
  <2>3. Local(c, client[c], rj, Nothing)
    BY <1>2, <1>3, <2>2 DEF Local, ServerEnd, Agreed, Answered, Nothing
  <2>4. c \in altered
    BY <1>7, <1>9
  <2>5. GenuineMessage(Nothing.msg, client', server')
    BY DEF GenuineMessage, Nothing, Null, Kind
  <2> QED
    BY <1>1, <1>3, <2>1, <2>3, <2>4, <2>5, OneStep
<1> QED
  BY <1>8, <1>9

\* What a signature signs tells the message it belongs to.
LEMMA InputsTell ==
    ASSUME NEW c, NEW d, NEW ch, NEW ch2, NEW sh, NEW sh2, NEW sid, NEW sid2
    PROVE  /\ SignatureInput(H2(c, ch, sh)) # SignatureInput(H1(d, ch2))
           /\ SignatureInput(H3(c, ch, sh, sid)) # SignatureInput(H1(d, ch2))
           /\ SignatureInput(H3(c, ch, sh, sid)) # SignatureInput(H2(d, ch2, sh2))
           /\ SignatureInput(H2(c, ch, sh)) = SignatureInput(H2(d, ch2, sh2)) =>
                 H2(c, ch, sh) = H2(d, ch2, sh2)
           /\ SignatureInput(H3(c, ch, sh, sid)) = SignatureInput(H3(d, ch2, sh2, sid2)) => c = d
<1> DEFINE
      p1 == <<H0(d), Enc(ToCBORWithoutSigAndMac(ch2))>>
      p2 == <<H1(c, ch), Enc(ServerHelloToCBORWithoutSig(sh))>>
      q2 == <<H1(d, ch2), Enc(ServerHelloToCBORWithoutSig(sh2))>>
      p3 == <<H2(c, ch, sh), Enc(IMap(1 :> B(sid)))>>
      q3 == <<H2(d, ch2, sh2), Enc(IMap(1 :> B(sid2)))>>
<1>1. /\ H1(d, ch2) = Sum256(p1)
      /\ H2(c, ch, sh) = Sum256(p2) /\ H2(d, ch2, sh2) = Sum256(q2)
      /\ H3(c, ch, sh, sid) = Sum256(p3) /\ H3(d, ch2, sh2, sid2) = Sum256(q3)
  BY Zenon DEF H1, H2, H3
<1> HIDE DEF p1, p2, q2, p3, q3
<1>2. /\ H2(c, ch, sh) # H1(d, ch2)
      /\ H3(c, ch, sh, sid) # H1(d, ch2)
      /\ H3(c, ch, sh, sid) # H2(d, ch2, sh2)
      /\ H3(c, ch, sh, sid) = H3(d, ch2, sh2, sid2) => c = d
  BY HashesTell
<1>3. /\ SignatureInput(Sum256(p2)) = SignatureInput(Sum256(p1)) => Sum256(p2) = Sum256(p1)
      /\ SignatureInput(Sum256(p3)) = SignatureInput(Sum256(p1)) => Sum256(p3) = Sum256(p1)
      /\ SignatureInput(Sum256(p3)) = SignatureInput(Sum256(q2)) => Sum256(p3) = Sum256(q2)
      /\ SignatureInput(Sum256(p2)) = SignatureInput(Sum256(q2)) => Sum256(p2) = Sum256(q2)
      /\ SignatureInput(Sum256(p3)) = SignatureInput(Sum256(q3)) => Sum256(p3) = Sum256(q3)
  BY InputInjective
<1> QED
  BY <1>1, <1>2, <1>3

\* Only a server that has answered makes the signature of its ServerHello, and
\* it has the ClientHello and the ServerHello that are hashed.
LEMMA ServerHelloMade ==
    ASSUME NEW cls, NEW svs, NEW s, Made(s, cls, svs),
           NEW c, NEW ch, NEW sh, s[3] = SignatureInput(H2(c, ch, sh))
    PROVE  /\ Answered(svs[c])
           /\ ToCBORWithoutSigAndMac(ch) = ToCBORWithoutSigAndMac(svs[c].ch)
           /\ ServerHelloToCBORWithoutSig(sh) = ServerHelloToCBORWithoutSig(svs[c].sh)
<1>1. ~\E d \in Conns : s[3] = SignatureInput(H1(d, Sent(d)))
  BY InputsTell
<1>2. ~\E d \in Conns : s[3] = SignatureInput(H3(d, cls[d].ch, cls[d].sh, cls[d].sid))
  BY InputsTell
<1>3. PICK d \in Conns : Answered(svs[d]) /\ s[3] = SignatureInput(H2(d, svs[d].ch, svs[d].sh))
  BY <1>1, <1>2 DEF Made
<1>4. H2(c, ch, sh) = H2(d, svs[d].ch, svs[d].sh)
  <2>1. SignatureInput(H2(c, ch, sh)) = SignatureInput(H2(d, svs[d].ch, svs[d].sh)) =>
            H2(c, ch, sh) = H2(d, svs[d].ch, svs[d].sh)
    BY InputsTell
  <2> QED
    BY <1>3, <2>1
<1>5. /\ c = d
      /\ ToCBORWithoutSigAndMac(ch) = ToCBORWithoutSigAndMac(svs[d].ch)
      /\ ServerHelloToCBORWithoutSig(sh) = ServerHelloToCBORWithoutSig(svs[d].sh)
  BY <1>4, HashesTell
<1> QED
  BY <1>3, <1>5

\* Only a client that is done makes the signature of its ClientFinished.
LEMMA ClientFinishedMade ==
    ASSUME NEW cls, NEW svs, NEW s, Made(s, cls, svs),
           NEW c, NEW ch, NEW sh, NEW sid, s[3] = SignatureInput(H3(c, ch, sh, sid))
    PROVE  cls[c].pc = "done"
<1>1. ~\E d \in Conns : s[3] = SignatureInput(H1(d, Sent(d)))
  BY InputsTell
<1>2. ~\E d \in Conns : s[3] = SignatureInput(H2(d, svs[d].ch, svs[d].sh))
  BY InputsTell
<1>3. PICK d \in Conns :
          cls[d].pc = "done" /\ s[3] = SignatureInput(H3(d, cls[d].ch, cls[d].sh, cls[d].sid))
  BY <1>1, <1>2 DEF Made
<1>4. c = d
  <2>1. SignatureInput(H3(c, ch, sh, sid)) =
            SignatureInput(H3(d, cls[d].ch, cls[d].sh, cls[d].sid)) => c = d
    BY InputsTell
  <2> QED
    BY <1>3, <2>1
<1> QED
  BY <1>3, <1>4

\* A field that holds a signature holds one that was made.
LEMMA FieldMade ==
    ASSUME NEW v, NEW cls, NEW svs, GenuineMessage(v, cls, svs), Kind(v) = "IntMap",
           NEW x, ValidSignature(Field(Content(v), x, "ByteString", Empty))
    PROVE  Made(Field(Content(v), x, "ByteString", Empty), cls, svs)
<1>1. Has(Content(v), x, "ByteString")
  BY Signatures DEF Field
<1> QED
  BY <1>1 DEF Field, Has, GenuineMessage, Genuine

\* The ServerHello a server has sent is accepted, if it arrives as it was sent
\* and so did the ClientHello, and the client computes the same session id.
LEMMA ReplyIsAccepted ==
    ASSUME NEW c \in Conns, NEW sv, ServerEnd(c, sv), Answered(sv), Received(c, sv)
    PROVE  LET v == ServerHelloToCBOR(sv.sh)
               sh == ServerHelloFromCBOR(v)
           IN  /\ ServerHelloDecodes(v) /\ VerifyAgentId(sh.AgentId, sh.PublicKey)
               /\ Verify(sh.PublicKey, SignatureInput(H2(c, Sent(c), sh)), sh.Signature)
               /\ sh.SessionId = sv.sid
               /\ sv.sid = ComputeSessionId(H1(c, Sent(c)), Sent(c).Nonce.bytes,
                                            sh.Nonce.bytes, sh.AgentId)
               /\ H2(c, Sent(c), sh) = H2(c, sv.ch, sv.sh)
<1> DEFINE
      v == ServerHelloToCBOR(sv.sh)
      sh == ServerHelloFromCBOR(v)
      own == ServerHellos[c]
<1>1. sv.sh = ReplyTo(c, sv.ch, sv.sid)
  BY DEF ServerEnd
<1>2. /\ Alike(sv.sh, own) /\ FilledIn(sv.sh) /\ sv.sh.SessionId = sv.sid
      /\ sv.sh.Signature = <<"signature", sv.sh.PublicKey, SignatureInput(H2(c, sv.ch, sv.sh))>>
  BY <1>1, ReplyIs
<1>3. /\ ServerHelloDecodes(v) /\ Alike(sh, sv.sh)
      /\ sh.Signature = sv.sh.Signature /\ sh.SessionId = sv.sh.SessionId
  BY <1>2, ServerHelloRoundTrip DEF FilledIn
<1> HIDE DEF sh
<1>4. H2(c, Sent(c), sh) = H2(c, sv.ch, sv.sh)
  <2>1. ServerHelloToCBORWithoutSig(sh) = ServerHelloToCBORWithoutSig(sv.sh)
    BY <1>3, AlikeHashed
  <2>2. H1(c, Sent(c)) = H1(c, sv.ch)
    BY DEF H1, Received
  <2> QED
    BY <2>1, <2>2 DEF H2
<1>5. VerifyAgentId(sh.AgentId, sh.PublicKey)
  BY <1>2, <1>3 DEF FilledIn, Alike, VerifyAgentId
<1>6. Verify(sh.PublicKey, SignatureInput(H2(c, Sent(c), sh)), sh.Signature)
  <2>1. ValidPublicKey(sh.PublicKey)
    <3>1. sh.PublicKey = PublicKey(sv.sh.PublicKey[2])
      BY <1>2, <1>3 DEF FilledIn, Alike
    <3> QED
      BY <3>1 DEF PublicKey, ValidPublicKey
  <2>2. sh.Signature = <<"signature", sh.PublicKey, SignatureInput(H2(c, Sent(c), sh))>>
    BY <1>2, <1>3, <1>4 DEF Alike
  <2>3. ValidSignature(sh.Signature)
    BY <2>2 DEF ValidSignature
  <2> QED
    BY <2>1, <2>2, <2>3 DEF Verify
<1>7. sh.Nonce.bytes = own.Nonce.bytes /\ sh.AgentId = own.AgentId
  BY <1>2, <1>3 DEF Alike
<1> QED
  BY <1>2, <1>3, <1>4, <1>5, <1>6, <1>7 DEF Received, sh

\* A client that receives a ServerHello
LEMMA ReceiveServerHelloStep ==
    ASSUME IndInv, NEW c \in Conns, ReceiveServerHello(c)
    PROVE  IndInv'
<1> DEFINE
      end == client[c]
      v == wire[c].msg
      sh == ServerHelloFromCBOR(v)
      th2 == Update(end.th, Enc(ServerHelloToCBORWithoutSig(sh)))
      sid == ComputeSessionId(At(th2, end.h1), end.ch.Nonce.bytes, sh.Nonce.bytes, sh.AgentId)
      cf == [SessionId |-> sid, Signature |-> Empty]
      th3 == Update(th2, Enc(ClientFinishedToCBORWithoutSig(cf)))
      signed == [cf EXCEPT !.Signature = SignHash(th3, end.ch.PublicKey)]
      ok == /\ ServerHelloDecodes(v)
            /\ VerifyAgentId(sh.AgentId, sh.PublicKey)
            /\ HashSigned(th2, sh.PublicKey, sh.Signature)
            /\ sh.SessionId = sid
      cl == [pc |-> "done", th |-> th3, h1 |-> end.h1,
             ch |-> AfterAppendToNonce(end.ch), sh |-> sh, sid |-> sid]
      w == [to |-> "server", msg |-> ClientFinishedToCBOR(signed)]
<1>1. /\ wire[c].to = "client" /\ client[c].pc = "helloSent"
      /\ server' = server /\ altered' = altered
      /\ ok => client' = [client EXCEPT ![c] = cl] /\ wire' = [wire EXCEPT ![c] = w]
      /\ ~ok => /\ client' = [client EXCEPT ![c].pc = "rejected"]
                /\ wire' = [wire EXCEPT ![c] = Nothing]
  BY DEF ReceiveServerHello, Arrived, Send, Consume
<1>2. /\ Local(c, client[c], server[c], wire[c])
      /\ GenuineMessage(v, client, server)
      /\ c \notin altered => Undisturbed(c, client[c], server[c], wire[c])
      /\ DOMAIN client = Conns /\ DOMAIN server = Conns /\ DOMAIN wire = Conns
  BY DEF IndInv
<1>3. /\ end.ch = Sent(c) /\ end.th = T2(H0(c), H1(c, Sent(c))) /\ end.h1 = 2
      /\ DOMAIN end = EndFields /\ server[c].pc # "done"
  BY <1>1, <1>2 DEF Local, ClientEnd, Agreed
<1>4. /\ FilledIn(Sent(c)) /\ AfterAppendToNonce(Sent(c)) = Sent(c)
      /\ DOMAIN Sent(c) = FieldsOfBoth \cup {"ReceiverMac"}
      /\ Sent(c).PublicKey = ClientHellos[c].PublicKey
  BY SentIs DEF Alike
<1>5. /\ DOMAIN sh = FieldsOfBoth \cup {"SessionId"} /\ ExtensionEntries(sh.Extensions)
      /\ sh.Signature = Field(Content(v), 8, "ByteString", Empty)
  BY ServerHelloDecoded
<1> HIDE DEF v, sh, end
<1>6. /\ th2 = T3(H0(c), H1(c, Sent(c)), H2(c, Sent(c), sh))
      /\ Hash(th2) = H2(c, Sent(c), sh) /\ At(th2, end.h1) = H1(c, Sent(c))
  <2>1. th2 = T3(H0(c), H1(c, Sent(c)), H2(c, Sent(c), sh))
    BY <1>3, SecondUpdate DEF H2
  <2> HIDE DEF th2
  <2> QED
    BY <1>3, <2>1, ThirdHash
<1>7. sid = ComputeSessionId(H1(c, Sent(c)), Sent(c).Nonce.bytes, sh.Nonce.bytes, sh.AgentId)
  BY <1>3, <1>6
<1>8. ~ValidSignature(sid)
  BY SessionIds
<1> HIDE DEF th2, sid
<1>9. /\ HashSigned(th2, sh.PublicKey, sh.Signature) <=>
            Verify(sh.PublicKey, SignatureInput(H2(c, Sent(c), sh)), sh.Signature)
  BY <1>6 DEF HashSigned
<1>10. c \notin altered =>
          /\ server[c].pc = "helloSent" /\ Received(c, server[c])
          /\ v = ServerHelloToCBOR(server[c].sh)
  <2>1. ASSUME wire[c] = [to |-> "client", msg |-> ServerHelloToCBOR(server[c].sh)]
        PROVE  v = ServerHelloToCBOR(server[c].sh)
    BY <2>1 DEF v
  <2>2. ASSUME wire[c] = [to |-> "server", msg |-> ClientHelloToCBOR(Sent(c))]
        PROVE  FALSE
    BY <1>1, <2>2
  <2> QED
    BY <1>1, <1>2, <2>1, <2>2 DEF Undisturbed
<1>11. c \notin altered =>
          /\ ok /\ sid = server[c].sid /\ H2(c, Sent(c), sh) = H2(c, server[c].ch, server[c].sh)
  <2> SUFFICES ASSUME c \notin altered
               PROVE  /\ ok /\ sid = server[c].sid
                      /\ H2(c, Sent(c), sh) = H2(c, server[c].ch, server[c].sh)
    OBVIOUS
  <2>1. ServerEnd(c, server[c]) /\ Answered(server[c]) /\ Received(c, server[c])
    BY <1>2, <1>10 DEF Local, ServerEnd
  <2>2. /\ ServerHelloDecodes(v) /\ VerifyAgentId(sh.AgentId, sh.PublicKey)
        /\ Verify(sh.PublicKey, SignatureInput(H2(c, Sent(c), sh)), sh.Signature)
        /\ sh.SessionId = server[c].sid
        /\ server[c].sid = ComputeSessionId(H1(c, Sent(c)), Sent(c).Nonce.bytes,
                                            sh.Nonce.bytes, sh.AgentId)
        /\ H2(c, Sent(c), sh) = H2(c, server[c].ch, server[c].sh)
    BY <1>10, <2>1, ReplyIsAccepted DEF sh
  <2> QED
    BY <1>7, <1>9, <2>2
<1>12. CASE ok
  <2>1. client' = [client EXCEPT ![c] = cl] /\ wire' = [wire EXCEPT ![c] = w]
    BY <1>1, <1>12
  <2>2. /\ Kind(v) = "IntMap" /\ ValidSignature(sh.Signature)
        /\ sh.Signature = <<"signature", sh.PublicKey, SignatureInput(H2(c, Sent(c), sh))>>
    BY <1>9, <1>12 DEF ServerHelloDecodes, Verify
  <2>3. /\ Answered(server[c])
        /\ ToCBORWithoutSigAndMac(Sent(c)) = ToCBORWithoutSigAndMac(server[c].ch)
        /\ ServerHelloToCBORWithoutSig(sh) = ServerHelloToCBORWithoutSig(server[c].sh)
    <3>1. Made(sh.Signature, client, server)
      BY <1>2, <1>5, <2>2, FieldMade
    <3>2. sh.Signature[3] = SignatureInput(H2(c, Sent(c), sh))
      BY <2>2
    <3> QED
      BY <3>1, <3>2, ServerHelloMade
  <2>4. /\ DOMAIN server[c].ch = FieldsOfBoth \cup {"ReceiverMac"}
        /\ ExtensionEntries(server[c].ch.Extensions)
        /\ server[c].sh = ReplyTo(c, server[c].ch, server[c].sid)
    BY <1>2, <2>3 DEF Local, ServerEnd
  <2>5. /\ DOMAIN server[c].sh = FieldsOfBoth \cup {"SessionId"}
        /\ ExtensionEntries(server[c].sh.Extensions) /\ server[c].sh.SessionId = server[c].sid
    <3>1. /\ DOMAIN server[c].sh = FieldsOfBoth \cup {"SessionId"}
          /\ FilledIn(server[c].sh) /\ server[c].sh.SessionId = server[c].sid
      BY <2>4, ReplyIs
    <3> QED
      BY <3>1 DEF FilledIn
  <2>6. Known(Sent(c)) = Known(server[c].ch)
    <3>1. Alike(Sent(c), server[c].ch)
      BY <1>4, <2>3, <2>4, ClientHelloTold DEF FilledIn
    <3> QED
      BY <1>4, <2>4, <3>1, AlikeKnown
  <2>7. Known(sh) = Known(server[c].sh) /\ sid = server[c].sid
    <3>1. Alike(sh, server[c].sh) /\ sh.SessionId = server[c].sh.SessionId
      BY <1>5, <2>3, <2>5, ServerHelloTold
    <3>2. Known(sh) = Known(server[c].sh)
      BY <1>5, <2>5, <3>1, AlikeKnown
    <3> QED
      BY <1>12, <2>5, <3>1, <3>2
  <2>8. Hash(th3) = H3(c, Sent(c), sh, sid)
    <3>1. ClientFinishedToCBORWithoutSig(cf) = IMap(1 :> B(sid))
      BY DEF ClientFinishedToCBORWithoutSig
    <3>2. th3 = T4(H0(c), H1(c, Sent(c)), H2(c, Sent(c), sh), H3(c, Sent(c), sh, sid))
      BY <1>6, <3>1, ThirdUpdate DEF H3
    <3> HIDE DEF th3
    <3> QED
      BY <3>2, FourthHash
  <2>9. signed = FinishFor(c, Sent(c), sh, sid)
    <3>1. SignHash(th3, end.ch.PublicKey) =
              Sign(ClientHellos[c].PublicKey[2], SignatureInput(H3(c, Sent(c), sh, sid)))
      BY <1>3, <1>4, <2>8 DEF SignHash
    <3> HIDE DEF th3
    <3> QED
      BY <3>1 DEF FinishFor
  <2> HIDE DEF signed, th3
  <2>10. /\ DOMAIN cl = EndFields /\ cl.pc = "done" /\ cl.ch = Sent(c) /\ cl.sh = sh /\ cl.sid = sid
    BY <1>3, <1>4 DEF EndFields
  <2>11. w = [to |-> "server", msg |-> ClientFinishedToCBOR(FinishFor(c, cl.ch, cl.sh, cl.sid))]
    BY <2>9, <2>10
  <2> HIDE DEF cl, w
  <2>12. Local(c, cl, server[c], w)
    <3>1. View(cl) = View(server[c])
      BY <2>6, <2>7, <2>10 DEF View
    <3> QED
      BY <1>2, <2>3, <2>10, <2>11, <3>1 DEF Local, ClientEnd, Agreed
  <2>13. c \notin altered => Undisturbed(c, cl, server[c], w)
    <3> SUFFICES ASSUME c \notin altered
                 PROVE  Undisturbed(c, cl, server[c], w)
      OBVIOUS
    <3>1. H3(c, cl.ch, cl.sh, cl.sid) = H3(c, server[c].ch, server[c].sh, server[c].sid)
      BY <1>11, <2>10 DEF H3
    <3>2. FinishFor(c, cl.ch, cl.sh, cl.sid) =
              FinishFor(c, server[c].ch, server[c].sh, server[c].sid)
      BY <1>11, <2>10, <3>1 DEF FinishFor
    <3> QED
      BY <1>10, <2>10, <2>11, <3>2 DEF Undisturbed
  <2>14. /\ DOMAIN client' = Conns /\ DOMAIN server' = Conns /\ DOMAIN wire' = Conns
         /\ client'[c] = cl /\ server'[c] = server[c] /\ wire'[c] = w
         /\ \A d \in Conns \ {c} :
               client'[d] = client[d] /\ server'[d] = server[d] /\ wire'[d] = wire[d]
    BY <1>1, <1>2, <2>1
  <2>15. GenuineMessage(w.msg, client', server')
    <3>1. ~ValidSignature(client'[c].sid) /\ client'[c].pc = "done"
      BY <1>8, <2>10, <2>14
    <3>2. GenuineMessage(ClientFinishedToCBOR(
              FinishFor(c, client'[c].ch, client'[c].sh, client'[c].sid)), client', server')
      BY <3>1, ClientFinishedGenuine
    <3> QED
      BY <2>11, <2>14, <3>2
  <2> QED
    BY <1>1, <2>12, <2>13, <2>14, <2>15, OneStep
<1>13. CASE ~ok
  <2> DEFINE rj == [client[c] EXCEPT !.pc = "rejected"]
  <2>1. /\ DOMAIN client' = Conns /\ DOMAIN server' = Conns /\ DOMAIN wire' = Conns
        /\ client'[c] = rj /\ server'[c] = server[c] /\ wire'[c] = Nothing
        /\ \A d \in Conns \ {c} :
              client'[d] = client[d] /\ server'[d] = server[d] /\ wire'[d] = wire[d]
    <3>1. client' = [client EXCEPT ![c].pc = "rejected"] /\ wire' = [wire EXCEPT ![c] = Nothing]
      BY <1>1, <1>13
    <3> QED
      BY <1>1, <1>2, <3>1
  <2>2. DOMAIN rj = EndFields /\ rj.pc = "rejected"
    BY <1>3 DEF EndFields, end
  <2> HIDE DEF rj
  <2>3. Local(c, rj, server[c], Nothing)
    BY <1>2, <1>3, <2>2 DEF Local, ClientEnd, Agreed, Nothing
  <2>4. c \in altered
    BY <1>11, <1>13
  <2>5. GenuineMessage(Nothing.msg, client', server')
    BY DEF GenuineMessage, Nothing, Null, Kind
  <2> QED
    BY <1>1, <2>1, <2>3, <2>4, <2>5, OneStep
<1> QED
  BY <1>12, <1>13

\* A server that receives a ClientFinished
LEMMA ReceiveClientFinishedStep ==
    ASSUME IndInv, NEW c \in Conns, ReceiveClientFinished(c)
    PROVE  IndInv'
<1> DEFINE
      end == server[c]
      v == wire[c].msg
      cf == ClientFinishedFromCBOR(v)
      th3 == Update(end.th, Enc(ClientFinishedToCBORWithoutSig(cf)))
      ok == /\ Kind(v) = "IntMap"
            /\ HashSigned(th3, end.ch.PublicKey, cf.Signature)
            /\ cf.SessionId = end.sid
      sv == [end EXCEPT !.pc = IF ok THEN "done" ELSE "rejected",
                        !.th = IF ok THEN th3 ELSE @]
<1>1. /\ wire[c].to = "server" /\ server[c].pc = "helloSent"
      /\ client' = client /\ altered' = altered
      /\ server' = [server EXCEPT ![c].pc = IF ok THEN "done" ELSE "rejected",
                                  ![c].th = IF ok THEN th3 ELSE @]
      /\ wire' = [wire EXCEPT ![c] = Nothing]
  BY DEF ReceiveClientFinished, Arrived, Consume
<1>2. /\ Local(c, client[c], server[c], wire[c])
      /\ GenuineMessage(v, client, server)
      /\ c \notin altered => Undisturbed(c, client[c], server[c], wire[c])
      /\ DOMAIN client = Conns /\ DOMAIN server = Conns /\ DOMAIN wire = Conns
  BY DEF IndInv
<1>3. /\ end.th = T3(H0(c), H1(c, end.ch), H2(c, end.ch, end.sh))
      /\ DOMAIN end = EndFields /\ Answered(end)
  BY <1>1, <1>2 DEF Local, ServerEnd
<1>4. cf.Signature = Field(Content(v), 2, "ByteString", Empty)
  BY DEF ClientFinishedFromCBOR
<1>5. ClientFinishedToCBORWithoutSig(cf) = IMap(1 :> B(cf.SessionId))
  BY DEF ClientFinishedToCBORWithoutSig
<1> HIDE DEF cf, end, v
<1>6. Hash(th3) = H3(c, end.ch, end.sh, cf.SessionId)
  <2>1. th3 = T4(H0(c), H1(c, end.ch), H2(c, end.ch, end.sh), H3(c, end.ch, end.sh, cf.SessionId))
    BY <1>3, <1>5, ThirdUpdate DEF H3
  <2> HIDE DEF th3
  <2> QED
    BY <2>1, FourthHash
<1> HIDE DEF th3
<1>7. HashSigned(th3, end.ch.PublicKey, cf.Signature) <=>
          Verify(end.ch.PublicKey, SignatureInput(H3(c, end.ch, end.sh, cf.SessionId)), cf.Signature)
  BY <1>6 DEF HashSigned
<1>8. ok => client[c].pc = "done"
  <2> SUFFICES ASSUME ok
               PROVE  client[c].pc = "done"
    OBVIOUS
  <2>1. /\ ValidSignature(cf.Signature)
        /\ cf.Signature = <<"signature", end.ch.PublicKey,
                            SignatureInput(H3(c, end.ch, end.sh, cf.SessionId))>>
    BY <1>7 DEF Verify
  <2>2. cf.Signature[3] = SignatureInput(H3(c, end.ch, end.sh, cf.SessionId))
    BY <2>1
  <2>3. Made(cf.Signature, client, server)
    BY <1>2, <1>4, <2>1, FieldMade
  <2> QED
    BY <2>2, <2>3, ClientFinishedMade
<1>9. c \notin altered => ok
  <2> SUFFICES ASSUME c \notin altered
               PROVE  ok
    OBVIOUS
  <2> DEFINE f == FinishFor(c, end.ch, end.sh, end.sid)
  <2>1. v = ClientFinishedToCBOR(f) /\ Received(c, end)
    <3>1. ASSUME wire[c] = [to |-> "client", msg |-> ServerHelloToCBOR(server[c].sh)]
          PROVE  FALSE
      BY <1>1, <3>1
    <3>2. /\ wire[c] = [to |-> "server", msg |-> ClientFinishedToCBOR(
                            FinishFor(c, server[c].ch, server[c].sh, server[c].sid))]
          /\ Received(c, server[c])
      BY <1>1, <1>2, <3>1 DEF Undisturbed
    <3> QED
      BY <3>2 DEF v, end
  <2>2. /\ f.SessionId = end.sid
        /\ f.Signature = Sign(ClientHellos[c].PublicKey[2],
                              SignatureInput(H3(c, end.ch, end.sh, end.sid)))
    BY DEF FinishFor
  <2> HIDE DEF f
  <2>3. Kind(v) = "IntMap" /\ cf.SessionId = end.sid /\ cf.Signature = f.Signature
    BY <2>1, <2>2, ClientFinishedRoundTrip DEF cf
  <2>4. end.ch.PublicKey = PublicKey(ClientHellos[c].PublicKey[2])
    <3>1. Alike(Sent(c), ClientHellos[c]) /\ FilledIn(Sent(c))
      BY SentIs
    <3> QED
      BY <2>1, <3>1 DEF Alike, FilledIn, Received
  <2>5. cf.Signature = <<"signature", end.ch.PublicKey,
                         SignatureInput(H3(c, end.ch, end.sh, cf.SessionId))>>
    BY <2>2, <2>3, <2>4, Signatures
  <2>6. ValidPublicKey(end.ch.PublicKey)
    BY <2>4 DEF PublicKey, ValidPublicKey
  <2>7. ValidSignature(cf.Signature)
    BY <2>5 DEF ValidSignature
  <2>8. Verify(end.ch.PublicKey, SignatureInput(H3(c, end.ch, end.sh, cf.SessionId)), cf.Signature)
    BY <2>5, <2>6, <2>7 DEF Verify
  <2> QED
    BY <1>7, <2>3, <2>8
<1> HIDE DEF ok
<1>10. /\ DOMAIN client' = Conns /\ DOMAIN server' = Conns /\ DOMAIN wire' = Conns
       /\ client'[c] = client[c] /\ server'[c] = sv /\ wire'[c] = Nothing
       /\ \A d \in Conns \ {c} :
             client'[d] = client[d] /\ server'[d] = server[d] /\ wire'[d] = wire[d]
  BY <1>1, <1>2 DEF end
<1>11. /\ DOMAIN sv = EndFields /\ sv.ch = end.ch /\ sv.sh = end.sh /\ sv.sid = end.sid
       /\ sv.pc = IF ok THEN "done" ELSE "rejected"
  BY <1>3 DEF EndFields
<1> HIDE DEF sv
<1>12. Local(c, client[c], sv, Nothing)
  <2>1. ServerEnd(c, sv)
    BY <1>2, <1>3, <1>11 DEF Local, ServerEnd, Answered, end
  <2>2. View(sv) = View(end)
    BY <1>11 DEF View
  <2>3. Agreed(client[c], sv)
    BY <1>2, <1>8, <1>11, <2>2 DEF Local, Agreed, Answered, end
  <2> QED
    BY <1>2, <2>1, <2>3 DEF Local, Nothing
<1>13. c \notin altered => Undisturbed(c, client[c], sv, Nothing)
  BY <1>8, <1>9, <1>11 DEF Undisturbed
<1>14. GenuineMessage(Nothing.msg, client', server')
  BY DEF GenuineMessage, Nothing, Null, Kind
<1> QED
  BY <1>1, <1>10, <1>11, <1>12, <1>13, <1>14, OneStep DEF end

-----------------------------------------------------------------------------
(* What happens on the way *)

\* A change of a message brings no signature that was not there before.
LEMMA ChangesGenuine ==
    ASSUME NEW cls, NEW svs, NEW v, NEW w, NEW others, Kind(v) = "IntMap",
           Genuine(Content(v), cls, svs), \A o \in others : Genuine(o, cls, svs),
           w \in Changes(v, others, Replacements)
    PROVE  GenuineMessage(w, cls, svs)
<1> DEFINE
      m == Content(v)
      OK(x) == (Kind(x) = "ByteString" /\ ValidSignature(Content(x))) => Made(Content(x), cls, svs)
<1>1. w \in Dropped(m) \/ w \in Replaced(m, Replacements) \/ w \in Mixed(m, others) \/ w = Null
  <2> HIDE DEF m
  <2> QED
    BY DEF Changes, m
<1>2. \A j \in DOMAIN m : OK(m[j])
  BY DEF Genuine
<1> HIDE DEF m, OK
<1>3. \A f : (\A j \in DOMAIN f : OK(f[j])) <=> Genuine(f, cls, svs)
  BY DEF Genuine, OK
<1>4. ASSUME NEW j, NEW x, OK(x), w = With(m, j, x)
      PROVE  GenuineMessage(w, cls, svs)
  <2>1. Content(w) = (j :> x) @@ m
    BY <1>4 DEF With, IMap, Content
  <2>2. /\ DOMAIN Content(w) = DOMAIN m \cup {j}
        /\ Content(w)[j] = x
        /\ \A i \in DOMAIN m : i # j => Content(w)[i] = m[i]
    BY <2>1 DEF @@, :>
  <2>3. \A i \in DOMAIN Content(w) : OK(Content(w)[i])
    BY <1>2, <1>4, <2>2
  <2> QED
    BY <1>3, <2>3 DEF GenuineMessage
<1>5. CASE w \in Dropped(m)
  <2>1. PICK gone \in DOMAIN m : w = Without(m, gone)
    BY <1>5 DEF Dropped
  <2>2. Content(w) = [i \in DOMAIN m \ {gone} |-> m[i]]
    BY <2>1 DEF Without, IMap, Content
  <2>3. \A i \in DOMAIN Content(w) : OK(Content(w)[i])
    BY <1>2, <2>2
  <2> QED
    BY <1>3, <2>3 DEF GenuineMessage
<1>6. CASE w \in Replaced(m, Replacements)
  <2>1. PICK j \in 1..11, x \in Replacements : w = With(m, j, x)
    BY <1>6 DEF Replaced
  <2>2. OK(x)
    BY ReplacementsAssumption DEF OK
  <2> QED
    BY <1>4, <2>1, <2>2
<1>7. CASE w \in Mixed(m, others)
  <2>1. PICK o \in others : \E j \in DOMAIN o : w = With(m, j, o[j])
    BY <1>7 DEF Mixed
  <2>2. PICK j \in DOMAIN o : w = With(m, j, o[j])
    BY <2>1
  <2>3. OK(o[j])
    BY <1>3, <2>2
  <2> QED
    BY <1>4, <2>2, <2>3
<1>8. CASE w = Null
  BY <1>8 DEF GenuineMessage, Null, Kind
<1> QED
  BY <1>1, <1>5, <1>6, <1>7, <1>8

\* A message that is changed
LEMMA AlterStep ==
    ASSUME IndInv, NEW c \in Conns, Alter(c)
    PROVE  IndInv'
<1>1. /\ DOMAIN client = Conns /\ DOMAIN server = Conns /\ DOMAIN wire = Conns
      /\ \A d \in Conns :
            /\ Local(d, client[d], server[d], wire[d])
            /\ GenuineMessage(wire[d].msg, client, server)
            /\ d \notin altered => Undisturbed(d, client[d], server[d], wire[d])
  BY DEF IndInv
<1>2. /\ Kind(wire[c].msg) = "IntMap"
      /\ client' = client /\ server' = server /\ altered' = altered \cup {c}
  BY DEF Alter
<1>3. PICK v \in Changes(wire[c].msg, Others(c), Replacements) :
          wire' = [wire EXCEPT ![c].msg = v]
  BY DEF Alter
<1>4. GenuineMessage(v, client, server)
  <2>1. \A o \in Others(c) : Genuine(o, client, server)
    <3> SUFFICES ASSUME NEW o \in Others(c)
                 PROVE  Genuine(o, client, server)
      OBVIOUS
    <3>1. PICK d \in Conns \ {c} : Kind(wire[d].msg) = "IntMap" /\ o = Content(wire[d].msg)
      BY DEF Others
    <3> QED
      BY <1>1, <3>1 DEF GenuineMessage
  <2>2. Genuine(Content(wire[c].msg), client, server)
    BY <1>1, <1>2 DEF GenuineMessage
  <2> QED
    BY <1>2, <2>1, <2>2, ChangesGenuine
<1>5. /\ DOMAIN wire' = Conns
      /\ wire'[c] = [to |-> wire[c].to, msg |-> v]
      /\ \A d \in Conns \ {c} : wire'[d] = wire[d]
  <2>1. wire[c] = [to |-> wire[c].to, msg |-> wire[c].msg]
    BY <1>1 DEF Local
  <2>2. wire'[c] = [wire[c] EXCEPT !.msg = v] /\ DOMAIN wire' = Conns
        /\ \A d \in Conns \ {c} : wire'[d] = wire[d]
    BY <1>1, <1>3
  <2> QED
    BY <2>1, <2>2
<1>6. ASSUME NEW d \in Conns
      PROVE  /\ Local(d, client[d], server[d], wire'[d])
             /\ GenuineMessage(wire'[d].msg, client, server)
             /\ d \notin altered' => Undisturbed(d, client[d], server[d], wire'[d])
  <2>1. CASE d = c
    <3>1. wire'[d].msg = v /\ wire'[d] = [to |-> wire'[d].to, msg |-> wire'[d].msg]
      BY <1>5, <2>1
    <3> QED
      BY <1>1, <1>2, <1>4, <2>1, <3>1 DEF Local
  <2>2. CASE d # c
    BY <1>1, <1>2, <1>5, <2>2
  <2> QED
    BY <2>1, <2>2
<1> QED
  BY <1>1, <1>2, <1>5, <1>6 DEF IndInv

\* Messages of two connections that are exchanged
LEMMA ExchangeStep ==
    ASSUME IndInv, NEW c \in Conns, NEW e \in Conns, Exchange(c, e)
    PROVE  IndInv'
<1>1. /\ DOMAIN client = Conns /\ DOMAIN server = Conns /\ DOMAIN wire = Conns
      /\ \A d \in Conns :
            /\ Local(d, client[d], server[d], wire[d])
            /\ GenuineMessage(wire[d].msg, client, server)
            /\ d \notin altered => Undisturbed(d, client[d], server[d], wire[d])
  BY DEF IndInv
<1>2. /\ client' = client /\ server' = server /\ altered' = altered \cup {c, e}
      /\ wire' = [wire EXCEPT ![c] = wire[e], ![e] = wire[c]]
  BY DEF Exchange
<1>3. /\ DOMAIN wire' = Conns
      /\ \A d \in Conns : \E b \in Conns : wire'[d] = wire[b]
      /\ \A d \in Conns \ {c, e} : wire'[d] = wire[d]
  BY <1>1, <1>2
<1>4. ASSUME NEW d \in Conns
      PROVE  /\ Local(d, client[d], server[d], wire'[d])
             /\ GenuineMessage(wire'[d].msg, client, server)
             /\ d \notin altered' => Undisturbed(d, client[d], server[d], wire'[d])
  <2>1. PICK b \in Conns : wire'[d] = wire[b]
    BY <1>3
  <2>2. wire[b] = [to |-> wire[b].to, msg |-> wire[b].msg] /\ GenuineMessage(wire[b].msg, client, server)
    BY <1>1 DEF Local
  <2>3. Local(d, client[d], server[d], wire'[d])
    BY <1>1, <2>1, <2>2 DEF Local
  <2>4. d \notin altered' => Undisturbed(d, client[d], server[d], wire'[d])
    BY <1>1, <1>2, <1>3
  <2> QED
    BY <2>1, <2>2, <2>3, <2>4
<1> QED
  BY <1>1, <1>2, <1>3, <1>4 DEF IndInv

-----------------------------------------------------------------------------
(* Theorems *)

\* Both ends start with the hash of the TLS binding, and nothing is on the way.
LEMMA InitIndInv == Init => IndInv
<1> SUFFICES ASSUME Init
             PROVE  IndInv
  OBVIOUS
<1>1. ASSUME NEW c \in Conns
      PROVE  client[c] = End(c) /\ server[c] = End(c) /\ wire[c] = Nothing
  BY DEF Init
<1>2. ASSUME NEW c \in Conns
      PROVE  Local(c, End(c), End(c), Nothing)
  <2>1. DOMAIN End(c) = EndFields /\ End(c).pc = "start" /\ End(c).sid = Empty
    BY DEF End, EndFields
  <2> QED
    BY <2>1 DEF Local, ClientEnd, ServerEnd, Agreed, Answered, Nothing
<1>3. ASSUME NEW c \in Conns
      PROVE  Undisturbed(c, End(c), End(c), Nothing)
  BY DEF Undisturbed, End
<1>4. GenuineMessage(Nothing.msg, client, server)
  BY DEF GenuineMessage, Nothing, Null, Kind
<1>5. DOMAIN client = Conns /\ DOMAIN server = Conns /\ DOMAIN wire = Conns
  BY DEF Init
<1> QED
  BY <1>1, <1>2, <1>3, <1>4, <1>5 DEF IndInv

\* The inductive invariant.  Every signature on the way was made by one of the
\* ends over a hash that end had reached; the hash tells the connection and
\* the content of every message folded into it, because the bytes of a message
\* tell its fields (handshake.go:73-120, 188-222, 251-263); and a connection
\* that nobody has disturbed is at one of five points.
THEOREM TranscriptInvariant == Spec => []IndInv
<1>1. Init => IndInv
  BY InitIndInv
<1>2. IndInv /\ [Next]_vars => IndInv'
  <2> SUFFICES ASSUME IndInv, [Next]_vars
               PROVE  IndInv'
    OBVIOUS
  <2>1. ASSUME NEW c \in Conns, SendClientHello(c)
        PROVE  IndInv'
    BY <2>1, SendClientHelloStep
  <2>2. ASSUME NEW c \in Conns, ReceiveClientHello(c)
        PROVE  IndInv'
    BY <2>2, ReceiveClientHelloStep
  <2>3. ASSUME NEW c \in Conns, ReceiveServerHello(c)
        PROVE  IndInv'
    BY <2>3, ReceiveServerHelloStep
  <2>4. ASSUME NEW c \in Conns, ReceiveClientFinished(c)
        PROVE  IndInv'
    BY <2>4, ReceiveClientFinishedStep
  <2>5. ASSUME NEW c \in Conns, Alter(c)
        PROVE  IndInv'
    BY <2>5, AlterStep
  <2>6. ASSUME NEW c \in Conns, NEW d \in Conns, Exchange(c, d)
        PROVE  IndInv'
    BY <2>6, ExchangeStep
  <2>7. CASE UNCHANGED vars
    BY <2>7 DEF vars, IndInv
  <2> QED
    BY <2>1, <2>2, <2>3, <2>4, <2>5, <2>6, <2>7 DEF Next
<1> QED
  BY <1>1, <1>2, PTL DEF Spec

\* An end that is done agrees with the other one on every field of both hellos
\* and on the session id, for any number of connections and of changes and
\* exchanges of messages: what is signed is the hash of the whole transcript
\* (handshake.go:73-172, 188-284).
THEOREM AgreementHolds == Spec => []Agreement
<1>1. IndInv => Agreement
  BY DEF IndInv, Local, Agreed, Agreement
<1> QED
  BY <1>1, TranscriptInvariant, PTL

\* A connection whose messages arrive as they were sent is rejected by neither
\* end, whatever happens on the others (handshake.go:99-120, 251-263, 278).
THEOREM NoFalseRejectHolds == Spec => []NoFalseReject
<1>1. IndInv => NoFalseReject
  <2> SUFFICES ASSUME IndInv, NEW c \in Conns, c \notin altered
               PROVE  client[c].pc # "rejected" /\ server[c].pc # "rejected"
    BY DEF NoFalseReject
  <2>1. Undisturbed(c, client[c], server[c], wire[c])
    BY DEF IndInv
  <2> QED
    BY <2>1 DEF Undisturbed
<1> QED
  BY <1>1, TranscriptInvariant, PTL
=============================================================================
