------------------------ MODULE HandshakeTranscript ------------------------
(***************************************************************************)
(* The three messages of the handshake and what binds them together:       *)
(* handshake/handshake.go.  A client and a server of each connection use   *)
(* its functions in the order its comments and the fixture generator       *)
(* (cmd/generate_interop_fixtures/main.go:266-288) use them: fold the      *)
(* message into the transcript hash, sign or verify the hash, go on.  The  *)
(* two drivers themselves, and the decoders of ServerHello and             *)
(* ClientFinished, are not in the repository; they are written here the    *)
(* way ClientHelloFromCBOR is.                                             *)
(*                                                                         *)
(* A message may be changed on its way, field by field, and messages of    *)
(* two connections may be exchanged.                                       *)
(***************************************************************************)
EXTENDS SignedDocument

CONSTANTS
    Conns,          \* connections
    ClientHellos,   \* connection -> the ClientHello its client fills in
    ServerHellos,   \* connection -> the ServerHello its server fills in
    DosProfile,     \* connections whose client adds a receiver_mac
    Replacements,   \* CBOR values a changed field may have
    MaxAlter        \* bound on the number of changes

ASSUME AlterAssumption == MaxAlter \in Nat /\ DosProfile \subseteq Conns

\* Nobody but the two ends makes signatures.
ASSUME ReplacementsAssumption ==
    \A w \in Replacements : Kind(w) = "ByteString" => ~ValidSignature(Content(w))

\* What is in an []ExtensionEntry
ExtensionEntries(exts) ==
    exts = [i \in DOMAIN exts |->
               [Type |-> exts[i].Type, Data |-> exts[i].Data, Critical |-> exts[i].Critical]]

\* An end fills in its own key and the id that belongs to it, and a nonce that
\* is an array of its own.
FilledIn(h) ==
    /\ h.PublicKey = PublicKey(h.PublicKey[2])
    /\ h.AgentId = AgentIdFromPubkey(h.PublicKey)
    /\ ~ValidSignature(h.Nonce.bytes) /\ ~h.Nonce.spare
    /\ ExtensionEntries(h.Extensions)

FieldsOfBoth == {"ProtocolVersion", "AgentId", "PublicKey", "Nonce", "Capabilities",
                 "Extensions", "Signature", "ExpiresAt", "KeyAlgorithm"}

ASSUME HellosAssumption ==
    \A c \in Conns :
        /\ DOMAIN ClientHellos[c] = FieldsOfBoth \cup {"ReceiverMac"}
        /\ DOMAIN ServerHellos[c] = FieldsOfBoth \cup {"SessionId"}
        /\ FilledIn(ClientHellos[c]) /\ FilledIn(ServerHellos[c])

VARIABLES
    client,         \* connection -> its client's end
    server,         \* connection -> its server's end
    wire,           \* connection -> the message in transit
    changes,        \* how many messages were changed
    altered         \* history: the connections they were on

vars == <<client, server, wire, changes, altered>>

Nil == <<"nil", "">>

-----------------------------------------------------------------------------
(* Slices.  A byte string of a message and the spare capacity behind it. *)

decodeBytes_View(b) == [bytes |-> b, spare |-> TRUE]

\* decodeValue copies a byte string into an array of exactly its length.
decodeBytes(b) == [bytes |-> b, spare |-> FALSE]

\* append(nonce, ...), where nonce is ch.Nonce: an array with room behind the
\* nonce would be written to, and what the message has there is lost.
AfterAppendToNonce(ch) ==
    IF ch.Nonce.spare /\ ch.Extensions # <<>>
    THEN [ch EXCEPT !.Extensions[1].Data = Bytes("overwritten")]
    ELSE ch

-----------------------------------------------------------------------------
(* Messages *)

ExtensionToCBOR(e) ==
    IMap((1 :> U(e.Type)) @@ (2 :> B(e.Data)) @@ (3 :> Bool(e.Critical)))

ExtensionFromCBOR(v) ==
    LET m == Content(v)
    IN  [Type     |-> Field(m, 1, "Unsigned", 0),
         Data     |-> Field(m, 2, "ByteString", Empty),
         Critical |-> Field(m, 3, "Bool", FALSE)]

ExtensionsToCBOR(exts) == Arr([i \in DOMAIN exts |-> ExtensionToCBOR(exts[i])])

\* Keys 1 to 6, which both hellos begin with
HelloFields(h) ==
    (1 :> U(h.ProtocolVersion)) @@ (2 :> B(h.AgentId)) @@ (3 :> B(h.PublicKey)) @@
    (4 :> B(h.Nonce.bytes)) @@ (5 :> Arr(h.Capabilities)) @@
    (6 :> ExtensionsToCBOR(h.Extensions))

ToCBORWithoutSigAndMac_NoExtensions(ch) ==
    IMap(HelloFields([ch EXCEPT !.Extensions = <<>>]) @@
         (8 :> U(ch.ExpiresAt)) @@ (10 :> U(ch.KeyAlgorithm)))

ToCBORWithoutSigAndMac(ch) ==
    IMap(HelloFields(ch) @@ (8 :> U(ch.ExpiresAt)) @@ (10 :> U(ch.KeyAlgorithm)))

ClientHelloToCBOR_NullMac(ch) ==
    IMap(HelloFields(ch) @@ (7 :> B(ch.Signature)) @@ (8 :> U(ch.ExpiresAt)) @@
         (9 :> IF ch.ReceiverMac = Nil THEN Null ELSE B(ch.ReceiverMac)) @@
         (10 :> U(ch.KeyAlgorithm)))

\* Key 9 is left out if there is no MAC.
ClientHelloToCBOR(ch) ==
    IMap(HelloFields(ch) @@ (7 :> B(ch.Signature)) @@ (8 :> U(ch.ExpiresAt)) @@
         (10 :> U(ch.KeyAlgorithm)) @@
         (IF ch.ReceiverMac = Nil THEN <<>> ELSE (9 :> B(ch.ReceiverMac))))

\* Extensions that are no map are an error.
ExtensionsDecode(m) ==
    Has(m, 6, "Array") =>
        \A i \in DOMAIN Content(m[6]) : Kind(Content(m[6])[i]) = "IntMap"

HelloFromFields(m) ==
    LET exts == Field(m, 6, "Array", <<>>)
    IN  [ProtocolVersion |-> Field(m, 1, "Unsigned", 0),
         AgentId         |-> Field(m, 2, "ByteString", Empty),
         PublicKey       |-> Field(m, 3, "ByteString", Empty),
         Nonce           |-> decodeBytes(Field(m, 4, "ByteString", Empty)),
         Capabilities    |-> Field(m, 5, "Array", <<>>),
         Extensions      |-> [i \in DOMAIN exts |-> ExtensionFromCBOR(exts[i])],
         KeyAlgorithm    |-> Field(m, 10, "Unsigned", 0)]

\* The message decodes; anything but a byte string at key 9 is an error, null
\* too.  A field that is missing or of another kind is left at zero.
ClientHelloDecodes(v) ==
    /\ Kind(v) = "IntMap"
    /\ ExtensionsDecode(Content(v))
    /\ 9 \in DOMAIN Content(v) => Has(Content(v), 9, "ByteString")

ClientHelloFromCBOR(v) ==
    LET m == Content(v)
    IN  HelloFromFields(m) @@
        [Signature   |-> Field(m, 7, "ByteString", Empty),
         ExpiresAt   |-> Field(m, 8, "Unsigned", 0),
         ReceiverMac |-> Field(m, 9, "ByteString", Nil)]

ServerHelloToCBORWithoutSig(sh) ==
    IMap(HelloFields(sh) @@ (7 :> B(sh.SessionId)) @@ (9 :> U(sh.ExpiresAt)) @@
         (10 :> U(sh.KeyAlgorithm)))

ServerHelloToCBOR(sh) ==
    IMap(Content(ServerHelloToCBORWithoutSig(sh)) @@ (8 :> B(sh.Signature)))

ServerHelloDecodes(v) == Kind(v) = "IntMap" /\ ExtensionsDecode(Content(v))

ServerHelloFromCBOR(v) ==
    LET m == Content(v)
    IN  HelloFromFields(m) @@
        [SessionId |-> Field(m, 7, "ByteString", Empty),
         Signature |-> Field(m, 8, "ByteString", Empty),
         ExpiresAt |-> Field(m, 9, "Unsigned", 0)]

ClientFinishedToCBORWithoutSig(cf) == IMap(1 :> B(cf.SessionId))

ClientFinishedToCBOR(cf) == IMap((1 :> B(cf.SessionId)) @@ (2 :> B(cf.Signature)))

ClientFinishedFromCBOR(v) ==
    [SessionId |-> Field(Content(v), 1, "ByteString", Empty),
     Signature |-> Field(Content(v), 2, "ByteString", Empty)]

-----------------------------------------------------------------------------
(* The transcript hash.  t.state is a slice: a number of a cell of t.cells. *)

NewTranscriptHash(tlsBinding) == [cells |-> <<Sum256(<<tlsBinding>>)>>, state |-> 1]

Update_InPlace(t, data) ==
    [t EXCEPT !.cells[t.state] = Sum256(<<t.cells[t.state], data>>)]

\* h.Sum(nil) allocates, so slices returned earlier keep their value.
Update(t, data) ==
    [cells |-> Append(t.cells, Sum256(<<t.cells[t.state], data>>)),
     state |-> Len(t.cells) + 1]

Current(t) == t.state

\* What is in a slice now
At(t, h) == t.cells[h]

SignatureInput(h) == Concat(Bytes("aafp-v1-handshake"), h)

hkdfExtract(salt, ikm) == HMAC(IF salt = Empty THEN Bytes("zeros") ELSE salt, ikm)

\* One block: length is 32.
hkdfExpand(prk, info) == HMAC(prk, Concat(info, Bytes("01")))

ComputeSessionId(h, clientNonce, serverNonce, serverAgentId) ==
    hkdfExpand(hkdfExtract(Concat(clientNonce, serverNonce), Concat(h, serverAgentId)),
               Bytes("aafp-session-id-v1"))

ComputeReceiverMac(receiverAgentId, chCbor) ==
    HMAC(hkdfExpand(hkdfExtract(Empty, receiverAgentId), Bytes("aafp-v1-dos-mac-key")), chCbor)

VerifyReceiverMac(receiverAgentId, chCbor, expectedMac) ==
    ComputeReceiverMac(receiverAgentId, chCbor) = expectedMac
-----------------------------------------------------------------------------
(* The two ends of a connection.  h1 is the slice Current returned after the *)
(* ClientHello; sid is the session id an end has computed.                   *)

NoHello == [Extensions |-> <<>>]

Nothing == [to |-> "nobody", msg |-> Null]

TlsBinding(c) == Bytes(c)

End(c) == [pc |-> "start", th |-> NewTranscriptHash(TlsBinding(c)), h1 |-> 1,
           ch |-> NoHello, sh |-> NoHello, sid |-> Empty]

Init ==
    /\ client = [c \in Conns |-> End(c)]
    /\ server = [c \in Conns |-> End(c)]
    /\ wire = [c \in Conns |-> Nothing]
    /\ changes = 0
    /\ altered = {}

\* The hash an end holds now, and the signature its owner gives it
Hash(th) == At(th, Current(th))
SignHash(th, publicKey) == Sign(publicKey[2], SignatureInput(Hash(th)))

HashSigned(th, publicKey, signature) == Verify(publicKey, SignatureInput(Hash(th)), signature)

Send(c, to, v) == wire' = [wire EXCEPT ![c] = [to |-> to, msg |-> v]]

Arrived(c, to) == wire[c].to = to

Consume(c) == wire' = [wire EXCEPT ![c] = Nothing]

SendClientHello(c) ==
    LET ch == ClientHellos[c]
        chCbor == Enc(ToCBORWithoutSigAndMac(ch))
        th == Update(client[c].th, chCbor)
        mac == IF c \in DosProfile
               THEN ComputeReceiverMac(ServerHellos[c].AgentId, chCbor) ELSE Nil
        signed == [ch EXCEPT !.Signature = SignHash(th, ch.PublicKey), !.ReceiverMac = mac]
    IN  /\ client[c].pc = "start"
        /\ client' = [client EXCEPT ![c] = [@ EXCEPT
               !.pc = "helloSent", !.th = th, !.h1 = Current(th), !.ch = signed]]
        /\ Send(c, "server", ClientHelloToCBOR(signed))
        /\ UNCHANGED <<server, changes, altered>>

\* What a server checks of a ClientHello, once it has folded it into th.
ClientHelloVerified(c, ch, chCbor, th) ==
    /\ ch.ReceiverMac # Nil =>
           VerifyReceiverMac(ServerHellos[c].AgentId, chCbor, ch.ReceiverMac)
    /\ VerifyAgentId(ch.AgentId, ch.PublicKey)
    /\ HashSigned(th, ch.PublicKey, ch.Signature)

ReceiveClientHello(c) ==
    LET ch == ClientHelloFromCBOR(wire[c].msg)
        chCbor == Enc(ToCBORWithoutSigAndMac(ch))
        th1 == Update(server[c].th, chCbor)
        own == ServerHellos[c]
        sid == ComputeSessionId(Hash(th1), ch.Nonce.bytes, own.Nonce.bytes, own.AgentId)
        sh == [own EXCEPT !.SessionId = sid]
        th2 == Update(th1, Enc(ServerHelloToCBORWithoutSig(sh)))
        signed == [sh EXCEPT !.Signature = SignHash(th2, own.PublicKey)]
    IN  /\ Arrived(c, "server") /\ server[c].pc = "start"
        /\ IF ClientHelloDecodes(wire[c].msg) /\ ClientHelloVerified(c, ch, chCbor, th1)
           THEN /\ server' = [server EXCEPT ![c] =
                       [pc |-> "helloSent", th |-> th2, h1 |-> Current(th1),
                        ch |-> AfterAppendToNonce(ch), sh |-> signed, sid |-> sid]]
                /\ Send(c, "client", ServerHelloToCBOR(signed))
           ELSE /\ server' = [server EXCEPT ![c].pc = "rejected"]
                /\ Consume(c)
        /\ UNCHANGED <<client, changes, altered>>

\* The client folds the ServerHello in before it computes the session id from
\* h1, which it has kept from before.
ReceiveServerHello(c) ==
    LET end == client[c]
        sh == ServerHelloFromCBOR(wire[c].msg)
        th2 == Update(end.th, Enc(ServerHelloToCBORWithoutSig(sh)))
        sid == ComputeSessionId(At(th2, end.h1), end.ch.Nonce.bytes, sh.Nonce.bytes, sh.AgentId)
        cf == [SessionId |-> sid, Signature |-> Empty]
        th3 == Update(th2, Enc(ClientFinishedToCBORWithoutSig(cf)))
        signed == [cf EXCEPT !.Signature = SignHash(th3, end.ch.PublicKey)]
    IN  /\ Arrived(c, "client") /\ end.pc = "helloSent"
        /\ IF /\ ServerHelloDecodes(wire[c].msg)
              /\ VerifyAgentId(sh.AgentId, sh.PublicKey)
              /\ HashSigned(th2, sh.PublicKey, sh.Signature)
              /\ sh.SessionId = sid
           THEN /\ client' = [client EXCEPT ![c] =
                       [pc |-> "done", th |-> th3, h1 |-> end.h1,
                        ch |-> AfterAppendToNonce(end.ch), sh |-> sh, sid |-> sid]]
                /\ Send(c, "server", ClientFinishedToCBOR(signed))
           ELSE /\ client' = [client EXCEPT ![c].pc = "rejected"]
                /\ Consume(c)
        /\ UNCHANGED <<server, changes, altered>>

ReceiveClientFinished(c) ==
    LET end == server[c]
        cf == ClientFinishedFromCBOR(wire[c].msg)
        th3 == Update(end.th, Enc(ClientFinishedToCBORWithoutSig(cf)))
        ok == /\ Kind(wire[c].msg) = "IntMap"
              /\ HashSigned(th3, end.ch.PublicKey, cf.Signature)
              /\ cf.SessionId = end.sid
    IN  /\ Arrived(c, "server") /\ end.pc = "helloSent"
        /\ server' = [server EXCEPT ![c].pc = IF ok THEN "done" ELSE "rejected",
                                     ![c].th = IF ok THEN th3 ELSE @]
        /\ Consume(c)
        /\ UNCHANGED <<client, changes, altered>>

-----------------------------------------------------------------------------
(* What may happen to messages on their way *)

\* The maps on the other connections
Others(c) == {Content(wire[d].msg) : d \in {d \in Conns \ {c} : Kind(wire[d].msg) = "IntMap"}}

Alter(c) ==
    /\ changes < MaxAlter
    /\ Kind(wire[c].msg) = "IntMap"
    /\ \E v \in Changes(wire[c].msg, Others(c), Replacements) :
          wire' = [wire EXCEPT ![c].msg = v]
    /\ changes' = changes + 1
    /\ altered' = altered \cup {c}
    /\ UNCHANGED <<client, server>>

Exchange(c, d) ==
    /\ changes < MaxAlter
    /\ c # d /\ wire[c] # wire[d] /\ wire[c].to = wire[d].to
    /\ wire' = [wire EXCEPT ![c] = wire[d], ![d] = wire[c]]
    /\ changes' = changes + 1
    /\ altered' = altered \cup {c, d}
    /\ UNCHANGED <<client, server>>

Next ==
    \/ \E c \in Conns :
          \/ SendClientHello(c) \/ ReceiveClientHello(c)
          \/ ReceiveServerHello(c) \/ ReceiveClientFinished(c)
          \/ Alter(c)
    \/ \E c, d \in Conns : Exchange(c, d)

Spec == Init /\ [][Next]_vars

-----------------------------------------------------------------------------
(* Properties *)

\* What an end knows of the handshake, without the signatures and the MAC,
\* which the transcript leaves out.
Known(h) ==
    [f \in DOMAIN h \ {"Signature", "ReceiverMac"} |->
        IF f = "Nonce" THEN h.Nonce.bytes ELSE h[f]]
View(end) == [ch |-> Known(end.ch), sh |-> Known(end.sh), sid |-> end.sid]

\* An end that is done agrees with the other one on every field of both hellos
\* and on the session id, whatever was changed or exchanged on the way: a field
\* that the lenient decoder fills in with zero never makes two different
\* messages one (handshake.go:73-172, 188-215, 265-284).  Nor has the
\* computation of the session id written into a message (handshake.go:279).
Agreement ==
    \A c \in Conns :
        /\ client[c].pc = "done" => View(client[c]) = View(server[c])
        /\ server[c].pc = "done" => client[c].pc = "done" /\ View(client[c]) = View(server[c])

\* A connection whose messages arrive as they were sent is never rejected: both
\* ends hash the same bytes though only one has built the message, and the hash
\* kept after the ClientHello is still that hash when the session id is
\* computed after another Update (handshake.go:99-120, 251-263, 278).
NoFalseReject ==
    \A c \in Conns :
        (client[c].pc = "rejected" \/ server[c].pc = "rejected") => c \in altered
=============================================================================
