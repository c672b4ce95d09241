----------------------- MODULE MCHandshakeTranscript -----------------------
(* Two clients of one server.  The first ClientHello has a capability with   *)
(* empty metadata, two extensions and no receiver_mac, the second one has    *)
(* neither capabilities nor extensions, and a receiver_mac.                  *)
EXTENDS HandshakeTranscript

Hello(agent, nonce, caps, exts) ==
    [ProtocolVersion |-> 1, AgentId |-> AgentIdFromPubkey(PublicKey(agent)),
     PublicKey |-> PublicKey(agent), Nonce |-> [bytes |-> Bytes(nonce), spare |-> FALSE],
     Capabilities |-> caps, Extensions |-> exts, KeyAlgorithm |-> 1,
     Signature |-> Empty, ExpiresAt |-> 100]

Capability == IMap((1 :> T("inference")) @@ (2 :> SMap(<<>>)))

Extension(type, critical) == [Type |-> type, Data |-> Bytes("data"), Critical |-> critical]

NoMac == [ReceiverMac |-> Nil]
NoSession == [SessionId |-> Empty]

MCClientHellos ==
    ("x1" :> (Hello("alice", "n1", <<Capability>>, <<Extension(1, TRUE), Extension(0, FALSE)>>) @@ NoMac)) @@
    ("x2" :> (Hello("bob", "n2", <<>>, <<>>) @@ NoMac))

MCServerHellos ==
    ("x1" :> (Hello("server", "n3", <<Capability>>, <<>>) @@ NoSession)) @@
    ("x2" :> (Hello("server", "n4", <<>>, <<Extension(2, FALSE)>>) @@ NoSession))

MCReplacements == {Null, U(0), B(Empty), Arr(<<>>), Arr(<<Null>>), Arr(<<IMap(<<>>)>>)}
=============================================================================
