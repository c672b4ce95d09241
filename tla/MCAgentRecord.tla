--------------------------- MODULE MCAgentRecord ---------------------------
(* Two records of one agent, the second one newer, with less metadata and    *)
(* more endpoints, and two of another agent, one of them from before Rev 6.  *)
(* A uint64 has 4 bits.                                                      *)
EXTENDS AgentRecord

Record(agent, caps, endpoints, expires, version) ==
    [RecordType |-> RecordTypeV1, AgentId |-> AgentIdFromPubkey(PublicKey(agent)),
     PublicKey |-> PublicKey(agent), Capabilities |-> caps, Endpoints |-> endpoints,
     CreatedAt |-> 1, ExpiresAt |-> expires, Signature |-> Empty,
     KeyAlgorithm |-> KeyAlgMLDSA65, RecordVersion |-> version]

Capability(name, metadata) == [Name |-> name, Metadata |-> metadata]

MCRecords ==
    {Record("alice", <<Capability("inference", "model" :> T("m"))>>, <<"e1">>, 2, 1),
     Record("alice", <<Capability("inference", <<>>)>>, <<"e1", "e2">>, 9, 2),
     Record("bob", <<>>, <<>>, 5, 0)}

MCLegacyRecords == {Record("bob", <<>>, <<"e1">>, 5, 0)}

MCReplacements ==
    {Null, U(0), U(12), T("other"), B(Empty), Arr(<<>>), Arr(<<Null, T("e1")>>),
     Arr(<<IMap(1 :> T("inference"))>>),
     Arr(<<IMap((1 :> T("inference")) @@ (2 :> Null))>>),
     Arr(<<IMap((1 :> T("inference")) @@ (2 :> IMap(1 :> Null)))>>)}

\* What SignatureInput and the decoder say of records from before Rev 6: the
\* signature is over fields 1-7 and 9 (identity.go:220-222), and a record without
\* record_version is taken as one of version 0 "for backward compatibility"
\* (identity.go:212-213), so that an unchanged document that was signed so
\* verifies until it expires.  ToCBORWithoutSig encodes key 10 in any case.
DocumentedSignaturesVerify ==
    (held # NoRecord /\ changes = 0) => VerifyRecord(held, clock) \in {"ok", "expired"}
=============================================================================
