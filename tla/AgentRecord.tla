---------------------------- MODULE AgentRecord ----------------------------
(***************************************************************************)
(* Self-signed agent records: identity/identity.go.  Agents sign records;  *)
(* one of them travels, may be changed field by field on its way, is       *)
(* decoded, and is then held and checked again while time passes.          *)
(***************************************************************************)
EXTENDS SignedDocument

CONSTANTS
    Records,          \* the records that agents have signed
    LegacyRecords,    \* those they signed before there were record versions
    Replacements,     \* CBOR values a changed field may have
    MaxRecordExpiry,  \* 30 days
    UintMax,          \* the largest uint64
    MaxChanges,       \* bound on the number of changed fields
    MaxClock          \* bound on the clock

ASSUME ClockAssumption ==
    /\ MaxRecordExpiry \in Nat /\ UintMax \in Nat
    /\ MaxClock \in 0..UintMax /\ MaxChanges \in Nat

VARIABLES
    doc,         \* the document in transit, as CBOR
    changes,     \* how often it was changed
    held,        \* the record decoded from it
    checkedAt,   \* when the holder last asked for the warning
    warning,     \* and the answer
    clock

vars == <<doc, changes, held, checkedAt, warning, clock>>

RecordTypeV1 == "aafp-record-v1"
KeyAlgMLDSA65 == 1

NoRecord == [RecordType |-> "none"]
Never == UintMax + 1

-----------------------------------------------------------------------------
(* CapabilityDescriptor *)

\* Metadata that is nil and metadata that is empty are both <<>>; key 2 is
\* there in any case.
CapabilityToCBOR(c) == IMap((1 :> T(c.Name)) @@ (2 :> SMap(c.Metadata)))

CapabilityDecodes_StrMapOnly(v) ==
    /\ Kind(v) = "IntMap"
    /\ Has(Content(v), 1, "TextString")
    /\ 2 \in DOMAIN Content(v) => Has(Content(v), 2, "StrMap") \/ Has(Content(v), 2, "Null")

CapabilityDecodes(v) ==
    /\ Kind(v) = "IntMap"
    /\ Has(Content(v), 1, "TextString")
    /\ 2 \in DOMAIN Content(v) =>
          \/ Has(Content(v), 2, "StrMap")
          \/ Content(v)[2] = IMap(<<>>)
          \/ Has(Content(v), 2, "Null")

CapabilityFromCBOR(v) ==
    [Name |-> Content(Content(v)[1]), Metadata |-> Field(Content(v), 2, "StrMap", <<>>)]

-----------------------------------------------------------------------------
(* AgentRecord *)

ToCBORWithoutSig_NoEndpoints(r) ==
    IMap((1 :> T(r.RecordType)) @@ (2 :> B(r.AgentId)) @@ (3 :> B(r.PublicKey)) @@
         (4 :> Arr([i \in DOMAIN r.Capabilities |-> CapabilityToCBOR(r.Capabilities[i])])) @@
         (6 :> U(r.CreatedAt)) @@ (7 :> U(r.ExpiresAt)) @@
         (9 :> U(r.KeyAlgorithm)) @@ (10 :> U(r.RecordVersion)))

ToCBORWithoutSig(r) ==
    IMap((1 :> T(r.RecordType)) @@ (2 :> B(r.AgentId)) @@ (3 :> B(r.PublicKey)) @@
         (4 :> Arr([i \in DOMAIN r.Capabilities |-> CapabilityToCBOR(r.Capabilities[i])])) @@
         (5 :> Arr([i \in DOMAIN r.Endpoints |-> T(r.Endpoints[i])])) @@
         (6 :> U(r.CreatedAt)) @@ (7 :> U(r.ExpiresAt)) @@
         (9 :> U(r.KeyAlgorithm)) @@ (10 :> U(r.RecordVersion)))

ToCBOR(r) == IMap(Content(ToCBORWithoutSig(r)) @@ (8 :> B(r.Signature)))

\* Keys 1 to 3 are required, and every capability has to decode.
AgentRecordDecodes(v) ==
    /\ Kind(v) = "IntMap"
    /\ Has(Content(v), 1, "TextString")
    /\ Has(Content(v), 2, "ByteString")
    /\ Has(Content(v), 3, "ByteString")
    /\ Has(Content(v), 4, "Array") =>
          \A i \in DOMAIN Content(Content(v)[4]) : CapabilityDecodes(Content(Content(v)[4])[i])

\* for _, ep := range arr: what is no text is left out.
Texts(items) ==
    LET kept[n \in 0..Len(items)] ==
            IF n = 0 THEN <<>>
            ELSE IF Kind(items[n]) = "TextString" THEN Append(kept[n - 1], items[n])
            ELSE kept[n - 1]
    IN  kept[Len(items)]

\* The other fields are left at zero if they are missing or of another kind.
AgentRecordFromCBOR(v) ==
    LET m == Content(v)
        caps == Field(m, 4, "Array", <<>>)
        eps == Texts(Field(m, 5, "Array", <<>>))
    IN  [RecordType    |-> Content(m[1]),
         AgentId       |-> Content(m[2]),
         PublicKey     |-> Content(m[3]),
         Capabilities  |-> [i \in DOMAIN caps |-> CapabilityFromCBOR(caps[i])],
         Endpoints     |-> [i \in DOMAIN eps |-> Content(eps[i])],
         CreatedAt     |-> Field(m, 6, "Unsigned", 0),
         ExpiresAt     |-> Field(m, 7, "Unsigned", 0),
         Signature     |-> Field(m, 8, "ByteString", Empty),
         KeyAlgorithm  |-> Field(m, 9, "Unsigned", 0),
         RecordVersion |-> Field(m, 10, "Unsigned", 0)]

SignatureInput(r) == Concat(Bytes("aafp-v1-record"), Enc(ToCBORWithoutSig(r)))

\* The first check that fails names the result.
VerifyRecord(r, now) ==
    IF ~VerifyAgentId(r.AgentId, r.PublicKey) THEN "invalid agent_id"
    ELSE IF r.RecordType # RecordTypeV1 THEN "invalid record_type"
    ELSE IF r.KeyAlgorithm # KeyAlgMLDSA65 THEN "unsupported key_algorithm"
    ELSE IF ~Verify(r.PublicKey, SignatureInput(r), r.Signature)
    THEN "signature verification failed"
    ELSE IF r.ExpiresAt <= now THEN "expired" ELSE "ok"

ExceedsMaxExpiryWarning_NoGuard(r, now) ==
    (r.ExpiresAt - now) % (UintMax + 1) > MaxRecordExpiry

\* The difference is a uint64; the test before it keeps it from wrapping.
ExceedsMaxExpiryWarning(r, now) ==
    /\ r.ExpiresAt > now
    /\ (r.ExpiresAt - now) % (UintMax + 1) > MaxRecordExpiry

-----------------------------------------------------------------------------
Signed(r) == [r EXCEPT !.Signature = Sign(r.PublicKey[2], SignatureInput(r))]

\* What an agent signs: a record of its own with every field filled in.
WellFormed(r) ==
    /\ r = [RecordType |-> RecordTypeV1, AgentId |-> AgentIdFromPubkey(r.PublicKey),
            PublicKey |-> PublicKey(r.PublicKey[2]),
            Capabilities |-> [i \in 1..Len(r.Capabilities) |->
                [Name |-> r.Capabilities[i].Name, Metadata |-> r.Capabilities[i].Metadata]],
            Endpoints |-> [i \in 1..Len(r.Endpoints) |-> r.Endpoints[i]],
            CreatedAt |-> r.CreatedAt, ExpiresAt |-> r.ExpiresAt, Signature |-> r.Signature,
            KeyAlgorithm |-> KeyAlgMLDSA65, RecordVersion |-> r.RecordVersion]
    /\ Len(r.Capabilities) \in Nat /\ Len(r.Endpoints) \in Nat
    /\ r.ExpiresAt \in 0..UintMax

ASSUME RecordsAssumption == \A r \in Records \cup LegacyRecords : WellFormed(r)

\* An unsigned integer is a uint64, and nobody but the agents makes signatures.
ASSUME ReplacementsAssumption ==
    \A w \in Replacements :
        /\ Kind(w) = "Unsigned" => Content(w) \in 0..UintMax
        /\ Kind(w) = "ByteString" => ~ValidSignature(Content(w))

\* A record from before Rev 6 has no key 10, and what was signed is what the
\* comment on SignatureInput says: fields 1-7 and 9.
LegacyFields(r) == Without(Content(ToCBORWithoutSig(r)), 10)
LegacyInput(r) == Concat(Bytes("aafp-v1-record"), Enc(LegacyFields(r)))
LegacyDocument(r) ==
    With(Content(LegacyFields(r)), 8, B(Sign(r.PublicKey[2], LegacyInput(r))))

CurrentDocuments == {ToCBOR(Signed(r)) : r \in Records}
Documents == CurrentDocuments \cup {LegacyDocument(r) : r \in LegacyRecords}

Init ==
    /\ doc \in Documents
    /\ changes = 0
    /\ held = NoRecord
    /\ checkedAt = Never
    /\ warning = FALSE
    /\ clock = 0

Alter ==
    /\ held = NoRecord
    /\ changes < MaxChanges
    /\ Kind(doc) = "IntMap"
    /\ doc' \in Changes(doc, {Content(d) : d \in Documents}, Replacements)
    /\ changes' = changes + 1
    /\ UNCHANGED <<held, checkedAt, warning, clock>>

Receive ==
    /\ held = NoRecord
    /\ AgentRecordDecodes(doc)
    /\ held' = AgentRecordFromCBOR(doc)
    /\ UNCHANGED <<doc, changes, checkedAt, warning, clock>>

\* The holder asks whether to warn of a long-lived record.
Ask ==
    /\ held # NoRecord
    /\ checkedAt' = clock
    /\ warning' = ExceedsMaxExpiryWarning(held, clock)
    /\ UNCHANGED <<doc, changes, held, clock>>

Tick ==
    /\ held # NoRecord
    /\ clock < MaxClock
    /\ clock' = clock + 1
    /\ UNCHANGED <<doc, changes, held, checkedAt, warning>>

Next == Alter \/ Receive \/ Ask \/ Tick

Spec == Init /\ [][Next]_vars

-----------------------------------------------------------------------------
(* Properties *)

Asked == held # NoRecord /\ checkedAt # Never

\* A record that verifies is, in every field, one that its agent signed,
\* however its document was changed on the way: nothing the decoder leaves
\* out, skips or fills in turns another document into a signed record with
\* other contents (identity.go:163-231, 237-263), the record_version it fills in
\* for one from before Rev 6 included (identity.go:212-216).  And a document
\* that was not changed is decoded, and is a record that verifies until it
\* expires if it was signed with its record_version: encoding and decoding
\* again, with the empty map the decoder cannot tell from one with integer
\* keys, gives the bytes that were signed (identity.go:87-106).
VerifiedMeansSigned ==
    /\ (held # NoRecord /\ VerifyRecord(held, clock) \in {"ok", "expired"}) =>
           held \in {Signed(r) : r \in Records}
    /\ (held # NoRecord /\ changes = 0 /\ doc \in CurrentDocuments) =>
           VerifyRecord(held, clock) \in {"ok", "expired"}
    /\ changes = 0 => AgentRecordDecodes(doc)

\* The warning foretells what Verify answers later: a record that was warned of
\* does not expire within the next MaxRecordExpiry, one that was not has expired
\* by then (identity.go:259, 277-282), also if it had expired before.
WarningForetells ==
    Asked =>
        /\ warning /\ clock <= checkedAt + MaxRecordExpiry =>
              VerifyRecord(held, clock) # "expired"
        /\ ~warning /\ clock >= checkedAt + MaxRecordExpiry =>
              VerifyRecord(held, clock) # "ok"
=============================================================================
