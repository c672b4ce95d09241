--------------------------- MODULE SignedDocument ---------------------------
(***************************************************************************)
(* CBOR maps with integer keys that are signed and sent: what the messages *)
(* of handshake/handshake.go and the records of identity/identity.go have  *)
(* in common.                                                              *)
(*                                                                         *)
(* A CBOR value is a pair of its kind and its content; a map is a function *)
(* on its keys.  Its bytes are Enc(value): that the encoding of a map does *)
(* not depend on the order of its entries, stands for one value only and   *)
(* is decoded to that value is what the module WireFormat is about.        *)
(*                                                                         *)
(* Byte strings are terms.  SHA-256, HMAC and signatures are free          *)
(* constructors: two of them are equal exactly if their arguments are.     *)
(***************************************************************************)
EXTENDS Integers, Sequences

\* Maps, entry by entry: f is preferred where both have a key.
k :> v == [key \in {k} |-> v]
f @@ g ==
    [key \in DOMAIN f \cup DOMAIN g |-> IF key \in DOMAIN f THEN f[key] ELSE g[key]]

Bytes(name)    == <<"bytes", name>>
Enc(v)         == <<"cbor", v>>
Sum256(parts)  == <<"sha256", parts>>
HMAC(key, msg) == <<"hmac", key, msg>>

\* A nil slice and an empty one have the same encoding.
Empty == Bytes("")

\* append(a, b...)
Concat(a, b) ==
    CASE a = Empty -> b
      [] a # Empty /\ b = Empty -> a
      [] OTHER -> <<"concat", a, b>>

Kind(v) == v[1]
Content(v) == v[2]

U(n) == <<"Unsigned", n>>
B(b) == <<"ByteString", b>>
T(s) == <<"TextString", s>>
Arr(items) == <<"Array", items>>
IMap(m) == <<"IntMap", m>>

\* The empty map is a0 whatever its keys, and decodes to one with integer keys.
SMap(m) == IF m = <<>> THEN IMap(m) ELSE <<"StrMap", m>>

Bool(b) == <<"Bool", b>>
Null == <<"Null", Empty>>

\* if val := v.IntMapGet(key); val != nil && val.Kind() == kind { ... }
Has(m, key, kind) == key \in DOMAIN m /\ Kind(m[key]) = kind
Field(m, key, kind, default) == IF Has(m, key, kind) THEN Content(m[key]) ELSE default

-----------------------------------------------------------------------------
(* mldsa *)

PublicKey(agent) == <<"publicKey", agent>>

\* Of the strings that occur, exactly the keys have PublicKeySize bytes, and
\* exactly the signatures SignatureSize.
ValidPublicKey(b) == b[1] = "publicKey"
ValidSignature(b) == b[1] = "signature"

Sign(agent, msg) == <<"signature", PublicKey(agent), msg>>

Verify(pk, msg, sig) ==
    /\ ValidPublicKey(pk)
    /\ ValidSignature(sig)
    /\ sig = <<"signature", pk, msg>>

-----------------------------------------------------------------------------
(* identity *)

AgentIdFromPubkey(pk) == Sum256(<<pk>>)

VerifyAgentId(agentId, pk) == agentId = AgentIdFromPubkey(pk)

-----------------------------------------------------------------------------
(* What may happen to a document on its way *)

Without(m, gone) == IMap([k \in DOMAIN m \ {gone} |-> m[k]])
With(m, k, w) == IMap((k :> w) @@ m)

\* A field is gone, changed or added, or replaced by the one another document
\* has there, or the whole is no map any more.
Dropped(m) == {Without(m, k) : k \in DOMAIN m}
Replaced(m, replacements) == {With(m, k, w) : k \in 1..11, w \in replacements}
Mixed(m, others) == UNION {{With(m, k, o[k]) : k \in DOMAIN o} : o \in others}

Changes(v, others, replacements) ==
    (Dropped(Content(v)) \cup Replaced(Content(v), replacements)
         \cup Mixed(Content(v), others) \cup {Null}) \ {v}
=============================================================================
