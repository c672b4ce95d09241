------------------------ MODULE FramePipelineProofs ------------------------
(***************************************************************************)
(* Proofs about FramePipeline, for every set of buffers and callbacks, any *)
(* limits and word size, and with or without renegotiation.                *)
(***************************************************************************)
EXTENDS FramePipeline, TLAPS

\* Behind Phase 1 the header is complete and of this version.
HeadIsRead == pc >= 2 => data.len >= HeaderSize /\ data.version

\* Behind Phase 4 the lengths have been checked, as unsigned numbers.
BodyIsRead == pc >= 6 => ~Oversized(data) /\ FrameSize(data) <= data.len

\* Every phase of the context that lies behind has passed.
PhasesPassed == \A k \in 10..14 : pc > k => k \in passed

\* Extensions come from Phase 15 and a handshake has none; callbacks run in
\* Phase 18 only, and only for extensions.
NothingRanYet ==
    /\ pc \in 1..17 => ran = <<>>
    /\ pc \in 1..15 => exts = <<>>
    /\ data.type = "HANDSHAKE" => exts = <<>>
    /\ exts = <<>> => ran = <<>>

\* There is a result exactly when the call is over.
Undecided == pc # Done <=> result = [kind |-> "none"]

IndInv ==
    /\ TypeOK
    /\ HeadIsRead /\ BodyIsRead /\ PhasesPassed /\ NothingRanYet /\ Undecided
    /\ ExtensionsAfterAuthorization
    /\ OversizedIsRefused
    /\ FatalCodesAreFatal
    /\ ErrorTellsCallbacks

-----------------------------------------------------------------------------
(* How a phase ends: it goes on, or it fails in one of two ways, or panics. *)

Fatally == \E code \in Codes : Fail(code, TRUE)

Mildly == Fail("FrameTooLarge", FALSE)

\* What a fatal failure returns (NewPipelineError).
LEMMA FatalResult ==
    ASSUME pc \in 1..20, Fatally
    PROVE  /\ pc' = Done /\ result' \in Results
           /\ result'.kind = "error" /\ result'.phase = pc /\ result'.fatal
BY DEF Fatally, Fail, Results

\* What the only failure that is not fatal returns.
LEMMA MildResult ==
    ASSUME pc \in 1..20, Mildly
    PROVE  /\ pc' = Done /\ result' \in Results
           /\ result'.kind = "error" /\ result'.phase = pc
           /\ result'.code = "FrameTooLarge" /\ result'.fatal = FALSE
<1>1. "FrameTooLarge" \in Codes
  BY DEF Codes
<1>2. QED
  BY <1>1 DEF Mildly, Fail, Results

\* No failure reports a fatal code as mild.
LEMMA FailureKind ==
    ASSUME pc \in 1..20, Fatally \/ Mildly
    PROVE  FatalCodesAreFatal'
BY FatalResult, MildResult, Zenon DEF FatalCodesAreFatal, IsAlwaysFatal

\* Whatever the text of frame.Decode's error, it gets a code.
LEMMA CodeType == ASSUME NEW err PROVE CodeOf(err) \in Codes
BY DEF CodeOf, Codes

-----------------------------------------------------------------------------
(* What each phase that can fail does, in those terms. *)

\* Phase 1 lets only a complete header of this version through.
LEMMA HeaderPhase ==
    ASSUME validateFrameHeader
    PROVE  Fatally \/ (Goto(2) /\ ~(data.len < HeaderSize) /\ data.version)
BY Zenon DEF validateFrameHeader, Fatally, Codes

\* Phases 4 and 5: with a complete header, an oversized frame is refused mildly,
\* and a frame that goes on is not oversized and lies within the buffer.
LEMMA ReadPhase ==
    ASSUME TypeOK, HeadIsRead, readFrame
    PROVE  \/ Mildly
           \/ Fatally /\ ~Oversized(data)
           \/ Goto(6) /\ ~Oversized(data) /\ FrameSize(data) <= data.len
<1> DEFINE err == DecodeError(data)
<1>0. /\ data.len \in Nat /\ data.payloadLen \in Nat /\ data.extLen \in Nat
      /\ data.len >= HeaderSize /\ data.version
  BY WordAssumption DEF TypeOK, Buffers, uint64, HeadIsRead, readFrame, Plain
<1>1. ASSUME Oversized(data) PROVE err \in OversizeErrors
  BY <1>0, <1>1, SizeAssumption DEF DecodeError, Oversized, OversizeErrors
<1>2. CASE err \in OversizeErrors
  <2>1. (err \notin OversizeErrors) = FALSE /\ err # "none"
    BY <1>2 DEF OversizeErrors
  <2>2. CodeOf(err) = "FrameTooLarge"
    BY <1>2 DEF CodeOf
  <2>3. Fail(CodeOf(err), FALSE)
    BY <2>1, Zenon DEF readFrame
  <2>4. QED
    BY <2>2, <2>3 DEF Mildly
<1>3. CASE err \notin OversizeErrors
  <2>1. (err \notin OversizeErrors) = TRUE /\ ~Oversized(data)
    BY <1>1, <1>3
  <2>2. CASE err = "none"
    <3>1. FrameSize(data) <= data.len
      BY <1>0, <2>2, SizeAssumption DEF DecodeError, FrameSize
    <3>2. Goto(6)
      BY <2>2, Zenon DEF readFrame
    <3>3. QED
      BY <2>1, <3>1, <3>2
  <2>3. CASE err # "none"
    <3>1. Fail(CodeOf(err), TRUE)
      BY <2>1, <2>3, Zenon DEF readFrame
    <3>2. QED
      BY <2>1, <3>1, CodeType DEF Fatally
  <2>4. QED
    BY <2>2, <2>3
<1>4. QED
  BY <1>2, <1>3

\* Phases 6 to 8.
LEMMA CborPhase == ASSUME IndInv, validateCbor PROVE Fatally \/ Panic \/ Goto(9)
<1>1. data.canonical \in {"ok", "error", "panic"}
  BY DEF IndInv, TypeOK, Buffers
<1>2. Fail("SerializationError", TRUE) \/ Panic \/ Goto(9)
  BY <1>1, Zenon DEF validateCbor
<1>3. QED
  BY <1>2, Zenon DEF Fatally, Codes

\* Phase 16.
LEMMA UnknownCriticalPhase ==
    ASSUME checkUnknownCritical PROVE Fatally \/ Goto(17)
BY Zenon DEF checkUnknownCritical, Fatally, Codes

\* Phase 17.
LEMMA NonNegotiatedPhase ==
    ASSUME checkNonNegotiated PROVE Fatally \/ Goto(18)
BY Zenon DEF checkNonNegotiated, Fatally, Codes

\* Phase 15 yields nothing, or the extensions of a frame that is no handshake.
LEMMA DecodePhase ==
    ASSUME decodeExtensions
    PROVE  \/ Fatally /\ UNCHANGED exts
           \/ Goto(16) /\ exts' = <<>>
           \/ Goto(16) /\ exts' = data.exts /\ data.type # "HANDSHAKE"
BY Zenon DEF decodeExtensions, Fatally, Codes

-----------------------------------------------------------------------------
(* The invariant through a phase before Phase 18 *)

\* The frame is refused: an oversized one mildly.
LEMMA Refused ==
    ASSUME IndInv, pc \in 1..17, UNCHANGED <<data, loop, context, exts, passed>>,
           Fatally \/ Mildly, Oversized(data) => pc = 1 \/ Mildly
    PROVE  IndInv'
<1>1. pc \in 1..20
  OBVIOUS
<1>2. /\ pc' = Done /\ result' \in Results
      /\ result'.kind = "error" /\ result'.phase = pc
  BY <1>1, FatalResult, MildResult, Zenon
<1>3. TypeOK'
  BY <1>2 DEF IndInv, TypeOK, loop, context, Done
<1>4. FatalCodesAreFatal'
  BY <1>1, FailureKind
<1>5. OversizedIsRefused'
  <2>1. Oversized(data)' = Oversized(data)
    BY DEF Oversized
  <2>2. CASE ~Oversized(data) \/ pc = 1
    BY <1>2, <2>1, <2>2 DEF OversizedIsRefused, Done
  <2>3. CASE Mildly
    <3>1. result'.code = "FrameTooLarge" /\ result'.fatal = FALSE
      BY <1>1, <2>3, MildResult
    <3>2. ~(pc' >= 6)
      BY <1>2 DEF Done
    <3>3. QED
      BY <3>1, <3>2, Zenon DEF OversizedIsRefused
  <2>4. QED
    BY <2>2, <2>3
<1>6. ran' = <<>> /\ ran = <<>>
  BY DEF IndInv, NothingRanYet, loop
<1>7. ErrorTellsCallbacks'
  BY <1>2, <1>6 DEF ErrorTellsCallbacks
<1>8. Undecided'
  BY <1>2 DEF Undecided
<1>9. QED
  BY <1>2, <1>3, <1>4, <1>5, <1>6, <1>7, <1>8
     DEF IndInv, HeadIsRead, BodyIsRead, PhasesPassed, NothingRanYet,
         ExtensionsAfterAuthorization, Done

\* A panic of CheckCanonical leaves the call with nothing done.
LEMMA Panics ==
    ASSUME IndInv, pc = 6, UNCHANGED <<data, loop, context, exts, passed>>, Panic
    PROVE  IndInv'
<1>1. pc' = Done /\ result' = [kind |-> "panic"] /\ result' \in Results
  BY DEF Panic, Results
<1>2. result'.kind = "panic" /\ ran' = <<>> /\ ran = <<>>
  BY <1>1 DEF IndInv, NothingRanYet, loop
<1>3. TypeOK'
  BY <1>1 DEF IndInv, TypeOK, loop, context, Done
<1>4. FatalCodesAreFatal' /\ ErrorTellsCallbacks'
  BY <1>2 DEF FatalCodesAreFatal, ErrorTellsCallbacks
<1>5. OversizedIsRefused'
  BY <1>1, <1>2 DEF OversizedIsRefused, Done
<1>6. Undecided'
  BY <1>1, <1>2 DEF Undecided
<1>7. QED
  BY <1>1, <1>2, <1>3, <1>4, <1>5, <1>6
     DEF IndInv, HeadIsRead, BodyIsRead, PhasesPassed, NothingRanYet,
         ExtensionsAfterAuthorization, Done

\* The frame goes on to phase n.
LEMMA Proceeds ==
    ASSUME IndInv, pc \in 1..17, UNCHANGED <<data, loop, context>>,
           pc' \in {2, 3, 4, 6} \cup 9..18, UNCHANGED result,
           passed' \subseteq 9..14, passed \subseteq passed',
           data.len >= HeaderSize /\ data.version,
           pc' >= 6 => ~Oversized(data) /\ FrameSize(data) <= data.len,
           \A k \in 10..14 : pc' > k => k \in passed',
           \/ UNCHANGED exts /\ (pc' \in 1..15 => pc \in 1..15)
           \/ pc' = 16 /\ exts' = <<>>
           \/ pc' = 16 /\ exts' = data.exts /\ data.type # "HANDSHAKE"
    PROVE  IndInv'
<1>1. pc' # Done /\ result' = result /\ pc # Done
  BY DEF Done
<1>2. exts' \in Seq(Extension) /\ Len(exts') \in Nat
  <2>1. exts \in Seq(Extension) /\ data.exts \in Seq(Extension)
    BY DEF IndInv, TypeOK, Buffers
  <2>2. <<>> \in Seq(Extension)
    OBVIOUS
  <2>3. exts' \in Seq(Extension)
    BY <2>1, <2>2, Zenon
  <2>4. QED
    BY <2>3
<1>3. TypeOK'
  BY <1>1, <1>2 DEF IndInv, TypeOK, loop, context, Done
<1>4. result' = [kind |-> "none"]
  BY <1>1 DEF IndInv, Undecided
<1>5. ran' = <<>> /\ ran = <<>>
  BY DEF IndInv, NothingRanYet, loop
<1>6. Oversized(data)' = Oversized(data) /\ FrameSize(data)' = FrameSize(data)
  BY DEF Oversized, FrameSize
<1>7. FatalCodesAreFatal' /\ ErrorTellsCallbacks' /\ OversizedIsRefused'
  BY <1>1, <1>4, <1>6 DEF FatalCodesAreFatal, ErrorTellsCallbacks, OversizedIsRefused
<1>8. Undecided' /\ HeadIsRead' /\ BodyIsRead' /\ PhasesPassed'
  BY <1>1, <1>4, <1>6 DEF Undecided, HeadIsRead, BodyIsRead, PhasesPassed, Done
<1>9. NothingRanYet' /\ ExtensionsAfterAuthorization'
  BY <1>1, <1>5 DEF IndInv, NothingRanYet, ExtensionsAfterAuthorization
<1>10. QED
  BY <1>3, <1>7, <1>8, <1>9 DEF IndInv

\* A phase that asks the context keeps the invariant and records its yes.
LEMMA Asks ==
    ASSUME IndInv, NEW phase \in 9..14, NEW code \in Codes, Ask(phase, code)
    PROVE  IndInv'
<1>1. pc = phase /\ UNCHANGED <<data, loop, context, exts>>
  BY DEF Ask, Plain
<1>2. ~Oversized(data) /\ FrameSize(data) <= data.len
  BY <1>1 DEF IndInv, BodyIsRead
<1>3. data.len >= HeaderSize /\ data.version
  BY <1>1 DEF IndInv, HeadIsRead
<1>4. CASE Goto(phase + 1) /\ passed' = passed \cup {phase}
  <2>1. passed' \subseteq 9..14
    BY <1>4 DEF IndInv, TypeOK
  <2>2. \A k \in 10..14 : phase + 1 > k => k \in passed'
    BY <1>1, <1>4 DEF IndInv, PhasesPassed
  <2>3. QED
    BY <1>1, <1>2, <1>3, <1>4, <2>1, <2>2, Proceeds DEF Goto
<1>5. CASE Fail(code, TRUE) /\ UNCHANGED passed
  <2>1. Fatally
    BY <1>5 DEF Fatally
  <2>2. QED
    BY <1>1, <1>2, <1>5, <2>1, Refused
<1>6. QED
  BY <1>4, <1>5 DEF Ask

-----------------------------------------------------------------------------
\* A call of Process begins with the invariant.
LEMMA Start == Init => IndInv
<1> SUFFICES ASSUME Init PROVE IndInv
  OBVIOUS
<1>1. data \in Buffers
  BY BufAssumption DEF Init
<1>2. TypeOK
  <2>1. result \in Results
    BY DEF Init, Results
  <2>2. exts \in Seq(Extension) /\ ran \in Seq((Nat \ {0}) \X (Nat \ {0}))
    BY DEF Init
  <2>3. next \in 0..(Len(exts) + 1)
    BY DEF Init
  <2>4. QED
    BY <1>1, <2>1, <2>2, <2>3 DEF Init, TypeOK, Done
<1>3. QED
  BY <1>2 DEF Init, IndInv, HeadIsRead, BodyIsRead, PhasesPassed, NothingRanYet,
     Undecided, ExtensionsAfterAuthorization, OversizedIsRefused,
     FatalCodesAreFatal, ErrorTellsCallbacks, Done

\* Every step keeps the invariant.
LEMMA Step == IndInv /\ [Next]_vars => IndInv'
<1> SUFFICES ASSUME IndInv, [Next]_vars PROVE IndInv'
  OBVIOUS
<1>0. /\ passed \subseteq 9..14
      /\ pc >= 2 => data.len >= HeaderSize /\ data.version
      /\ pc >= 6 => ~Oversized(data) /\ FrameSize(data) <= data.len
      /\ \A k \in 10..14 : pc > k => k \in passed
  BY DEF IndInv, TypeOK, HeadIsRead, BodyIsRead, PhasesPassed
<1>1. CASE validateFrameHeader
  <2>1. pc = 1 /\ UNCHANGED <<data, loop, context, exts, passed>>
    BY <1>1 DEF validateFrameHeader, Plain
  <2>2. data.len \in Nat /\ HeaderSize \in Nat
    BY SizeAssumption DEF IndInv, TypeOK, Buffers
  <2>3. CASE Fatally
    BY <2>1, <2>3, Refused
  <2>4. CASE Goto(2) /\ ~(data.len < HeaderSize) /\ data.version
    BY <1>0, <2>1, <2>2, <2>4, Proceeds DEF Goto
  <2>5. QED
    BY <1>1, <2>3, <2>4, HeaderPhase
<1>2. ASSUME NEW phase \in {2, 3}, LengthPhase(phase) PROVE IndInv'
  <2>1. pc = phase /\ UNCHANGED <<data, loop, context, exts, passed>>
    BY <1>2 DEF LengthPhase, Plain
  <2>2. CASE Mildly
    BY <2>1, <2>2, Refused
  <2>3. CASE Goto(phase + 1)
    BY <1>0, <2>1, <2>3, Proceeds DEF Goto
  <2>4. QED
    BY <1>2, <2>2, <2>3, Zenon DEF LengthPhase, Mildly
<1>3. CASE readFrame
  <2>1. pc = 4 /\ UNCHANGED <<data, loop, context, exts, passed>>
    BY <1>3 DEF readFrame, Plain
  <2>2. CASE Mildly \/ (Fatally /\ ~Oversized(data))
    BY <2>1, <2>2, Refused
  <2>3. CASE Goto(6) /\ ~Oversized(data) /\ FrameSize(data) <= data.len
    BY <1>0, <2>1, <2>3, Proceeds DEF Goto
  <2>4. QED
    BY <1>3, <2>2, <2>3, ReadPhase DEF IndInv
<1>4. CASE validateCbor
  <2>1. pc = 6 /\ UNCHANGED <<data, loop, context, exts, passed>>
    BY <1>4 DEF validateCbor, Plain
  <2>2. CASE Fatally
    BY <1>0, <2>1, <2>2, Refused
  <2>3. CASE Panic
    BY <2>1, <2>3, Panics
  <2>4. CASE Goto(9)
    BY <1>0, <2>1, <2>4, Proceeds DEF Goto
  <2>5. QED
    BY <1>4, <2>2, <2>3, <2>4, CborPhase
<1>5. CASE validateTranscriptState
  <2>1. CASE Ask(9, "HandshakeFailed")
    BY <2>1, Asks DEF Codes
  <2>2. CASE Plain(9) /\ Goto(10) /\ UNCHANGED <<exts, passed>>
    <3>1. pc = 9 /\ UNCHANGED <<data, loop, context, exts, passed>>
      BY <2>2 DEF Plain
    <3>2. QED
      BY <1>0, <2>2, <3>1, Proceeds DEF Goto
  <2>3. QED
    BY <1>5, <2>1, <2>2 DEF validateTranscriptState
<1>6. CASE verifySignatures
  BY <1>6, Asks DEF verifySignatures, Codes
<1>7. CASE verifyAgentId
  BY <1>7, Asks DEF verifyAgentId, Codes
<1>8. CASE verifySessionState
  BY <1>8, Asks DEF verifySessionState, Codes
<1>9. CASE verifyAuthorization
  BY <1>9, Asks DEF verifyAuthorization, Codes
<1>10. CASE verifyRequiredCapabilities
  BY <1>10, Asks DEF verifyRequiredCapabilities, Codes
<1>11. CASE decodeExtensions
  <2>1. pc = 15 /\ UNCHANGED <<data, loop, context, passed>>
    BY <1>11 DEF decodeExtensions, Plain
  <2>2. CASE Fatally /\ UNCHANGED exts
    BY <1>0, <2>1, <2>2, Refused
  <2>3. CASE Goto(16) /\ exts' = <<>>
    BY <1>0, <2>1, <2>3, Proceeds DEF Goto
  <2>4. CASE Goto(16) /\ exts' = data.exts /\ data.type # "HANDSHAKE"
    BY <1>0, <2>1, <2>4, Proceeds DEF Goto
  <2>5. QED
    BY <1>11, <2>2, <2>3, <2>4, DecodePhase
<1>12. CASE checkUnknownCritical
  <2>1. pc = 16 /\ UNCHANGED <<data, loop, context, exts, passed>>
    BY <1>12 DEF checkUnknownCritical, Plain
  <2>2. CASE Fatally
    BY <1>0, <2>1, <2>2, Refused
  <2>3. CASE Goto(17)
    BY <1>0, <2>1, <2>3, Proceeds DEF Goto
  <2>4. QED
    BY <1>12, <2>2, <2>3, UnknownCriticalPhase
<1>13. CASE checkNonNegotiated
  <2>1. pc = 17 /\ UNCHANGED <<data, loop, context, exts, passed>>
    BY <1>13 DEF checkNonNegotiated, Plain
  <2>2. CASE Fatally
    BY <1>0, <2>1, <2>2, Refused
  <2>3. CASE Goto(18)
    BY <1>0, <2>1, <2>3, Proceeds DEF Goto
  <2>4. QED
    BY <1>13, <2>2, <2>3, NonNegotiatedPhase
<1>14. CASE startExtensions
  BY <1>14 DEF startExtensions, Loop, context, IndInv, TypeOK, HeadIsRead,
     BodyIsRead, PhasesPassed, NothingRanYet, Undecided,
     ExtensionsAfterAuthorization, OversizedIsRefused, FatalCodesAreFatal,
     ErrorTellsCallbacks, Oversized, FrameSize
<1>15. CASE ignoreExtension
  BY <1>15 DEF ignoreExtension, Loop, context, IndInv, TypeOK, HeadIsRead,
     BodyIsRead, PhasesPassed, NothingRanYet, Undecided,
     ExtensionsAfterAuthorization, OversizedIsRefused, FatalCodesAreFatal,
     ErrorTellsCallbacks, Oversized, FrameSize
<1>16. CASE runCallback
  <2>1. pc = 18 /\ pc \in 1..20 /\ UNCHANGED <<data, exts, context, passed, snapshot, ignoredCount>>
    BY <1>16 DEF runCallback, Loop
  <2>2. exts # <<>>
    BY <1>16 DEF runCallback, IndInv, TypeOK
  <2>3. PICK c \in 1..Len(Callbacks) : ran' = Append(ran, <<next, c>>)
    BY <1>16 DEF runCallback
  <2>4. next \in Nat \ {0} /\ c \in Nat \ {0}
    <3>1. Len(exts) \in Nat /\ Len(Callbacks) \in Nat
      <4>1. Len(exts) \in Nat
        BY DEF IndInv, TypeOK
      <4>2. QED
        BY <4>1, CallbacksAssumption
    <3>2. next \in 1..Len(exts)
      BY <1>16 DEF runCallback
    <3>3. \A k \in Nat : \A x \in 1..k : x \in Nat \ {0}
      OBVIOUS
    <3>4. QED
      BY <3>1, <3>2, <3>3, Zenon
  <2>5. ran' \in Seq((Nat \ {0}) \X (Nat \ {0})) /\ ran' # <<>>
    <3>1. ran \in Seq((Nat \ {0}) \X (Nat \ {0}))
      BY DEF IndInv, TypeOK
    <3>2. <<next, c>> \in (Nat \ {0}) \X (Nat \ {0})
      BY <2>4
    <3> DEFINE Pairs == (Nat \ {0}) \X (Nat \ {0})
    <3>3. \A s \in Seq(Pairs), e \in Pairs : Append(s, e) \in Seq(Pairs) /\ Append(s, e) # <<>>
      <4> HIDE DEF Pairs
      <4>1. \A s \in Seq(Pairs), e \in Pairs :
               Append(s, e) \in Seq(Pairs) /\ Len(Append(s, e)) = Len(s) + 1 /\ Len(s) \in Nat
        OBVIOUS
      <4>2. \A s \in Seq(Pairs) : Len(s) # 0 => s # <<>>
        OBVIOUS
      <4>3. \A n \in Nat : n + 1 # 0
        OBVIOUS
      <4>4. \A s \in Seq(Pairs), e \in Pairs : Len(Append(s, e)) # 0
        BY <4>1, <4>3
      <4>5. QED
        BY <4>1, <4>2, <4>4, Zenon
    <3>4. QED
      BY <2>3, <3>1, <3>2, <3>3
  <2>6. 10..14 \subseteq passed /\ data.type # "HANDSHAKE"
    BY <1>0, <2>1, <2>2 DEF IndInv, NothingRanYet
  <2>7. Oversized(data)' = Oversized(data) /\ FrameSize(data)' = FrameSize(data)
        /\ ~Oversized(data)
    BY <1>0, <2>1 DEF Oversized, FrameSize
  <2>8. ExtensionsAfterAuthorization'
    BY <2>1, <2>6 DEF ExtensionsAfterAuthorization
  <2>9. CASE /\ callbackCount' = callbackCount + 1 /\ next' = next + 1
             /\ UNCHANGED <<pc, result>>
    <3>1. TypeOK'
      BY <1>16, <2>1, <2>5, <2>9 DEF IndInv, TypeOK, runCallback, context
    <3>2. QED
      BY <2>1, <2>2, <2>5, <2>7, <2>8, <2>9, <3>1
         DEF IndInv, HeadIsRead, BodyIsRead, PhasesPassed, NothingRanYet, Undecided,
             OversizedIsRefused, FatalCodesAreFatal, ErrorTellsCallbacks, Done
  <2>10. CASE Fail("ProtocolViolation", TRUE) /\ UNCHANGED <<callbackCount, next>>
    <3>1. Fatally
      BY <2>10 DEF Fatally, Codes
    <3>2. /\ pc' = Done /\ result' \in Results
          /\ result'.kind = "error" /\ result'.phase = 18
      BY <2>1, <3>1, FatalResult
    <3>3. TypeOK'
      BY <2>1, <2>5, <2>10, <3>2 DEF IndInv, TypeOK, context, Done
    <3>4. FatalCodesAreFatal'
      BY <2>1, <3>1, FailureKind
    <3>5. QED
      BY <2>1, <2>2, <2>5, <2>7, <2>8, <3>2, <3>3, <3>4
         DEF IndInv, HeadIsRead, BodyIsRead, PhasesPassed, NothingRanYet, Undecided,
             OversizedIsRefused, ErrorTellsCallbacks, Done
  <2>11. QED
    BY <1>16, <2>9, <2>10 DEF runCallback
<1>17. CASE endExtensions
  BY <1>17 DEF endExtensions, Loop, Goto, loop, context, IndInv, TypeOK, HeadIsRead,
     BodyIsRead, PhasesPassed, NothingRanYet, Undecided,
     ExtensionsAfterAuthorization, OversizedIsRefused, FatalCodesAreFatal,
     ErrorTellsCallbacks, Oversized, FrameSize, Done
<1>18. CASE validateFinalState
  <2>1. pc = 19 /\ UNCHANGED <<data, loop, context, exts, passed>>
    BY <1>18 DEF validateFinalState, Plain
  <2>2. pc' = Done /\ result' = [kind |-> "frame"]
    BY <1>18 DEF validateFinalState
  <2>3. TypeOK'
    BY <2>1, <2>2 DEF IndInv, TypeOK, Results, context, loop, Done
  <2>4. QED
    BY <2>1, <2>2, <2>3 DEF IndInv, HeadIsRead, BodyIsRead, PhasesPassed,
       NothingRanYet, Undecided, ExtensionsAfterAuthorization, OversizedIsRefused,
       FatalCodesAreFatal, ErrorTellsCallbacks, loop, Done
<1>19. CASE Renegotiate
  BY <1>19 DEF Renegotiate, loop, IndInv, TypeOK, HeadIsRead,
     BodyIsRead, PhasesPassed, NothingRanYet, Undecided,
     ExtensionsAfterAuthorization, OversizedIsRefused, FatalCodesAreFatal,
     ErrorTellsCallbacks, Oversized, FrameSize
<1>20. CASE UNCHANGED vars
  <2>1. TypeOK'
    BY <1>20 DEF vars, IndInv, TypeOK
  <2>2. QED
    BY <2>1, <1>20 DEF vars, IndInv, HeadIsRead,
     BodyIsRead, PhasesPassed, NothingRanYet, Undecided,
     ExtensionsAfterAuthorization, OversizedIsRefused, FatalCodesAreFatal,
     ErrorTellsCallbacks, Oversized, FrameSize
<1>21. QED
  <2>1. CASE validateLengths \/ rejectOversizedBeforeAllocation
    BY <1>2, <2>1 DEF validateLengths, rejectOversizedBeforeAllocation
  <2>2. QED
    BY <1>1, <1>3, <1>4, <1>5, <1>6, <1>7, <1>8, <1>9, <1>10, <1>11, <1>12, <1>13,
       <1>14, <1>15, <1>16, <1>17, <1>18, <1>19, <1>20, <2>1
       DEF Next, Phase, processExtensionSemantics

-----------------------------------------------------------------------------
\* The inductive invariant holds of every call of Process.
THEOREM PipelineInvariant == Spec => []IndInv
BY Start, Step, PTL DEF Spec

\* Type correctness, with the loop of Phase 18 not begun before it.
THEOREM TypeCorrect == Spec => []TypeOK
<1>1. IndInv => TypeOK
  BY DEF IndInv
<1>2. QED
  BY <1>1, PipelineInvariant, PTL

\* No extension callback runs before all of authentication and authorization
\* succeeded for the frame (the security invariant of pipeline.go:8-14).
THEOREM ExtensionsAfterAuthorizationHolds == Spec => []ExtensionsAfterAuthorization
<1>1. IndInv => ExtensionsAfterAuthorization
  BY DEF IndInv
<1>2. QED
  BY <1>1, PipelineInvariant, PTL

\* No oversized body is read and every oversized frame is answered with a mild
\* FrameTooLarge, for every word size: the signed comparison of Phases 2 and 3
\* and the unsigned one of frame.Decode together leave no gap.
THEOREM OversizedIsRefusedHolds == Spec => []OversizedIsRefused
<1>1. IndInv => OversizedIsRefused
  BY DEF IndInv
<1>2. QED
  BY <1>1, PipelineInvariant, PTL

\* No fatal error code is ever reported as mild.
THEOREM FatalCodesAreFatalHolds == Spec => []FatalCodesAreFatal
<1>1. IndInv => FatalCodesAreFatal
  BY DEF IndInv
<1>2. QED
  BY <1>1, PipelineInvariant, PTL

\* An error says truthfully whether extension callbacks ran.
THEOREM ErrorTellsCallbacksHolds == Spec => []ErrorTellsCallbacks
<1>1. IndInv => ErrorTellsCallbacks
  BY DEF IndInv
<1>2. QED
  BY <1>1, PipelineInvariant, PTL

-----------------------------------------------------------------------------
(* The loop of Phase 18 *)

\* Callbacks ran in the order of the extensions and each was the first one
\* registered for its extension.
RanInOrder ==
    \A i \in 1..Len(ran) :
        /\ ran[i][1] \in 1..Len(exts)
        /\ IsCallbackFor(ran[i][2], exts[ran[i][1]].type)
        /\ i > 1 => ran[i - 1][1] < ran[i][1]

\* Nothing is counted before the loop; in it every extension behind has been
\* counted once and no callback ran for one ahead; behind it none is left.
LoopCounts ==
    /\ next = 0 => callbackCount = 0 /\ ignoredCount = 0 /\ ran = <<>>
    /\ (next > 0 /\ pc # Done) =>
          /\ callbackCount = Len(ran)
          /\ callbackCount + ignoredCount = next - 1
          /\ \A i \in 1..Len(ran) : ran[i][1] < next
    /\ pc = 19 => next = Len(exts) + 1

\* While the context has not changed, what Phases 16 and 17 have checked still
\* holds, the snapshot is current, and every extension behind the loop that has
\* a callback was handed to it.
ContextHeld ==
    (~changed /\ (pc # Done \/ result.kind = "frame")) =>
        /\ pc \notin 1..16 =>
              \A i \in 1..Len(exts) : exts[i].critical => exts[i].type \in known
        /\ pc \notin 1..17 =>
              \A i \in 1..Len(exts) : exts[i].type \notin known \ negotiated
        /\ next > 0 => snapshot = negotiated
        /\ \A i \in 1..Len(exts) :
              (i < next /\ Handled(exts[i])) => \E k \in 1..Len(ran) : ran[k][1] = i
        /\ pc = Done => next = Len(exts) + 1

LoopInv == RanInOrder /\ LoopCounts /\ EveryExtensionOnce /\ ContextHeld

\* Before Phase 18 a step leaves the loop and the context alone, and fails or
\* panics, or goes on having checked what its phase checks.
LEMMA BeforeLoop ==
    ASSUME IndInv, IndInv', LoopInv, pc \in 1..17, UNCHANGED <<loop, context>>,
           \/ pc' \in 1..16
           \/ result'.kind \in {"error", "panic"}
           \/ /\ pc' = 17
              /\ \A i \in 1..Len(exts') : exts'[i].critical => exts'[i].type \in known
           \/ /\ pc = 17 /\ pc' = 18 /\ UNCHANGED exts
              /\ \A i \in 1..Len(exts) : exts[i].type \notin known \ negotiated
    PROVE  LoopInv'
<1>1. /\ next = 0 /\ next' = 0 /\ ran = <<>> /\ ran' = <<>>
      /\ callbackCount' = 0 /\ ignoredCount' = 0
  BY DEF IndInv, TypeOK, NothingRanYet, LoopInv, LoopCounts, loop
<1>2. pc' # Done => result'.kind = "none"
  BY DEF IndInv, Undecided
<1>3. pc' # 19 /\ (result'.kind \notin {"error", "panic"} => pc' \in 1..18)
  <2>1. CASE pc' = Done
    BY <2>1 DEF Done
  <2>2. CASE pc' # Done
    BY <1>2, <2>2
  <2>3. QED
    BY <2>1, <2>2
<1>4. Len(ran') = 0 /\ Len(exts') \in Nat
  BY <1>1 DEF IndInv, TypeOK
<1>5. RanInOrder'
  BY <1>1, <1>4 DEF RanInOrder
<1>6. LoopCounts'
  BY <1>1, <1>3 DEF LoopCounts
<1>7. result'.kind # "frame"
  BY <1>2, <1>3 DEF Done
<1>8. EveryExtensionOnce'
  BY <1>1, <1>4, <1>5, <1>7 DEF EveryExtensionOnce, RanInOrder
<1>9. ContextHeld'
  <2> SUFFICES ASSUME ~changed', pc' # Done
               PROVE  /\ pc' \notin 1..16 =>
                            \A i \in 1..Len(exts') :
                                exts'[i].critical => exts'[i].type \in known'
                      /\ pc' \notin 1..17 =>
                            \A i \in 1..Len(exts') :
                                exts'[i].type \notin known' \ negotiated'
    BY <1>1, <1>4, <1>7 DEF ContextHeld
  <2>1. ~changed /\ known' = known /\ negotiated' = negotiated /\ pc # Done
    BY DEF context, Done
  <2>2. pc = 17 => \A i \in 1..Len(exts) : exts[i].critical => exts[i].type \in known
    BY <2>1 DEF LoopInv, ContextHeld
  <2>3. result'.kind \notin {"error", "panic"}
    BY <1>2
  <2>4. CASE pc' \in 1..16
    BY <2>4
  <2>5. CASE pc' = 17 /\ \A i \in 1..Len(exts') : exts'[i].critical => exts'[i].type \in known
    BY <2>1, <2>5
  <2>6. CASE /\ pc = 17 /\ pc' = 18 /\ UNCHANGED exts
             /\ \A i \in 1..Len(exts) : exts[i].type \notin known \ negotiated
    BY <2>1, <2>2, <2>6
  <2>7. QED
    BY <2>3, <2>4, <2>5, <2>6
<1>10. QED
  BY <1>5, <1>6, <1>8, <1>9 DEF LoopInv

\* The callback of extension `next' is recorded behind the ones that ran.
LEMMA Recorded ==
    ASSUME IndInv, LoopInv, NEW c \in 1..Len(Callbacks), next \in 1..Len(exts),
           pc # Done, UNCHANGED exts, IsCallbackFor(c, exts[next].type),
           ran' = Append(ran, <<next, c>>)
    PROVE  /\ RanInOrder'
           /\ Len(ran') = Len(ran) + 1 /\ Len(ran) \in Nat
           /\ \A i \in 1..Len(ran) : ran'[i] = ran[i] /\ ran[i][1] < next
           /\ ran'[Len(ran) + 1] = <<next, c>>
<1>1. ran \in Seq((Nat \ {0}) \X (Nat \ {0})) /\ Len(exts) \in Nat
  BY DEF IndInv, TypeOK
<1>2. Len(ran) \in Nat /\ next \in Nat /\ next > 0
  BY <1>1
<1>3. Len(ran') = Len(ran) + 1 /\ ran'[Len(ran) + 1] = <<next, c>>
  BY <1>1
<1>4. \A i \in 1..Len(ran) : ran'[i] = ran[i]
  BY <1>1
<1>5. \A i \in 1..Len(ran) : ran[i][1] < next
  BY <1>2 DEF LoopInv, LoopCounts
<1>6. RanInOrder'
  <2> SUFFICES ASSUME NEW i \in 1..Len(ran')
               PROVE  /\ ran'[i][1] \in 1..Len(exts)
                      /\ IsCallbackFor(ran'[i][2], exts[ran'[i][1]].type)
                      /\ i > 1 => ran'[i - 1][1] < ran'[i][1]
    BY DEF RanInOrder, IsCallbackFor
  <2>1. CASE i \in 1..Len(ran)
    <3>1. ran'[i] = ran[i] /\ (i > 1 => ran'[i - 1] = ran[i - 1])
      BY <1>2, <1>4, <2>1
    <3>2. QED
      BY <2>1, <3>1 DEF LoopInv, RanInOrder
  <2>2. CASE i = Len(ran) + 1
    <3>1. ran'[i] = <<next, c>>
      BY <1>3, <2>2
    <3>2. ran'[i][1] = next /\ ran'[i][2] = c
      BY <3>1
    <3>3. i > 1 => i - 1 \in 1..Len(ran)
      BY <1>2, <2>2
    <3>4. i > 1 => ran'[i - 1][1] < next
      BY <1>4, <1>5, <3>3
    <3>5. QED
      BY <3>2, <3>4
  <2>3. QED
    BY <1>2, <1>3, <2>1, <2>2
<1>7. QED
  BY <1>2, <1>3, <1>4, <1>5, <1>6

\* Every step of a call keeps what the loop relies on.
LEMMA LoopStep == IndInv /\ IndInv' /\ LoopInv /\ [Next]_vars => LoopInv'
<1> SUFFICES ASSUME IndInv, IndInv', LoopInv, [Next]_vars PROVE LoopInv'
  OBVIOUS
<1>1. CASE \/ validateFrameHeader \/ validateLengths
           \/ rejectOversizedBeforeAllocation \/ readFrame \/ validateCbor
  <2>1. pc \in 1..17 /\ pc \in 1..20 /\ UNCHANGED <<loop, context>>
    <3>1. Plain(1) \/ Plain(2) \/ Plain(3) \/ Plain(4) \/ Plain(6)
      BY <1>1, Zenon DEF validateFrameHeader, validateLengths,
         rejectOversizedBeforeAllocation, LengthPhase, readFrame, validateCbor
    <3>2. QED
      BY <3>1 DEF Plain
  <2>2. Fatally \/ Mildly \/ Panic \/ pc' \in 1..16
    <3>1. CASE validateFrameHeader
      BY <3>1, HeaderPhase DEF Goto
    <3>2. CASE validateLengths \/ rejectOversizedBeforeAllocation
      <4>1. Mildly \/ Goto(2 + 1) \/ Goto(3 + 1)
        BY <3>2, Zenon DEF validateLengths, rejectOversizedBeforeAllocation,
           LengthPhase, Mildly
      <4>2. QED
        BY <4>1 DEF Goto
    <3>3. CASE readFrame
      BY <3>3, ReadPhase DEF IndInv, Goto
    <3>4. CASE validateCbor
      BY <3>4, CborPhase DEF Goto
    <3>5. QED
      BY <1>1, <3>1, <3>2, <3>3, <3>4
  <2>3. result'.kind \in {"error", "panic"} \/ pc' \in 1..16
    <3>1. CASE Fatally \/ Mildly
      BY <2>1, <3>1, FatalResult, MildResult
    <3>2. CASE Panic
      BY <3>2 DEF Panic
    <3>3. QED
      BY <2>2, <3>1, <3>2
  <2>4. QED
    BY <2>1, <2>3, BeforeLoop
<1>2. ASSUME NEW phase \in 9..14, NEW code \in Codes, Ask(phase, code) PROVE LoopInv'
  <2>1. pc \in 1..17 /\ pc \in 1..20 /\ UNCHANGED <<loop, context>>
    BY <1>2 DEF Ask, Plain
  <2>2. Fatally \/ pc' \in 1..16
    <3>1. Fatally \/ Goto(phase + 1)
      BY <1>2, Zenon DEF Ask, Fatally
    <3>2. QED
      BY <3>1 DEF Goto
  <2>3. QED
    BY <2>1, <2>2, FatalResult, BeforeLoop
<1>3. CASE validateTranscriptState
  <2>1. CASE Ask(9, "HandshakeFailed")
    BY <1>2, <2>1 DEF Codes
  <2>2. CASE Plain(9) /\ Goto(10)
    <3>1. pc \in 1..17 /\ UNCHANGED <<loop, context>> /\ pc' \in 1..16
      BY <2>2 DEF Plain, Goto
    <3>2. QED
      BY <3>1, BeforeLoop
  <2>3. QED
    BY <1>3, <2>1, <2>2 DEF validateTranscriptState
<1>4. CASE \/ verifySignatures \/ verifyAgentId \/ verifySessionState
           \/ verifyAuthorization \/ verifyRequiredCapabilities
  BY <1>2, <1>4 DEF verifySignatures, verifyAgentId, verifySessionState,
     verifyAuthorization, verifyRequiredCapabilities, Codes
<1>5. CASE decodeExtensions
  <2>1. pc \in 1..17 /\ pc \in 1..20 /\ UNCHANGED <<loop, context>>
    BY <1>5 DEF decodeExtensions, Plain
  <2>2. Fatally \/ pc' \in 1..16
    BY <1>5, DecodePhase DEF Goto
  <2>3. QED
    BY <2>1, <2>2, FatalResult, BeforeLoop
<1>6. CASE checkUnknownCritical
  <2>1. pc \in 1..17 /\ pc \in 1..20 /\ UNCHANGED <<loop, context, exts>>
    BY <1>6 DEF checkUnknownCritical, Plain
  <2>2. CASE Fatally
    BY <2>1, <2>2, FatalResult, BeforeLoop
  <2>3. CASE ~Fatally
    <3>1. /\ Goto(17)
          /\ \A i \in 1..Len(exts) : exts[i].critical => exts[i].type \in known
      BY <1>6, <2>3, Zenon DEF checkUnknownCritical, Fatally, Codes
    <3>2. QED
      BY <2>1, <3>1, BeforeLoop DEF Goto
  <2>4. QED
    BY <2>2, <2>3
<1>7. CASE checkNonNegotiated
  <2>1. pc = 17 /\ pc \in 1..20 /\ UNCHANGED <<loop, context, exts>>
    BY <1>7 DEF checkNonNegotiated, Plain
  <2>2. CASE Fatally
    BY <2>1, <2>2, FatalResult, BeforeLoop
  <2>3. CASE ~Fatally
    <3>1. /\ Goto(18)
          /\ \A i \in 1..Len(exts) : exts[i].type \notin known \ negotiated
      BY <1>7, <2>3, Zenon DEF checkNonNegotiated, Fatally, Codes
    <3>2. QED
      BY <2>1, <3>1, BeforeLoop DEF Goto
  <2>4. QED
    BY <2>2, <2>3
<1>8. CASE startExtensions
  <2>1. /\ pc = 18 /\ pc' = 18 /\ next = 0 /\ next' = 1 /\ ran = <<>> /\ ran' = <<>>
        /\ callbackCount' = 0 /\ ignoredCount' = 0 /\ snapshot' = negotiated
        /\ UNCHANGED <<exts, known, negotiated, changed, result>>
    BY <1>8 DEF startExtensions, Loop, context, LoopInv, LoopCounts
  <2>2. Len(ran') = 0 /\ Len(exts) \in Nat
    BY <2>1 DEF IndInv, TypeOK
  <2>3. result'.kind = "none"
    BY <2>1 DEF IndInv, Undecided, Done
  <2>4. RanInOrder' /\ LoopCounts' /\ EveryExtensionOnce'
    BY <2>1, <2>2, <2>3 DEF RanInOrder, LoopCounts, EveryExtensionOnce
  <2>5. ContextHeld'
    BY <2>1, <2>2, <2>3 DEF LoopInv, ContextHeld, Done
  <2>6. QED
    BY <2>4, <2>5 DEF LoopInv
<1>9. CASE ignoreExtension
  <2>1. /\ pc = 18 /\ pc' = 18 /\ next \in 1..Len(exts) /\ next' = next + 1
        /\ ignoredCount' = ignoredCount + 1 /\ ~Handled(exts[next])
        /\ UNCHANGED <<exts, known, negotiated, changed, result, ran, callbackCount, snapshot>>
    BY <1>9 DEF ignoreExtension, Loop, context
  <2>2. /\ Len(ran) \in Nat /\ Len(exts) \in Nat /\ next \in Nat
        /\ callbackCount \in Nat /\ ignoredCount \in Nat
        /\ \A i \in 1..Len(ran) : ran[i][1] \in Nat
    <3>1. Len(exts) \in Nat /\ callbackCount \in Nat /\ ignoredCount \in Nat
      BY DEF IndInv, TypeOK
    <3>2. next \in Nat /\ next > 0
      BY <2>1, <3>1
    <3>3. ran \in Seq((Nat \ {0}) \X (Nat \ {0}))
      BY DEF IndInv, TypeOK
    <3>4. \A i \in 1..Len(ran) : ran[i][1] \in Nat
      BY <3>3
    <3>5. QED
      BY <3>1, <3>2, <3>4
  <2>3. result'.kind = "none"
    BY <2>1 DEF IndInv, Undecided, Done
  <2>4. RanInOrder' /\ EveryExtensionOnce'
    <3>1. RanInOrder'
      BY <2>1 DEF LoopInv, RanInOrder, IsCallbackFor
    <3>2. QED
      BY <2>3, <3>1 DEF RanInOrder, EveryExtensionOnce
  <2>5. LoopCounts'
    <3>1. /\ callbackCount = Len(ran) /\ callbackCount + ignoredCount = next - 1
          /\ \A i \in 1..Len(ran) : ran[i][1] < next
      BY <2>1, <2>2 DEF LoopInv, LoopCounts, Done
    <3>2. QED
      BY <2>1, <2>2, <3>1 DEF LoopCounts
  <2>6. ContextHeld'
    <3>1. \A i \in 1..Len(exts) : Handled(exts[i])' = Handled(exts[i])
      BY <2>1 DEF Handled, HasCallback
    <3>2. ASSUME ~changed, NEW i \in 1..Len(exts), i < next', Handled(exts[i])
          PROVE  \E k \in 1..Len(ran) : ran[k][1] = i
      <4>1. i < next
        BY <2>1, <2>2, <3>2
      <4>2. QED
        BY <2>1, <3>2, <4>1 DEF LoopInv, ContextHeld, Done
    <3>3. QED
      BY <2>1, <2>2, <2>3, <3>1, <3>2 DEF LoopInv, ContextHeld, Done
  <2>7. QED
    BY <2>4, <2>5, <2>6 DEF LoopInv
<1>10. CASE runCallback
  <2>1. /\ pc = 18 /\ next \in 1..Len(exts) /\ pc \in 1..20 /\ pc # Done
        /\ UNCHANGED <<exts, known, negotiated, changed, snapshot, ignoredCount>>
    BY <1>10 DEF runCallback, Loop, context, Done
  <2>2. PICK c \in 1..Len(Callbacks) :
           IsCallbackFor(c, exts[next].type) /\ ran' = Append(ran, <<next, c>>)
    BY <1>10 DEF runCallback
  <2>3. /\ RanInOrder'
        /\ Len(ran') = Len(ran) + 1 /\ Len(ran) \in Nat
        /\ \A i \in 1..Len(ran) : ran'[i] = ran[i] /\ ran[i][1] < next
        /\ ran'[Len(ran) + 1] = <<next, c>>
    BY <2>1, <2>2, Recorded
  <2>4. /\ Len(exts) \in Nat /\ next \in Nat /\ next > 0
        /\ callbackCount \in Nat /\ ignoredCount \in Nat
        /\ \A i \in 1..Len(ran) : ran[i][1] \in Nat
    <3>1. Len(exts) \in Nat /\ callbackCount \in Nat /\ ignoredCount \in Nat
      BY DEF IndInv, TypeOK
    <3>2. next \in Nat /\ next > 0
      BY <2>1, <3>1
    <3>3. ran \in Seq((Nat \ {0}) \X (Nat \ {0}))
      BY DEF IndInv, TypeOK
    <3>4. \A i \in 1..Len(ran) : ran[i][1] \in Nat
      BY <3>3
    <3>5. QED
      BY <3>1, <3>2, <3>4
  <2>5. ran'[Len(ran) + 1][1] = next
    BY <2>3
  <2>6. callbackCount = Len(ran) /\ callbackCount + ignoredCount = next - 1
    BY <2>1, <2>4 DEF LoopInv, LoopCounts
  <2>7. CASE /\ callbackCount' = callbackCount + 1 /\ next' = next + 1
             /\ UNCHANGED <<pc, result>>
    <3>1. result'.kind = "none"
      BY <2>1, <2>7 DEF IndInv, Undecided
    <3>2. EveryExtensionOnce'
      BY <2>3, <3>1 DEF RanInOrder, EveryExtensionOnce
    <3>3. \A i \in 1..Len(ran') : ran'[i][1] < next'
      <4> SUFFICES ASSUME NEW i \in 1..Len(ran') PROVE ran'[i][1] < next'
        OBVIOUS
      <4>1. CASE i \in 1..Len(ran)
        BY <2>3, <2>4, <2>7, <4>1
      <4>2. CASE i = Len(ran) + 1
        BY <2>4, <2>5, <2>7, <4>2
      <4>3. QED
        BY <2>3, <4>1, <4>2
    <3>4. LoopCounts'
      BY <2>1, <2>3, <2>4, <2>6, <2>7, <3>3 DEF LoopCounts
    <3>5. ASSUME ~changed, NEW i \in 1..Len(exts), i < next', Handled(exts[i])
          PROVE  \E k \in 1..Len(ran') : ran'[k][1] = i
      <4>1. CASE i < next
        <5>1. PICK k \in 1..Len(ran) : ran[k][1] = i
          BY <2>1, <3>5, <4>1 DEF LoopInv, ContextHeld
        <5>2. k \in 1..Len(ran') /\ ran'[k][1] = i
          BY <2>3, <5>1
        <5>3. QED
          BY <5>2
      <4>2. CASE i = next
        <5>1. Len(ran) + 1 \in 1..Len(ran')
          BY <2>3
        <5>2. QED
          BY <2>5, <4>2, <5>1
      <4>3. QED
        BY <2>4, <2>7, <3>5, <4>1, <4>2
    <3>6. ContextHeld'
      <4>1. \A i \in 1..Len(exts) : Handled(exts[i])' = Handled(exts[i])
        BY <2>1 DEF Handled, HasCallback
      <4>2. QED
        BY <2>1, <2>4, <2>7, <3>1, <3>5, <4>1 DEF LoopInv, ContextHeld
    <3>7. QED
      BY <2>3, <3>2, <3>4, <3>6 DEF LoopInv
  <2>8. CASE Fail("ProtocolViolation", TRUE) /\ UNCHANGED <<callbackCount, next>>
    <3>1. Fatally
      BY <2>8 DEF Fatally, Codes
    <3>2. pc' = Done /\ result'.kind = "error"
      BY <2>1, <3>1, FatalResult
    <3>3. LoopCounts' /\ ContextHeld'
      BY <2>4, <2>8, <3>2 DEF LoopCounts, ContextHeld, Done
    <3>4. EveryExtensionOnce'
      <4>1. callbackCount' = Len(ran') - 1
        BY <2>3, <2>6, <2>8
      <4>2. ran'[Len(ran')][1] = callbackCount' + ignoredCount' + 1
        BY <2>1, <2>3, <2>4, <2>5, <2>6, <2>8
      <4>3. QED
        BY <2>3, <3>2, <4>1, <4>2 DEF RanInOrder, EveryExtensionOnce
    <3>5. QED
      BY <2>3, <3>3, <3>4 DEF LoopInv
  <2>9. QED
    BY <1>10, <2>7, <2>8 DEF runCallback
<1>11. CASE endExtensions \/ Renegotiate
  <2>1. /\ UNCHANGED <<exts, ran, next, callbackCount, ignoredCount, result>>
        /\ pc # Done /\ pc' # Done
        /\ \/ pc' = pc
           \/ pc = 18 /\ pc' = 19 /\ next = Len(exts) + 1
    BY <1>11 DEF endExtensions, Renegotiate, Loop, Goto, loop, Done
  <2>2. result'.kind = "none"
    BY <2>1 DEF IndInv, Undecided
  <2>3. RanInOrder' /\ LoopCounts'
    BY <2>1 DEF LoopInv, RanInOrder, LoopCounts, IsCallbackFor
  <2>4. EveryExtensionOnce'
    BY <2>2, <2>3 DEF RanInOrder, EveryExtensionOnce
  <2>5. ContextHeld'
    <3>1. CASE endExtensions
      <4>1. UNCHANGED <<known, negotiated, changed, snapshot>> /\ pc = 18 /\ pc' = 19
        BY <3>1 DEF endExtensions, Loop, Goto, loop, context
      <4>2. QED
        BY <2>1, <2>2, <4>1 DEF LoopInv, ContextHeld, Handled, HasCallback, Done
    <3>2. CASE Renegotiate
      BY <3>2 DEF Renegotiate, ContextHeld
    <3>3. QED
      BY <1>11, <3>1, <3>2
  <2>6. QED
    BY <2>3, <2>4, <2>5 DEF LoopInv
<1>12. CASE validateFinalState
  <2>1. /\ pc = 19 /\ pc' = Done /\ result' = [kind |-> "frame"]
        /\ UNCHANGED <<exts, ran, next, callbackCount, ignoredCount, snapshot,
                       known, negotiated, changed>>
    BY <1>12 DEF validateFinalState, Plain, loop, context
  <2>2. Len(exts) \in Nat /\ callbackCount \in Nat /\ ignoredCount \in Nat
    BY DEF IndInv, TypeOK
  <2>3. /\ next = Len(exts) + 1 /\ callbackCount = Len(ran)
        /\ callbackCount + ignoredCount = Len(exts)
    BY <2>1, <2>2 DEF LoopInv, LoopCounts, Done
  <2>4. RanInOrder' /\ LoopCounts'
    BY <2>1, <2>2, <2>3 DEF LoopInv, RanInOrder, LoopCounts, IsCallbackFor, Done
  <2>5. EveryExtensionOnce'
    BY <2>1, <2>3, <2>4 DEF RanInOrder, EveryExtensionOnce
  <2>6. ContextHeld'
    BY <2>1, <2>3 DEF LoopInv, ContextHeld, Handled, HasCallback, Done
  <2>7. QED
    BY <2>4, <2>5, <2>6 DEF LoopInv
<1>13. CASE UNCHANGED vars
  BY <1>13 DEF vars, LoopInv, RanInOrder, LoopCounts, EveryExtensionOnce, ContextHeld,
     Handled, HasCallback, IsCallbackFor
<1>14. QED
  BY <1>1, <1>3, <1>4, <1>5, <1>6, <1>7, <1>8, <1>9, <1>10, <1>11, <1>12, <1>13
     DEF Next, Phase, processExtensionSemantics

\* What the loop relies on holds throughout every call of Process.
THEOREM LoopInvariant == Spec => []LoopInv
<1>1. Init => LoopInv
  BY DEF Init, LoopInv, RanInOrder, LoopCounts, EveryExtensionOnce, ContextHeld, Done
<1>2. QED
  BY <1>1, LoopStep, PipelineInvariant, PTL DEF Spec

\* Every extension is handled once and in order, and the counts are exact, for a
\* delivered frame and for one that a callback failed.
THEOREM EveryExtensionOnceHolds == Spec => []EveryExtensionOnce
<1>1. LoopInv => EveryExtensionOnce
  BY DEF LoopInv
<1>2. QED
  BY <1>1, LoopInvariant, PTL

\* While the negotiated types stay the same, no frame is delivered whose critical
\* extension is unknown, not negotiated, or was kept from its callback: the three
\* reads of the context in Phases 16, 17 and 18 fit together.
THEOREM CriticalExtensionsRunHolds == Spec => []CriticalExtensionsRun
<1>1. IndInv /\ LoopInv => CriticalExtensionsRun
  <2> SUFFICES ASSUME IndInv, LoopInv, result.kind = "frame", ~changed,
                      NEW i \in 1..Len(exts), exts[i].critical
               PROVE  /\ exts[i].type \in known \cap negotiated
                      /\ HasCallback(exts[i].type) =>
                            \E k \in 1..Len(ran) : ran[k][1] = i
    BY DEF CriticalExtensionsRun
  <2>1. pc = Done /\ Len(exts) \in Nat
    BY DEF IndInv, Undecided, TypeOK
  <2>2. /\ exts[i].type \in known /\ exts[i].type \notin known \ negotiated
        /\ next = Len(exts) + 1
    BY <2>1 DEF LoopInv, ContextHeld, Done
  <2>3. snapshot = negotiated /\ i < next
    BY <2>1, <2>2 DEF LoopInv, ContextHeld
  <2>4. Handled(exts[i]) => \E k \in 1..Len(ran) : ran[k][1] = i
    BY <2>3 DEF LoopInv, ContextHeld
  <2>5. QED
    BY <2>2, <2>3, <2>4 DEF Handled
<1>2. QED
  BY <1>1, LoopInvariant, PipelineInvariant, PTL
=============================================================================
