-------------------------- MODULE TruncateMessage --------------------------
(***************************************************************************)
(* truncateMessage of closemanager/closemanager.go, which CloseManager     *)
(* takes as its constant Truncate, over every message of at most MaxLen    *)
(* bytes that an application may write.  What UTF-8 tells apart is all     *)
(* that is kept of a byte: n \in 1..3 starts a rune of n bytes, Cont       *)
(* continues one, and Bad (0xFF, say) may start a rune for                 *)
(* utf8.RuneStart, but no rune starts with it.                             *)
(***************************************************************************)
EXTENDS Integers, Sequences, FiniteSetsExt, SequencesExt

CONSTANTS
    MaxCloseMessageLen,     \* 256 in the code
    MaxLen                  \* bound on the messages

ASSUME LengthAssumption == MaxCloseMessageLen \in Nat /\ MaxLen \in Nat

Cont == 0
Bad  == 4
Bytes == {Cont, 1, 2, 3, Bad}

VARIABLE draft          \* the message, as far as it is written

-----------------------------------------------------------------------------
(* unicode/utf8 *)

RuneStart(b) == b # Cont

\* A whole rune starts at position i of str.
RuneAt(str, i) ==
    /\ str[i] \in 1..3
    /\ i + str[i] - 1 <= Len(str)
    /\ \A j \in (i + 1)..(i + str[i] - 1) : str[j] = Cont

ValidString(str) ==
    LET valid[i \in 1..(Len(str) + 1)] ==
            i > Len(str) \/ (RuneAt(str, i) /\ valid[i + str[i]])
    IN  valid[1]

RuneError == <<3, Cont, Cont>>      \* U+FFFD

\* []rune(str), each rune as its bytes: a byte that belongs to none becomes
\* U+FFFD.
Runes(str) ==
    LET from[i \in 1..(Len(str) + 1)] ==
            CASE i > Len(str) -> <<>>
              [] i <= Len(str) /\ RuneAt(str, i) ->
                    <<SubSeq(str, i, i + str[i] - 1)>> \o from[i + str[i]]
              [] OTHER -> <<RuneError>> \o from[i + 1]
    IN  from[1]

-----------------------------------------------------------------------------
Prefix(str, n) == SubSeq(str, 1, n)

\* The largest rune boundary <= MaxCloseMessageLen; s[end] in the code is
\* str[end + 1] here.
Boundary(str) ==
    Max({0} \cup {n \in 1..MaxCloseMessageLen : RuneStart(str[n + 1])})

\* As many whole runes as fit.
Fallback(str) ==
    LET runes == Runes(str)
        Fits(n) == Len(FlattenSeq(Prefix(runes, n))) <= MaxCloseMessageLen
    IN  FlattenSeq(Prefix(runes, Max({n \in 0..Len(runes) : Fits(n)})))

\* Counts a byte of str where utf8.RuneLen counts one of U+FFFD.
Fallback_CountsBytes(str) == FlattenSeq(Prefix(Runes(str), MaxCloseMessageLen))

truncateMessage_NoFallback(str) ==
    IF Len(str) <= MaxCloseMessageLen THEN str ELSE Prefix(str, Boundary(str))

truncateMessage_WideFallback(str) ==
    IF Len(str) <= MaxCloseMessageLen THEN str
    ELSE LET truncated == Prefix(str, Boundary(str))
         IN  IF ValidString(truncated) THEN truncated ELSE Fallback_CountsBytes(str)

truncateMessage_CutsAtLimit(str) ==
    IF Len(str) < MaxCloseMessageLen THEN str ELSE Prefix(str, MaxCloseMessageLen - 1)

truncateMessage(str) ==
    IF Len(str) <= MaxCloseMessageLen THEN str
    ELSE LET truncated == Prefix(str, Boundary(str))
         IN  IF ValidString(truncated) THEN truncated ELSE Fallback(str)

-----------------------------------------------------------------------------
(* The application writes its message byte by byte. *)

NoDraft == draft = <<>>

WriteByte == Len(draft) < MaxLen /\ \E b \in Bytes : draft' = Append(draft, b)

DraftSpec == NoDraft /\ [][WriteByte]_draft

-----------------------------------------------------------------------------
(* Properties *)

\* The message sent is never longer than MaxCloseMessageLen, even when the
\* fallback replaces single bytes by the three bytes of U+FFFD; so cutting it
\* again changes nothing, which is TruncateAssumption of CloseManager
\* (closemanager.go:433-456).
FitsInFrame == Len(truncateMessage(draft)) <= MaxCloseMessageLen

\* "UTF-8 safe" (closemanager.go:430): whatever bytes the message consists of,
\* what is left after a cut is valid UTF-8.
CutIsValid == Len(draft) > MaxCloseMessageLen => ValidString(truncateMessage(draft))

\* Of a message that is valid UTF-8, exactly the longest prefix of whole runes
\* that fits is kept: no rune is split and none is dropped needlessly
\* ("Find the largest rune boundary", closemanager.go:436).
LongestPrefixKept ==
    ValidString(draft) =>
        truncateMessage(draft) =
            Prefix(draft, Max({n \in 0..Len(draft) :
                n <= MaxCloseMessageLen /\ ValidString(Prefix(draft, n))}))
=============================================================================
