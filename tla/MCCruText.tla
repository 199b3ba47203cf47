----------------------------- MODULE MCCruText -----------------------------
(***************************************************************************)
(* Small instances of CruText for TLC: frames of 1 + 2 + 2 + 2 digits and  *)
(* numbers up to UintMax.                                                  *)
(***************************************************************************)
EXTENDS CruText

Written == <<0, 0, 1, 18, 4, 15, 21>>
NotHex == <<0, 0, 22, 0, 0, 0, 0>>

Words ==
    {Other, Number(UintMax), Number(UintMax + 1), FrameText(Written), FrameText(NotHex)}
        \cup {Name(n) : n \in Names}

\* Any text of up to four tokens, words that are not neighbours.
AnyTexts ==
    {t \in BoundedSeq({Comma, Newline} \cup Words, 4) :
        \A i \in 1 .. Len(t) - 1 : t[i] \notin Words \/ t[i + 1] \notin Words}

GoodLines ==
    {<<Name("sc_reset")>>, <<Name("read")>>, <<Number(2), Comma, Name("read")>>,
     <<Number(1), Comma, Name("wait")>>, <<Number(3), Comma, Name("read_multiple")>>,
     <<FrameText(Written), Comma, Name("write")>>}

BadLines ==
    {<<>>, <<Other, Comma, Name("wait")>>, <<Number(1), Comma, Number(2), Comma, Name("read")>>,
     <<FrameText(NotHex), Comma, Name("write")>>, <<Name("write")>>}

\* Three lines, with a newline at the end or without it.
ThreeLines ==
    {a \o <<Newline>> \o b \o <<Newline>> \o c \o end :
        a \in GoodLines, b \in GoodLines \cup BadLines, c \in GoodLines \cup BadLines,
        end \in {<<>>, <<Newline>>}}

\* A write of every frame whose digits are 1, C, c or not hexadecimal.
Writes ==
    {<<FrameText(d), Comma, Name("write")>> : d \in [1 .. 3 + 2 * WordDigits -> {1, 12, 18, 22}]}

Texts == AnyTexts \cup ThreeLines \cup Writes

=============================================================================
