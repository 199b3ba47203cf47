------------------------------- MODULE CruText -------------------------------
(***************************************************************************)
(* The text of an RPC: CruCommandSequnce cuts it into lines and each line  *)
(* into an argument and a command; Swt turns the argument of a write into  *)
(* a frame and, in the response, a frame into text.                        *)
(*                                                                         *)
(* A text is a sequence of tokens.  A token is a comma, a newline, the     *)
(* name of a command, a decimal number, the 21 characters of a frame, or   *)
(* anything else.  Neighbouring tokens do not spell another token, and     *)
(* nothing but a frame has 21 characters between two newlines or commas.   *)
(* The text ends at its terminating zero, after the last token.            *)
(***************************************************************************)
EXTENDS Naturals, Sequences, SequencesExt, FiniteSetsExt

CONSTANTS
    Text,          \* the texts a client may send
    WordDigits,    \* hexadecimal digits of an address or a data word, 8 in the code
    UintMax        \* the largest uint32_t

ASSUME SizesAreNumbers == WordDigits \in Nat \ {0} /\ UintMax \in Nat

Names == {"read", "read_multiple", "write", "wait", "sc_reset"}

Comma == [is |-> "comma"]
Newline == [is |-> "newline"]
Other == [is |-> "other"]
Name(n) == [is |-> "name", name |-> n]
Number(n) == [is |-> "number", value |-> n]
\* The digits after "0x": one that is not looked at, the type, the address and
\* the data.
FrameText(digits) == [is |-> "frame", digits |-> digits]

\* The characters 0 to 9 and A to F are 0 .. 15, a to f are 16 .. 21, and 22 is
\* any other character.
Char == 0 .. 22
FrameDigits == [1 .. 3 + 2 * WordDigits -> Char]

Token ==
    [is : {"comma", "newline", "other"}] \cup [is : {"name"}, name : Names]
        \cup [is : {"number"}, value : Nat] \cup [is : {"frame"}, digits : FrameDigits]

ASSUME TextsAreTokens == Text \subseteq Seq(Token)

VARIABLES
    text,          \* what getString() returned
    position,      \* m_position
    commands,      \* what getNextCmd() has returned
    threw          \* it threw: the line is not a command

vars == <<text, position, commands, threw>>

-----------------------------------------------------------------------------
(* The hexadecimal digits of a frame.                                      *)

IsHex(c) == c <= 21
CharToHex(c) == IF c <= 15 THEN c ELSE c - 6
HexToChar(n) == n

\* stringToByte(), and the bytes shifted into place.
Value(digits) ==
    LET upTo[k \in 0 .. Len(digits)] ==
            IF k = 0 THEN 0 ELSE 16 * upTo[k - 1] + CharToHex(digits[k])
    IN  upTo[Len(digits)]

\* Swt(const char*)
ParseFrame(digits) ==
    [mode    |-> Value(SubSeq(digits, 2, 3)),
     address |-> Value(SubSeq(digits, 4, 3 + WordDigits)),
     data    |-> Value(SubSeq(digits, 4 + WordDigits, 3 + 2 * WordDigits))]

\* A number shifted right by none, one, ... count digits.
Shifted(n, count) ==
    LET shifted[k \in 0 .. count] == IF k = 0 THEN n ELSE shifted[k - 1] \div 16
    IN  shifted

\* Mutant: the halves of a byte change places.
DigitsLowFirst(n, count) ==
    [i \in 1 .. count |-> HexToChar(Shifted(n, count + 1)[IF (count - i) % 2 = 0 THEN count - i + 1
                                                       ELSE count - i - 1] % 16)]

\* The lowest digits of a number, the highest of them first.
Digits(n, count) == [i \in 1 .. count |-> HexToChar(Shifted(n, count)[count - i] % 16)]

\* writeSwtFrameToStrBuffer()
PrintFrame(frame) ==
    Digits(frame.mode, 3) \o Digits(frame.address, WordDigits) \o Digits(frame.data, WordDigits)

-----------------------------------------------------------------------------
(* A line: Command(beg, command, len).                                     *)

\* parsedArgUnsignedInteger(): std::from_chars stops at the end of the argument
\* although there is no digit in it, or the number is too large; the number is
\* then left as it was, and it is uninitialized.
ParsedNumbers(arg) ==
    IF arg = <<>> THEN 0 .. UintMax
    ELSE IF Len(arg) # 1 \/ arg[1].is # "number" THEN {}
    ELSE IF arg[1].value > UintMax THEN 0 .. UintMax ELSE {arg[1].value}

ParsedFrames(arg) ==
    IF Len(arg) = 1 /\ arg[1].is = "frame" /\ \A i \in 2 .. Len(arg[1].digits) : IsHex(arg[1].digits[i])
      THEN {ParseFrame(arg[1].digits)} ELSE {}

Plain(type) == [type |-> type]

\* The commands a line may be taken for: none if the constructor throws, and
\* several if the argument is not initialized.  The argument, if there is a
\* comma, is what comes before it.
CommandsOf(line, comma) ==
    LET rest == SubSeq(line, comma + 1, Len(line))
        arg == SubSeq(line, 1, comma - 1)
    IN  IF Len(rest) # 1 \/ rest[1].is # "name" THEN {}
        ELSE CASE rest[1].name = "sc_reset" -> {Plain("sc_reset")}
               [] rest[1].name = "read" ->
                    IF comma = 0 \/ ParsedNumbers(arg) # {} THEN {Plain("read")} ELSE {}
               [] rest[1].name \in {"wait", "read_multiple"} ->
                    IF comma = 0 THEN {}
                    ELSE {[type |-> rest[1].name, number |-> n] : n \in ParsedNumbers(arg)}
               [] rest[1].name = "write" ->
                    IF comma = 0 THEN {}
                    ELSE {[type |-> "write", frame |-> f] : f \in ParsedFrames(arg)}

-----------------------------------------------------------------------------
(* getNextCmd() and isNextCmd().                                           *)

\* The token after the last of the line that begins at m_position.
LineEnd == Min({Len(text) + 1} \cup {i \in position .. Len(text) : text[i] = Newline})

\* Mutant: the first comma of the line counts.
FirstCommaOf(line) ==
    LET commas == {i \in DOMAIN line : line[i] = Comma}
    IN  IF commas = {} THEN 0 ELSE Min(commas)

LastCommaOf(line) == Max({0} \cup {i \in DOMAIN line : line[i] = Comma})

Line == SubSeq(text, position, LineEnd - 1)

IsNextCmd == ~threw /\ position <= Len(text)

\* Mutant: the terminating zero is stepped over like a newline.
StepOverEnd(e) == e + 1

StepOver(e) == IF e <= Len(text) THEN e + 1 ELSE e

\* An exception of the constructor leaves m_position where it was.
GetNextCmd ==
    LET parsed == CommandsOf(Line, LastCommaOf(Line))
    IN  /\ IsNextCmd
        /\ \/ /\ parsed = {}
              /\ threw' = TRUE /\ UNCHANGED <<position, commands>>
           \/ /\ \E c \in parsed : commands' = Append(commands, c)
              /\ position' = StepOver(LineEnd) /\ UNCHANGED threw
        /\ UNCHANGED text

Init ==
    /\ text \in Text
    /\ position = 1 /\ commands = <<>> /\ threw = FALSE

Next == GetNextCmd

Spec == Init /\ [][Next]_vars

-----------------------------------------------------------------------------
(* Properties.                                                             *)

Command ==
    [type : {"sc_reset", "read"}]
        \cup [type : {"wait", "read_multiple"}, number : 0 .. UintMax]
        \cup [type : {"write"}, frame : [mode : Nat, address : Nat, data : Nat]]

\* The values the variables may take.  m_position stays within the text, with
\* its terminating zero: a position behind it would be read as a command.
TypeOK ==
    /\ text \in Text
    /\ position \in 1 .. Len(text) + 1
    /\ commands \in Seq(Command)
    /\ threw \in BOOLEAN

\* Where lines end: before the first one, at a newline, behind the text.
Ends == {0, Len(text) + 1} \cup {i \in DOMAIN text : text[i] = Newline}
EndsBefore(i) == Cardinality({j \in Ends : j < i})
EndAt(k) == CHOOSE i \in Ends : EndsBefore(i) = k

\* The text cut at its newlines, the way a client writes it; a newline at the
\* very end begins no line.
Lines ==
    LET all == [k \in 1 .. Cardinality(Ends) - 1 |-> SubSeq(text, EndAt(k - 1) + 1, EndAt(k) - 1)]
    IN  IF Last(all) = <<>> THEN Front(all) ELSE all

\* What a line means: the commands it may stand for.  A command is a name; a
\* number and a comma come before wait and read_multiple, and may come before
\* read; a frame with hexadecimal digits comes before write; anything may come
\* before sc_reset.  The number may be left out, and what it says when it is, or
\* when it does not fit, is left open here (CountIsWritten is about that).
WithNumber(line, n) ==
    \/ Len(line) = 2
    \/ Len(line) = 3 /\ line[1].is = "number" /\ (line[1].value <= UintMax => n = line[1].value)

WithFrame(line, f) ==
    /\ Len(line) = 3 /\ line[1].is = "frame"
    /\ \A i \in 2 .. Len(line[1].digits) : IsHex(line[1].digits[i])
    /\ f = ParseFrame(line[1].digits)

Means(line, c) ==
    /\ line # <<>> /\ Last(line) = Name(c.type)
    /\ Len(line) > 1 => line[Len(line) - 1] = Comma
    /\ \/ c = Plain("sc_reset")
       \/ c = Plain("read") /\ (Len(line) = 1 \/ \E n \in 0 .. UintMax : WithNumber(line, n))
       \/ c.type \in {"wait", "read_multiple"} /\ Len(line) > 1 /\ WithNumber(line, c.number)
       \/ c.type = "write" /\ WithFrame(line, c.frame)

Meaningful(line) ==
    \/ \E t \in {"sc_reset", "read"} : Means(line, Plain(t))
    \/ \E t \in {"wait", "read_multiple"}, n \in 0 .. UintMax : Means(line, [type |-> t, number |-> n])
    \/ line # <<>> /\ line[1].is = "frame"
       /\ Means(line, [type |-> "write", frame |-> ParseFrame(line[1].digits)])

\* The loop of SwtLink::parseSequence over isNextCmd() and getNextCmd() sees the
\* lines of the request, each of them once and in their order, and takes each
\* for what it says; it throws at the first line that is no command, and ends
\* without an exception only after the last one.
FollowsGrammar ==
    /\ Len(commands) <= Len(Lines)
    /\ \A k \in DOMAIN commands : Means(Lines[k], commands[k])
    /\ threw => Len(commands) < Len(Lines) /\ ~Meaningful(Lines[Len(commands) + 1])
    /\ ~threw /\ ~IsNextCmd => Len(commands) = Len(Lines)

\* m_position is behind the end of a line, and as many commands have been
\* returned as lines end there; or behind a last line without a newline.
PositionInv ==
    \/ position - 1 \in Ends /\ Len(commands) = EndsBefore(position - 1)
    \/ /\ position = Len(text) + 1 /\ Len(text) \notin Ends
       /\ Len(commands) = Cardinality(Ends) - 1

\* The inductive invariant: where the parser is in the text, what it has made
\* of the lines before, and that it throws only at a line that says nothing.
IInv ==
    /\ TypeOK
    /\ PositionInv
    /\ \A k \in DOMAIN commands : Means(Lines[k], commands[k])
    /\ threw => position <= Len(text) /\ ~Meaningful(Line)

\* A frame a client wrote comes back in the response as it was written, but for
\* the case of its letters and its first digit, which Swt(const char*) does not
\* look at; and what the response says would be parsed as the same frame.
PrintedIsParsed ==
    \A k \in DOMAIN commands : commands[k].type = "write" =>
        LET written == Lines[k][1].digits
            printed == PrintFrame(commands[k].frame)
        IN  /\ Len(printed) = Len(written)
            /\ \A i \in 2 .. Len(written) : printed[i] = CharToHex(written[i])
            /\ ParseFrame(printed) = commands[k].frame

\* A number that is accepted is the number that was written: an argument that is
\* not a number is refused ("Invalid argument to read_multiple").
CountIsWritten ==
    \A k \in DOMAIN commands : commands[k].type \in {"wait", "read_multiple"} =>
        Lines[k][1] = Number(commands[k].number)

=============================================================================
