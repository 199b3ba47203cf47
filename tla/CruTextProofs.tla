---------------------------- MODULE CruTextProofs ----------------------------
(***************************************************************************)
(* What CruText guarantees for every text and every number of digits: the  *)
(* lines are taken for what they say, and a frame comes back as it was     *)
(* written.                                                                *)
(***************************************************************************)
EXTENDS CruText, SequenceTheorems, Induction

------------------------------------------------------------------------------
(* Numbers and their digits.                                               *)

HexChar == 0 .. 21
Nibble == 0 .. 15

LEMMA Chars ==
  /\ Nibble \subseteq HexChar /\ HexChar \subseteq Char /\ Char \subseteq Nat
  /\ \A c \in Char : CharToHex(c) \in Nat /\ (IsHex(c) <=> c \in HexChar)
  /\ \A c \in HexChar : CharToHex(c) \in Nibble
  /\ \A c \in Nibble : CharToHex(c) = c
  /\ Nibble \in SUBSET Nat
BY DEF Nibble, HexChar, Char, CharToHex, IsHex

\* The values of the digits read so far.
LEMMA ValueSteps ==
  ASSUME NEW n \in Nat, NEW d \in [1 .. n -> Char]
  PROVE  \E g \in [0 .. n -> Nat] :
            /\ g[0] = 0 /\ \A k \in 1 .. n : g[k] = 16 * g[k - 1] + CharToHex(d[k])
            /\ Value(d) = g[n]
<1> DEFINE IsUpTo(g) == g = [k \in 0 .. n |-> IF k = 0 THEN 0 ELSE 16 * g[k - 1] + CharToHex(d[k])]
           upTo == CHOOSE g : IsUpTo(g)
<1>1. \A k \in 1 .. n : CharToHex(d[k]) \in Nat
  BY Chars
<1>2. PICK step \in [1 .. n -> [Nat -> Nat]] :
         \A k \in 1 .. n : \A x \in Nat : step[k][x] = 16 * x + CharToHex(d[k])
  <2> DEFINE s == [k \in 1 .. n |-> [x \in Nat |-> 16 * x + CharToHex(d[k])]]
  <2>1. s \in [1 .. n -> [Nat -> Nat]]
    BY <1>1
  <2>2. \A k \in 1 .. n : \A x \in Nat : s[k][x] = 16 * x + CharToHex(d[k])
    OBVIOUS
  <2> HIDE DEF s
  <2>3. QED
    BY <2>1, <2>2
<1>3. 0 \in Nat
  OBVIOUS
<1>4. PICK g \in [0 .. n -> Nat] : g[0] = 0 /\ \A k \in 1 .. n : g[k] = step[k][g[k - 1]]
  <2>1. \E g : Iterates(g, Nat, 0, n, step)
    BY <1>3, RecursionOn
  <2>2. QED
    BY <2>1 DEF Iterates
<1>5. ASSUME NEW k \in 1 .. n PROVE g[k] = 16 * g[k - 1] + CharToHex(d[k])
  <2>1. k - 1 \in 0 .. n /\ g[k - 1] \in Nat
    OBVIOUS
  <2>2. QED
    BY <1>2, <1>4, <2>1
<1>6. IsUpTo(g)
  BY <1>4, <1>5
<1>7. IsUpTo(upTo)
  <2> HIDE DEF IsUpTo
  <2>1. QED
    BY <1>6
<1>8. upTo[0] = 0 /\ \A k \in 1 .. n : upTo[k] = 16 * upTo[k - 1] + CharToHex(d[k])
  <2>1. \A k \in 0 .. n : upTo[k] = IF k = 0 THEN 0 ELSE 16 * upTo[k - 1] + CharToHex(d[k])
    BY <1>7
  <2> HIDE DEF upTo, IsUpTo
  <2>2. 0 \in 0 .. n /\ \A k \in 1 .. n : k \in 0 .. n /\ k # 0
    OBVIOUS
  <2>3. QED
    BY <2>1, <2>2, Zenon
<1>9. Value(d) = upTo[n]
  <2>1. Len(d) = n
    OBVIOUS
  <2>2. QED
    BY <2>1 DEF Value
<1>10. n \in {k \in Nat : k <= n => upTo[k] = g[k]}
  <2> HIDE DEF upTo
  <2> DEFINE T == {k \in Nat : k <= n => upTo[k] = g[k]}
  <2>1. 0 \in T
    BY <1>4, <1>8
  <2>2. ASSUME NEW k \in Nat, k \in T PROVE k + 1 \in T
    <3>1. SUFFICES ASSUME k + 1 <= n PROVE upTo[k + 1] = g[k + 1]
      OBVIOUS
    <3>2. upTo[k] = g[k] /\ k + 1 \in 1 .. n /\ (k + 1) - 1 = k
      BY <2>2, <3>1
    <3>3. QED
      BY <1>5, <1>8, <3>2
  <2> HIDE DEF T
  <2>3. n \in T
    BY <2>1, <2>2, SetInduction
  <2>4. QED
    BY <2>3 DEF T
<1>11. Value(d) = g[n]
  BY <1>9, <1>10
<1>12. QED
  BY <1>4, <1>5, <1>11

\* A number shifted digit by digit.
LEMMA ShiftSteps ==
  ASSUME NEW n \in Nat, NEW count \in Nat
  PROVE  /\ Shifted(n, count)[0] = n
         /\ \A k \in 1 .. count : Shifted(n, count)[k] = Shifted(n, count)[k - 1] \div 16
         /\ \A k \in 0 .. count : Shifted(n, count)[k] \in Nat
<1> DEFINE Is(g) == g = [k \in 0 .. count |-> IF k = 0 THEN n ELSE g[k - 1] \div 16]
           shifted == CHOOSE g : Is(g)
<1>1. \A x \in Nat : x \div 16 \in Nat
  OBVIOUS
<1>2. PICK step \in [1 .. count -> [Nat -> Nat]] :
         \A k \in 1 .. count : \A x \in Nat : step[k][x] = x \div 16
  <2> DEFINE s == [k \in 1 .. count |-> [x \in Nat |-> x \div 16]]
  <2>1. s \in [1 .. count -> [Nat -> Nat]]
    BY <1>1
  <2>2. \A k \in 1 .. count : \A x \in Nat : s[k][x] = x \div 16
    OBVIOUS
  <2> HIDE DEF s
  <2>3. QED
    BY <2>1, <2>2
<1>3. PICK g \in [0 .. count -> Nat] : g[0] = n /\ \A k \in 1 .. count : g[k] = step[k][g[k - 1]]
  <2>1. \E g : Iterates(g, Nat, n, count, step)
    BY RecursionOn
  <2>2. QED
    BY <2>1 DEF Iterates
<1>4. ASSUME NEW k \in 1 .. count PROVE g[k] = g[k - 1] \div 16
  <2>1. k - 1 \in 0 .. count /\ g[k - 1] \in Nat
    OBVIOUS
  <2>2. QED
    BY <1>2, <1>3, <2>1
<1>5. Is(g)
  BY <1>3, <1>4
<1>6. Is(shifted)
  <2> HIDE DEF Is
  <2>1. QED
    BY <1>5
<1>7. Shifted(n, count) = shifted
  BY DEF Shifted
<1>8. \A k \in 0 .. count : shifted[k] = IF k = 0 THEN n ELSE shifted[k - 1] \div 16
  BY <1>6
<1> HIDE DEF shifted, Is
<1>9. shifted[0] = n /\ \A k \in 1 .. count : shifted[k] = shifted[k - 1] \div 16
  BY <1>8
<1> DEFINE T == {k \in Nat : k <= count => shifted[k] \in Nat}
<1>10. 0 \in T
  BY <1>9
<1>11. ASSUME NEW k \in Nat, k \in T PROVE k + 1 \in T
  <2>1. SUFFICES ASSUME k + 1 <= count PROVE shifted[k + 1] \in Nat
    OBVIOUS
  <2>2. shifted[k] \in Nat /\ shifted[k + 1] = shifted[k] \div 16
    BY <1>9, <1>11, <2>1
  <2>3. QED
    BY <2>2
<1>12. \A k \in Nat : k \in T
  <2> HIDE DEF T
  <2>1. QED
    BY <1>10, <1>11, SetInduction
<1>13. \A k \in 0 .. count : shifted[k] \in Nat
  BY <1>12
<1>14. QED
  BY <1>7, <1>9, <1>13

LEMMA ShiftOut ==
  ASSUME NEW v \in Nat, NEW c \in Nibble
  PROVE  (16 * v + c) \div 16 = v /\ (16 * v + c) % 16 = c
BY DEF Nibble

LEMMA DigitsType ==
  ASSUME NEW n \in Nat, NEW count \in Nat
  PROVE  Digits(n, count) \in [1 .. count -> Nibble]
<1>1. ASSUME NEW i \in 1 .. count PROVE HexToChar(Shifted(n, count)[count - i] % 16) \in Nibble
  <2>1. count - i \in 0 .. count
    OBVIOUS
  <2>2. Shifted(n, count)[count - i] \in Nat
    BY <2>1, ShiftSteps
  <2>3. QED
    BY <2>2 DEF HexToChar, Nibble
<1>2. QED
  BY <1>1 DEF Digits

\* The last digits that are printed of a number are those it was read from.
LEMMA DigitsOfValue ==
  ASSUME NEW n \in Nat, NEW d \in [1 .. n -> HexChar], NEW count \in Nat, n <= count
  PROVE  Value(d) \in Nat /\ \A i \in 1 .. n : Digits(Value(d), count)[count - n + i] = CharToHex(d[i])
<1>0. d \in [1 .. n -> Char]
  BY Chars
<1>1. PICK g \in [0 .. n -> Nat] :
         /\ g[0] = 0 /\ \A k \in 1 .. n : g[k] = 16 * g[k - 1] + CharToHex(d[k])
         /\ Value(d) = g[n]
  BY <1>0, ValueSteps
<1>2. ASSUME NEW k \in 1 .. n PROVE CharToHex(d[k]) \in Nibble
  <2>1. d[k] \in HexChar
    OBVIOUS
  <2>2. QED
    BY <2>1, Chars
<1>3. ASSUME NEW k \in 1 .. n PROVE g[k] \div 16 = g[k - 1] /\ g[k] % 16 = CharToHex(d[k])
  <2>1. PICK v \in Nat, c \in Nibble : v = g[k - 1] /\ c = CharToHex(d[k]) /\ g[k] = 16 * v + c
    <3>1. k - 1 \in 0 .. n
      OBVIOUS
    <3>2. QED
      BY <1>1, <1>2, <3>1
  <2>2. (16 * v + c) \div 16 = v /\ (16 * v + c) % 16 = c
    BY ShiftOut
  <2>3. QED
    BY <2>1, <2>2
<1>4. PICK shifted : shifted = Shifted(Value(d), count)
  OBVIOUS
<1>5. /\ Value(d) \in Nat
      /\ shifted[0] = Value(d) /\ \A k \in 1 .. count : shifted[k] = shifted[k - 1] \div 16
  <2>1. Value(d) \in Nat
    BY <1>1
  <2>2. QED
    BY <1>4, <2>1, ShiftSteps
<1> DEFINE T == {k \in Nat : k <= n => shifted[k] = g[n - k]}
<1>6. 0 \in T
  BY <1>1, <1>5
<1>7. ASSUME NEW k \in Nat, k \in T PROVE k + 1 \in T
  <2>1. SUFFICES ASSUME k + 1 <= n PROVE shifted[k + 1] = g[n - (k + 1)]
    OBVIOUS
  <2>2. shifted[k] = g[n - k] /\ k + 1 \in 1 .. count /\ (k + 1) - 1 = k
        /\ n - k \in 1 .. n /\ (n - k) - 1 = n - (k + 1)
    BY <1>7, <2>1
  <2>3. shifted[k + 1] = shifted[k] \div 16
    BY <1>5, <2>2
  <2>4. g[n - k] \div 16 = g[n - (k + 1)]
    BY <1>3, <2>2
  <2>5. QED
    BY <2>2, <2>3, <2>4
<1>8. \A k \in Nat : k \in T
  <2> HIDE DEF T
  <2>1. QED
    BY <1>6, <1>7, SetInduction
<1>9. ASSUME NEW i \in 1 .. n PROVE Digits(Value(d), count)[count - n + i] = CharToHex(d[i])
  <2>1. count - n + i \in 1 .. count /\ count - (count - n + i) = n - i /\ n - i \in 0 .. n
        /\ n - (n - i) = i
    OBVIOUS
  <2>2. shifted[n - i] = g[i]
    BY <1>8, <2>1
  <2>3. Digits(Value(d), count)[count - n + i] = shifted[n - i] % 16
    BY <1>4, <2>1 DEF Digits, HexToChar
  <2>4. QED
    BY <1>3, <2>2, <2>3
<1>10. QED
  BY <1>5, <1>9

\* A number is read from its digits, in either case.
LEMMA ValueOfDigits ==
  ASSUME NEW n \in Nat, NEW d \in [1 .. n -> Char], NEW e \in [1 .. n -> Char],
         \A i \in 1 .. n : CharToHex(d[i]) = CharToHex(e[i])
  PROVE  Value(d) = Value(e)
<1>1. PICK g \in [0 .. n -> Nat] :
         /\ g[0] = 0 /\ \A k \in 1 .. n : g[k] = 16 * g[k - 1] + CharToHex(d[k])
         /\ Value(d) = g[n]
  BY ValueSteps
<1>2. PICK h \in [0 .. n -> Nat] :
         /\ h[0] = 0 /\ \A k \in 1 .. n : h[k] = 16 * h[k - 1] + CharToHex(e[k])
         /\ Value(e) = h[n]
  BY ValueSteps
<1> DEFINE T == {k \in Nat : k <= n => g[k] = h[k]}
<1>3. 0 \in T
  BY <1>1, <1>2
<1>4. ASSUME NEW k \in Nat, k \in T PROVE k + 1 \in T
  <2>1. SUFFICES ASSUME k + 1 <= n PROVE g[k + 1] = h[k + 1]
    OBVIOUS
  <2>2. g[k] = h[k] /\ k + 1 \in 1 .. n /\ (k + 1) - 1 = k
    BY <1>4, <2>1
  <2>3. g[k + 1] = 16 * g[k] + CharToHex(d[k + 1])
    BY <1>1, <2>2
  <2>4. h[k + 1] = 16 * h[k] + CharToHex(e[k + 1])
    BY <1>2, <2>2
  <2>5. QED
    BY <2>2, <2>3, <2>4
<1>5. n \in T
  <2> HIDE DEF T
  <2>1. QED
    BY <1>3, <1>4, SetInduction
<1>6. QED
  BY <1>1, <1>2, <1>5

\* A part of a sequence.
IsPart(v, w, before, count) ==
    \A S : \A m \in Nat :
        w \in [1 .. m -> S] /\ before + count <= m
          => v \in [1 .. count -> S] /\ \A i \in 1 .. count : v[i] = w[before + i]

LEMMA PartOf ==
  ASSUME NEW w, NEW before \in Nat, NEW count \in Nat,
         NEW from, NEW to, from = before + 1, to = before + count
  PROVE  IsPart(SubSeq(w, from, to), w, before, count)
<1>1. SUFFICES ASSUME NEW S, NEW m \in Nat, w \in [1 .. m -> S], before + count <= m
      PROVE  /\ SubSeq(w, from, to) \in [1 .. count -> S]
             /\ \A i \in 1 .. count : SubSeq(w, from, to)[i] = w[before + i]
  BY DEF IsPart
<1>2. w \in Seq(S)
  BY <1>1
<1>3. SubSeq(w, from, to) = [i \in 1 .. count |-> w[before + i]]
  <2>1. from \in Int /\ to \in Int /\ to - from + 1 = count
        /\ \A i \in 1 .. count : i + from - 1 = before + i
    OBVIOUS
  <2>2. SubSeq(w, from, to) = [i \in 1 .. to - from + 1 |-> w[i + from - 1]]
    BY <1>2, <2>1
  <2>3. QED
    BY <2>1, <2>2
<1>4. \A i \in 1 .. count : before + i \in 1 .. m
  BY <1>1
<1>5. QED
  BY <1>1, <1>3, <1>4

\* The three parts of a frame's digits.
LEMMA FrameParts ==
  ASSUME NEW w \in FrameDigits
  PROVE  /\ Len(w) = 3 + 2 * WordDigits
         /\ SubSeq(w, 2, 3) \in [1 .. 2 -> Char]
         /\ \A i \in 1 .. 2 : SubSeq(w, 2, 3)[i] = w[1 + i]
         /\ SubSeq(w, 4, 3 + WordDigits) \in [1 .. WordDigits -> Char]
         /\ \A i \in 1 .. WordDigits : SubSeq(w, 4, 3 + WordDigits)[i] = w[3 + i]
         /\ SubSeq(w, 4 + WordDigits, 3 + 2 * WordDigits) \in [1 .. WordDigits -> Char]
         /\ \A i \in 1 .. WordDigits : SubSeq(w, 4 + WordDigits, 3 + 2 * WordDigits)[i] = w[3 + WordDigits + i]
<1>1. WordDigits \in Nat
  BY SizesAreNumbers
<1>2. PICK m \in Nat, b \in Nat : m = 3 + 2 * WordDigits /\ b = 3 + WordDigits
  BY <1>1
<1>3. w \in [1 .. m -> Char]
  BY <1>2 DEF FrameDigits
<1>4. Len(w) = m
  BY <1>3
<1>5. /\ SubSeq(w, 2, 3) \in [1 .. 2 -> Char]
      /\ \A i \in 1 .. 2 : SubSeq(w, 2, 3)[i] = w[1 + i]
  <2>1. PICK from \in Nat, to \in Nat, before \in Nat, count \in Nat :
           from = 2 /\ to = 3 /\ before = 1 /\ count = 2
    OBVIOUS
  <2>2. from = before + 1 /\ to = before + count /\ to <= m
    BY <1>1, <1>2, <2>1
  <2>3. IsPart(SubSeq(w, from, to), w, before, count)
    BY <2>2, PartOf
  <2>4. before + count <= m
    BY <2>2
  <2>5. /\ SubSeq(w, from, to) \in [1 .. count -> Char]
        /\ \A i \in 1 .. count : SubSeq(w, from, to)[i] = w[before + i]
    BY <1>3, <2>3, <2>4 DEF IsPart
  <2>6. QED
    BY <2>1, <2>5
<1>6. /\ SubSeq(w, 4, b) \in [1 .. WordDigits -> Char]
      /\ \A i \in 1 .. WordDigits : SubSeq(w, 4, b)[i] = w[3 + i]
  <2>1. PICK from \in Nat, before \in Nat : from = 4 /\ before = 3
    OBVIOUS
  <2>2. from = before + 1 /\ b = before + WordDigits /\ b <= m
    BY <1>1, <1>2, <2>1
  <2>3. IsPart(SubSeq(w, from, b), w, before, WordDigits)
    BY <1>1, <2>2, PartOf
  <2>4. before + WordDigits <= m
    BY <2>2
  <2>5. /\ SubSeq(w, from, b) \in [1 .. WordDigits -> Char]
        /\ \A i \in 1 .. WordDigits : SubSeq(w, from, b)[i] = w[before + i]
    BY <1>3, <2>3, <2>4 DEF IsPart
  <2>6. QED
    BY <2>1, <2>5
<1>7. /\ SubSeq(w, 4 + WordDigits, m) \in [1 .. WordDigits -> Char]
      /\ \A i \in 1 .. WordDigits : SubSeq(w, 4 + WordDigits, m)[i] = w[b + i]
  <2>1. PICK from : from = 4 + WordDigits
    OBVIOUS
  <2>2. from = b + 1 /\ m = b + WordDigits /\ m <= m
    BY <1>1, <1>2, <2>1
  <2>3. IsPart(SubSeq(w, from, m), w, b, WordDigits)
    BY <1>1, <2>2, PartOf
  <2>4. b + WordDigits <= m
    BY <2>2
  <2>5. /\ SubSeq(w, from, m) \in [1 .. WordDigits -> Char]
        /\ \A i \in 1 .. WordDigits : SubSeq(w, from, m)[i] = w[b + i]
    BY <1>3, <2>3, <2>4 DEF IsPart
  <2>6. QED
    BY <2>1, <2>5
<1>8. QED
  BY <1>2, <1>4, <1>5, <1>6, <1>7

LEMMA FrameIsNumbers ==
  ASSUME NEW w \in FrameDigits
  PROVE  ParseFrame(w) \in [mode : Nat, address : Nat, data : Nat]
<1>1. \A n \in Nat : \A d \in [1 .. n -> Char] : Value(d) \in Nat
  <2>1. ASSUME NEW n \in Nat, NEW d \in [1 .. n -> Char] PROVE Value(d) \in Nat
    BY ValueSteps
  <2>2. QED
    BY <2>1
<1>2. WordDigits \in Nat
  BY SizesAreNumbers
<1>3. QED
  BY <1>1, <1>2, FrameParts DEF ParseFrame

LEMMA FunctionIsSeq ==
  ASSUME NEW S, NEW n \in Nat, NEW s \in [1 .. n -> S]
  PROVE  s \in Seq(S) /\ Len(s) = n
OBVIOUS

Joined(s, a, b) ==
    /\ s \in Seq(Nibble) /\ Len(s) = Len(a) + Len(b)
    /\ \A i \in 1 .. Len(a) : s[i] = a[i]
    /\ \A i \in 1 .. Len(b) : s[Len(a) + i] = b[i]

LEMMA JoinedParts ==
  ASSUME NEW a \in Seq(Nibble), NEW b \in Seq(Nibble)
  PROVE  Joined(a \o b, a, b)
BY DEF Joined

LEMMA PrintedFrame ==
  ASSUME NEW f \in [mode : Nat, address : Nat, data : Nat]
  PROVE  /\ PrintFrame(f) \in FrameDigits
         /\ \A i \in 1 .. 3 : PrintFrame(f)[i] = Digits(f.mode, 3)[i]
         /\ \A i \in 1 .. WordDigits : PrintFrame(f)[3 + i] = Digits(f.address, WordDigits)[i]
         /\ \A i \in 1 .. WordDigits : PrintFrame(f)[3 + WordDigits + i] = Digits(f.data, WordDigits)[i]
         /\ \A i \in DOMAIN PrintFrame(f) : PrintFrame(f)[i] \in Nibble
<1>1. WordDigits \in Nat
  BY SizesAreNumbers
<1>2. PICK a \in [1 .. 3 -> Nibble], b \in [1 .. WordDigits -> Nibble], c \in [1 .. WordDigits -> Nibble] :
         a = Digits(f.mode, 3) /\ b = Digits(f.address, WordDigits) /\ c = Digits(f.data, WordDigits)
  BY <1>1, DigitsType
<1>3. PrintFrame(f) = (a \o b) \o c
  BY <1>2 DEF PrintFrame
<1>4. /\ a \in Seq(Nibble) /\ Len(a) = 3 /\ b \in Seq(Nibble) /\ Len(b) = WordDigits
      /\ c \in Seq(Nibble) /\ Len(c) = WordDigits
  BY <1>1, <1>2, FunctionIsSeq
<1>5. /\ a \o b \in Seq(Nibble) /\ Len(a \o b) = 3 + WordDigits
      /\ \A i \in 1 .. 3 : (a \o b)[i] = a[i]
      /\ \A i \in 1 .. WordDigits : (a \o b)[3 + i] = b[i]
  <2>1. Joined(a \o b, a, b)
    BY <1>4, JoinedParts
  <2>2. QED
    BY <1>4, <2>1 DEF Joined
<1>6. PICK ab \in Seq(Nibble) : ab = a \o b
  BY <1>5
<1>7. /\ ab \o c \in Seq(Nibble) /\ Len(ab \o c) = 3 + WordDigits + WordDigits
      /\ \A i \in 1 .. 3 + WordDigits : (ab \o c)[i] = ab[i]
      /\ \A i \in 1 .. WordDigits : (ab \o c)[3 + WordDigits + i] = c[i]
  <2>1. Len(ab) = 3 + WordDigits
    BY <1>5, <1>6
  <2>2. Joined(ab \o c, ab, c)
    BY <1>4, JoinedParts
  <2>3. QED
    BY <1>4, <2>1, <2>2 DEF Joined
<1>8. PICK p : p = ab \o c
  OBVIOUS
<1>9. p = PrintFrame(f)
  BY <1>3, <1>6, <1>8
<1>10. p \in Seq(Nibble) /\ Len(p) = 3 + 2 * WordDigits
  BY <1>1, <1>7, <1>8
<1>11. p \in FrameDigits /\ \A i \in DOMAIN p : p[i] \in Nibble
  <2>1. p \in [1 .. 3 + 2 * WordDigits -> Nibble]
    BY <1>10
  <2>2. QED
    BY <2>1, Chars DEF FrameDigits
<1>12. \A i \in 1 .. 3 : p[i] = a[i]
  <2>1. \A i \in 1 .. 3 : i \in 1 .. 3 + WordDigits
    BY <1>1
  <2>2. QED
    BY <1>5, <1>6, <1>7, <1>8, <2>1
<1>13. \A i \in 1 .. WordDigits : p[3 + i] = b[i]
  <2>1. \A i \in 1 .. WordDigits : 3 + i \in 1 .. 3 + WordDigits
    BY <1>1
  <2>2. QED
    BY <1>5, <1>6, <1>7, <1>8, <2>1
<1>14. \A i \in 1 .. WordDigits : p[3 + WordDigits + i] = c[i]
  BY <1>7, <1>8
<1>15. QED
  BY <1>2, <1>9, <1>11, <1>12, <1>13, <1>14

LEMMA PrintedValue ==
  ASSUME NEW n \in Nat, NEW d \in [1 .. n -> Char], NEW e \in [1 .. n -> Char],
         \A j \in 1 .. n : e[j] \in Nibble /\ e[j] = CharToHex(d[j])
  PROVE  Value(e) = Value(d)
<1>1. ASSUME NEW j \in 1 .. n PROVE CharToHex(e[j]) = CharToHex(d[j])
  <2>1. \A c \in Nibble : CharToHex(c) = c
    BY Chars
  <2>2. QED
    BY <2>1
<1>2. QED
  BY <1>1, ValueOfDigits

\* What is printed of a frame is what was written, but for the first digit and
\* the case of the letters, and is read as the same frame.
LEMMA FrameComesBack ==
  ASSUME NEW w \in FrameDigits, \A i \in 2 .. Len(w) : IsHex(w[i]),
         NEW p, p = PrintFrame(ParseFrame(w))
  PROVE  /\ Len(p) = Len(w) /\ \A i \in 2 .. Len(w) : p[i] = CharToHex(w[i])
         /\ ParseFrame(p) = ParseFrame(w)
<1> DEFINE mode == SubSeq(w, 2, 3)
           address == SubSeq(w, 4, 3 + WordDigits)
           data == SubSeq(w, 4 + WordDigits, 3 + 2 * WordDigits)
<1>0. WordDigits \in Nat
  BY SizesAreNumbers
<1>1. /\ Len(w) = 3 + 2 * WordDigits
      /\ mode \in [1 .. 2 -> Char] /\ \A i \in 1 .. 2 : mode[i] = w[1 + i]
      /\ address \in [1 .. WordDigits -> Char] /\ \A i \in 1 .. WordDigits : address[i] = w[3 + i]
      /\ data \in [1 .. WordDigits -> Char] /\ \A i \in 1 .. WordDigits : data[i] = w[3 + WordDigits + i]
  BY FrameParts
<1>2. PICK f \in [mode : Nat, address : Nat, data : Nat] : f = ParseFrame(w)
  BY FrameIsNumbers
<1>3. f.mode = Value(mode) /\ f.address = Value(address) /\ f.data = Value(data)
  BY <1>2 DEF ParseFrame
<1> HIDE DEF mode, address, data
<1>4. /\ \A i \in 1 .. 2 : 1 + i \in 2 .. Len(w)
      /\ \A i \in 1 .. WordDigits : 3 + i \in 2 .. Len(w) /\ 3 + WordDigits + i \in 2 .. Len(w)
  BY <1>0, <1>1
<1>5. /\ mode \in [1 .. 2 -> HexChar]
      /\ address \in [1 .. WordDigits -> HexChar] /\ data \in [1 .. WordDigits -> HexChar]
  <2>1. \A c \in Char : IsHex(c) => c \in HexChar
    BY Chars
  <2>2. \A i \in 1 .. 2 : IsHex(mode[i])
    BY <1>1, <1>4
  <2>3. \A i \in 1 .. WordDigits : IsHex(address[i]) /\ IsHex(data[i])
    BY <1>1, <1>4
  <2>4. QED
    BY <1>1, <2>1, <2>2, <2>3
<1>6. /\ p \in FrameDigits
      /\ \A i \in 1 .. 3 : p[i] = Digits(f.mode, 3)[i]
      /\ \A i \in 1 .. WordDigits : p[3 + i] = Digits(f.address, WordDigits)[i]
      /\ \A i \in 1 .. WordDigits : p[3 + WordDigits + i] = Digits(f.data, WordDigits)[i]
      /\ \A i \in DOMAIN p : p[i] \in Nibble
  BY <1>2, PrintedFrame
<1>7. \A i \in 1 .. 2 : p[1 + i] = CharToHex(w[1 + i])
  <2>1. \A i \in 1 .. 2 : Digits(Value(mode), 3)[3 - 2 + i] = CharToHex(mode[i])
    <3>1. 2 \in Nat /\ 3 \in Nat /\ 2 <= 3
      OBVIOUS
    <3>2. QED
      BY <1>5, <3>1, DigitsOfValue
  <2>2. \A i \in 1 .. 2 : 3 - 2 + i = 1 + i /\ 1 + i \in 1 .. 3
    OBVIOUS
  <2>3. QED
    BY <1>1, <1>3, <1>6, <2>1, <2>2
<1>8. \A i \in 1 .. WordDigits : p[3 + i] = CharToHex(w[3 + i])
  <2>1. \A i \in 1 .. WordDigits :
           Digits(Value(address), WordDigits)[WordDigits - WordDigits + i] = CharToHex(address[i])
    <3>1. WordDigits <= WordDigits
      BY <1>0
    <3>2. QED
      BY <1>0, <1>5, <3>1, DigitsOfValue
  <2>2. \A i \in 1 .. WordDigits : WordDigits - WordDigits + i = i
    BY <1>0
  <2>3. QED
    BY <1>1, <1>3, <1>6, <2>1, <2>2
<1>9. \A i \in 1 .. WordDigits : p[3 + WordDigits + i] = CharToHex(w[3 + WordDigits + i])
  <2>1. \A i \in 1 .. WordDigits :
           Digits(Value(data), WordDigits)[WordDigits - WordDigits + i] = CharToHex(data[i])
    <3>1. WordDigits <= WordDigits
      BY <1>0
    <3>2. QED
      BY <1>0, <1>5, <3>1, DigitsOfValue
  <2>2. \A i \in 1 .. WordDigits : WordDigits - WordDigits + i = i
    BY <1>0
  <2>3. QED
    BY <1>1, <1>3, <1>6, <2>1, <2>2
<1>10. ASSUME NEW i \in 2 .. Len(w) PROVE p[i] = CharToHex(w[i])
  <2>1. CASE i \in 2 .. 3
    <3>1. i - 1 \in 1 .. 2 /\ 1 + (i - 1) = i
      BY <2>1
    <3>2. QED
      BY <1>7, <3>1
  <2>2. CASE i \in 4 .. 3 + WordDigits
    <3>1. i - 3 \in 1 .. WordDigits /\ 3 + (i - 3) = i
      BY <1>0, <2>2
    <3>2. QED
      BY <1>8, <3>1
  <2>3. CASE i \in 4 + WordDigits .. 3 + 2 * WordDigits
    <3>1. i - (3 + WordDigits) \in 1 .. WordDigits /\ 3 + WordDigits + (i - (3 + WordDigits)) = i
      BY <1>0, <2>3
    <3>2. QED
      BY <1>9, <3>1
  <2>4. QED
    BY <1>0, <1>1, <1>10, <2>1, <2>2, <2>3
<1>12. /\ Len(p) = 3 + 2 * WordDigits
       /\ SubSeq(p, 2, 3) \in [1 .. 2 -> Char]
       /\ \A i \in 1 .. 2 : SubSeq(p, 2, 3)[i] = p[1 + i]
       /\ SubSeq(p, 4, 3 + WordDigits) \in [1 .. WordDigits -> Char]
       /\ \A i \in 1 .. WordDigits : SubSeq(p, 4, 3 + WordDigits)[i] = p[3 + i]
       /\ SubSeq(p, 4 + WordDigits, 3 + 2 * WordDigits) \in [1 .. WordDigits -> Char]
       /\ \A i \in 1 .. WordDigits : SubSeq(p, 4 + WordDigits, 3 + 2 * WordDigits)[i] = p[3 + WordDigits + i]
  BY <1>6, FrameParts
<1>13. \A i \in 2 .. Len(w) : p[i] \in Nibble
  <2>1. \A i \in 2 .. Len(w) : i \in DOMAIN p
    BY <1>0, <1>1, <1>6 DEF FrameDigits
  <2>2. QED
    BY <1>6, <2>1
<1>14. Value(SubSeq(p, 2, 3)) = Value(mode)
  <2>1. \A j \in 1 .. 2 : SubSeq(p, 2, 3)[j] \in Nibble /\ SubSeq(p, 2, 3)[j] = CharToHex(mode[j])
    BY <1>1, <1>4, <1>7, <1>12, <1>13
  <2>2. QED
    BY <1>1, <1>12, <2>1, PrintedValue
<1>15. Value(SubSeq(p, 4, 3 + WordDigits)) = Value(address)
  <2>1. \A j \in 1 .. WordDigits : /\ SubSeq(p, 4, 3 + WordDigits)[j] \in Nibble
                                   /\ SubSeq(p, 4, 3 + WordDigits)[j] = CharToHex(address[j])
    BY <1>1, <1>4, <1>8, <1>12, <1>13
  <2>2. PICK e \in [1 .. WordDigits -> Char] : e = SubSeq(p, 4, 3 + WordDigits)
    BY <1>12
  <2>3. \A j \in 1 .. WordDigits : e[j] \in Nibble /\ e[j] = CharToHex(address[j])
    BY <2>1, <2>2
  <2>4. Value(e) = Value(address)
    BY <1>0, <1>1, <2>3, PrintedValue
  <2>5. QED
    BY <2>2, <2>4
<1>16. Value(SubSeq(p, 4 + WordDigits, 3 + 2 * WordDigits)) = Value(data)
  <2>1. \A j \in 1 .. WordDigits : /\ SubSeq(p, 4 + WordDigits, 3 + 2 * WordDigits)[j] \in Nibble
                                   /\ SubSeq(p, 4 + WordDigits, 3 + 2 * WordDigits)[j] = CharToHex(data[j])
    BY <1>1, <1>4, <1>9, <1>12, <1>13
  <2>2. PICK e \in [1 .. WordDigits -> Char] : e = SubSeq(p, 4 + WordDigits, 3 + 2 * WordDigits)
    BY <1>12
  <2>3. \A j \in 1 .. WordDigits : e[j] \in Nibble /\ e[j] = CharToHex(data[j])
    BY <2>1, <2>2
  <2>4. Value(e) = Value(data)
    BY <1>0, <1>1, <2>3, PrintedValue
  <2>5. QED
    BY <2>2, <2>4
<1>17. ParseFrame(p) = ParseFrame(w)
  BY <1>14, <1>15, <1>16 DEF ParseFrame, mode, address, data
<1>18. QED
  BY <1>1, <1>10, <1>12, <1>17

------------------------------------------------------------------------------
(* A line.                                                                 *)

LEMMA Tokens ==
  ASSUME NEW t \in Token
  PROVE  /\ t.is = "name" => t.name \in Names /\ t = Name(t.name)
         /\ t.is = "number" => t.value \in Nat
         /\ t.is = "frame" => t.digits \in FrameDigits
         /\ t = Comma => t.is = "comma"
BY DEF Token, Name, Comma

LEMMA LastComma ==
  ASSUME NEW line \in Seq(Token)
  PROVE  /\ LastCommaOf(line) \in 0 .. Len(line)
         /\ LastCommaOf(line) = 0 \/ line[LastCommaOf(line)] = Comma
         /\ \A i \in 1 .. Len(line) : line[i] = Comma => i <= LastCommaOf(line)
<1> DEFINE T == {0} \cup {i \in DOMAIN line : line[i] = Comma}
<1>1. Len(line) \in Nat /\ T \in SUBSET (0 .. Len(line)) /\ T # {}
  OBVIOUS
<1>2. LastCommaOf(line) = CHOOSE x \in T : \A y \in T : x >= y
  BY DEF LastCommaOf, Max
<1>3. \E x \in T : \A y \in T : x >= y
  <2> HIDE DEF T
  <2>1. \E x \in T : \A y \in T : y <= x
    BY <1>1, LargestOf
  <2>2. QED
    BY <1>1, <2>1
<1>4. LastCommaOf(line) \in T /\ \A y \in T : LastCommaOf(line) >= y
  <2> HIDE DEF T
  <2>1. QED
    BY <1>2, <1>3
<1>5. QED
  BY <1>1, <1>4

\* What comes before the last comma, in a line whose last comma is before its
\* last token.
LEMMA Argument ==
  ASSUME NEW line \in Seq(Token), Len(line) >= 2
  PROVE  LET arg == SubSeq(line, 1, Len(line) - 2)
         IN  arg \in Seq(Token) /\ Len(arg) = Len(line) - 2 /\ (Len(line) >= 3 => arg[1] = line[1])
<1>1. PICK n \in Nat : n = Len(line) /\ n >= 2
  OBVIOUS
<1>2. \A i \in 1 .. n - 2 : line[i] \in Token
  BY <1>1
<1>3. n - 2 \in Int /\ 1 \in Int
  BY <1>1
<1>4. PICK arg : arg = SubSeq(line, 1, n - 2)
  OBVIOUS
<1>5. /\ arg \in Seq(Token)
      /\ Len(arg) = IF 1 <= n - 2 THEN n - 2 - 1 + 1 ELSE 0
      /\ \A i \in 1 .. n - 2 - 1 + 1 : arg[i] = line[1 + i - 1]
  BY <1>2, <1>3, <1>4, SubSeqProperties
<1>6. Len(arg) = n - 2
  BY <1>1, <1>5
<1>7. n >= 3 => arg[1] = line[1]
  BY <1>1, <1>5
<1>8. QED
  BY <1>1, <1>4, <1>5, <1>6, <1>7

LEMMA NumberParsed ==
  ASSUME NEW line \in Seq(Token), Len(line) >= 2, NEW n
  PROVE  n \in ParsedNumbers(SubSeq(line, 1, Len(line) - 2)) <=> n \in 0 .. UintMax /\ WithNumber(line, n)
<1>1. PICK arg \in Seq(Token) : /\ arg = SubSeq(line, 1, Len(line) - 2)
                                /\ Len(arg) = Len(line) - 2 /\ (Len(line) >= 3 => arg[1] = line[1])
  BY Argument
<1>2. UintMax \in Nat
  BY SizesAreNumbers
<1>a. PICK size \in Nat : size = Len(line) /\ size >= 2 /\ Len(arg) = size - 2
  BY <1>1
<1>3. CASE Len(line) = 2
  <2>1. arg = <<>>
    BY <1>1, <1>3
  <2>2. QED
    BY <1>1, <1>3, <2>1 DEF ParsedNumbers, WithNumber
<1>4. CASE Len(line) = 3
  <2>1. arg # <<>> /\ Len(arg) = 1 /\ arg[1] = line[1] /\ line[1] \in Token
    BY <1>1, <1>4
  <2>2. CASE line[1].is = "number"
    <3>1. line[1].value \in Nat
      BY <2>1, <2>2, Tokens
    <3>2. WithNumber(line, n) <=> (line[1].value <= UintMax => n = line[1].value)
      BY <1>4, <2>2 DEF WithNumber
    <3>3. ParsedNumbers(arg) = IF line[1].value > UintMax THEN 0 .. UintMax ELSE {line[1].value}
      BY <2>1, <2>2 DEF ParsedNumbers
    <3>4. QED
      BY <1>1, <1>2, <3>1, <3>2, <3>3
  <2>3. CASE line[1].is # "number"
    BY <1>1, <1>4, <2>1, <2>3 DEF ParsedNumbers, WithNumber
  <2>4. QED
    BY <2>2, <2>3
<1>5. CASE Len(line) > 3
  <2>1. Len(arg) # 0 /\ Len(arg) # 1
    <3>1. size > 3
      BY <1>a, <1>5
    <3>2. size - 2 # 0 /\ size - 2 # 1
      BY <3>1
    <3>3. QED
      BY <1>a, <3>2
  <2>2. arg # <<>>
    BY <2>1
  <2>3. QED
    BY <1>1, <1>5, <2>1, <2>2 DEF ParsedNumbers, WithNumber
<1>6. size = 2 \/ size = 3 \/ size > 3
  BY <1>a
<1>7. QED
  BY <1>a, <1>3, <1>4, <1>5, <1>6

LEMMA FrameParsed ==
  ASSUME NEW line \in Seq(Token), Len(line) >= 2, NEW f
  PROVE  f \in ParsedFrames(SubSeq(line, 1, Len(line) - 2)) <=> WithFrame(line, f)
<1>1. PICK arg \in Seq(Token) : /\ arg = SubSeq(line, 1, Len(line) - 2)
                                /\ Len(arg) = Len(line) - 2 /\ (Len(line) >= 3 => arg[1] = line[1])
  BY Argument
<1>2. Len(arg) = 1 <=> Len(line) = 3
  <2>1. Len(line) \in Nat /\ Len(arg) = Len(line) - 2
    BY <1>1
  <2>2. QED
    BY <2>1
<1>3. CASE Len(line) = 3
  <2>1. arg[1] = line[1] /\ Len(arg) = 1
    BY <1>1, <1>2, <1>3
  <2>2. QED
    BY <1>1, <1>3, <2>1 DEF ParsedFrames, WithFrame
<1>4. CASE Len(line) # 3
  BY <1>1, <1>2, <1>4 DEF ParsedFrames, WithFrame
<1>5. QED
  BY <1>3, <1>4

\* A line whose last token, after a comma or alone, is the name of a command.
Named(line) ==
    /\ Len(line) >= 1 /\ line[Len(line)].is = "name"
    /\ Len(line) > 1 => line[Len(line) - 1] = Comma

LEMMA CommaBeforeName ==
  ASSUME NEW line \in Seq(Token), Named(line)
  PROVE  LastCommaOf(line) = Len(line) - 1
<1>1. Len(line) \in Nat /\ Len(line) >= 1 /\ line[Len(line)].is = "name"
  BY DEF Named
<1>2. line[Len(line)] # Comma
  BY <1>1 DEF Comma
<1>3. LastCommaOf(line) \in 0 .. Len(line) - 1
  <2>1. LastCommaOf(line) # Len(line)
    BY <1>1, <1>2, LastComma
  <2>2. QED
    BY <1>1, <2>1, LastComma
<1>4. Len(line) > 1 => LastCommaOf(line) >= Len(line) - 1
  <2>1. ASSUME Len(line) > 1 PROVE Len(line) - 1 \in 1 .. Len(line) /\ line[Len(line) - 1] = Comma
    BY <1>1, <2>1 DEF Named
  <2>2. QED
    BY <2>1, LastComma
<1>5. QED
  BY <1>1, <1>3, <1>4

\* Only a line that names a command is taken for one; what it is taken for is
\* up to the name and what comes before the comma.
LEMMA Unnamed ==
  ASSUME NEW line \in Seq(Token), ~Named(line)
  PROVE  CommandsOf(line, LastCommaOf(line)) = {}
<1>1. PICK comma \in 0 .. Len(line) : comma = LastCommaOf(line)
  BY LastComma
<1>2. PICK rest : rest = SubSeq(line, comma + 1, Len(line))
  OBVIOUS
<1>3. Len(line) \in Nat /\ Len(rest) = Len(line) - comma
  BY <1>2
<1>4. Len(rest) # 1 \/ rest[1].is # "name"
  <2>1. SUFFICES ASSUME Len(rest) = 1, rest[1].is = "name" PROVE Named(line)
    OBVIOUS
  <2>a. PICK size \in Nat : size = Len(line) /\ 1 = size - comma /\ comma \in 0 .. size
    BY <1>3, <2>1
  <2>2. comma = Len(line) - 1
    BY <2>a
  <2>3. rest[1] = line[Len(line)]
    BY <1>2, <1>3, <2>2
  <2>4. Len(line) > 1 => line[Len(line) - 1] = Comma
    <3>1. comma # 0 => line[comma] = Comma
      BY <1>1, LastComma
    <3>2. size > 1 => comma # 0
      BY <2>a
    <3>3. QED
      BY <2>a, <2>2, <3>1, <3>2
  <2>5. QED
    BY <1>3, <2>1, <2>2, <2>3, <2>4 DEF Named
<1>5. QED
  BY <1>1, <1>2, <1>4 DEF CommandsOf

LEMMA OnePart ==
  ASSUME NEW S, NEW s \in Seq(S), NEW k \in 1 .. Len(s)
  PROVE  Len(SubSeq(s, k, k)) = 1 /\ SubSeq(s, k, k)[1] = s[k]
<1>1. SubSeq(s, k, k) = [i \in 1 .. k - k + 1 |-> s[i + k - 1]]
  OBVIOUS
<1>2. k - k + 1 = 1 /\ 1 + k - 1 = k /\ 1 \in Nat
  OBVIOUS
<1>3. SubSeq(s, k, k) = [i \in 1 .. 1 |-> s[i + k - 1]]
  BY <1>1, <1>2
<1>4. QED
  BY <1>2, <1>3

LEMMA NamedCommands ==
  ASSUME NEW line \in Seq(Token), Named(line), NEW n, n = line[Len(line)].name
  PROVE  LET parsed == CommandsOf(line, LastCommaOf(line))
             arg == SubSeq(line, 1, Len(line) - 2)
         IN  /\ n \in Names
             /\ n = "sc_reset" => parsed = {Plain("sc_reset")}
             /\ n = "read" => parsed = IF Len(line) = 1 \/ ParsedNumbers(arg) # {} THEN {Plain("read")} ELSE {}
             /\ n \in {"wait", "read_multiple"} =>
                  parsed = IF Len(line) = 1 THEN {} ELSE {[type |-> n, number |-> m] : m \in ParsedNumbers(arg)}
             /\ n = "write" =>
                  parsed = IF Len(line) = 1 THEN {} ELSE {[type |-> "write", frame |-> f] : f \in ParsedFrames(arg)}
<1>1. PICK comma \in Nat : comma = Len(line) - 1 /\ comma = LastCommaOf(line)
  BY CommaBeforeName DEF Named
<1>2. PICK rest : rest = SubSeq(line, comma + 1, Len(line))
  OBVIOUS
<1>3. PICK arg : arg = SubSeq(line, 1, comma - 1)
  OBVIOUS
<1>4. Len(rest) = 1 /\ rest[1] = line[Len(line)]
  <2>1. PICK size \in Nat : size = Len(line) /\ comma + 1 = size /\ size >= 1
    BY <1>1 DEF Named
  <2>2. Len(SubSeq(line, size, size)) = 1 /\ SubSeq(line, size, size)[1] = line[size]
    <3>1. size \in 1 .. Len(line)
      BY <2>1
    <3>2. QED
      BY <3>1, OnePart
  <2>3. QED
    BY <1>2, <2>1, <2>2
<1>5. rest[1].is = "name" /\ rest[1].name = n /\ n \in Names
  <2>1. line[Len(line)] \in Token
    BY DEF Named
  <2>2. QED
    BY <1>4, <2>1, Tokens DEF Named
<1>6. CommandsOf(line, comma) =
         CASE n = "sc_reset" -> {Plain("sc_reset")}
           [] n = "read" -> IF comma = 0 \/ ParsedNumbers(arg) # {} THEN {Plain("read")} ELSE {}
           [] n \in {"wait", "read_multiple"} ->
                IF comma = 0 THEN {} ELSE {[type |-> n, number |-> m] : m \in ParsedNumbers(arg)}
           [] n = "write" ->
                IF comma = 0 THEN {} ELSE {[type |-> "write", frame |-> f] : f \in ParsedFrames(arg)}
  BY <1>2, <1>3, <1>4, <1>5, Zenon DEF CommandsOf
<1>7. /\ "sc_reset" # "read" /\ "sc_reset" # "wait" /\ "sc_reset" # "read_multiple" /\ "sc_reset" # "write"
      /\ "read" # "wait" /\ "read" # "read_multiple" /\ "read" # "write"
      /\ "wait" # "write" /\ "read_multiple" # "write"
  OBVIOUS
<1>8. n = "sc_reset" => CommandsOf(line, comma) = {Plain("sc_reset")}
  BY <1>6, <1>7, Zenon
<1>9. n = "read" => CommandsOf(line, comma) =
          IF comma = 0 \/ ParsedNumbers(arg) # {} THEN {Plain("read")} ELSE {}
  BY <1>6, <1>7, Zenon
<1>10. n \in {"wait", "read_multiple"} => CommandsOf(line, comma) =
          IF comma = 0 THEN {} ELSE {[type |-> n, number |-> m] : m \in ParsedNumbers(arg)}
  BY <1>6, <1>7, Zenon
<1>11. n = "write" => CommandsOf(line, comma) =
          IF comma = 0 THEN {} ELSE {[type |-> "write", frame |-> f] : f \in ParsedFrames(arg)}
  BY <1>6, <1>7, Zenon
<1>12. (comma = 0 <=> Len(line) = 1) /\ comma - 1 = Len(line) - 2
  BY <1>1
<1>13. QED
  BY <1>1, <1>3, <1>5, <1>8, <1>9, <1>10, <1>11, <1>12

LEMMA MeansNamed ==
  ASSUME NEW line \in Seq(Token), NEW c, Means(line, c)
  PROVE  Named(line) /\ line[Len(line)].name = c.type
<1>1. line # <<>> /\ line[Len(line)] = Name(c.type) /\ (Len(line) > 1 => line[Len(line) - 1] = Comma)
  BY DEF Means, Last
<1>2. Len(line) \in Nat /\ Len(line) >= 1
  BY <1>1
<1>3. line[Len(line)].is = "name" /\ line[Len(line)].name = c.type
  BY <1>1 DEF Name
<1>4. QED
  BY <1>1, <1>2, <1>3 DEF Named

LEMMA NamedMeans ==
  ASSUME NEW line \in Seq(Token), Named(line), NEW c, c.type = line[Len(line)].name
  PROVE  /\ line # <<>> /\ Last(line) = Name(c.type)
         /\ Len(line) > 1 => line[Len(line) - 1] = Comma
<1>1. Len(line) >= 1 /\ line[Len(line)].is = "name" /\ (Len(line) > 1 => line[Len(line) - 1] = Comma)
  BY DEF Named
<1>2. line # <<>> /\ line[Len(line)] \in Token
  BY <1>1
<1>3. line[Len(line)] = Name(c.type)
  BY <1>1, <1>2, Tokens
<1>4. QED
  BY <1>1, <1>2, <1>3 DEF Last

\* Whatever a line is taken for is what it means.
LEMMA CommandsMean ==
  ASSUME NEW line \in Seq(Token), NEW c \in CommandsOf(line, LastCommaOf(line))
  PROVE  c \in Command /\ Means(line, c)
<1>1. Named(line)
  BY Unnamed
<1>2. PICK n, arg, parsed : /\ n = line[Len(line)].name
                            /\ arg = SubSeq(line, 1, Len(line) - 2)
                            /\ parsed = CommandsOf(line, LastCommaOf(line))
  OBVIOUS
<1>3. /\ n \in Names
      /\ n = "sc_reset" => parsed = {Plain("sc_reset")}
      /\ n = "read" => parsed = IF Len(line) = 1 \/ ParsedNumbers(arg) # {} THEN {Plain("read")} ELSE {}
      /\ n \in {"wait", "read_multiple"} =>
           parsed = IF Len(line) = 1 THEN {} ELSE {[type |-> n, number |-> m] : m \in ParsedNumbers(arg)}
      /\ n = "write" =>
           parsed = IF Len(line) = 1 THEN {} ELSE {[type |-> "write", frame |-> f] : f \in ParsedFrames(arg)}
  BY <1>1, <1>2, NamedCommands
<1>4. Len(line) # 1 => Len(line) >= 2 /\ Len(line) > 1
  <2>1. PICK size \in Nat : size = Len(line) /\ size >= 1
    BY <1>1 DEF Named
  <2>2. size # 1 => size >= 2 /\ size > 1
    BY <2>1
  <2>3. QED
    BY <2>1, <2>2
<1>5. CASE n = "sc_reset"
  <2>1. c = Plain("sc_reset") /\ c.type = n /\ c \in Command
    BY <1>2, <1>3, <1>5 DEF Plain, Command
  <2>2. QED
    BY <1>1, <1>2, <2>1, NamedMeans DEF Means
<1>6. CASE n = "read"
  <2>1. c = Plain("read") /\ c.type = n /\ c \in Command /\ (Len(line) = 1 \/ ParsedNumbers(arg) # {})
    BY <1>2, <1>3, <1>6 DEF Plain, Command
  <2>2. Len(line) = 1 \/ \E m \in 0 .. UintMax : WithNumber(line, m)
    <3>1. SUFFICES ASSUME Len(line) # 1 PROVE \E m \in 0 .. UintMax : WithNumber(line, m)
      OBVIOUS
    <3>2. PICK m : m \in ParsedNumbers(arg)
      BY <2>1, <3>1
    <3>3. QED
      BY <1>2, <1>4, <3>1, <3>2, NumberParsed
  <2>3. QED
    BY <1>1, <1>2, <2>1, <2>2, NamedMeans DEF Means
<1>7. CASE n \in {"wait", "read_multiple"}
  <2>1. Len(line) # 1 /\ c \in {[type |-> n, number |-> m] : m \in ParsedNumbers(arg)}
    BY <1>2, <1>3, <1>7
  <2>2. PICK m \in ParsedNumbers(arg) : c = [type |-> n, number |-> m]
    BY <2>1
  <2>3. m \in 0 .. UintMax /\ WithNumber(line, m)
    BY <1>2, <1>4, <2>1, <2>2, NumberParsed
  <2>4. c.type = n /\ c.number = m /\ c \in Command
    BY <1>7, <2>2, <2>3 DEF Command
  <2>5. QED
    BY <1>1, <1>2, <1>4, <1>7, <2>1, <2>3, <2>4, NamedMeans DEF Means
<1>8. CASE n = "write"
  <2>1. Len(line) # 1 /\ c \in {[type |-> "write", frame |-> f] : f \in ParsedFrames(arg)}
    BY <1>2, <1>3, <1>8
  <2>2. PICK f \in ParsedFrames(arg) : c = [type |-> "write", frame |-> f]
    BY <2>1
  <2>3. WithFrame(line, f)
    BY <1>2, <1>4, <2>1, <2>2, FrameParsed
  <2>4. f \in [mode : Nat, address : Nat, data : Nat]
    <3>1. Len(line) = 3
      BY <2>3 DEF WithFrame
    <3>2. line[1].is = "frame" /\ f = ParseFrame(line[1].digits)
      BY <2>3 DEF WithFrame
    <3>3. 1 \in 1 .. Len(line)
      BY <3>1
    <3>4. line[1] \in Token
      BY <3>3
    <3>5. line[1].digits \in FrameDigits
      BY <3>2, <3>4, Tokens
    <3>6. QED
      BY <3>2, <3>5, FrameIsNumbers
  <2>5. c.type = n /\ c.frame = f /\ c \in Command
    BY <1>8, <2>2, <2>4 DEF Command
  <2>6. QED
    BY <1>1, <1>2, <1>8, <2>3, <2>5, NamedMeans DEF Means
<1>9. QED
  BY <1>3, <1>5, <1>6, <1>7, <1>8 DEF Names

\* A line that means something is taken for something.
LEMMA MeaningfulParsed ==
  ASSUME NEW line \in Seq(Token), NEW c, Means(line, c),
         c.type \in {"wait", "read_multiple"} => c.number \in 0 .. UintMax
  PROVE  CommandsOf(line, LastCommaOf(line)) # {}
<1>1. Named(line) /\ c.type = line[Len(line)].name
  BY MeansNamed
<1>2. PICK n, arg, parsed : /\ n = line[Len(line)].name
                            /\ arg = SubSeq(line, 1, Len(line) - 2)
                            /\ parsed = CommandsOf(line, LastCommaOf(line))
  OBVIOUS
<1>3. /\ n \in Names
      /\ n = "sc_reset" => parsed = {Plain("sc_reset")}
      /\ n = "read" => parsed = IF Len(line) = 1 \/ ParsedNumbers(arg) # {} THEN {Plain("read")} ELSE {}
      /\ n \in {"wait", "read_multiple"} =>
           parsed = IF Len(line) = 1 THEN {} ELSE {[type |-> n, number |-> m] : m \in ParsedNumbers(arg)}
      /\ n = "write" =>
           parsed = IF Len(line) = 1 THEN {} ELSE {[type |-> "write", frame |-> f] : f \in ParsedFrames(arg)}
  BY <1>1, <1>2, NamedCommands
<1>4. (Len(line) > 1 => Len(line) # 1) /\ (Len(line) # 1 => Len(line) >= 2)
  <2>1. PICK size \in Nat : size = Len(line) /\ size >= 1
    BY <1>1 DEF Named
  <2>2. (size > 1 => size # 1) /\ (size # 1 => size >= 2)
    BY <2>1
  <2>3. QED
    BY <2>1, <2>2
<1>5. CASE n = "sc_reset"
  BY <1>2, <1>3, <1>5
<1>6. CASE n = "read"
  <2>1. Len(line) = 1 \/ \E m \in 0 .. UintMax : WithNumber(line, m)
    BY <1>1, <1>2, <1>6 DEF Means, Plain
  <2>2. Len(line) # 1 => ParsedNumbers(arg) # {}
    BY <1>2, <1>4, <2>1, NumberParsed
  <2>3. QED
    BY <1>2, <1>3, <1>6, <2>2
<1>7. CASE n \in {"wait", "read_multiple"}
  <2>1. Len(line) > 1 /\ WithNumber(line, c.number) /\ c.number \in 0 .. UintMax
    BY <1>1, <1>2, <1>7 DEF Means, Plain
  <2>2. Len(line) # 1
    BY <1>4, <2>1
  <2>3. c.number \in ParsedNumbers(arg)
    BY <1>2, <1>4, <2>1, <2>2, NumberParsed
  <2>4. [type |-> n, number |-> c.number] \in parsed
    BY <1>3, <1>7, <2>2, <2>3
  <2>5. QED
    BY <1>2, <2>4
<1>8. CASE n = "write"
  <2>1. WithFrame(line, c.frame)
    BY <1>1, <1>2, <1>8 DEF Means, Plain
  <2>2. Len(line) = 3 /\ Len(line) # 1 /\ Len(line) >= 2
    BY <2>1 DEF WithFrame
  <2>3. c.frame \in ParsedFrames(arg)
    BY <1>2, <1>4, <2>1, <2>2, FrameParsed
  <2>4. [type |-> "write", frame |-> c.frame] \in parsed
    BY <1>3, <1>8, <2>2, <2>3
  <2>5. QED
    BY <1>2, <2>4
<1>9. QED
  BY <1>3, <1>5, <1>6, <1>7, <1>8 DEF Names

LEMMA ThrowsRightly ==
  ASSUME NEW line \in Seq(Token), CommandsOf(line, LastCommaOf(line)) = {}
  PROVE  ~Meaningful(line)
<1>1. \A t \in {"sc_reset", "read"} : ~Means(line, Plain(t))
  BY MeaningfulParsed DEF Plain
<1>2. \A t \in {"wait", "read_multiple"}, n \in 0 .. UintMax : ~Means(line, [type |-> t, number |-> n])
  BY MeaningfulParsed
<1>3. \A f : ~Means(line, [type |-> "write", frame |-> f])
  BY MeaningfulParsed
<1>4. QED
  BY <1>1, <1>2, <1>3 DEF Meaningful

------------------------------------------------------------------------------
(* The lines of a text.                                                    *)

LEMMA EndsAre ==
  ASSUME text \in Seq(Token)
  PROVE  /\ Ends \in SUBSET (0 .. Len(text) + 1) /\ IsFiniteSet(Ends)
         /\ 0 \in Ends /\ Len(text) + 1 \in Ends
         /\ \A i \in 1 .. Len(text) : i \in Ends <=> text[i] = Newline
<1>1. Len(text) \in Nat
  OBVIOUS
<1>2. Ends \in SUBSET (0 .. Len(text) + 1)
  BY <1>1 DEF Ends
<1>3. IsFiniteSet(0 .. Len(text) + 1)
  BY <1>1, FS_Interval
<1>4. IsFiniteSet(Ends)
  BY <1>2, <1>3, FS_Subset
<1>5. \A i \in 1 .. Len(text) : i \in Ends <=> text[i] = Newline
  <2>1. \A i \in 1 .. Len(text) : i # 0 /\ i # Len(text) + 1 /\ i \in DOMAIN text
    BY <1>1
  <2>2. QED
    BY <2>1 DEF Ends
<1>6. QED
  BY <1>2, <1>4, <1>5 DEF Ends

LEMMA BeforeIsNat ==
  ASSUME text \in Seq(Token), NEW i
  PROVE  IsFiniteSet({e \in Ends : e < i}) /\ EndsBefore(i) \in Nat
<1>1. {e \in Ends : e < i} \in SUBSET Ends /\ IsFiniteSet(Ends)
  BY EndsAre
<1>2. IsFiniteSet({e \in Ends : e < i})
  BY <1>1, FS_Subset
<1>3. QED
  BY <1>2, FS_CardinalityType DEF EndsBefore

\* The ends up to and including one.
LEMMA UpToEnd ==
  ASSUME text \in Seq(Token), NEW i \in Ends
  PROVE  /\ IsFiniteSet({e \in Ends : e < i} \cup {i})
         /\ Cardinality({e \in Ends : e < i} \cup {i}) = EndsBefore(i) + 1
<1>1. PICK T : T = {e \in Ends : e < i}
  OBVIOUS
<1>2. IsFiniteSet(T) /\ EndsBefore(i) = Cardinality(T)
  BY <1>1, BeforeIsNat DEF EndsBefore
<1>3. i \notin T
  BY <1>1, EndsAre
<1>4. QED
  BY <1>1, <1>2, <1>3, FS_AddElement

LEMMA BeforeGrows ==
  ASSUME text \in Seq(Token), NEW i \in Ends, NEW j \in Ends, i < j
  PROVE  EndsBefore(i) < EndsBefore(j)
<1>1. PICK S, T : S = {e \in Ends : e < i} \cup {i} /\ T = {e \in Ends : e < j}
  OBVIOUS
<1>2. S \in SUBSET T
  BY <1>1, EndsAre
<1>3. IsFiniteSet(T) /\ EndsBefore(j) = Cardinality(T) /\ EndsBefore(j) \in Nat /\ EndsBefore(i) \in Nat
  BY <1>1, BeforeIsNat DEF EndsBefore
<1>4. Cardinality(S) = EndsBefore(i) + 1
  BY <1>1, UpToEnd
<1>5. Cardinality(S) <= Cardinality(T)
  BY <1>2, <1>3, FS_Subset
<1>6. QED
  BY <1>3, <1>4, <1>5

\* One end comes right after another.
Follows(j, i) == i < j /\ \A e \in Ends : ~ (i < e /\ e < j)

LEMMA BeforeNext ==
  ASSUME text \in Seq(Token), NEW i \in Ends, NEW j \in Ends, Follows(j, i)
  PROVE  EndsBefore(j) = EndsBefore(i) + 1
<1>1. {e \in Ends : e < j} = {e \in Ends : e < i} \cup {i}
  <2>1. ASSUME NEW e \in Ends PROVE e < j <=> e < i \/ e = i
    <3>1. e \in Nat /\ i \in Nat /\ j \in Nat
      BY EndsAre
    <3>2. QED
      BY <3>1 DEF Follows
  <2>2. i < j
    BY DEF Follows
  <2>3. QED
    BY <2>1, <2>2
<1>2. QED
  BY <1>1, UpToEnd DEF EndsBefore

LEMMA EndAtIs ==
  ASSUME text \in Seq(Token), NEW i \in Ends
  PROVE  EndAt(EndsBefore(i)) = i
<1>1. ASSUME NEW e \in Ends, EndsBefore(e) = EndsBefore(i) PROVE e = i
  <2>1. e \in Nat /\ i \in Nat /\ EndsBefore(i) \in Nat
    <3>1. e \in Nat /\ i \in Nat
      BY EndsAre
    <3>2. QED
      BY <3>1, BeforeIsNat
  <2>2. ~ (e < i) /\ ~ (i < e)
    BY <1>1, <2>1, BeforeGrows
  <2>3. QED
    BY <2>1, <2>2
<1>2. EndAt(EndsBefore(i)) \in Ends /\ EndsBefore(EndAt(EndsBefore(i))) = EndsBefore(i)
  BY DEF EndAt
<1>3. QED
  BY <1>1, <1>2

LEMMA FirstAndLastEnd ==
  ASSUME text \in Seq(Token)
  PROVE  EndsBefore(0) = 0 /\ Cardinality(Ends) = EndsBefore(Len(text) + 1) + 1
<1>1. {e \in Ends : e < 0} = {}
  BY EndsAre
<1>2. EndsBefore(0) = 0
  BY <1>1, FS_EmptySet DEF EndsBefore
<1>3. {e \in Ends : e < Len(text) + 1} \cup {Len(text) + 1} = Ends
  <2>1. ASSUME NEW e \in Ends PROVE e < Len(text) + 1 \/ e = Len(text) + 1
    <3>1. e \in 0 .. Len(text) + 1 /\ Len(text) \in Nat
      BY EndsAre
    <3>2. QED
      BY <3>1
  <2>2. QED
    BY <2>1, EndsAre
<1>4. QED
  BY <1>2, <1>3, EndsAre, UpToEnd

\* The last end before another one.
LEMMA PreviousEnd ==
  ASSUME text \in Seq(Token), NEW j \in Ends, j # 0
  PROVE  \E i \in Ends : Follows(j, i)
<1>1. j \in Nat /\ Ends \subseteq Nat /\ 0 \in Ends
  BY EndsAre
<1>2. PICK T : T = {e \in Ends : e < j}
  OBVIOUS
<1>3. T \in SUBSET (0 .. j) /\ 0 \in T
  <2>1. ASSUME NEW e \in T PROVE e \in 0 .. j
    <3>1. e \in Nat /\ e < j
      BY <1>1, <1>2
    <3>2. QED
      BY <1>1, <3>1
  <2>2. 0 < j
    BY <1>1
  <2>3. QED
    BY <1>1, <1>2, <2>1, <2>2
<1>4. PICK i \in T : \A e \in T : e <= i
  BY <1>1, <1>3, LargestOf
<1>5. i \in Ends /\ i \in Nat /\ i < j
  BY <1>1, <1>2
<1>6. ASSUME NEW e \in Ends, i < e, e < j PROVE FALSE
  <2>1. e \in T /\ e \in Nat
    BY <1>1, <1>2, <1>6
  <2>2. QED
    BY <1>4, <1>5, <1>6, <2>1
<1>7. QED
  BY <1>5, <1>6 DEF Follows

\* The ends are numbered from 0.
LEMMA EndAtExists ==
  ASSUME text \in Seq(Token), NEW m \in Nat, m < Cardinality(Ends)
  PROVE  EndAt(m) \in Ends /\ EndsBefore(EndAt(m)) = m
<1>1. PICK size \in Nat : size = Len(text)
  OBVIOUS
<1>2. PICK last \in Nat : last = EndsBefore(size + 1) /\ Cardinality(Ends) = last + 1
  BY <1>1, BeforeIsNat, FirstAndLastEnd
<1> DEFINE T == {n \in Nat : n <= last => \E i \in Ends : EndsBefore(i) = n}
<1>3. 0 \in T
  BY EndsAre, FirstAndLastEnd
<1>4. ASSUME NEW n \in Nat, n \in T PROVE n + 1 \in T
  <2>1. SUFFICES ASSUME n + 1 <= last PROVE \E j \in Ends : EndsBefore(j) = n + 1
    OBVIOUS
  <2>2. PICK i \in Ends : EndsBefore(i) = n
    <3>1. n <= last
      BY <2>1
    <3>2. QED
      BY <1>4, <3>1
  <2>3. i # size + 1
    BY <1>2, <2>1, <2>2
  <2>4. i \in 0 .. size /\ size + 1 \in Ends
    BY <1>1, <2>3, EndsAre
  <2>5. PICK later : later = {e \in Ends : i < e}
    OBVIOUS
  <2>6. later \in SUBSET Nat /\ size + 1 \in later
    <3>1. Ends \in SUBSET Nat
      BY EndsAre
    <3>2. i < size + 1
      BY <2>4
    <3>3. size + 1 \in later
      BY <2>4, <2>5, <3>2
    <3>4. later \subseteq Ends
      BY <2>5
    <3>5. QED
      BY <3>1, <3>3, <3>4
  <2>7. PICK j \in later : \A e \in later : j <= e
    BY <2>6, SmallestOf
  <2>8. j \in Ends /\ Follows(j, i)
    <3>1. j \in Ends /\ i < j
      BY <2>5
    <3>2. ASSUME NEW e \in Ends, i < e, e < j PROVE FALSE
      <4>1. j <= e /\ e \in Nat /\ j \in Nat
        BY <2>5, <2>6, <2>7, <3>2
      <4>2. QED
        BY <3>2, <4>1
    <3>3. QED
      BY <3>1, <3>2 DEF Follows
  <2>9. QED
    BY <2>2, <2>8, BeforeNext
<1>5. \A n \in Nat : n \in T
  <2> HIDE DEF T
  <2>1. QED
    BY <1>3, <1>4, SetInduction
<1>6. m <= last
  BY <1>2
<1>7. \E i \in Ends : EndsBefore(i) = m
  BY <1>5, <1>6
<1>8. QED
  BY <1>7 DEF EndAt

\* How many lines there are: what follows a last newline is none.
LineCount == IF Len(text) \in Ends THEN EndsBefore(Len(text)) ELSE EndsBefore(Len(text) + 1)

AllLines == [k \in 1 .. Cardinality(Ends) - 1 |-> SubSeq(text, EndAt(k - 1) + 1, EndAt(k) - 1)]

LEMMA LinesAre ==
  ASSUME text \in Seq(Token)
  PROVE  /\ LineCount \in Nat /\ Len(Lines) = LineCount
         /\ \A k \in 1 .. LineCount : Lines[k] = SubSeq(text, EndAt(k - 1) + 1, EndAt(k) - 1)
<1>1. PICK size \in Nat : size = Len(text)
  OBVIOUS
<1>2. size + 1 \in Ends /\ size + 1 # 0 /\ Ends \in SUBSET (0 .. size + 1)
  BY <1>1, EndsAre
<1>3. PICK p \in Ends : Follows(size + 1, p)
  BY <1>2, PreviousEnd
<1>4. p \in 0 .. size /\ (size \in Ends <=> p = size)
  <2>1. p \in 0 .. size + 1 /\ p < size + 1
    BY <1>2, <1>3 DEF Follows
  <2>2. p \in 0 .. size
    BY <2>1
  <2>3. size \in Ends => ~ (p < size /\ size < size + 1)
    BY <1>3 DEF Follows
  <2>4. QED
    BY <2>2, <2>3
<1>5. PICK last \in Nat : last = EndsBefore(p)
  BY BeforeIsNat
<1>6. EndsBefore(size + 1) = last + 1 /\ Cardinality(Ends) = last + 2
  <2>1. EndsBefore(size + 1) = last + 1
    BY <1>2, <1>3, <1>5, BeforeNext
  <2>2. QED
    BY <1>1, <1>5, <2>1, FirstAndLastEnd
<1>7. PICK all : all = AllLines
  OBVIOUS
<1>8. all = [k \in 1 .. last + 1 |-> SubSeq(text, EndAt(k - 1) + 1, EndAt(k) - 1)]
  <2>1. Cardinality(Ends) - 1 = last + 1
    BY <1>5, <1>6
  <2>2. QED
    BY <1>7, <2>1 DEF AllLines
<1>9. Lines = IF Last(all) = <<>> THEN Front(all) ELSE all
  BY <1>7, Zenon DEF Lines, AllLines
<1>10. Last(all) = SubSeq(text, p + 1, size)
  <2>1. EndAt(last) = p /\ EndAt(last + 1) = size + 1
    BY <1>2, <1>5, <1>6, EndAtIs
  <2>2. Len(all) = last + 1
    BY <1>8
  <2>3. all[last + 1] = SubSeq(text, EndAt(last) + 1, EndAt(last + 1) - 1)
    <3>1. last + 1 \in 1 .. last + 1 /\ (last + 1) - 1 = last
      OBVIOUS
    <3>2. QED
      BY <1>8, <3>1
  <2>4. (size + 1) - 1 = size
    OBVIOUS
  <2>5. QED
    BY <2>1, <2>2, <2>3, <2>4 DEF Last
<1>11. Last(all) = <<>> <=> size \in Ends
  <2>1. Len(SubSeq(text, p + 1, size)) = size - p
    BY <1>1, <1>4
  <2>2. SubSeq(text, p + 1, size) \in Seq(Token)
    BY <1>1, <1>4
  <2>3. PICK line \in Seq(Token) : line = SubSeq(text, p + 1, size) /\ Len(line) = size - p
    BY <2>1, <2>2
  <2>4. line = <<>> <=> Len(line) = 0
    OBVIOUS
  <2>5. size - p = 0 <=> p = size
    BY <1>4
  <2>6. QED
    BY <1>4, <1>10, <2>3, <2>4, <2>5
<1>12. CASE size \in Ends
  <2>1. LineCount = last
    BY <1>1, <1>4, <1>5, <1>12 DEF LineCount
  <2>2. Lines = SubSeq(all, 1, Len(all) - 1)
    BY <1>9, <1>11, <1>12 DEF Front
  <2>3. Len(all) = last + 1 /\ (last + 1) - 1 = last
    BY <1>8
  <2>4. Lines = SubSeq(all, 1, last)
    BY <2>2, <2>3
  <2>5. PICK S : all \in [1 .. last + 1 -> S]
    <3>1. all \in [1 .. last + 1 -> {all[k] : k \in 1 .. last + 1}]
      BY <1>8
    <3>2. QED
      BY <3>1
  <2>6. IsPart(Lines, all, 0, last)
    <3>1. 1 = 0 + 1 /\ last = 0 + last /\ 0 \in Nat
      OBVIOUS
    <3>2. QED
      BY <2>4, <3>1, PartOf
  <2>7. Lines \in [1 .. last -> S] /\ \A k \in 1 .. last : Lines[k] = all[0 + k]
    <3>1. last + 1 \in Nat /\ 0 + last <= last + 1
      OBVIOUS
    <3>2. QED
      BY <2>5, <2>6, <3>1 DEF IsPart
  <2>8. Len(Lines) = last
    BY <2>7, FunctionIsSeq
  <2>9. ASSUME NEW k \in 1 .. last PROVE Lines[k] = SubSeq(text, EndAt(k - 1) + 1, EndAt(k) - 1)
    <3>1. 0 + k = k /\ k \in 1 .. last + 1
      OBVIOUS
    <3>2. QED
      BY <1>8, <2>7, <3>1
  <2>10. QED
    BY <2>1, <2>8, <2>9
<1>13. CASE size \notin Ends
  <2>1. LineCount = last + 1
    BY <1>1, <1>6, <1>13 DEF LineCount
  <2>2. Lines = all
    BY <1>9, <1>11, <1>13
  <2>3. Len(all) = last + 1 /\ last + 1 \in Nat
    BY <1>8
  <2>4. \A k \in 1 .. last + 1 : all[k] = SubSeq(text, EndAt(k - 1) + 1, EndAt(k) - 1)
    BY <1>8
  <2>5. QED
    BY <2>1, <2>2, <2>3, <2>4
<1>14. QED
  BY <1>12, <1>13

------------------------------------------------------------------------------
(* The inductive invariant.                                                *)

LEMMA TextIsTokens ==
  ASSUME TypeOK
  PROVE  text \in Seq(Token) /\ Len(text) \in Nat /\ position \in 1 .. Len(text) + 1
BY TextsAreTokens DEF TypeOK

\* getNextCmd() finds the end that follows the one m_position is behind.
LEMMA NextEnd ==
  ASSUME TypeOK, position <= Len(text), position - 1 \in Ends
  PROVE  /\ LineEnd \in Ends /\ Follows(LineEnd, position - 1)
         /\ LineEnd \in position .. Len(text) + 1
<1>1. PICK size \in Nat : size = Len(text) /\ position \in 1 .. size
  BY TextIsTokens
<1>2. PICK T : T = {size + 1} \cup {i \in position .. size : text[i] = Newline}
  OBVIOUS
<1>3. T \in SUBSET Nat /\ T # {} /\ T \subseteq position .. size + 1
  BY <1>1, <1>2
<1>4. LineEnd = CHOOSE x \in T : \A y \in T : x <= y
  BY <1>1, <1>2 DEF LineEnd, Min
<1>5. LineEnd \in T /\ \A y \in T : LineEnd <= y
  BY <1>3, <1>4, SmallestOf
<1>6. \A e \in Ends : e >= position => e \in T
  <2>1. SUFFICES ASSUME NEW e \in Ends, e >= position PROVE e \in T
    OBVIOUS
  <2>2. e \in 0 .. size + 1
    BY <1>1, TextIsTokens, EndsAre
  <2>3. CASE e = size + 1
    BY <1>2, <2>3
  <2>4. CASE e # size + 1
    <3>1. e \in position .. size /\ e \in 1 .. Len(text)
      BY <1>1, <2>1, <2>2, <2>4
    <3>2. text[e] = Newline
      BY <3>1, TextIsTokens, EndsAre
    <3>3. QED
      BY <1>2, <3>1, <3>2
  <2>5. QED
    BY <2>3, <2>4
<1>7. LineEnd \in Ends
  <2>1. CASE LineEnd = size + 1
    BY <1>1, <2>1, TextIsTokens, EndsAre
  <2>2. CASE LineEnd \in position .. size /\ text[LineEnd] = Newline
    <3>1. LineEnd \in 1 .. Len(text)
      BY <1>1, <2>2
    <3>2. QED
      BY <2>2, <3>1, TextIsTokens, EndsAre
  <2>3. QED
    BY <1>2, <1>5, <2>1, <2>2
<1>8. LineEnd \in position .. size + 1
  BY <1>3, <1>5
<1>9. Follows(LineEnd, position - 1)
  <2>1. position - 1 < LineEnd
    BY <1>1, <1>8
  <2>2. ASSUME NEW e \in Ends, position - 1 < e, e < LineEnd PROVE FALSE
    <3>1. e \in Nat
      BY TextIsTokens, EndsAre
    <3>2. e >= position
      BY <1>1, <2>2, <3>1
    <3>3. LineEnd <= e
      BY <1>5, <1>6, <3>2
    <3>4. QED
      BY <1>8, <2>2, <3>1, <3>3
  <2>3. QED
    BY <2>1, <2>2 DEF Follows
<1>10. QED
  BY <1>1, <1>7, <1>8, <1>9

\* The line getNextCmd() is about to read is the next of the lines.
LEMMA LineIsNext ==
  ASSUME TypeOK, PositionInv, position <= Len(text)
  PROVE  /\ position - 1 \in Ends /\ Len(commands) = EndsBefore(position - 1)
         /\ Len(commands) + 1 \in 1 .. Len(Lines) /\ Line = Lines[Len(commands) + 1]
         /\ Line \in Seq(Token)
<1>1. PICK size \in Nat : size = Len(text) /\ position \in 1 .. size
  BY TextIsTokens
<1>2. position - 1 \in Ends /\ Len(commands) = EndsBefore(position - 1)
  <2>1. position # Len(text) + 1
    BY <1>1
  <2>2. QED
    BY <2>1 DEF PositionInv
<1>3. text \in Seq(Token)
  BY TextIsTokens
<1>4. PICK k \in Nat : k = EndsBefore(position - 1)
  BY <1>3, BeforeIsNat
<1>5. LineEnd \in Ends /\ Follows(LineEnd, position - 1) /\ LineEnd \in position .. size + 1
  BY <1>1, <1>2, NextEnd
<1>6. EndAt(k) = position - 1 /\ EndAt(k + 1) = LineEnd
  <2>1. EndsBefore(LineEnd) = k + 1
    BY <1>2, <1>3, <1>4, <1>5, BeforeNext
  <2>2. EndAt(EndsBefore(position - 1)) = position - 1 /\ EndAt(EndsBefore(LineEnd)) = LineEnd
    BY <1>2, <1>3, <1>5, EndAtIs
  <2>3. QED
    BY <1>4, <2>1, <2>2
<1>7. k < LineCount
  <2>1. CASE size \in Ends
    <3>1. position - 1 < size
      BY <1>1
    <3>2. EndsBefore(position - 1) < EndsBefore(size)
      BY <1>2, <1>3, <2>1, <3>1, BeforeGrows
    <3>3. QED
      BY <1>1, <1>4, <2>1, <3>2 DEF LineCount
  <2>2. CASE size \notin Ends
    <3>1. position - 1 < size + 1 /\ size + 1 \in Ends
      BY <1>1, <1>3, EndsAre
    <3>2. EndsBefore(position - 1) < EndsBefore(size + 1)
      BY <1>2, <1>3, <3>1, BeforeGrows
    <3>3. QED
      BY <1>1, <1>4, <2>2, <3>2 DEF LineCount
  <2>3. QED
    BY <2>1, <2>2
<1>8. /\ LineCount \in Nat /\ Len(Lines) = LineCount
      /\ \A m \in 1 .. LineCount : Lines[m] = SubSeq(text, EndAt(m - 1) + 1, EndAt(m) - 1)
  BY <1>3, LinesAre
<1>9. k + 1 \in 1 .. LineCount /\ (k + 1) - 1 = k
  BY <1>7, <1>8
<1>10. Lines[k + 1] = SubSeq(text, EndAt(k) + 1, EndAt(k + 1) - 1)
  BY <1>8, <1>9
<1>11. (position - 1) + 1 = position
  BY <1>1
<1>12. Line = Lines[k + 1]
  BY <1>6, <1>10, <1>11 DEF Line
<1>13. Line \in Seq(Token)
  <2>1. LineEnd - 1 \in Int /\ LineEnd - 1 <= Len(text) /\ position \in Int /\ position >= 1
    BY <1>1, <1>5
  <2>2. \A i \in position .. LineEnd - 1 : i \in 1 .. Len(text)
    BY <1>1, <2>1
  <2>3. QED
    BY <1>3, <2>1, <2>2 DEF Line
<1>14. QED
  BY <1>2, <1>4, <1>8, <1>9, <1>12, <1>13

LEMMA AllLinesRead ==
  ASSUME TypeOK, PositionInv, ~ (position <= Len(text))
  PROVE  Len(commands) = Len(Lines)
<1>1. PICK size \in Nat : size = Len(text) /\ position = size + 1 /\ position - 1 = size
  BY TextIsTokens
<1>2. text \in Seq(Token) /\ Len(Lines) = LineCount
  BY TextIsTokens, LinesAre
<1>3. CASE size \in Ends
  BY <1>1, <1>2, <1>3 DEF PositionInv, LineCount
<1>4. CASE size \notin Ends
  <2>1. Len(commands) = Cardinality(Ends) - 1
    BY <1>1, <1>4 DEF PositionInv
  <2>2. Cardinality(Ends) = EndsBefore(size + 1) + 1 /\ EndsBefore(size + 1) \in Nat
    BY <1>1, <1>2, FirstAndLastEnd, BeforeIsNat
  <2>3. QED
    BY <1>1, <1>2, <1>4, <2>1, <2>2 DEF LineCount
<1>5. QED
  BY <1>3, <1>4

LEMMA InitEstablishes ==
  ASSUME Init
  PROVE  IInv
<1>1. text \in Seq(Token) /\ Len(text) \in Nat
  BY TextsAreTokens DEF Init
<1>2. TypeOK
  <2>1. commands \in Seq(Command)
    BY DEF Init
  <2>2. position \in 1 .. Len(text) + 1
    BY <1>1 DEF Init
  <2>3. QED
    BY <2>1, <2>2 DEF Init, TypeOK
<1>3. PositionInv
  <2>1. position - 1 = 0 /\ Len(commands) = 0
    BY DEF Init
  <2>2. 0 \in Ends /\ EndsBefore(0) = 0
    BY <1>1, EndsAre, FirstAndLastEnd
  <2>3. QED
    BY <2>1, <2>2 DEF PositionInv
<1>4. DOMAIN commands = {} /\ ~threw
  BY DEF Init
<1>5. QED
  BY <1>2, <1>3, <1>4 DEF IInv

\* The lines as a function of the text and its ends.
CutAt(t, ends) ==
    LET at(k) == CHOOSE i \in ends : Cardinality({j \in ends : j < i}) = k
        all == [k \in 1 .. Cardinality(ends) - 1 |-> SubSeq(t, at(k - 1) + 1, at(k) - 1)]
    IN  IF Last(all) = <<>> THEN Front(all) ELSE all

\* A text does not change, nor do its lines.
LEMMA TextStays ==
  ASSUME text' = text
  PROVE  Ends' = Ends /\ Lines' = Lines
<1>1. Ends' = Ends
  BY DEF Ends
<1>2. Lines = CutAt(text, Ends)
  BY Zenon DEF Lines, EndsBefore, EndAt, CutAt
<1>3. Lines' = CutAt(text', Ends')
  BY Zenon DEF Lines, EndsBefore, EndAt, CutAt
<1>4. QED
  BY <1>1, <1>2, <1>3

LEMMA StepKeeps ==
  ASSUME IInv, GetNextCmd
  PROVE  IInv'
<1>1. TypeOK /\ PositionInv /\ IsNextCmd /\ text' = text
  BY DEF IInv, GetNextCmd
<1>2. position <= Len(text) /\ ~threw
  BY <1>1 DEF IsNextCmd
<1>3. /\ position - 1 \in Ends /\ Len(commands) = EndsBefore(position - 1)
      /\ Len(commands) + 1 \in 1 .. Len(Lines) /\ Line = Lines[Len(commands) + 1]
      /\ Line \in Seq(Token)
  BY <1>1, <1>2, LineIsNext
<1>4. Ends' = Ends /\ Lines' = Lines
  BY <1>1, TextStays
<1>5. CASE CommandsOf(Line, LastCommaOf(Line)) = {} /\ threw' = TRUE /\ UNCHANGED <<position, commands>>
  <2>1. TypeOK'
    BY <1>1, <1>5 DEF TypeOK
  <2>2. PositionInv'
    BY <1>1, <1>4, <1>5 DEF PositionInv, EndsBefore
  <2>3. \A k \in DOMAIN commands' : Means(Lines'[k], commands'[k])
    BY <1>4, <1>5 DEF IInv
  <2>4. position' <= Len(text') /\ Line' = Line
    BY <1>1, <1>2, <1>5 DEF Line, LineEnd
  <2>5. ~Meaningful(Line)
    BY <1>3, <1>5, ThrowsRightly
  <2>6. QED
    BY <2>1, <2>2, <2>3, <2>4, <2>5 DEF IInv
<1>6. CASE /\ \E c \in CommandsOf(Line, LastCommaOf(Line)) : commands' = Append(commands, c)
           /\ position' = StepOver(LineEnd) /\ UNCHANGED threw
  <2>1. PICK c \in CommandsOf(Line, LastCommaOf(Line)) : commands' = Append(commands, c)
    BY <1>6
  <2>2. c \in Command /\ Means(Line, c)
    BY <1>3, CommandsMean
  <2>3. commands \in Seq(Command) /\ Len(commands) \in Nat
    BY <1>1 DEF TypeOK
  <2>4. /\ commands' \in Seq(Command) /\ Len(commands') = Len(commands) + 1
        /\ commands'[Len(commands) + 1] = c
        /\ \A k \in 1 .. Len(commands) : commands'[k] = commands[k]
    BY <2>1, <2>2, <2>3
  <2>5. PICK size \in Nat : size = Len(text) /\ position \in 1 .. size
    BY <1>1, <1>2, TextIsTokens
  <2>6. LineEnd \in Ends /\ Follows(LineEnd, position - 1) /\ LineEnd \in position .. size + 1
    BY <1>1, <1>2, <1>3, <2>5, NextEnd
  <2>7. EndsBefore(LineEnd) = Len(commands')
    BY <1>1, <1>3, <2>4, <2>6, TextIsTokens, BeforeNext
  <2>8. position' \in 1 .. size + 1
    BY <1>6, <2>5, <2>6 DEF StepOver
  <2>9. TypeOK'
    BY <1>1, <1>6, <2>4, <2>5, <2>8 DEF TypeOK
  <2>10. PositionInv'
    <3>1. CASE LineEnd <= size
      <4>1. position' - 1 = LineEnd
        BY <1>6, <2>5, <2>6, <3>1 DEF StepOver
      <4>2. position' - 1 \in Ends'
            /\ Len(commands') = Cardinality({j \in Ends' : j < position' - 1})
        BY <1>4, <2>6, <2>7, <4>1 DEF EndsBefore
      <4>3. QED
        BY <4>2 DEF PositionInv, EndsBefore
    <3>2. CASE LineEnd = size + 1
      <4>1. position' = size + 1
        BY <1>6, <2>5, <3>2 DEF StepOver
      <4>2. size \notin Ends
        <5>1. position - 1 < size /\ size < LineEnd
          BY <2>5, <3>2
        <5>2. QED
          BY <2>6, <5>1 DEF Follows
      <4>3. Len(commands') = Cardinality(Ends) - 1
        <5>1. Cardinality(Ends) = EndsBefore(size + 1) + 1
          BY <1>1, <2>5, TextIsTokens, FirstAndLastEnd
        <5>2. Len(commands') \in Nat
          BY <2>4
        <5>3. QED
          BY <2>7, <3>2, <5>1, <5>2
      <4>4. QED
        BY <1>1, <1>4, <2>5, <4>1, <4>2, <4>3 DEF PositionInv
    <3>3. QED
      BY <2>5, <2>6, <3>1, <3>2
  <2>11. \A k \in DOMAIN commands' : Means(Lines'[k], commands'[k])
    <3>1. ASSUME NEW k \in 1 .. Len(commands) + 1 PROVE Means(Lines[k], commands'[k])
      <4>1. CASE k = Len(commands) + 1
        BY <1>3, <2>2, <2>4, <4>1
      <4>2. CASE k \in 1 .. Len(commands)
        BY <2>3, <2>4, <4>2 DEF IInv
      <4>3. QED
        BY <2>3, <4>1, <4>2
    <3>2. QED
      BY <1>4, <2>4, <3>1
  <2>12. ~threw'
    BY <1>2, <1>6
  <2>13. QED
    BY <2>9, <2>10, <2>11, <2>12 DEF IInv
<1>7. QED
  BY <1>5, <1>6 DEF GetNextCmd

LEMMA StutterKeeps ==
  ASSUME IInv, UNCHANGED vars
  PROVE  IInv'
<1>1. text' = text /\ position' = position /\ commands' = commands /\ threw' = threw
  BY DEF vars
<1>2. Ends' = Ends /\ Lines' = Lines
  BY <1>1, TextStays
<1>3. TypeOK'
  BY <1>1 DEF IInv, TypeOK
<1>4. PositionInv'
  BY <1>1, <1>2 DEF IInv, PositionInv, EndsBefore
<1>5. \A k \in DOMAIN commands' : Means(Lines'[k], commands'[k])
  BY <1>1, <1>2 DEF IInv
<1>6. Line' = Line
  BY <1>1 DEF Line, LineEnd
<1>7. threw' => position' <= Len(text') /\ ~Meaningful(Line')
  BY <1>1, <1>6 DEF IInv
<1>8. QED
  BY <1>3, <1>4, <1>5, <1>7 DEF IInv

LEMMA LineCountFits ==
  ASSUME text \in Seq(Token)
  PROVE  LineCount \in Nat /\ LineCount < Cardinality(Ends) /\ Cardinality(Ends) \in Nat
<1>1. PICK size \in Nat : size = Len(text)
  OBVIOUS
<1>2. PICK last \in Nat : last = EndsBefore(size + 1) /\ Cardinality(Ends) = last + 1
  BY <1>1, BeforeIsNat, FirstAndLastEnd
<1>3. CASE size \in Ends
  <2>1. size + 1 \in Ends /\ size < size + 1
    BY <1>1, EndsAre
  <2>2. EndsBefore(size) < last /\ EndsBefore(size) \in Nat
    BY <1>2, <1>3, <2>1, BeforeGrows, BeforeIsNat
  <2>3. QED
    BY <1>1, <1>2, <1>3, <2>2 DEF LineCount
<1>4. CASE size \notin Ends
  BY <1>1, <1>2, <1>4 DEF LineCount
<1>5. QED
  BY <1>3, <1>4

LEMMA PartIsTokens ==
  ASSUME NEW s \in Seq(Token), NEW a \in 0 .. Len(s) + 1, NEW b \in 0 .. Len(s) + 1
  PROVE  SubSeq(s, a + 1, b - 1) \in Seq(Token)
<1>1. a + 1 \in Int /\ b - 1 \in Int /\ a + 1 >= 1 /\ b - 1 <= Len(s)
  OBVIOUS
<1>2. \A i \in a + 1 .. b - 1 : i \in 1 .. Len(s)
  BY <1>1
<1>3. QED
  BY <1>1, <1>2

\* A line that has been read is a sequence of tokens.
LEMMA LineIsTokens ==
  ASSUME IInv, NEW k \in DOMAIN commands
  PROVE  Lines[k] \in Seq(Token)
<1>1. TypeOK /\ PositionInv /\ text \in Seq(Token) /\ k \in 1 .. Len(commands)
  BY TextIsTokens DEF IInv, TypeOK
<1>2. Len(commands) \in Nat /\ Len(commands) <= Len(Lines)
  <2>1. Len(commands) \in Nat
    BY <1>1 DEF TypeOK
  <2>2. CASE position <= Len(text)
    BY <1>1, <2>1, <2>2, LineIsNext, LinesAre
  <2>3. CASE ~ (position <= Len(text))
    BY <1>1, <2>1, <2>3, AllLinesRead
  <2>4. QED
    BY <2>1, <2>2, <2>3
<1>3. k \in Nat /\ k \in 1 .. LineCount /\ LineCount \in Nat
  BY <1>1, <1>2, LinesAre
<1>4. Lines[k] = SubSeq(text, EndAt(k - 1) + 1, EndAt(k) - 1)
  BY <1>1, <1>3, LinesAre
<1>5. k - 1 \in Nat /\ k - 1 < Cardinality(Ends) /\ k < Cardinality(Ends)
  BY <1>1, <1>3, LineCountFits
<1>6. EndAt(k - 1) \in 0 .. Len(text) + 1 /\ EndAt(k) \in 0 .. Len(text) + 1
  BY <1>1, <1>3, <1>5, EndAtExists, EndsAre
<1>7. QED
  BY <1>1, <1>4, <1>6, PartIsTokens

\* The parser is always at the beginning of a line or at the end of the text,
\* has one command for each line before, and throws only at a line that says
\* nothing (getNextCmd() and isNextCmd() in their loop).
THEOREM InvariantHolds == Spec => []IInv
<1>1. Init => IInv
  BY InitEstablishes
<1>2. IInv /\ [Next]_vars => IInv'
  BY StepKeeps, StutterKeeps DEF Next
<1>3. QED
  BY <1>1, <1>2, PTL DEF Spec

\* The variables keep their types, m_position stays within the text.
THEOREM TypeCorrect == Spec => []TypeOK
<1>1. IInv => TypeOK
  BY DEF IInv
<1>2. QED
  BY <1>1, InvariantHolds, PTL

\* The commands are the lines, each once and in order, each for what it says;
\* an exception comes exactly at the first line that says nothing.
THEOREM FollowsGrammarHolds == Spec => []FollowsGrammar
<1>1. ASSUME IInv PROVE FollowsGrammar
  <2>1. TypeOK /\ PositionInv
    BY <1>1 DEF IInv
  <2>2. Len(commands) \in Nat
    BY <2>1 DEF TypeOK
  <2>3. CASE position <= Len(text)
    <3>1. /\ Len(commands) + 1 \in 1 .. Len(Lines) /\ Line = Lines[Len(commands) + 1]
      BY <2>1, <2>3, LineIsNext
    <3>2. Len(Lines) \in Nat
      BY <2>1, TextIsTokens, LinesAre
    <3>3. Len(commands) < Len(Lines) /\ Len(commands) <= Len(Lines)
      BY <2>2, <3>1, <3>2
    <3>4. ~ (~threw /\ ~IsNextCmd)
      BY <2>3 DEF IsNextCmd
    <3>5. QED
      BY <1>1, <3>1, <3>3, <3>4 DEF IInv, FollowsGrammar
  <2>4. CASE ~ (position <= Len(text))
    <3>1. Len(commands) = Len(Lines)
      BY <2>1, <2>4, AllLinesRead
    <3>2. ~threw
      BY <1>1, <2>4 DEF IInv
    <3>3. QED
      BY <1>1, <2>2, <3>1, <3>2 DEF IInv, FollowsGrammar
  <2>5. QED
    BY <2>3, <2>4
<1>2. QED
  BY <1>1, InvariantHolds, PTL

\* A frame comes back as it was written, but for its first digit and the case
\* of its letters, and would be read as the same frame (Swt(const char*) and
\* writeSwtFrameToStrBuffer()).
THEOREM PrintedIsParsedHolds == Spec => []PrintedIsParsed
<1>1. ASSUME IInv PROVE PrintedIsParsed
  <2>1. SUFFICES ASSUME NEW k \in DOMAIN commands, commands[k].type = "write",
                        NEW written, written = Lines[k][1].digits,
                        NEW printed, printed = PrintFrame(commands[k].frame)
        PROVE  /\ Len(printed) = Len(written)
               /\ \A i \in 2 .. Len(written) : printed[i] = CharToHex(written[i])
               /\ ParseFrame(printed) = commands[k].frame
    BY DEF PrintedIsParsed
  <2>2. Means(Lines[k], commands[k])
    BY <1>1, <2>1 DEF IInv
  <2>3. WithFrame(Lines[k], commands[k].frame)
    BY <2>1, <2>2 DEF Means, Plain
  <2>4. /\ Lines[k][1].is = "frame" /\ commands[k].frame = ParseFrame(written)
        /\ \A i \in 2 .. Len(written) : IsHex(written[i])
    BY <2>1, <2>3 DEF WithFrame
  <2>5. written \in FrameDigits
    <3>1. Lines[k] \in Seq(Token)
      BY <1>1, <2>1, LineIsTokens
    <3>2. Len(Lines[k]) = 3
      BY <2>3 DEF WithFrame
    <3>3. 1 \in 1 .. Len(Lines[k])
      BY <3>2
    <3>4. Lines[k][1] \in Token
      BY <3>1, <3>3
    <3>5. QED
      BY <2>1, <2>4, <3>4, Tokens
  <2>6. QED
    BY <2>1, <2>4, <2>5, FrameComesBack
<1>2. QED
  BY <1>1, InvariantHolds, PTL

=============================================================================
