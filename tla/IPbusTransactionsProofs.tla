---------------------- MODULE IPbusTransactionsProofs ----------------------
(***************************************************************************)
(* Why the readers and the writers of a packet agree on where its          *)
(* transactions begin, for every set of transactions, size of packet and   *)
(* memory, and what a success then means.                                  *)
(***************************************************************************)
EXTENDS IPbusTransactions, SequenceTheorems, TLAPS

-----------------------------------------------------------------------------
(* Transactions, words and places.                                         *)

LEMMA TransactionFacts ==
  ASSUME NEW t \in Transaction
  PROVE  /\ t.type \in ReadType \cup WriteType \cup RmwType
         /\ t.words \in Nat \ {0} /\ t.addr \in Nat
         /\ t.type \in RmwType => t.words = 1
         /\ RequestSize(t) \in Nat /\ RequestSize(t) >= 2
         /\ ReplyData(t) \in Nat
BY TransactionsKnown, RmwIsOneWord DEF RequestSize, ReplyData, ReadType, WriteType, RmwType

LEMMA Sizes ==
  ASSUME NEW t
  PROVE  /\ t.type \in ReadType => RequestSize(t) = 2 /\ ReplyData(t) = t.words
         /\ t.type \in WriteType => RequestSize(t) = 2 + t.words /\ ReplyData(t) = 0
         /\ t.type = "RMWbits" => RequestSize(t) = 4 /\ ReplyData(t) = 1
         /\ t.type = "RMWsum" => RequestSize(t) = 3 /\ ReplyData(t) = 1
BY DEF RequestSize, ReplyData, ReadType, WriteType, RmwType

LEMMA WordKinds ==
  /\ PacketWord \in AnyWord
  /\ \A v \in Value : DataWord(v) \in AnyWord
  /\ \A a \in Nat : AddressWord(a) \in AnyWord
  /\ \A type \in ReadType \cup WriteType \cup RmwType, words \in Nat, id \in Nat,
        info \in {"Request", "Response", "ErrorRead", "ErrorWrite"} :
           Header(type, words, id, info) \in AnyWord
  /\ \A w \in AnyWord : w.is = "header" => w \in HeaderWord
BY DEF AnyWord, PacketWord, DataWord, AddressWord, Header, HeaderWord

LEMMA Joined ==
  ASSUME NEW S, NEW b \in Seq(S), NEW c \in Seq(S)
  PROVE  /\ b \o c \in Seq(S) /\ Len(b \o c) = Len(b) + Len(c)
         /\ \A k \in 1 .. Len(b) : (b \o c)[k] = b[k]
         /\ \A j \in 1 .. Len(c) : (b \o c)[Len(b) + j] = c[j]
BY ConcatProperties

\* A place stays one when another transaction is written behind the last.
LEMMA StartsExtended ==
  ASSUME NEW S, NEW b \in Seq(S), NEW c \in Seq(S), NEW n \in Nat, NEW p \in Nat, NEW i \in Nat,
         Len(b) >= 1, Len(b) < Len(c), \A k \in 1 .. Len(b) : c[k] = b[k],
         c[Len(b) + 1].is = "header", c[Len(b) + 1].id = n,
         Starts(b, p, i, n)
  PROVE  Starts(c, p, i, n + 1)
BY DEF Starts, Word

-----------------------------------------------------------------------------
(* IPbusRequest.                                                           *)

LEMMA BodyWords ==
  ASSUME TypeOK, NEW t \in Transaction
  PROVE  /\ Body(t) \in Seq(AnyWord) /\ Len(Body(t)) = RequestSize(t) - 2
         /\ \A j \in 1 .. RequestSize(t) - 2 : Body(t)[j] = DataWord(<<exchange, number, j>>)
<1> DEFINE w == RequestSize(t) - 2
<1>1. w \in Nat
  BY TransactionFacts
<1>2. Body(t) = [j \in 1 .. w |-> DataWord(<<exchange, number, j>>)]
  BY TransactionFacts, RmwIsOneWord DEF Body, RequestSize, Written, ReadType, WriteType, RmwType
<1>3. \A j \in 1 .. w : DataWord(<<exchange, number, j>>) \in AnyWord
  <2>1. exchange \in Nat /\ number \in Nat
    BY DEF TypeOK, number
  <2>2. \A j \in Nat : <<exchange, number, j>> \in Value
    BY <2>1 DEF Value
  <2>3. QED
    BY <1>1, <2>2, WordKinds
<1> HIDE DEF w
<1>4. [j \in 1 .. w |-> DataWord(<<exchange, number, j>>)] \in Seq(AnyWord)
  BY <1>1, <1>3
<1>5. QED
  BY <1>1, <1>2, <1>4 DEF w

\* addTransaction writes behind what is there and leaves that alone.
LEMMA AddedWords ==
  ASSUME TypeOK, NEW t \in Transaction, AddWords(t), asked' = Append(asked, t)
  PROVE  /\ request' \in Seq(AnyWord) /\ asked' \in Seq(Transaction)
         /\ Len(request') = Len(request) + RequestSize(t)
         /\ \A k \in 1 .. Len(request) : request'[k] = request[k]
         /\ request'[Len(request) + 1] = Header(t.type, t.words, number, "Request")
         /\ request'[Len(request) + 2] = AddressWord(t.addr)
         /\ \A j \in 1 .. RequestSize(t) - 2 :
               request'[Len(request) + 2 + j] = DataWord(<<exchange, number, j>>)
         /\ number' = number + 1 /\ asked'[number + 1] = t
         /\ \A k \in 1 .. number : asked'[k] = asked[k]
<1> DEFINE h == Header(t.type, t.words, number, "Request")
           a == AddressWord(t.addr)
           r == request \o <<h, a>>
<1>1. h \in AnyWord /\ a \in AnyWord
  <2>1. number \in Nat
    BY DEF TypeOK, number
  <2>2. QED
    BY <2>1, WordKinds, TransactionFacts
<1> HIDE DEF h, a
<1>2. <<h, a>> \in Seq(AnyWord) /\ Len(<<h, a>>) = 2 /\ <<h, a>>[1] = h /\ <<h, a>>[2] = a
  BY <1>1
<1>3. /\ r \in Seq(AnyWord) /\ Len(r) = Len(request) + 2
      /\ \A k \in 1 .. Len(request) : r[k] = request[k]
      /\ r[Len(request) + 1] = h /\ r[Len(request) + 2] = a
  BY <1>2, ConcatProperties DEF TypeOK
<1> HIDE DEF r
<1>4. request' = r \o Body(t)
  BY DEF AddWords, r, h, a
<1>5. /\ request' \in Seq(AnyWord) /\ Len(request') = Len(r) + Len(Body(t))
      /\ \A k \in 1 .. Len(r) : request'[k] = r[k]
      /\ \A j \in 1 .. Len(Body(t)) : request'[Len(r) + j] = Body(t)[j]
  <2>1. r \in Seq(AnyWord) /\ Body(t) \in Seq(AnyWord)
    BY <1>3, BodyWords
  <2>2. QED
    BY <1>4, <2>1, Joined
<1>6. /\ asked' \in Seq(Transaction) /\ Len(asked') = Len(asked) + 1
      /\ asked'[Len(asked) + 1] = t /\ \A k \in 1 .. Len(asked) : asked'[k] = asked[k]
  BY AppendProperties DEF TypeOK
<1>7. Len(request) \in Nat /\ RequestSize(t) \in Nat /\ RequestSize(t) >= 2
  BY TransactionFacts DEF TypeOK
<1>8. Len(request') = Len(request) + RequestSize(t)
  <2>1. Len(Body(t)) = RequestSize(t) - 2
    BY BodyWords
  <2>2. QED
    BY <1>3, <1>5, <1>7, <2>1
<1>9. \A k \in 1 .. Len(request) : request'[k] = request[k]
  BY <1>3, <1>5, <1>7
<1>10. request'[Len(request) + 1] = h /\ request'[Len(request) + 2] = a
  BY <1>3, <1>5, <1>7
<1>11. \A j \in 1 .. RequestSize(t) - 2 :
               request'[Len(request) + 2 + j] = DataWord(<<exchange, number, j>>)
  BY <1>3, <1>5, <1>7, BodyWords
<1>12. QED
  BY <1>5, <1>6, <1>8, <1>9, <1>10, <1>11 DEF number, h, a

LEMMA AddKeepsLaid ==
  ASSUME TypeOK, RequestLaid, NEW t \in Transaction, AddWords(t), asked' = Append(asked, t),
         exchange' = exchange
  PROVE  RequestLaid'
<1>0. /\ request' \in Seq(AnyWord) /\ asked' \in Seq(Transaction)
      /\ Len(request') = Len(request) + RequestSize(t)
      /\ \A k \in 1 .. Len(request) : request'[k] = request[k]
      /\ request'[Len(request) + 1] = Header(t.type, t.words, number, "Request")
      /\ request'[Len(request) + 2] = AddressWord(t.addr)
      /\ \A j \in 1 .. RequestSize(t) - 2 :
            request'[Len(request) + 2 + j] = DataWord(<<exchange, number, j>>)
      /\ number' = number + 1 /\ asked'[number + 1] = t
      /\ \A k \in 1 .. number : asked'[k] = asked[k]
  BY AddedWords
<1>1. Starts(request', 1, 0, number + 1)
  <2>1. Starts(request, 1, 0, number)
    BY DEF RequestLaid
  <2>2. request'[Len(request) + 1].is = "header" /\ request'[Len(request) + 1].id = number
    <3>1. request'[Len(request) + 1] = Header(t.type, t.words, number, "Request")
      BY <1>0
    <3>2. QED
      BY <3>1 DEF Header
  <2>3. number \in Nat /\ request \in Seq(AnyWord) /\ Len(request) \in Nat /\ Len(request) >= 1
    BY DEF TypeOK, number
  <2>4. request' \in Seq(AnyWord) /\ Len(request) < Len(request')
        /\ \A k \in 1 .. Len(request) : request'[k] = request[k]
    BY <2>3, <1>0, TransactionFacts
  <2>5. QED
    BY <2>1, <2>2, <2>3, <2>4, StartsExtended
<1>2. ASSUME NEW p \in 1 .. Len(request') - 1, Word(request', p).is = "header" 
      PROVE Laid(p)'
  <2> DEFINE i == Word(request', p).id
             u == asked'[i + 1]
  <2> SUFFICES /\ i < number + 1
               /\ Word(request', p) = Header(u.type, u.words, i, "Request")
               /\ Word(request', p + 1) = AddressWord(u.addr)
               /\ \A j \in 1 .. RequestSize(u) - 2 :
                     Word(request', p + 1 + j) = DataWord(<<exchange, i, j>>)
               /\ Starts(request', p + RequestSize(u), i + 1, number + 1)
    BY <1>0 DEF Laid, Starts, Word
  <2> HIDE DEF i, u
  <2>0. /\ p \in Nat /\ Len(request) \in Nat \ {0} /\ number \in Nat
        /\ RequestSize(t) \in Nat /\ RequestSize(t) >= 2
        /\ Len(request') = Len(request) + RequestSize(t)
        /\ request \in Seq(AnyWord) /\ request' \in Seq(AnyWord)
    <3>1. RequestSize(t) \in Nat /\ RequestSize(t) >= 2
      BY TransactionFacts
    <3>2. Len(request) \in Nat \ {0} /\ number \in Nat /\ request \in Seq(AnyWord)
      BY DEF TypeOK, number
    <3>3. QED
      BY <1>0, <3>1, <3>2
  <2>1. CASE p \in 1 .. Len(request) - 1
    <3>1. Word(request, p) = Word(request', p) /\ Laid(p)
      BY <1>2, <2>0, <2>1, <1>0 DEF RequestLaid, Word
    <3>2. i = Word(request, p).id /\ i < number
      BY <3>1 DEF Laid, i
    <3>3. i \in Nat
      BY <1>2, <2>0, <2>1, <3>1, WordKinds DEF i, HeaderWord, Word
    <3>4. u = asked[i + 1] /\ u \in Transaction
      <4>1. asked \in Seq(Transaction) /\ number = Len(asked)
        BY DEF TypeOK, number
      <4>2. i + 1 \in 1 .. Len(asked)
        BY <2>0, <3>2, <3>3, <4>1
      <4>3. asked[i + 1] \in Transaction
        BY <4>1, <4>2
      <4>4. \A k \in 1 .. number : asked'[k] = asked[k]
        BY <1>0
      <4>5. asked'[i + 1] = asked[i + 1]
        BY <4>1, <4>2, <4>4
      <4>6. QED
        BY <4>3, <4>5 DEF u
    <3>5. RequestSize(u) \in Nat /\ RequestSize(u) >= 2
      BY <3>4, TransactionFacts
    <3>6. /\ Word(request, p) = Header(u.type, u.words, i, "Request")
          /\ Word(request, p + 1) = AddressWord(u.addr)
          /\ \A j \in 1 .. RequestSize(u) - 2 : Word(request, p + 1 + j) = DataWord(<<exchange, i, j>>)
          /\ Starts(request, p + RequestSize(u), i + 1, number)
      BY <3>1, <3>2, <3>4 DEF Laid
    <3>7. p + RequestSize(u) <= Len(request)
      BY <2>0, <3>3, <3>5, <3>6 DEF Starts
    <3>8. \A k \in 1 .. Len(request) : request'[k] = request[k]
      BY <1>0
    <3>9. \A q \in 0 .. Len(request) - 1 : Word(request', q) = Word(request, q)
      BY <2>0, <3>8 DEF Word
    <3>10. Starts(request', p + RequestSize(u), i + 1, number + 1)
      <4>1. request'[Len(request) + 1].is = "header" /\ request'[Len(request) + 1].id = number
        BY <1>0 DEF Header
      <4>2. p + RequestSize(u) \in Nat /\ i + 1 \in Nat /\ Len(request) < Len(request')
        BY <2>0, <3>3, <3>5
      <4>3. PICK start \in Nat, next \in Nat : start = p + RequestSize(u) /\ next = i + 1
        BY <4>2
      <4>4. Starts(request, start, next, number)
        BY <3>6, <4>3
      <4>5. number \in Nat /\ request \in Seq(AnyWord) /\ request' \in Seq(AnyWord)
            /\ Len(request) >= 1 /\ Len(request) < Len(request')
        BY <2>0, <4>2
      <4>6. start \in Nat /\ next \in Nat
        BY <4>3
      <4>7. Starts(request', start, next, number + 1)
        BY <3>8, <4>1, <4>4, <4>5, <4>6, StartsExtended
      <4>8. QED
        BY <4>3, <4>7
    <3>11. p + 1 \in 0 .. Len(request) - 1
      BY <2>0, <2>1, <3>5, <3>7
    <3>12. \A j \in 1 .. RequestSize(u) - 2 : p + 1 + j \in 0 .. Len(request) - 1
      BY <2>0, <2>1, <3>5, <3>7
    <3>13. Word(request', p) = Header(u.type, u.words, i, "Request")
      BY <3>1, <3>6
    <3>14. Word(request', p + 1) = AddressWord(u.addr)
      BY <3>6, <3>9, <3>11
    <3>15. \A j \in 1 .. RequestSize(u) - 2 : Word(request', p + 1 + j) = DataWord(<<exchange, i, j>>)
      BY <3>6, <3>9, <3>12
    <3>16. i < number + 1
      BY <2>0, <3>2, <3>3
    <3>17. QED
      BY <3>10, <3>13, <3>14, <3>15, <3>16
  <2>2. CASE p = Len(request)
    <3>1. i = number /\ u = t
      <4>1. request'[Len(request) + 1] = Header(t.type, t.words, number, "Request")
            /\ asked'[number + 1] = t
        BY <1>0
      <4>2. i = number
        BY <2>2, <4>1 DEF i, Word, Header
      <4>3. QED
        BY <4>1, <4>2 DEF u
    <3>2. Starts(request', p + RequestSize(t), number + 1, number + 1)
      BY <2>0, <2>2 DEF Starts
    <3>3. QED
      BY <2>0, <2>2, <3>1, <3>2, <1>0 DEF Word
  <2>3. CASE p > Len(request)
    <3>1. Word(request', p).is # "header"
      <4>1. CASE p + 1 = Len(request) + 2
        BY <2>0, <4>1, <1>0 DEF Word, AddressWord
      <4>2. CASE p + 1 > Len(request) + 2
        <5> DEFINE j == p + 1 - (Len(request) + 2)
        <5>1. j \in 1 .. RequestSize(t) - 2 /\ p + 1 = Len(request) + 2 + j
          BY <2>0, <4>2
        <5> HIDE DEF j
        <5>2. Word(request', p) = DataWord(<<exchange, number, j>>)
          BY <2>0, <5>1, <1>0 DEF Word
        <5>3. QED
          BY <5>2 DEF DataWord
      <4>3. QED
        BY <2>0, <2>3, <4>1, <4>2
    <3>2. QED
      BY <1>2, <3>1
  <2>4. QED
    BY <2>0, <2>1, <2>2, <2>3
<1>3. QED
  BY <1>1, <1>2, <1>0 DEF RequestLaid, Starts, Word

\* Half of a packet has room for a word, and the two halves for its headers.
LEMMA Halves == Half \in Nat \ {0} /\ Half + Half <= MaxPacket - 3 /\ MaxPayload = MaxPacket - 3
BY SizesAreNumbers DEF Half, MaxPayload

\* How long request and reply are when SwtLink adds to them.
LEMMA BuiltSoFar ==
  ASSUME IInv
  PROVE  /\ Len(request) \in Nat \ {0} /\ number \in Nat
         /\ expected \in Nat \ {0} /\ expected <= MaxPacket
         /\ number = 0 => Len(request) = 1 /\ expected = 1
         /\ number = 1 /\ asked[1] \in Transaction /\ asked[1].type \in ReadType =>
               Len(request) = 3 /\ expected = 2 + asked[1].words
<1>1. Len(request) \in Nat \ {0} /\ number \in Nat
  BY DEF IInv, TypeOK, number
<1>2. PICK spent \in [0 .. number -> 1 .. MaxPacket] : Spends(spent)
  BY DEF IInv, Counted
<1>3. /\ spent[0] = 1 /\ spent[number] = expected
      /\ \A i \in 1 .. number : spent[i] = spent[i - 1] + 1 + ReplyData(asked[i])
  BY <1>2 DEF Spends
<1>4. expected \in 1 .. MaxPacket
  BY <1>1, <1>2, <1>3
<1>5. Starts(request, 1, 0, number)
  BY DEF IInv, RequestLaid
<1>6. number = 0 => Len(request) = 1 /\ expected = 1
  BY <1>1, <1>3, <1>5 DEF Starts
<1>7. ASSUME number = 1, asked[1] \in Transaction, asked[1].type \in ReadType
      PROVE  Len(request) = 3 /\ expected = 2 + asked[1].words
  <2>1. RequestSize(asked[1]) = 2 /\ ReplyData(asked[1]) = asked[1].words /\ asked[1].words \in Nat
    BY <1>7, Sizes, TransactionFacts
  <2>2. 1 \in 1 .. Len(request) - 1 /\ Word(request, 1).is = "header" /\ Word(request, 1).id = 0
    BY <1>1, <1>5, <1>7 DEF Starts
  <2>3. Laid(1)
    BY <2>2 DEF IInv, RequestLaid
  <2>4. Starts(request, 1 + RequestSize(asked[0 + 1]), 0 + 1, number)
    BY <2>2, <2>3 DEF Laid
  <2>5. Len(request) = 3
    BY <1>1, <1>7, <2>1, <2>4 DEF Starts
  <2>6. spent[1] = spent[1 - 1] + 1 + ReplyData(asked[1])
    BY <1>3, <1>7
  <2>7. QED
    BY <1>3, <1>7, <2>1, <2>5, <2>6
<1>8. QED
  BY <1>1, <1>4, <1>6, <1>7, SizesAreNumbers

\* Whatever SwtLink asks for has room, in the request and in the reply.
LEMMA OfferFits ==
  ASSUME IInv, NEW t \in Transaction, Offered(t)
  PROVE  /\ ~Exceeds(t) /\ expected + 1 + ReplyData(t) <= MaxPacket
         /\ Len(request) + RequestSize(t) <= MaxPacket
<1>1. /\ t.words \in Nat \ {0} /\ RequestSize(t) \in Nat /\ ReplyData(t) \in Nat
      /\ Len(request) \in Nat \ {0} /\ expected \in Nat \ {0}
      /\ MaxPacket \in Nat /\ MaxPacket >= 6
  BY TransactionFacts, BuiltSoFar, SizesAreNumbers
<1>2. CASE OfferedSingle(t)
  <2>1. t.words = 1 /\ RequestSize(t) <= 4 /\ ReplyData(t) <= 1
    BY <1>2, TransactionFacts, Sizes DEF OfferedSingle, Single, ReadType, WriteType, RmwType
  <2>2. Len(request) + 4 < MaxPacket
    BY <1>1, <1>2 DEF OfferedSingle, Full
  <2>3. expected <= Len(request)
    BY <1>2 DEF OfferedSingle, IInv, SinglesPadded
  <2>4. QED
    BY <1>1, <2>1, <2>2, <2>3 DEF Exceeds
<1>3. CASE OfferedFirst(t)
  <2>1. RequestSize(t) = 2 /\ ReplyData(t) = t.words /\ t.words <= Half
    BY <1>3, Sizes DEF OfferedFirst
  <2>2. Len(request) = 1 /\ expected = 1
    BY <1>3, BuiltSoFar DEF OfferedFirst
  <2>3. QED
    BY <1>1, <2>1, <2>2, Halves DEF Exceeds
<1>4. CASE OfferedSecond(t)
  <2>1. asked[1] \in Transaction
    <3>1. asked \in Seq(Transaction) /\ Len(asked) = 1
      BY <1>4 DEF IInv, TypeOK, OfferedSecond, number
    <3>2. 1 \in 1 .. Len(asked)
      BY <3>1
    <3>3. QED
      BY <3>1, <3>2, ElementOfSeq
  <2>2. number = 1 /\ asked[1].type \in ReadType /\ asked[1].words = Half
        /\ t.type \in ReadType /\ t.words <= MaxPayload - Half
    BY <1>4 DEF OfferedSecond
  <2>3. RequestSize(t) = 2 /\ ReplyData(t) = t.words
    BY <2>2, Sizes
  <2>4. Len(request) = 3 /\ expected = 2 + Half
    BY <2>1, <2>2, BuiltSoFar
  <2>5. QED
    BY <1>1, <2>2, <2>3, <2>4, Halves DEF Exceeds
<1>5. QED
  BY <1>2, <1>3, <1>4 DEF Offered

\* So addTransaction neither leaves it out nor throws.
LEMMA Taken ==
  ASSUME IInv, NEW t \in Transaction, Add(t)
  PROVE  /\ AddWords(t) /\ asked' = Append(asked, t) /\ phase' = phase /\ result' = result
         /\ expected' = expected + 1 + ReplyData(t) /\ expected' <= MaxPacket
<1>1. ~Exceeds(t) /\ expected + 1 + ReplyData(t) <= MaxPacket
  BY OfferFits DEF Add
<1>2. AddWords(t) /\ IF expected' > MaxPacket
                       THEN phase' = "done" /\ result' = "failure" /\ UNCHANGED asked
                       ELSE asked' = Append(asked, t) /\ UNCHANGED <<phase, result>>
  BY <1>1 DEF Add
<1>3. expected' = expected + 1 + ReplyData(t)
  BY <1>2 DEF AddWords
<1>4. expected' \in Nat
  BY <1>3, BuiltSoFar, TransactionFacts
<1>5. ~(expected' > MaxPacket)
  BY <1>1, <1>3, <1>4, SizesAreNumbers
<1>6. QED
  BY <1>1, <1>2, <1>3, <1>5

\* The padding stays as it is while nothing is added.
LEMMA PaddingKept ==
  ASSUME IInv, request' = request, expected' = expected, asked' = asked
  PROVE  SinglesPadded'
BY DEF IInv, SinglesPadded, OfSingles, number

-----------------------------------------------------------------------------
(* IPbusSlave.                                                             *)

\* What the slave takes for a header is the header of the next transaction, and
\* the words behind it are that transaction's.
LEMMA SlaveReads ==
  ASSUME IInv, NEW types, AtHeader(types), NEW t, t = asked[answered + 1]
  PROVE  /\ answered \in 0 .. number - 1 /\ t \in Transaction
         /\ SlaveHeader = Header(t.type, t.words, answered, "Request") /\ t.type \in types
         /\ SlaveAddress = t.addr
         /\ \A j \in 1 .. RequestSize(t) - 2 :
               Word(request, slaveIdx + 1 + j) = DataWord(<<exchange, answered, j>>)
         /\ Starts(request, slaveIdx + RequestSize(t), answered + 1, number)
<1>1. Starts(request, slaveIdx, answered, number) /\ answered \in 0 .. number
  BY DEF IInv, AtHeader, SlaveAtHeader, CarriedOut, Answering
<1>2. slaveIdx \in 1 .. Len(request) - 1 /\ Word(request, slaveIdx).id = answered
  BY <1>1 DEF AtHeader, Starts
<1>3. Laid(slaveIdx)
  BY <1>2 DEF IInv, RequestLaid, AtHeader, SlaveHeader
<1>4. /\ answered < number
      /\ SlaveHeader = Header(t.type, t.words, answered, "Request")
      /\ Word(request, slaveIdx + 1) = AddressWord(t.addr)
      /\ \A j \in 1 .. RequestSize(t) - 2 :
            Word(request, slaveIdx + 1 + j) = DataWord(<<exchange, answered, j>>)
      /\ Starts(request, slaveIdx + RequestSize(t), answered + 1, number)
  BY <1>2, <1>3 DEF Laid, SlaveHeader
<1>5. answered \in 0 .. number - 1 /\ t \in Transaction
  <2>1. asked \in Seq(Transaction) /\ number \in Nat /\ number = Len(asked)
    BY DEF IInv, TypeOK, number
  <2>2. QED
    BY <1>1, <1>4, <2>1
<1>6. SlaveAddress = t.addr /\ t.type \in types
  BY <1>4 DEF SlaveAddress, AddressWord, AtHeader, Header
<1>7. QED
  BY <1>4, <1>5, <1>6

\* The slave's step for the transaction t, however it is carried out.
Answered(t) ==
    /\ \/ /\ Reaches(t)
          /\ reply' = reply \o <<Header(t.type, t.words, answered, "Response")>> \o Meant(t, memory)
          /\ memory' = Effect(t, Written(answered, t.words), memory)
       \/ /\ ~Reaches(t)
          /\ \E info \in {"ErrorRead", "ErrorWrite"} :
                reply' = Append(reply, Header(t.type, t.words, answered, info))
          /\ memory' = memory
    /\ seen' = Append(seen, memory')
    /\ slaveIdx' = slaveIdx + RequestSize(t)
    /\ UNCHANGED <<phase, exchange, deviceVars, requestVars, response, parseVars, result>>

LEMMA ReadAnswers ==
  ASSUME IInv, SlaveRead
  PROVE  Answered(asked[answered + 1])
<1> DEFINE t == asked[answered + 1]
<1>1. AtHeader(ReadType)
  BY DEF SlaveRead
<1>2. /\ t \in Transaction /\ t.type \in ReadType /\ SlaveAddress = t.addr
      /\ SlaveHeader = Header(t.type, t.words, answered, "Request")
  BY <1>1, SlaveReads
<1>3. SlaveHeader.type = t.type /\ SlaveHeader.words = t.words
  BY <1>2 DEF Header
<1>4. RequestSize(t) = 2 /\ ReplyData(t) = t.words
  BY <1>2, Sizes
<1> HIDE DEF t
<1>5. InMemory(IF SlaveHeader.type = "Read" THEN SlaveHeader.words ELSE 1) <=> Reaches(t)
  BY <1>2, <1>3 DEF InMemory, Reaches, Increments, ReadType
<1>6. [j \in 1 .. SlaveHeader.words |->
         DataWord(memory[SlaveAddress + (IF SlaveHeader.type = "Read" THEN j ELSE 1)])]
        = Meant(t, memory)
  BY <1>2, <1>3, <1>4 DEF Meant, Register, Increments, ReadType
<1>7. Effect(t, Written(answered, t.words), memory) = memory
  BY <1>2 DEF Effect, IInv, TypeOK, Registers
<1>8. QED
  BY <1>2, <1>3, <1>4, <1>5, <1>6, <1>7
  DEF SlaveRead, Respond, RespondError, Answered, answered, t

\* The last of the words written to a register is the one that stays.
LEMMA MaxOf ==
  ASSUME NEW m \in Nat, NEW S \in SUBSET Nat, m \in S, \A k \in S : k <= m
  PROVE  Max(S) = m
<1>1. Max(S) = CHOOSE x \in S : \A y \in S : x >= y
  BY DEF Max
<1>2. m \in S /\ \A y \in S : m >= y
  OBVIOUS
<1>3. ASSUME NEW x \in S, \A y \in S : x >= y PROVE x = m
  BY <1>3
<1>4. QED
  BY <1>1, <1>2, <1>3

LEMMA WriteStores ==
  ASSUME NEW t \in Transaction, NEW values, NEW registers \in Registers, t.type \in WriteType
  PROVE  LET reach == IF t.type = "Write" THEN t.words ELSE 1
             Source(a) == IF t.type = "Write" THEN a - t.addr ELSE t.words
         IN  Effect(t, values, registers) =
               [a \in DOMAIN registers |->
                  IF a \in t.addr + 1 .. t.addr + reach THEN values[Source(a)] ELSE registers[a]]
<1> DEFINE reach == IF t.type = "Write" THEN t.words ELSE 1
           Source(a) == IF t.type = "Write" THEN a - t.addr ELSE t.words
           stores(a) == {j \in 1 .. t.words : t.type \notin ReadType /\ Register(t, j) = a}
<1>1. t.words \in Nat \ {0} /\ t.addr \in Nat /\ t.type \notin ReadType
  BY TransactionFacts DEF ReadType, WriteType
<1>2. ASSUME NEW a \in DOMAIN registers
      PROVE  IF a \in t.addr + 1 .. t.addr + reach
               THEN stores(a) # {} /\ Max(stores(a)) = Source(a) ELSE stores(a) = {}
  <2>1. a \in Nat
    BY SizesAreNumbers DEF Registers
  <2>2. CASE t.type = "Write"
    <3>1. stores(a) = {j \in 1 .. t.words : t.addr + j = a}
      BY <1>1, <2>2 DEF Register, Increments
    <3>2. CASE a \in t.addr + 1 .. t.addr + t.words
      <4>1. a - t.addr \in stores(a) /\ \A k \in stores(a) : k <= a - t.addr
        BY <1>1, <2>1, <3>1, <3>2
      <4>2. a - t.addr \in Nat /\ stores(a) \in SUBSET Nat
        BY <1>1, <2>1, <3>2
      <4>3. Max(stores(a)) = a - t.addr
        BY <4>1, <4>2, MaxOf
      <4>4. QED
        BY <2>2, <3>2, <4>1, <4>3
    <3>3. CASE a \notin t.addr + 1 .. t.addr + t.words
      BY <1>1, <2>1, <2>2, <3>1, <3>3
    <3>4. QED
      BY <3>2, <3>3
  <2>3. CASE t.type # "Write"
    <3>1. stores(a) = {j \in 1 .. t.words : t.addr + 1 = a}
      BY <1>1, <2>3 DEF Register, Increments, WriteType
    <3>2. CASE a = t.addr + 1
      <4>1. t.words \in stores(a) /\ \A k \in stores(a) : k <= t.words
        BY <1>1, <2>1, <3>1, <3>2
      <4>2. stores(a) \in SUBSET Nat
        BY <1>1
      <4>3. Max(stores(a)) = t.words
        BY <1>1, <4>1, <4>2, MaxOf
      <4>4. QED
        BY <1>1, <2>1, <2>3, <3>2, <4>1, <4>3
    <3>3. CASE a # t.addr + 1
      BY <1>1, <2>1, <2>3, <3>1, <3>3
    <3>4. QED
      BY <3>2, <3>3
  <2>4. QED
    BY <2>2, <2>3
<1>3. QED
  BY <1>2 DEF Effect

LEMMA WriteAnswers ==
  ASSUME IInv, SlaveWrite
  PROVE  Answered(asked[answered + 1])
<1> DEFINE t == asked[answered + 1]
<1>1. AtHeader(WriteType)
  BY DEF SlaveWrite
<1>2. /\ t \in Transaction /\ t.type \in WriteType /\ SlaveAddress = t.addr
      /\ SlaveHeader = Header(t.type, t.words, answered, "Request")
      /\ \A j \in 1 .. RequestSize(t) - 2 :
            Word(request, slaveIdx + 1 + j) = DataWord(<<exchange, answered, j>>)
  BY <1>1, SlaveReads
<1>3. SlaveHeader.type = t.type /\ SlaveHeader.words = t.words
  BY <1>2 DEF Header
<1>4. RequestSize(t) = 2 + t.words /\ ReplyData(t) = 0
  BY <1>2, Sizes
<1>5. t.words \in Nat \ {0} /\ t.addr \in Nat /\ slaveIdx \in Nat /\ memory \in Registers
  BY <1>2, TransactionFacts DEF IInv, TypeOK
<1> HIDE DEF t
<1> DEFINE reach == IF t.type = "Write" THEN t.words ELSE 1
           Source(a) == IF t.type = "Write" THEN a - t.addr ELSE t.words
<1>6. InMemory(reach) <=> Reaches(t)
  BY <1>2, <1>3 DEF InMemory, Reaches, Increments, WriteType
<1>7. Meant(t, memory) = <<>>
  BY <1>4 DEF Meant
<1>8. Effect(t, Written(answered, t.words), memory) =
        [a \in DOMAIN memory |-> IF a \in t.addr + 1 .. t.addr + reach
                                   THEN Word(request, slaveIdx + 1 + Source(a)).value ELSE memory[a]]
  <2>1. Effect(t, Written(answered, t.words), memory) =
          [a \in DOMAIN memory |-> IF a \in t.addr + 1 .. t.addr + reach
                                     THEN Written(answered, t.words)[Source(a)] ELSE memory[a]]
    BY <1>2, <1>5, WriteStores
  <2>2. ASSUME NEW a \in t.addr + 1 .. t.addr + reach
        PROVE  Written(answered, t.words)[Source(a)] = Word(request, slaveIdx + 1 + Source(a)).value
    <3>1. Source(a) \in 1 .. t.words
      BY <1>5
    <3>2. Word(request, slaveIdx + 1 + Source(a)) = DataWord(<<exchange, answered, Source(a)>>)
      BY <1>2, <1>4, <1>5, <3>1
    <3>3. QED
      BY <3>1, <3>2 DEF Written, DataWord
  <2>3. QED
    BY <2>1, <2>2
<1>9. /\ IF InMemory(reach)
           THEN Respond(t.words, <<>>, Effect(t, Written(answered, t.words), memory))
           ELSE RespondError(t.words, "ErrorWrite")
      /\ slaveIdx' = slaveIdx + 2 + t.words
  BY <1>2, <1>3, <1>8 DEF SlaveWrite
<1>10. slaveIdx' = slaveIdx + RequestSize(t)
  BY <1>4, <1>5, <1>9
<1>11. QED
  BY <1>3, <1>6, <1>7, <1>9, <1>10 DEF Respond, RespondError, Answered, answered, t

LEMMA RmwEffect ==
  ASSUME NEW t \in Transaction, NEW values, NEW registers \in Registers, t.type \in RmwType, Reaches(t)
  PROVE  /\ Effect(t, values, registers) = [registers EXCEPT ![t.addr + 1] = values[1]]
         /\ Meant(t, registers) = <<DataWord(registers[t.addr + 1])>>
<1>1. t.words = 1 /\ t.addr \in Nat /\ t.type \notin ReadType /\ ~Increments(t)
  BY TransactionFacts DEF ReadType, RmwType, Increments
<1>2. ReplyData(t) = 1
  BY Sizes DEF RmwType
<1>3. t.addr + 1 \in DOMAIN registers
  BY <1>1, SizesAreNumbers DEF Reaches, Registers
<1>4. ASSUME NEW a \in DOMAIN registers
      PROVE  {j \in 1 .. t.words : t.type \notin ReadType /\ Register(t, j) = a}
               = IF a = t.addr + 1 THEN {1} ELSE {}
  BY <1>1 DEF Register
<1>5. Max({1}) = 1
  BY MaxOf
<1>6. Effect(t, values, registers) = [a \in DOMAIN registers |-> IF a = t.addr + 1 THEN values[1] ELSE registers[a]]
  BY <1>4, <1>5 DEF Effect
<1>7. Meant(t, registers) = [j \in 1 .. 1 |-> DataWord(registers[t.addr + 1])]
  BY <1>1, <1>2 DEF Meant, Register
<1>8. [registers EXCEPT ![t.addr + 1] = values[1]]
        = [a \in DOMAIN registers |-> IF a = t.addr + 1 THEN values[1] ELSE registers[a]]
  BY <1>3
<1>9. QED
  BY <1>6, <1>7, <1>8

LEMMA RmwAnswered ==
  ASSUME IInv, SlaveRmw
  PROVE  Answered(asked[answered + 1])
<1> DEFINE t == asked[answered + 1]
<1>1. AtHeader(RmwType)
  BY DEF SlaveRmw, RmwAnswers
<1>2. /\ t \in Transaction /\ t.type \in RmwType /\ SlaveAddress = t.addr
      /\ SlaveHeader = Header(t.type, t.words, answered, "Request")
      /\ \A j \in 1 .. RequestSize(t) - 2 :
            Word(request, slaveIdx + 1 + j) = DataWord(<<exchange, answered, j>>)
  BY <1>1, SlaveReads
<1>3. SlaveHeader.type = t.type
  BY <1>2 DEF Header
<1>4. /\ RequestSize(t) = IF t.type = "RMWbits" THEN 4 ELSE 3
      /\ t.words = 1 /\ slaveIdx \in Nat /\ memory \in Registers
  BY <1>2, Sizes, TransactionFacts DEF RmwType, IInv, TypeOK
<1> HIDE DEF t
<1>5. InMemory(1) <=> Reaches(t)
  BY <1>2 DEF InMemory, Reaches, Increments, RmwType
<1>6. Word(request, slaveIdx + 2).value = Written(answered, t.words)[1]
  <2>1. Word(request, slaveIdx + 1 + 1) = DataWord(<<exchange, answered, 1>>) /\ slaveIdx + 1 + 1 = slaveIdx + 2
    BY <1>2, <1>4
  <2>2. QED
    BY <1>4, <2>1 DEF DataWord, Written
<1>7. Reaches(t) => /\ Modified = Effect(t, Written(answered, t.words), memory)
                    /\ <<DataWord(memory[SlaveAddress + 1])>> = Meant(t, memory)
  BY <1>2, <1>4, <1>6, RmwEffect DEF Modified
<1>8. /\ IF InMemory(1) THEN Respond(1, <<DataWord(memory[SlaveAddress + 1])>>, Modified)
                        ELSE RespondError(1, "ErrorRead")
      /\ slaveIdx' = slaveIdx + RequestSize(t)
  BY <1>3, <1>4 DEF SlaveRmw, RmwAnswers
<1>9. QED
  BY <1>3, <1>4, <1>5, <1>7, <1>8 DEF Respond, RespondError, Answered, answered, t

LEMMA EffectType ==
  ASSUME NEW t \in Transaction, NEW registers \in Registers, Reaches(t),
         NEW n \in Nat, exchange \in Nat
  PROVE  Effect(t, Written(n, t.words), registers) \in Registers
<1> DEFINE values == Written(n, t.words)
<1>1. t.words \in Nat \ {0} /\ t.addr \in Nat /\ t.type \in ReadType \cup WriteType \cup RmwType
  BY TransactionFacts
<1>2. \A j \in 1 .. t.words : values[j] \in Value
  <2>1. \A j \in Nat : <<exchange, n, j>> \in Value
    BY DEF Value
  <2>2. QED
    BY <1>1, <2>1 DEF Written
<1> HIDE DEF values
<1>3. CASE t.type \in ReadType
  BY <1>3 DEF Effect, Registers
<1>4. CASE t.type \in WriteType
  <2> DEFINE reach == IF t.type = "Write" THEN t.words ELSE 1
             Source(a) == IF t.type = "Write" THEN a - t.addr ELSE t.words
  <2>1. Effect(t, values, registers) =
          [a \in DOMAIN registers |->
             IF a \in t.addr + 1 .. t.addr + reach THEN values[Source(a)] ELSE registers[a]]
    BY <1>4, WriteStores
  <2>2. \A a \in t.addr + 1 .. t.addr + reach : values[Source(a)] \in Value
    BY <1>1, <1>2
  <2>3. QED
    BY <2>1, <2>2 DEF Registers, values
<1>5. CASE t.type \in RmwType
  <2>1. Effect(t, values, registers) = [registers EXCEPT ![t.addr + 1] = values[1]]
    BY <1>5, RmwEffect
  <2>2. values[1] \in Value
    BY <1>1, <1>2
  <2>3. [registers EXCEPT ![t.addr + 1] = values[1]] \in Registers
    BY <2>2 DEF Registers
  <2>4. QED
    BY <2>1, <2>3 DEF values
<1>6. QED
  BY <1>1, <1>3, <1>4, <1>5

LEMMA MeantWords ==
  ASSUME NEW t \in Transaction, NEW registers \in Registers, Reaches(t)
  PROVE  /\ Meant(t, registers) \in Seq(AnyWord) /\ Len(Meant(t, registers)) = ReplyData(t)
         /\ \A j \in 1 .. ReplyData(t) : Meant(t, registers)[j].is = "data"
<1>1. /\ t.words \in Nat \ {0} /\ t.addr \in Nat /\ t.type \in ReadType \cup WriteType \cup RmwType
      /\ t.type \in RmwType => t.words = 1
      /\ ReplyData(t) \in Nat
  BY TransactionFacts
<1>2. ReplyData(t) <= t.words
  BY <1>1, Sizes DEF RmwType
<1>3. ASSUME NEW j \in 1 .. ReplyData(t) PROVE Register(t, j) \in 1 .. MemorySize
  BY <1>1, <1>2, SizesAreNumbers DEF Register, Reaches
<1>4. \A j \in 1 .. ReplyData(t) : DataWord(registers[Register(t, j)]) \in AnyWord
  BY <1>3, WordKinds DEF Registers
<1>5. \A j \in 1 .. ReplyData(t) : Meant(t, registers)[j] = DataWord(registers[Register(t, j)])
  BY DEF Meant
<1>6. Meant(t, registers) = [j \in 1 .. ReplyData(t) |-> DataWord(registers[Register(t, j)])]
  BY DEF Meant
<1>7. Meant(t, registers) \in Seq(AnyWord) /\ Len(Meant(t, registers)) = ReplyData(t)
  BY <1>1, <1>4, <1>6
<1>8. QED
  BY <1>5, <1>7 DEF DataWord

\* The answer is written behind the answers that are there.
LEMMA AnsweredWords ==
  ASSUME IInv, NEW t \in Transaction, Answered(t), answered \in Nat
  PROVE  /\ reply' \in Seq(AnyWord)
         /\ Len(reply') = Len(reply) + 1 + (IF Reaches(t) THEN ReplyData(t) ELSE 0)
         /\ \A k \in 1 .. Len(reply) : reply'[k] = reply[k]
         /\ \E info \in {"Response", "ErrorRead", "ErrorWrite"} :
               /\ reply'[Len(reply) + 1] = Header(t.type, t.words, answered, info)
               /\ info = "Response" <=> Reaches(t)
         /\ Reaches(t) => \A j \in 1 .. ReplyData(t) : reply'[Len(reply) + 1 + j] = Meant(t, memory)[j]
<1>1. /\ reply \in Seq(AnyWord) /\ memory \in Registers /\ Len(reply) \in Nat
      /\ ReplyData(t) \in Nat /\ t.words \in Nat /\ t.type \in ReadType \cup WriteType \cup RmwType
  BY TransactionFacts DEF IInv, TypeOK
<1>2. CASE Reaches(t)
  <2> DEFINE h == Header(t.type, t.words, answered, "Response")
             r == reply \o <<h>>
  <2>1. h \in AnyWord
    BY <1>1, WordKinds
  <2>2. reply' = r \o Meant(t, memory)
    BY <1>2 DEF Answered
  <2> HIDE DEF h
  <2>3. <<h>> \in Seq(AnyWord) /\ Len(<<h>>) = 1 /\ <<h>>[1] = h
    BY <2>1
  <2>4. /\ r \in Seq(AnyWord) /\ Len(r) = Len(reply) + 1
        /\ \A k \in 1 .. Len(reply) : r[k] = reply[k]
        /\ r[Len(reply) + 1] = h
    BY <1>1, <2>3, Joined
  <2> HIDE DEF r
  <2>5. Meant(t, memory) \in Seq(AnyWord) /\ Len(Meant(t, memory)) = ReplyData(t)
    BY <1>1, <1>2, MeantWords
  <2>6. /\ reply' \in Seq(AnyWord) /\ Len(reply') = Len(r) + Len(Meant(t, memory))
        /\ \A k \in 1 .. Len(r) : reply'[k] = r[k]
        /\ \A j \in 1 .. Len(Meant(t, memory)) : reply'[Len(r) + j] = Meant(t, memory)[j]
    <3> DEFINE m == Meant(t, memory)
    <3>1. m \in Seq(AnyWord) /\ r \in Seq(AnyWord) /\ reply' = r \o m
      BY <2>2, <2>4, <2>5
    <3> HIDE DEF m
    <3>2. /\ reply' \in Seq(AnyWord) /\ Len(reply') = Len(r) + Len(m)
          /\ \A k \in 1 .. Len(r) : reply'[k] = r[k]
          /\ \A j \in 1 .. Len(m) : reply'[Len(r) + j] = m[j]
      BY <3>1, Joined
    <3>3. QED
      BY <3>2 DEF m
  <2>7. /\ \A k \in 1 .. Len(reply) : reply'[k] = reply[k]
        /\ reply'[Len(reply) + 1] = h
    BY <1>1, <2>4, <2>6
  <2>8. QED
    BY <1>1, <1>2, <2>4, <2>5, <2>6, <2>7 DEF h
<1>3. CASE ~Reaches(t)
  <2>1. PICK info \in {"ErrorRead", "ErrorWrite"} :
           reply' = Append(reply, Header(t.type, t.words, answered, info))
    BY <1>3 DEF Answered
  <2>2. Header(t.type, t.words, answered, info) \in AnyWord
    BY <1>1, WordKinds
  <2>3. /\ reply' \in Seq(AnyWord) /\ Len(reply') = Len(reply) + 1
        /\ \A k \in 1 .. Len(reply) : reply'[k] = reply[k]
        /\ reply'[Len(reply) + 1] = Header(t.type, t.words, answered, info)
    BY <1>1, <2>1, <2>2, AppendProperties
  <2>4. QED
    BY <1>1, <1>3, <2>3
<1>4. QED
  BY <1>2, <1>3

\* One more answer keeps all of it.
LEMMA AnsweredKeeps ==
  ASSUME IInv, phase = "slave", NEW t \in Transaction, t = asked[answered + 1],
         answered \in 0 .. number - 1, Answered(t),
         Starts(request, slaveIdx + RequestSize(t), answered + 1, number)
  PROVE  IInv'
<1> DEFINE size == IF Reaches(t) THEN ReplyData(t) ELSE 0
<1>1. /\ phase' = phase /\ exchange' = exchange /\ listening' = listening /\ hasCallback' = hasCallback
      /\ request' = request /\ expected' = expected /\ asked' = asked /\ response' = response
      /\ idx' = idx /\ idxRequest' = idxRequest /\ idxResponse' = idxResponse
      /\ delivered' = delivered /\ result' = result /\ number' = number
      /\ slaveIdx' = slaveIdx + RequestSize(t) /\ seen' = Append(seen, memory')
  BY DEF Answered, deviceVars, requestVars, parseVars, number
<1>2. /\ Len(seen) \in Nat /\ answered = Len(seen) - 1 /\ seen \in Seq(Registers) /\ memory \in Registers
      /\ reply \in Seq(AnyWord) /\ Len(reply) \in Nat \ {0} /\ number = Len(asked) /\ number \in Nat
      /\ exchange \in Nat /\ slaveIdx \in Nat /\ request \in Seq(AnyWord)
      /\ asked \in Seq(Transaction)
  BY DEF IInv, TypeOK, answered, number
<1>3. /\ RequestSize(t) \in Nat /\ ReplyData(t) \in Nat /\ size \in Nat /\ size <= ReplyData(t)
  BY TransactionFacts
<1>4. memory' \in Registers /\ memory' = IF Reaches(t) THEN Effect(t, Written(answered, t.words), memory)
                                                        ELSE memory
  BY <1>2, EffectType DEF Answered
<1>5. /\ seen' \in Seq(Registers) /\ Len(seen') = Len(seen) + 1 /\ answered' = answered + 1
      /\ \A k \in 1 .. Len(seen) : seen'[k] = seen[k]
      /\ seen'[Len(seen) + 1] = memory'
  BY <1>1, <1>2, <1>4, AppendProperties DEF answered
<1>6. memory = seen[Len(seen)]
  BY DEF IInv, CarriedOut, Answering
<1>7. /\ reply' \in Seq(AnyWord) /\ Len(reply') = Len(reply) + 1 + size
      /\ \A k \in 1 .. Len(reply) : reply'[k] = reply[k]
      /\ Reaches(t) => \A j \in 1 .. ReplyData(t) : reply'[Len(reply) + 1 + j] = Meant(t, memory)[j]
  <2>1. answered \in Nat
    BY <1>2
  <2>2. QED
    BY <2>1, AnsweredWords
<1>8. PICK info \in {"Response", "ErrorRead", "ErrorWrite"} :
         /\ reply'[Len(reply) + 1] = Header(t.type, t.words, answered, info)
         /\ info = "Response" <=> Reaches(t)
  <2>1. answered \in Nat
    BY <1>2
  <2>2. QED
    BY <2>1, AnsweredWords
<1> HIDE DEF size
<1>9. PICK spent \in [0 .. number -> 1 .. MaxPacket] : Spends(spent)
  BY DEF IInv, Counted
<1>10. Len(reply') <= spent[answered + 1]
  <2>1. Len(reply) <= spent[answered]
    BY <1>9 DEF Spends, Answering
  <2>2. spent[answered + 1] = spent[answered] + 1 + ReplyData(t)
    BY <1>2, <1>9 DEF Spends
  <2>3. spent[answered] \in Nat
    <3>1. answered \in 0 .. number
      BY <1>2
    <3>2. spent[answered] \in 1 .. MaxPacket
      BY <3>1
    <3>3. QED
      BY <3>2, SizesAreNumbers
  <2>4. QED
    BY <1>2, <1>3, <1>7, <2>1, <2>2, <2>3
<1>11. TypeOK'
  <2>1. Len(reply') \in 1 .. MaxPacket
    <3>1. spent[answered + 1] \in 1 .. MaxPacket
      BY <1>2
    <3>2. QED
      BY <1>2, <1>3, <1>7, <1>10, <3>1, SizesAreNumbers
  <2>2. reply' \in Seq(AnyWord) /\ seen' \in Seq(Registers) /\ memory' \in Registers
    BY <1>4, <1>5, <1>7
  <2>3. slaveIdx' \in Nat
    BY <1>1, <1>2, <1>3
  <2>4. QED
    BY <1>1, <2>1, <2>2, <2>3 DEF IInv, TypeOK
<1>12. Counted'
  <2>1. Spends(spent)'
    BY <1>1, <1>5, <1>9, <1>10 DEF Spends, Answering, MasterAtHeader
  <2>2. QED
    BY <1>1, <1>9, <2>1 DEF Counted
<1>13. CarriedOut'
  <2>1. answered' \in 0 .. number' /\ memory' = seen'[Len(seen')]
    BY <1>1, <1>2, <1>5
  <2>2. ASSUME NEW i \in 1 .. answered'
        PROVE seen'[i + 1] = IF Reaches(asked[i]) THEN Effect(asked[i], Written(i - 1, asked[i].words), seen'[i])
                                                   ELSE seen'[i]
    <3>1. CASE i \in 1 .. answered
      <4>1. seen[i + 1] = IF Reaches(asked[i]) THEN Effect(asked[i], Written(i - 1, asked[i].words), seen[i])
                                                ELSE seen[i]
        BY <3>1 DEF IInv, CarriedOut, Answering
      <4>2. seen'[i + 1] = seen[i + 1] /\ seen'[i] = seen[i]
        BY <1>2, <1>5, <3>1
      <4>3. QED
        BY <4>1, <4>2
    <3>2. CASE i = answered + 1
      BY <1>2, <1>4, <1>5, <1>6, <3>2
    <3>3. QED
      BY <1>2, <1>5, <3>1, <3>2
  <2>3. QED
    BY <1>1, <2>1, <2>2 DEF CarriedOut, Written
<1>14. SlaveAtHeader'
  BY <1>1, <1>5 DEF SlaveAtHeader, Starts, Word
<1>15. MasterReads' /\ RequestLaid' /\ RightUpToFailure'
  <2>1. RequestLaid'
    BY <1>1 DEF IInv, RequestLaid, Laid
  <2>2. MasterReads'
    BY <1>1 DEF IInv, MasterReads
  <2>3. RightUpToFailure'
    <3>1. idx' = 0 /\ delivered' = <<>>
      BY <1>1 DEF IInv, MasterReads
    <3>2. Len(delivered') = 0
      BY <3>1
    <3>3. QED
      BY <3>1, <3>2 DEF RightUpToFailure
  <2>4. QED
    BY <2>1, <2>2, <2>3
<1>16. ReplyLaid'
  <2>0. reply'[Len(reply) + 1].is = "header" /\ reply'[Len(reply) + 1].id = answered
    BY <1>8 DEF Header
  <2>1. ASSUME NEW p \in Nat, NEW i \in Nat, Starts(reply, p, i, answered)
        PROVE  Starts(reply', p, i, answered + 1)
    <3>1. /\ reply \in Seq(AnyWord) /\ reply' \in Seq(AnyWord) /\ Len(reply) >= 1
          /\ Len(reply) < Len(reply') /\ answered \in Nat
      BY <1>2, <1>3, <1>7
    <3>2. \A k \in 1 .. Len(reply) : reply'[k] = reply[k]
      BY <1>7
    <3>3. QED
      BY <2>0, <2>1, <3>1, <3>2, StartsExtended
  <2>2. Starts(reply', 1, 0, answered + 1)
    BY <2>1 DEF IInv, ReplyLaid, Answering
  <2>3. ASSUME NEW p \in 1 .. Len(reply') - 1, Word(reply', p).is = "header"
        PROVE  Replied(p)'
    <3> DEFINE i == Word(reply', p).id
               u == asked[i + 1]
    <3> SUFFICES /\ i < answered + 1
                 /\ Word(reply', p).type = u.type /\ Word(reply', p).words = u.words
                 /\ Word(reply', p).info = "Response" <=> Reaches(u)
                 /\ Reaches(u) =>
                       /\ \A j \in 1 .. ReplyData(u) : Word(reply', p + j) = Meant(u, seen'[i + 1])[j]
                       /\ Starts(reply', p + 1 + ReplyData(u), i + 1, answered + 1)
                 /\ ~Reaches(u) => Starts(reply', p + 1, i + 1, answered + 1)
      BY <1>1, <1>5 DEF Replied
    <3> HIDE DEF i, u
    <3>1. CASE p \in 1 .. Len(reply) - 1
      <4>1. Word(reply, p) = Word(reply', p) /\ Word(reply, p) \in AnyWord
        BY <1>2, <1>7, <3>1 DEF Word
      <4>2. Replied(p) /\ i = Word(reply, p).id /\ i \in Nat
        BY <2>3, <3>1, <4>1, WordKinds DEF IInv, ReplyLaid, Answering, i, HeaderWord
      <4>3. /\ i < answered
            /\ Word(reply, p).type = u.type /\ Word(reply, p).words = u.words
            /\ Word(reply, p).info = "Response" <=> Reaches(u)
            /\ Reaches(u) =>
                  /\ \A j \in 1 .. ReplyData(u) : Word(reply, p + j) = Meant(u, seen[i + 1])[j]
                  /\ Starts(reply, p + 1 + ReplyData(u), i + 1, answered)
            /\ ~Reaches(u) => Starts(reply, p + 1, i + 1, answered)
        BY <4>2 DEF Replied, u
      <4>4. u \in Transaction /\ seen'[i + 1] = seen[i + 1] /\ ReplyData(u) \in Nat
        <5>1. i + 1 \in 1 .. number /\ i + 1 \in 1 .. Len(seen)
          BY <1>2, <4>2, <4>3
        <5>2. asked[i + 1] \in Transaction /\ seen'[i + 1] = seen[i + 1]
          BY <1>2, <1>5, <5>1
        <5>3. u \in Transaction
          BY <5>2 DEF u
        <5>4. QED
          BY <5>2, <5>3, TransactionFacts
      <4>5. Reaches(u) => p + 1 + ReplyData(u) <= Len(reply)
        BY <1>2, <4>3, <4>4, <3>1 DEF Starts
      <4>6. Reaches(u) => \A j \in 1 .. ReplyData(u) : Word(reply', p + j) = Word(reply, p + j)
        <5>1. ASSUME NEW j \in 1 .. ReplyData(u), Reaches(u) PROVE p + j + 1 \in 1 .. Len(reply)
          BY <1>2, <3>1, <4>4, <4>5, <5>1
        <5>2. QED
          BY <1>7, <5>1 DEF Word
      <4>7. /\ Reaches(u) => Starts(reply', p + 1 + ReplyData(u), i + 1, answered + 1)
            /\ ~Reaches(u) => Starts(reply', p + 1, i + 1, answered + 1)
        <5>1. p \in Nat /\ p + 1 \in Nat /\ p + 1 + ReplyData(u) \in Nat /\ i + 1 \in Nat
          <6>1. p \in Nat
            BY <1>2, <3>1
          <6>2. QED
            BY <4>2, <4>4, <6>1
        <5>2. Reaches(u) => Starts(reply', p + 1 + ReplyData(u), i + 1, answered + 1)
          BY <2>1, <4>3, <5>1
        <5>3. ~Reaches(u) => Starts(reply', p + 1, i + 1, answered + 1)
          BY <2>1, <4>3, <5>1
        <5>4. QED
          BY <5>2, <5>3
      <4>8. QED
        BY <1>2, <4>1, <4>2, <4>3, <4>4, <4>6, <4>7
    <3>2. CASE p = Len(reply)
      <4>1. /\ i = answered /\ u = t /\ Word(reply', p).type = t.type /\ Word(reply', p).words = t.words
            /\ Word(reply', p).info = info
        BY <1>8, <3>2 DEF i, u, Word, Header
      <4>2. seen'[i + 1] = memory
        BY <1>2, <1>5, <1>6, <4>1
      <4>3. Reaches(t) => \A j \in 1 .. ReplyData(t) : Word(reply', p + j) = Meant(t, memory)[j]
        <5>1. \A j \in 1 .. ReplyData(t) : p + j + 1 = Len(reply) + 1 + j
          BY <1>2, <1>3, <3>2
        <5>2. QED
          BY <1>7, <5>1 DEF Word
      <4>4. p + 1 + size = Len(reply') /\ Starts(reply', Len(reply'), answered + 1, answered + 1)
        BY <1>2, <1>3, <1>7, <3>2 DEF Starts
      <4>5. QED
        <5>1. i < answered + 1
          BY <1>2, <4>1
        <5>2. /\ Reaches(t) => Starts(reply', p + 1 + ReplyData(t), i + 1, answered + 1)
              /\ ~Reaches(t) => Starts(reply', p + 1, i + 1, answered + 1)
          BY <1>2, <3>2, <4>1, <4>4 DEF size
        <5>3. QED
          BY <1>8, <4>1, <4>2, <4>3, <5>1, <5>2
    <3>3. CASE p > Len(reply)
      <4> DEFINE j == p - Len(reply)
      <4>1. j \in 1 .. size /\ p + 1 = Len(reply) + 1 + j
        BY <1>2, <1>3, <1>7, <3>3
      <4> HIDE DEF j
      <4>2. Reaches(t) /\ j \in 1 .. ReplyData(t)
        BY <4>1 DEF size
      <4>3. Word(reply', p) = Meant(t, memory)[j]
        BY <1>7, <4>1, <4>2 DEF Word
      <4>4. Word(reply', p).is = "data"
        BY <1>2, <4>2, <4>3, MeantWords
      <4>5. QED
        BY <2>3, <4>4
    <3>4. QED
      BY <1>2, <3>1, <3>2, <3>3
  <2>4. QED
    BY <1>5, <2>2, <2>3 DEF ReplyLaid
<1>17. SinglesPadded'
  BY <1>1, PaddingKept
<1>18. QED
  BY <1>11, <1>12, <1>13, <1>14, <1>15, <1>16, <1>17 DEF IInv

-----------------------------------------------------------------------------
(* IPbusMaster.                                                            *)

\* What processResponse takes for headers are the headers of the next transaction
\* and of its answer, so they match.
LEMMA MasterMeets ==
  ASSUME IInv, Parsing, NEW t, t = asked[idx + 1]
  PROVE  /\ t \in Transaction /\ idx + 1 \in 1 .. number
         /\ Asked = Header(t.type, t.words, idx, "Request")
         /\ idxRequest + RequestSize(t) <= Len(request) /\ Word(request, idxRequest + 1).is = "address"
         /\ Starts(request, idxRequest + RequestSize(t), idx + 1, number)
         /\ idxResponse \in 1 .. Len(reply) - 1 /\ Answer = Word(reply, idxResponse)
         /\ Answer.is = "header" /\ Answer.id = idx /\ Answer.type = t.type /\ Answer.words = t.words
         /\ Replied(idxResponse) /\ Matches
         /\ AskedSize = RequestSize(t) /\ AnswerWords = ReplyData(t)
         /\ HasOutput <=> t.type \notin WriteType
         /\ SteppedOver
<1>0. MasterAtHeader
  BY DEF IInv, Parsing, MasterReads
<1>1. /\ idx \in Nat /\ number \in Nat /\ number = Len(asked) /\ asked \in Seq(Transaction)
      /\ idx + 1 \in 1 .. number
      /\ Len(request) \in Nat /\ Len(reply) \in Nat /\ Len(reply) <= MaxPacket
  BY DEF IInv, TypeOK, Parsing, number
<1>2. t \in Transaction
  BY <1>1
<1>3. /\ RequestSize(t) \in Nat /\ RequestSize(t) >= 2 /\ t.words \in Nat
      /\ t.type \in RmwType => t.words = 1
  BY <1>2, TransactionFacts
<1>4. idxRequest \in 1 .. Len(request) - 1 /\ Asked.is = "header" /\ Asked.id = idx
  BY <1>0, <1>1 DEF Parsing, MasterAtHeader, Starts, Asked
<1>5. Laid(idxRequest)
  BY <1>4 DEF IInv, RequestLaid, Asked
<1>6. /\ Asked = Header(t.type, t.words, idx, "Request")
      /\ Word(request, idxRequest + 1) = AddressWord(t.addr)
      /\ Starts(request, idxRequest + RequestSize(t), idx + 1, number)
  BY <1>4, <1>5 DEF Laid, Asked
<1>7. idxRequest + RequestSize(t) <= Len(request)
  BY <1>1, <1>3, <1>4, <1>6 DEF Starts
<1>8. idxResponse \in 1 .. Len(reply) - 1 /\ Word(reply, idxResponse).is = "header"
      /\ Word(reply, idxResponse).id = idx
  BY <1>0, <1>1 DEF Parsing, MasterAtHeader, Starts
<1>9. Answer = Word(reply, idxResponse)
  <2>1. \A i \in 1 .. Len(reply) : response[i] = reply[i]
    BY DEF IInv, MasterReads, Parsing
  <2>2. QED
    BY <1>1, <1>8, <2>1 DEF Answer, Word
<1>10. Replied(idxResponse)
  BY <1>8 DEF IInv, ReplyLaid, Answering, Parsing
<1>11. Answer.is = "header" /\ Answer.id = idx /\ Answer.type = t.type /\ Answer.words = t.words
  BY <1>8, <1>9, <1>10 DEF Replied
<1>12. Asked.type = t.type /\ Asked.words = t.words
  BY <1>6 DEF Header
<1>13. Matches
  BY <1>3, <1>4, <1>11, <1>12 DEF Matches, BothHeaders
<1>14. AskedSize = RequestSize(t)
  BY <1>2, <1>3, <1>12, Sizes, TransactionFacts DEF AskedSize, ReadType, WriteType, RmwType
<1>15. AnswerWords = ReplyData(t)
  BY <1>2, <1>3, <1>11, Sizes, TransactionFacts DEF AnswerWords, ReadType, WriteType, RmwType
<1>16. HasOutput <=> t.type \notin WriteType
  BY DEF HasOutput
<1>17. SteppedOver
  BY <1>11, <1>16 DEF SteppedOver, WriteType, RmwType
<1>18. QED
  BY <1>1, <1>2, <1>6, <1>7, <1>8, <1>9, <1>10, <1>11, <1>13, <1>14, <1>15, <1>16, <1>17
  DEF AddressWord

\* What is copied lies within the packet buffer, the data of an error too.
LEMMA CopyWithin ==
  ASSUME IInv, Parsing, NEW t, t = asked[idx + 1]
  PROVE  idxResponse + 1 + ReplyData(t) <= MaxPacket
<1>1. PICK spent \in [0 .. number -> 1 .. MaxPacket] : Spends(spent)
  BY DEF IInv, Counted
<1>2. idxResponse <= spent[idx]
  BY <1>1 DEF Spends, Parsing
<1>3. t \in Transaction /\ idx + 1 \in 1 .. number /\ idx \in Nat /\ number \in Nat /\ idxResponse \in Nat
  BY MasterMeets DEF IInv, TypeOK, number
<1>4. spent[idx + 1] = spent[idx] + 1 + ReplyData(t)
  BY <1>1, <1>3 DEF Spends
<1>5. idx \in 0 .. number /\ idx + 1 \in 0 .. number
  BY <1>3
<1>6. spent[idx] \in 1 .. MaxPacket /\ spent[idx + 1] \in 1 .. MaxPacket
  BY <1>5
<1>7. ReplyData(t) \in Nat
  BY <1>3, TransactionFacts
<1>8. QED
  BY <1>2, <1>3, <1>4, <1>6, <1>7, SizesAreNumbers

LEMMA CopiedWords ==
  ASSUME IInv, Parsing, NEW t, t = asked[idx + 1]
  PROVE  /\ Copied \in Seq(AnyWord)
         /\ Reaches(t) => Copied = Meant(t, seen[idx + 1])
<1>1. /\ t \in Transaction /\ AnswerWords = ReplyData(t) /\ Replied(idxResponse)
      /\ idxResponse \in 1 .. Len(reply) - 1 /\ idx + 1 \in 1 .. number
      /\ Answer = Word(reply, idxResponse) /\ Answer.id = idx
      /\ HasOutput <=> t.type \notin WriteType
  BY MasterMeets
<1>2. idxResponse + 1 + ReplyData(t) <= MaxPacket /\ ReplyData(t) \in Nat /\ idxResponse \in Nat
  BY <1>1, CopyWithin, TransactionFacts
<1>3. CASE ~HasOutput
  <2>1. Copied = <<>>
    BY <1>3 DEF Copied
  <2>2. ReplyData(t) = 0
    BY <1>1, <1>3, Sizes
  <2>3. Meant(t, seen[idx + 1]) = <<>>
    BY <2>2 DEF Meant
  <2>4. QED
    BY <2>1, <2>3
<1>4. CASE HasOutput
  <2> DEFINE m == idxResponse + 2
             n == idxResponse + 1 + ReplyData(t)
  <2>1. Copied = SubSeq(response, m, n)
    BY <1>1, <1>4 DEF Copied
  <2>2. m \in Int /\ n \in Int /\ n - m + 1 = ReplyData(t)
    BY <1>2
  <2>3. \A i \in m .. n : response[i] \in AnyWord
    <3>1. response \in [1 .. MaxPacket -> AnyWord]
      BY DEF IInv, TypeOK
    <3>2. \A i \in m .. n : i \in 1 .. MaxPacket
      BY <1>2, SizesAreNumbers
    <3>3. QED
      BY <3>1, <3>2
  <2> HIDE DEF m, n
  <2>4. /\ Copied \in Seq(AnyWord) /\ Len(Copied) = IF m <= n THEN n - m + 1 ELSE 0
        /\ \A i \in 1 .. n - m + 1 : Copied[i] = response[m + i - 1]
    BY <2>1, <2>2, <2>3, SubSeqProperties
  <2>5. Len(Copied) = ReplyData(t)
    BY <1>2, <2>2, <2>4
  <2>6. ASSUME Reaches(t) PROVE Copied = Meant(t, seen[idx + 1])
    <3>1. seen[idx + 1] \in Registers
      <4>1. number = Len(seen) - 1 /\ Len(seen) \in Nat /\ seen \in Seq(Registers)
        BY DEF IInv, TypeOK, SlaveAtHeader, Parsing, answered
      <4>2. QED
        BY <1>1, <4>1
    <3>2. /\ \A j \in 1 .. ReplyData(t) : Word(reply, idxResponse + j) = Meant(t, seen[idx + 1])[j]
          /\ Starts(reply, idxResponse + 1 + ReplyData(t), idx + 1, answered)
      BY <1>1, <2>6 DEF Replied
    <3>3. idxResponse + 1 + ReplyData(t) <= Len(reply) /\ Len(reply) \in Nat
      BY <1>1, <1>2, <3>2 DEF Starts, IInv, TypeOK
    <3>4. \A i \in 1 .. Len(reply) : response[i] = reply[i]
      BY DEF IInv, MasterReads, Parsing
    <3>5. ASSUME NEW j \in 1 .. ReplyData(t) PROVE Copied[j] = Meant(t, seen[idx + 1])[j]
      <4>1. Copied[j] = response[idxResponse + j + 1]
        BY <1>2, <2>2, <2>4 DEF m
      <4>2. idxResponse + j + 1 \in 1 .. Len(reply)
        BY <1>1, <1>2, <3>3
      <4>3. QED
        BY <3>2, <3>4, <4>1, <4>2 DEF Word
    <3>6. Meant(t, seen[idx + 1]) \in Seq(AnyWord) /\ Len(Meant(t, seen[idx + 1])) = ReplyData(t)
      BY <1>1, <2>6, <3>1, MeantWords
    <3>7. QED
      BY <2>4, <2>5, <3>5, <3>6, SeqEqual
  <2>7. QED
    BY <2>4, <2>6
<1>5. QED
  BY <1>3, <1>4

\* The answer of a transaction that was carried out is delivered as it should,
\* and the master goes on at the next one.
LEMMA ParseAnswerKeeps ==
  ASSUME IInv, Parsing, Matches, ParseAnswer
  PROVE  IInv'
<1>1. Parsing /\ Matches
  OBVIOUS
<1>t. PICK t \in Transaction : t = asked[idx + 1]
  BY <1>1, MasterMeets
<1>n. PICK n \in Nat : n = idx
  BY DEF IInv, TypeOK, number
<1>2. /\ exchange' = exchange /\ listening' = listening /\ hasCallback' = hasCallback
      /\ request' = request /\ expected' = expected /\ asked' = asked /\ response' = response
      /\ memory' = memory /\ reply' = reply /\ seen' = seen /\ slaveIdx' = slaveIdx
      /\ number' = number /\ answered' = answered
      /\ delivered' = Append(delivered, Copied)
      /\ idxResponse' = idxResponse + 1 + (IF SteppedOver THEN AnswerWords ELSE 0)
      /\ idxRequest' = idxRequest + (IF SteppedOver THEN AskedSize ELSE 1)
  BY DEF ParseAnswer, ParseOne, deviceVars, requestVars, slaveVars, number, answered
<1>3. /\ t \in Transaction /\ idx + 1 \in 1 .. number
      /\ idxRequest + RequestSize(t) <= Len(request) /\ Word(request, idxRequest + 1).is = "address"
      /\ Starts(request, idxRequest + RequestSize(t), idx + 1, number)
      /\ idxResponse \in 1 .. Len(reply) - 1 /\ Answer = Word(reply, idxResponse)
      /\ Answer.is = "header" /\ Answer.id = idx /\ Answer.type = t.type
      /\ Replied(idxResponse)
      /\ AskedSize = RequestSize(t) /\ AnswerWords = ReplyData(t) /\ SteppedOver
  BY <1>1, <1>t, MasterMeets
<1>4. /\ Copied \in Seq(AnyWord)
      /\ Reaches(t) => Copied = Meant(t, seen[idx + 1])
  BY <1>1, <1>t, CopiedWords
<1>5. /\ idx \in Nat /\ number \in Nat /\ phase = "parse" /\ Len(delivered) = idx
      /\ delivered \in Seq(Seq(AnyWord)) /\ number = answered /\ idxRequest \in Nat /\ idxResponse \in Nat
      /\ asked \in Seq(Transaction) /\ number = Len(asked) /\ Len(request) \in Nat
  BY <1>1 DEF Parsing, IInv, TypeOK, MasterReads, SlaveAtHeader, number
<1>6. /\ RequestSize(t) \in Nat /\ RequestSize(t) >= 2 /\ ReplyData(t) \in Nat
      /\ t.type \in RmwType => RequestSize(t) >= 3
  BY <1>3, TransactionFacts, Sizes DEF RmwType
<1>7. /\ delivered' \in Seq(Seq(AnyWord)) /\ Len(delivered') = idx + 1
      /\ \A i \in 1 .. idx : delivered'[i] = delivered[i]
      /\ delivered'[idx + 1] = Copied
  BY <1>2, <1>4, <1>5, AppendProperties
<1>8. \/ Answer.info = "Response" /\ idx' = idx + 1 /\ phase' = phase /\ result' = result
      \/ Answer.info # "Response" /\ phase' = "done" /\ result' = "failure" /\ idx' = idx
  BY DEF ParseAnswer, Return
<1>9. Answer.info = "Response" <=> Reaches(t)
  BY <1>3, <1>t DEF Replied
<1>10. TypeOK'
  <2>1. idxRequest' \in Nat /\ idxResponse' \in Nat
    <3>1. idxRequest' = idxRequest + RequestSize(t) /\ idxResponse' = idxResponse + 1 + ReplyData(t)
      BY <1>2, <1>3
    <3>2. idxRequest \in Nat /\ idxResponse \in Nat
      BY <1>5
    <3>3. QED
      BY <1>6, <3>1, <3>2
  <2>2. idx' \in 0 .. number'
    BY <1>2, <1>3, <1>5, <1>8
  <2>3. QED
    BY <1>2, <1>7, <1>8, <2>1, <2>2 DEF IInv, TypeOK
<1>11. RequestLaid'
  BY <1>2 DEF IInv, RequestLaid, Laid
<1>12. ReplyLaid' /\ CarriedOut' /\ SlaveAtHeader'
  <2>1. ReplyLaid /\ CarriedOut /\ SlaveAtHeader /\ Answering
    BY <1>5 DEF IInv, Answering
  <2>2. QED
    BY <1>2, <1>5, <1>8, <2>1 DEF ReplyLaid, Replied, CarriedOut, Written, SlaveAtHeader, Answering
<1>13. MasterReads'
  <2>1. CASE phase' = "done"
    BY <1>2, <1>5, <1>7, <1>8, <2>1 DEF MasterReads
  <2>2. CASE phase' # "done"
    <3>1. Reaches(t) /\ phase' = "parse" /\ idx' = idx + 1 /\ result' = result
      BY <1>5, <1>8, <1>9, <2>2
    <3>2. Starts(reply, idxResponse + 1 + ReplyData(t), idx + 1, number)
      BY <1>3, <1>5, <3>1, <1>t DEF Replied
    <3>3. MasterAtHeader'
      BY <1>2, <1>3, <3>1, <3>2 DEF MasterAtHeader
    <3>4. QED
      BY <1>2, <1>5, <1>7, <3>1, <3>3 DEF IInv, MasterReads
  <2>3. QED
    BY <2>1, <2>2
<1>14. Counted'
  <2>1. PICK spent \in [0 .. number -> 1 .. MaxPacket] : Spends(spent)
    BY DEF IInv, Counted
  <2>2. idxResponse <= spent[idx] /\ spent[idx + 1] = spent[idx] + 1 + ReplyData(t)
    BY <1>1, <1>3, <1>5, <2>1, <1>t DEF Spends
  <2>3. spent[idx] \in 1 .. MaxPacket
    BY <1>3, <1>5
  <2>4. idxResponse' <= spent[idx + 1]
    <3>1. idxResponse' <= idxResponse + 1 + ReplyData(t)
      BY <1>2, <1>3, <1>5, <1>6
    <3>2. idxResponse' \in Nat /\ spent[idx] \in Nat
      <4>1. spent[idx] \in Nat
        BY <2>3, SizesAreNumbers
      <4>2. QED
        BY <1>2, <1>3, <1>5, <1>6, <4>1
    <3>3. QED
      BY <1>5, <1>6, <2>2, <3>1, <3>2
  <2>5. Spends(spent)'
    BY <1>2, <1>5, <1>8, <2>1, <2>4 DEF Spends, Answering
  <2>6. QED
    BY <1>2, <2>5 DEF Counted
<1>15. RightUpToFailure'
  <2>1. ASSUME NEW i \in 1 .. idx PROVE DoneRight(i)'
    <3>1. DoneRight(i)
      BY <2>1 DEF IInv, RightUpToFailure
    <3>2. delivered'[i] = delivered[i]
      BY <1>7
    <3>3. QED
      BY <1>2, <3>1, <3>2 DEF DoneRight, Written
  <2>2. ASSUME Reaches(t) PROVE DoneRight(n + 1)'
    <3>1. /\ n + 1 \in 1 .. answered
          /\ \A i \in 1 .. answered :
                seen[i + 1] = IF Reaches(asked[i])
                                THEN Effect(asked[i], Written(i - 1, asked[i].words), seen[i])
                                ELSE seen[i]
      BY <1>3, <1>5, <1>n DEF IInv, CarriedOut, Answering
    <3>2. seen[n + 1 + 1] = Effect(t, Written(n + 1 - 1, t.words), seen[n + 1])
      BY <2>2, <3>1, <1>t, <1>n
    <3>3. Written(n + 1 - 1, t.words)' = Written(n + 1 - 1, t.words)
      BY <1>2 DEF Written
    <3>4. delivered'[n + 1] = Meant(t, seen[n + 1])
      BY <1>4, <1>7, <1>n, <2>2
    <3>5. QED
      BY <1>2, <1>t, <1>n, <2>2, <3>2, <3>3, <3>4 DEF DoneRight
  <2>3. ASSUME NEW i \in 1 .. idx' PROVE DoneRight(i)'
    BY <1>5, <1>8, <1>9, <1>n, <2>1, <2>2
  <2>4. CASE idx' = idx + 1
    <3>1. ~(Len(delivered') > idx')
      BY <1>5, <1>7, <2>4
    <3>2. QED
      BY <2>3, <3>1 DEF RightUpToFailure
  <2>5. CASE idx' = idx /\ ~Reaches(t)
    <3>1. Len(delivered') = idx' + 1 /\ idx' < number' /\ asked'[idx' + 1] = t
      BY <1>2, <1>3, <1>5, <1>7, <1>t, <2>5
    <3>2. ~Reaches(asked[idx + 1])'
      BY <1>2, <1>t, <2>5
    <3>3. QED
      BY <2>3, <3>1, <3>2 DEF RightUpToFailure
  <2>6. QED
    BY <1>8, <1>9, <2>4, <2>5
<1>16. SinglesPadded'
  BY <1>2, PaddingKept
<1>17. QED
  BY <1>10, <1>11, <1>12, <1>13, <1>14, <1>15, <1>16 DEF IInv

-----------------------------------------------------------------------------
(* The other steps.                                                        *)

\* While a request is built or on its way nothing has been parsed.
LEMMA NothingParsed ==
  ASSUME IInv, phase \in {"build", "sent", "slave", "replied"}
  PROVE  idx = 0 /\ idxRequest = 1 /\ idxResponse = 1 /\ delivered = <<>> /\ result = "none"
BY DEF IInv, MasterReads

LEMMA InitHolds == Init => IInv
<1> SUFFICES ASSUME Init PROVE IInv
  OBVIOUS
<1>1. /\ phase = "build" /\ exchange = 1 /\ result = "none"
      /\ listening \in BOOLEAN /\ hasCallback \in BOOLEAN
      /\ request = <<PacketWord>> /\ expected = 1 /\ asked = <<>>
      /\ slaveIdx = 1 /\ reply = <<PacketWord>> /\ seen = <<>>
      /\ idx = 0 /\ idxRequest = 1 /\ idxResponse = 1 /\ delivered = <<>> /\ number = 0
  BY DEF Init, number
<1>2. <<PacketWord>> \in Seq(AnyWord) /\ Len(<<PacketWord>>) = 1
  BY WordKinds
<1>3. memory \in Registers
  <2>1. \A a \in 1 .. MemorySize : <<0, 0, a>> \in Value
    BY SizesAreNumbers DEF Value
  <2>2. QED
    BY <2>1 DEF Init, Registers
<1>4. response \in [1 .. MaxPacket -> AnyWord]
  <2>1. DataWord(<<0, 0, 0>>) \in AnyWord
    BY WordKinds DEF Value
  <2>2. QED
    BY <2>1 DEF Init
<1>5. TypeOK
  BY <1>1, <1>2, <1>3, <1>4, SizesAreNumbers DEF TypeOK
<1>6. RequestLaid
  BY <1>1, <1>2 DEF RequestLaid, Starts
<1>7. ReplyLaid /\ CarriedOut /\ SlaveAtHeader /\ MasterReads
  BY <1>1 DEF ReplyLaid, CarriedOut, SlaveAtHeader, MasterReads, Answering
<1>8. Counted
  <2> DEFINE spent == [i \in 0 .. 0 |-> 1]
  <2>1. spent \in [0 .. number -> 1 .. MaxPacket] /\ spent[0] = 1
    BY <1>1, SizesAreNumbers
  <2> HIDE DEF spent
  <2>2. Spends(spent)
    BY <1>1, <2>1 DEF Spends, Answering
  <2>3. QED
    BY <2>1, <2>2 DEF Counted
<1>9. RightUpToFailure
  BY <1>1 DEF RightUpToFailure
<1>10. SinglesPadded
  BY <1>1, <1>2 DEF SinglesPadded
<1>11. QED
  BY <1>5, <1>6, <1>7, <1>8, <1>9, <1>10 DEF IInv

LEMMA AddKeeps ==
  ASSUME IInv, NEW t \in Transaction, Add(t)
  PROVE  IInv'
<1>0. AddWords(t) /\ asked' = Append(asked, t) /\ expected' <= MaxPacket
  BY Taken
<1>1. /\ phase = "build"
      /\ phase' = phase /\ exchange' = exchange /\ listening' = listening /\ hasCallback' = hasCallback
      /\ expected' = expected + 1 + ReplyData(t) /\ response' = response
      /\ memory' = memory /\ reply' = reply /\ seen' = seen /\ slaveIdx' = slaveIdx
      /\ idx' = idx /\ idxRequest' = idxRequest /\ idxResponse' = idxResponse
      /\ delivered' = delivered /\ result' = result
  BY Taken DEF Add, deviceVars, slaveVars, parseVars
<1>2. /\ request' \in Seq(AnyWord) /\ asked' \in Seq(Transaction)
      /\ Len(request') = Len(request) + RequestSize(t)
      /\ number' = number + 1 /\ asked'[number + 1] = t
      /\ \A k \in 1 .. number : asked'[k] = asked[k]
  BY <1>0, AddedWords DEF IInv
<1>3. idx = 0 /\ idxRequest = 1 /\ idxResponse = 1 /\ delivered = <<>> /\ result = "none"
  BY <1>1, NothingParsed
<1>4. /\ number \in Nat /\ number = Len(asked) /\ Len(request) \in Nat \ {0}
  BY DEF IInv, TypeOK, number
<1>5. RequestSize(t) \in Nat /\ ReplyData(t) \in Nat
  BY TransactionFacts
<1>6. TypeOK'
  <2>1. Len(request') \in 1 .. MaxPacket
    <3>1. Len(request) + RequestSize(t) <= MaxPacket
      BY OfferFits DEF Add
    <3>2. QED
      BY <1>2, <1>4, <1>5, <3>1, SizesAreNumbers
  <2>2. idx' \in 0 .. number'
    BY <1>1, <1>2, <1>3, <1>4
  <2>3. QED
    BY <1>1, <1>2, <2>1, <2>2 DEF IInv, TypeOK
<1>7. RequestLaid'
  BY <1>0, <1>1, AddKeepsLaid DEF IInv
<1>8. ReplyLaid' /\ CarriedOut' /\ SlaveAtHeader' /\ MasterReads'
  BY <1>1, <1>3 DEF ReplyLaid, CarriedOut, SlaveAtHeader, MasterReads, Answering
<1>9. Counted'
  <2>1. PICK spent \in [0 .. number -> 1 .. MaxPacket] : Spends(spent)
    BY DEF IInv, Counted
  <2>2. /\ spent[0] = 1 /\ spent[number] = expected
        /\ \A i \in 1 .. number : spent[i] = spent[i - 1] + 1 + ReplyData(asked[i])
    BY <2>1 DEF Spends
  <2> DEFINE more == [i \in 0 .. number + 1 |-> IF i = number + 1 THEN expected' ELSE spent[i]]
  <2>3. expected' \in 1 .. MaxPacket
    <3>1. expected \in Nat \ {0}
      BY BuiltSoFar
    <3>2. QED
      BY <1>0, <1>1, <1>5, <3>1, SizesAreNumbers
  <2>4. more \in [0 .. number' -> 1 .. MaxPacket]
    BY <1>2, <1>4, <2>1, <2>3
  <2>5. more[0] = 1 /\ more[number + 1] = expected' /\ \A i \in 0 .. number : more[i] = spent[i]
    BY <1>4, <2>2
  <2> HIDE DEF more
  <2>6. ASSUME NEW i \in 1 .. number + 1
        PROVE  more[i] = more[i - 1] + 1 + ReplyData(asked'[i])
    <3>1. CASE i = number + 1
      <4>1. more[i - 1] = expected
        BY <1>4, <2>2, <2>5, <3>1
      <4>2. QED
        BY <1>1, <1>2, <2>5, <3>1, <4>1
    <3>2. CASE i \in 1 .. number
      <4>1. i \in 0 .. number /\ i - 1 \in 0 .. number
        BY <1>4, <3>2
      <4>2. QED
        BY <1>2, <2>2, <2>5, <3>2, <4>1
    <3>3. QED
      BY <1>4, <3>1, <3>2
  <2>7. QED
    <3>1. ~Answering' /\ phase' # "parse"
      BY <1>1 DEF Answering
    <3>2. /\ more[0] = 1 /\ more[number'] = expected'
          /\ \A i \in 1 .. number' : more[i] = more[i - 1] + 1 + ReplyData(asked'[i])
      BY <1>2, <2>5, <2>6
    <3>3. \E m \in [0 .. number' -> 1 .. MaxPacket] :
             /\ m[0] = 1 /\ m[number'] = expected'
             /\ \A i \in 1 .. number' : m[i] = m[i - 1] + 1 + ReplyData(asked'[i])
      BY <2>4, <3>2
    <3>4. QED
      BY <3>1, <3>3 DEF Counted, Spends
<1>10. RightUpToFailure'
  BY <1>1, <1>3 DEF RightUpToFailure
<1>11. SinglesPadded'
  <2>1. SUFFICES ASSUME OfSingles' PROVE expected' <= Len(request')
    BY DEF SinglesPadded
  <2>2. \A i \in 1 .. number + 1 : asked'[i] \in Single
    BY <1>2, <2>1 DEF OfSingles
  <2>3. t \in Single /\ \A i \in 1 .. number : asked[i] \in Single
    BY <1>2, <1>4, <2>2
  <2>4. expected <= Len(request)
    BY <2>3 DEF IInv, SinglesPadded, OfSingles
  <2>5. 1 + ReplyData(t) <= RequestSize(t)
    BY <2>3, Sizes, TransactionFacts DEF Single, ReadType, WriteType, RmwType
  <2>6. expected \in Nat
    BY BuiltSoFar
  <2>7. QED
    BY <1>1, <1>2, <1>4, <1>5, <2>4, <2>5, <2>6
<1>12. QED
  BY <1>6, <1>7, <1>8, <1>9, <1>10, <1>11 DEF IInv

LEMMA TransceiveKeeps ==
  ASSUME IInv, Transceive
  PROVE  IInv'
<1>1. /\ phase = "build" /\ phase' = "sent" /\ response' = [response EXCEPT ![1] = PacketWord]
      /\ exchange' = exchange /\ listening' = listening /\ hasCallback' = hasCallback
      /\ request' = request /\ expected' = expected /\ asked' = asked
      /\ memory' = memory /\ reply' = reply /\ seen' = seen /\ slaveIdx' = slaveIdx
      /\ idx' = idx /\ idxRequest' = idxRequest /\ idxResponse' = idxResponse
      /\ delivered' = delivered /\ result' = result /\ number' = number
  BY DEF Transceive, deviceVars, requestVars, slaveVars, parseVars, number
<1>2. idx = 0 /\ idxRequest = 1 /\ idxResponse = 1 /\ delivered = <<>> /\ result = "none"
  BY <1>1, NothingParsed
<1>3. response' \in [1 .. MaxPacket -> AnyWord]
  BY <1>1, WordKinds DEF IInv, TypeOK
<1>4. TypeOK'
  BY <1>1, <1>3 DEF IInv, TypeOK
<1>5. RequestLaid'
  BY <1>1 DEF IInv, RequestLaid, Laid
<1>6. ReplyLaid' /\ CarriedOut' /\ SlaveAtHeader' /\ MasterReads'
  BY <1>1, <1>2 DEF ReplyLaid, CarriedOut, SlaveAtHeader, MasterReads, Answering
<1>7. Counted'
  <2>1. PICK spent \in [0 .. number -> 1 .. MaxPacket] : Spends(spent)
    BY DEF IInv, Counted
  <2>2. Spends(spent)'
    BY <1>1, <2>1 DEF Spends, Answering
  <2>3. QED
    BY <1>1, <2>2 DEF Counted
<1>8. RightUpToFailure'
  BY <1>1, <1>2 DEF RightUpToFailure
<1>9. SinglesPadded'
  BY <1>1, PaddingKept
<1>10. QED
  BY <1>4, <1>5, <1>6, <1>7, <1>8, <1>9 DEF IInv

LEMMA SlaveReceiveKeeps ==
  ASSUME IInv, SlaveReceive
  PROVE  IInv'
<1>1. /\ phase = "sent" /\ phase' = "slave" /\ listening' = FALSE
      /\ exchange' = exchange /\ hasCallback' = hasCallback
      /\ request' = request /\ expected' = expected /\ asked' = asked
      /\ response' = response /\ memory' = memory
      /\ slaveIdx' = 1 /\ reply' = <<PacketWord>> /\ seen' = <<memory>>
      /\ idx' = idx /\ idxRequest' = idxRequest /\ idxResponse' = idxResponse
      /\ delivered' = delivered /\ result' = result /\ number' = number
  BY DEF SlaveReceive, requestVars, parseVars, number
<1>2. idx = 0 /\ idxRequest = 1 /\ idxResponse = 1 /\ delivered = <<>> /\ result = "none"
  BY <1>1, NothingParsed
<1>3. /\ reply' \in Seq(AnyWord) /\ Len(reply') = 1 /\ 1 \in 1 .. MaxPacket
      /\ seen' \in Seq(Registers) /\ Len(seen') = 1 /\ seen'[1] = memory /\ answered' = 0
      /\ number \in Nat
  BY <1>1, WordKinds, SizesAreNumbers DEF IInv, TypeOK, answered, number
<1>4. TypeOK'
  BY <1>1, <1>3 DEF IInv, TypeOK
<1>5. RequestLaid'
  BY <1>1 DEF IInv, RequestLaid, Laid
<1>6. ReplyLaid' /\ CarriedOut'
  BY <1>1, <1>3 DEF ReplyLaid, Starts, CarriedOut
<1>7. SlaveAtHeader'
  <2>1. Starts(request, 1, 0, number)
    BY DEF IInv, RequestLaid
  <2>2. QED
    BY <1>1, <1>3, <2>1 DEF SlaveAtHeader
<1>8. MasterReads'
  BY <1>1, <1>2 DEF MasterReads
<1>9. Counted'
  <2>1. PICK spent \in [0 .. number -> 1 .. MaxPacket] : Spends(spent)
    BY DEF IInv, Counted
  <2>2. Spends(spent)'
    BY <1>1, <1>3, <2>1 DEF Spends
  <2>3. QED
    BY <1>1, <2>2 DEF Counted
<1>10. RightUpToFailure'
  BY <1>1, <1>2 DEF RightUpToFailure
<1>11. SinglesPadded'
  BY <1>1, PaddingKept
<1>12. QED
  BY <1>4, <1>5, <1>6, <1>7, <1>8, <1>9, <1>10, <1>11 DEF IInv

LEMMA SlaveAnswersKeeps ==
  ASSUME IInv, SlaveRead \/ SlaveWrite \/ SlaveRmw
  PROVE  IInv'
<1>1. PICK types : AtHeader(types)
  BY DEF SlaveRead, SlaveWrite, SlaveRmw, RmwAnswers
<1>2. phase = "slave"
  BY <1>1 DEF AtHeader
<1>3. PICK t : t = asked[answered + 1]
  OBVIOUS
<1>4. /\ answered \in 0 .. number - 1 /\ t \in Transaction
      /\ Starts(request, slaveIdx + RequestSize(t), answered + 1, number)
  BY <1>1, <1>3, SlaveReads
<1>5. Answered(t)
  <2>1. Answered(asked[answered + 1])
    BY ReadAnswers, WriteAnswers, RmwAnswered
  <2>2. QED
    BY <1>3, <2>1
<1>6. QED
  BY <1>2, <1>3, <1>4, <1>5, AnsweredKeeps

LEMMA SlaveSendKeeps ==
  ASSUME IInv, SlaveSend
  PROVE  IInv'
<1>1. /\ phase = "slave" /\ phase' = "replied" /\ listening' = hasCallback
      /\ exchange' = exchange /\ hasCallback' = hasCallback
      /\ request' = request /\ expected' = expected /\ asked' = asked
      /\ response' = response /\ memory' = memory
      /\ slaveIdx' = slaveIdx /\ reply' = reply /\ seen' = seen
      /\ idx' = idx /\ idxRequest' = idxRequest /\ idxResponse' = idxResponse
      /\ delivered' = delivered /\ result' = result /\ number' = number /\ answered' = answered
  BY DEF SlaveSend, requestVars, slaveVars, parseVars, number, answered
<1>2. idx = 0 /\ idxRequest = 1 /\ idxResponse = 1 /\ delivered = <<>> /\ result = "none"
  BY <1>1, NothingParsed
<1>3. answered = number
  <2>1. Starts(request, slaveIdx, answered, number)
    BY <1>1 DEF IInv, SlaveAtHeader
  <2>2. slaveIdx >= Len(request) /\ slaveIdx \in Nat /\ Len(request) \in Nat
    BY DEF SlaveSend, IInv, TypeOK
  <2>3. QED
    BY <2>1, <2>2 DEF Starts
<1>4. TypeOK'
  BY <1>1 DEF IInv, TypeOK
<1>5. RequestLaid'
  BY <1>1 DEF IInv, RequestLaid, Laid
<1>6. ReplyLaid' /\ CarriedOut'
  BY <1>1 DEF IInv, ReplyLaid, Replied, CarriedOut, Written, Answering
<1>7. SlaveAtHeader' /\ MasterReads'
  BY <1>1, <1>2, <1>3 DEF SlaveAtHeader, MasterReads
<1>8. Counted'
  <2>1. PICK spent \in [0 .. number -> 1 .. MaxPacket] : Spends(spent)
    BY DEF IInv, Counted
  <2>2. Spends(spent)'
    BY <1>1, <2>1 DEF Spends, Answering
  <2>3. QED
    BY <1>1, <2>2 DEF Counted
<1>9. RightUpToFailure'
  BY <1>1, <1>2 DEF RightUpToFailure
<1>10. SinglesPadded'
  BY <1>1, PaddingKept
<1>11. QED
  BY <1>4, <1>5, <1>6, <1>7, <1>8, <1>9, <1>10 DEF IInv

\* However an exchange ends, what was delivered stays delivered.
LEMMA ReturnKeeps ==
  ASSUME IInv, phase' = "done", result' \in {"success", "failure"},
         result' = "success" => idx = number /\ Len(delivered) = number,
         response' \in [1 .. MaxPacket -> AnyWord],
         UNCHANGED <<exchange, deviceVars, requestVars, slaveVars, parseVars>>
  PROVE  IInv'
<1>1. /\ exchange' = exchange /\ listening' = listening /\ hasCallback' = hasCallback
      /\ request' = request /\ expected' = expected /\ asked' = asked /\ memory' = memory
      /\ slaveIdx' = slaveIdx /\ reply' = reply /\ seen' = seen
      /\ idx' = idx /\ idxRequest' = idxRequest /\ idxResponse' = idxResponse
      /\ delivered' = delivered /\ number' = number /\ answered' = answered
  BY DEF deviceVars, requestVars, slaveVars, parseVars, number, answered
<1>2. TypeOK'
  BY <1>1 DEF IInv, TypeOK
<1>3. RequestLaid'
  BY <1>1 DEF IInv, RequestLaid, Laid
<1>4. ReplyLaid' /\ CarriedOut' /\ SlaveAtHeader'
  BY DEF ReplyLaid, CarriedOut, SlaveAtHeader, Answering
<1>5. MasterReads'
  BY <1>1 DEF IInv, MasterReads
<1>6. Counted'
  <2>1. PICK spent \in [0 .. number -> 1 .. MaxPacket] : Spends(spent)
    BY DEF IInv, Counted
  <2>2. Spends(spent)'
    BY <1>1, <2>1 DEF Spends, Answering
  <2>3. QED
    BY <1>1, <2>2 DEF Counted
<1>7. RightUpToFailure'
  BY <1>1 DEF IInv, RightUpToFailure, DoneRight, Written
<1>8. SinglesPadded'
  BY <1>1, PaddingKept
<1>9. QED
  BY <1>2, <1>3, <1>4, <1>5, <1>6, <1>7, <1>8 DEF IInv

LEMMA EndsKeep ==
  ASSUME IInv, Timeout \/ ParseMismatch \/ ParseEnd
  PROVE  IInv'
<1>1. /\ phase' = "done" /\ result' \in {"success", "failure"} /\ response' = response
      /\ UNCHANGED <<exchange, deviceVars, requestVars, slaveVars, parseVars>>
  BY DEF Timeout, ParseMismatch, ParseEnd, Return
<1>2. result' = "success" => idx = number /\ Len(delivered) = number
  BY DEF Timeout, ParseMismatch, ParseEnd, Return, IInv, MasterReads
<1>3. response \in [1 .. MaxPacket -> AnyWord]
  BY DEF IInv, TypeOK
<1>4. QED
  BY <1>1, <1>2, <1>3, ReturnKeeps

LEMMA ReceiveKeeps ==
  ASSUME IInv, Receive
  PROVE  IInv'
<1>1. /\ phase = "replied"
      /\ response' = [i \in 1 .. MaxPacket |-> IF i <= Len(reply) THEN reply[i] ELSE response[i]]
      /\ \/ phase' = "done" /\ result' = "failure"
         \/ phase' = "parse" /\ result' = result
      /\ exchange' = exchange /\ listening' = listening /\ hasCallback' = hasCallback
      /\ request' = request /\ expected' = expected /\ asked' = asked /\ memory' = memory
      /\ slaveIdx' = slaveIdx /\ reply' = reply /\ seen' = seen
      /\ idx' = idx /\ idxRequest' = idxRequest /\ idxResponse' = idxResponse
      /\ delivered' = delivered /\ number' = number /\ answered' = answered
  BY DEF Receive, Return, deviceVars, requestVars, slaveVars, parseVars, number, answered
<1>2. idx = 0 /\ idxRequest = 1 /\ idxResponse = 1 /\ delivered = <<>> /\ result = "none"
  BY <1>1, NothingParsed
<1>3. reply \in Seq(AnyWord) /\ Len(reply) \in 1 .. MaxPacket /\ Len(reply) \in Nat
      /\ response \in [1 .. MaxPacket -> AnyWord]
  BY SizesAreNumbers DEF IInv, TypeOK
<1>4. response' \in [1 .. MaxPacket -> AnyWord] /\ \A i \in 1 .. Len(reply) : response'[i] = reply[i]
  <2>1. \A i \in 1 .. Len(reply) : reply[i] \in AnyWord /\ i \in 1 .. MaxPacket
    BY <1>3, SizesAreNumbers
  <2>2. QED
    BY <1>1, <1>3, <2>1, SizesAreNumbers
<1>5. CASE phase' = "done"
  BY <1>1, <1>4, <1>5, ReturnKeeps DEF Receive
<1>6. CASE phase' = "parse"
  <2>1. TypeOK'
    BY <1>1, <1>2, <1>4, <1>6 DEF IInv, TypeOK
  <2>2. RequestLaid'
    BY <1>1 DEF IInv, RequestLaid, Laid
  <2>3. ReplyLaid' /\ CarriedOut' /\ SlaveAtHeader'
    BY <1>1, <1>6 DEF IInv, ReplyLaid, Replied, CarriedOut, Written, SlaveAtHeader, Answering
  <2>4. MasterAtHeader
    <3>1. answered = number /\ Starts(request, 1, 0, number) /\ Starts(reply, 1, 0, answered)
      BY <1>1 DEF IInv, SlaveAtHeader, RequestLaid, ReplyLaid, Answering
    <3>2. QED
      BY <1>2, <3>1 DEF MasterAtHeader
  <2>5. MasterReads'
    <3>1. MasterAtHeader'
      BY <1>1, <2>4 DEF MasterAtHeader
    <3>2. QED
      BY <1>1, <1>2, <1>4, <1>6, <3>1 DEF MasterReads
  <2>6. Counted'
    <3>1. PICK spent \in [0 .. number -> 1 .. MaxPacket] : Spends(spent)
      BY DEF IInv, Counted
    <3>2. Spends(spent)'
      BY <1>1, <1>2, <1>6, <3>1 DEF Spends, Answering
    <3>3. QED
      BY <1>1, <3>2 DEF Counted
  <2>7. RightUpToFailure'
    BY <1>1, <1>2 DEF RightUpToFailure
  <2>8. SinglesPadded'
    BY <1>1, PaddingKept
  <2>9. QED
    BY <2>1, <2>2, <2>3, <2>5, <2>6, <2>7, <2>8 DEF IInv
<1>7. QED
  BY <1>1, <1>5, <1>6

LEMMA NextExchangeKeeps ==
  ASSUME IInv, NextExchange
  PROVE  IInv'
<1>1. /\ phase' = "build" /\ exchange' = exchange + 1 /\ result' = "none"
      /\ request' = <<PacketWord>> /\ expected' = 1 /\ asked' = <<>> /\ number' = 0
      /\ idx' = 0 /\ idxRequest' = 1 /\ idxResponse' = 1 /\ delivered' = <<>>
      /\ listening' = listening /\ hasCallback' = hasCallback /\ response' = response
      /\ memory' = memory /\ slaveIdx' = slaveIdx /\ reply' = reply /\ seen' = seen
  BY DEF NextExchange, deviceVars, slaveVars, number
<1>2. request' \in Seq(AnyWord) /\ Len(request') = 1
  BY <1>1, WordKinds
<1>3. TypeOK'
  BY <1>1, <1>2, SizesAreNumbers DEF IInv, TypeOK
<1>4. RequestLaid'
  BY <1>1, <1>2 DEF RequestLaid, Starts
<1>5. ReplyLaid' /\ CarriedOut' /\ SlaveAtHeader' /\ MasterReads'
  BY <1>1 DEF ReplyLaid, CarriedOut, SlaveAtHeader, MasterReads, Answering
<1>6. Counted'
  <2> DEFINE spent == [i \in 0 .. 0 |-> 1]
  <2>1. spent \in [0 .. number' -> 1 .. MaxPacket] /\ spent[0] = 1
    BY <1>1, SizesAreNumbers
  <2> HIDE DEF spent
  <2>2. Spends(spent)'
    BY <1>1, <2>1 DEF Spends, Answering
  <2>3. QED
    BY <2>1, <2>2 DEF Counted
<1>7. RightUpToFailure'
  BY <1>1 DEF RightUpToFailure
<1>8. SinglesPadded'
  BY <1>1, <1>2 DEF SinglesPadded
<1>9. QED
  BY <1>3, <1>4, <1>5, <1>6, <1>7, <1>8 DEF IInv

LEMMA StepKeepsInv ==
  ASSUME IInv, [Next]_vars
  PROVE  IInv'
<1>1. ASSUME NEW t \in Transaction, Add(t) PROVE IInv'
  BY <1>1, AddKeeps
<1>2. CASE Transceive
  BY <1>2, TransceiveKeeps
<1>3. CASE SlaveReceive
  BY <1>3, SlaveReceiveKeeps
<1>4. CASE SlaveRead \/ SlaveWrite \/ SlaveRmw
  BY <1>4, SlaveAnswersKeeps
<1>5. CASE SlaveSend
  BY <1>5, SlaveSendKeeps
<1>6. CASE Timeout \/ ParseEnd
  BY <1>6, EndsKeep
<1>7. CASE Receive
  BY <1>7, ReceiveKeeps
<1>8. CASE ParseTransaction
  BY <1>8, ParseAnswerKeeps, EndsKeep DEF ParseTransaction
<1>9. CASE NextExchange
  BY <1>9, NextExchangeKeeps
<1>10. CASE UNCHANGED vars
  <2>1. /\ phase' = phase /\ exchange' = exchange /\ listening' = listening /\ hasCallback' = hasCallback
        /\ request' = request /\ expected' = expected /\ asked' = asked /\ memory' = memory
        /\ slaveIdx' = slaveIdx /\ reply' = reply /\ seen' = seen /\ response' = response
        /\ idx' = idx /\ idxRequest' = idxRequest /\ idxResponse' = idxResponse
        /\ delivered' = delivered /\ result' = result
    BY <1>10 DEF vars, deviceVars, requestVars, slaveVars, parseVars
  <2>2. number' = number /\ answered' = answered /\ (Answering <=> Answering')
        /\ (MasterAtHeader <=> MasterAtHeader')
    BY <2>1 DEF number, answered, Answering, MasterAtHeader
  <2>3. TypeOK'
    BY <2>1, <2>2 DEF IInv, TypeOK
  <2>4. RequestLaid' /\ ReplyLaid'
    BY <2>1, <2>2 DEF IInv, RequestLaid, Laid, ReplyLaid, Replied
  <2>5. CarriedOut' /\ SlaveAtHeader'
    BY <2>1, <2>2 DEF IInv, CarriedOut, Written, SlaveAtHeader
  <2>6. MasterReads'
    BY <2>1, <2>2 DEF IInv, MasterReads
  <2>7. Counted'
    <3>1. PICK spent \in [0 .. number -> 1 .. MaxPacket] : Spends(spent)
      BY DEF IInv, Counted
    <3>2. Spends(spent)'
      BY <2>1, <2>2, <3>1 DEF Spends
    <3>3. QED
      BY <2>2, <3>2 DEF Counted
  <2>8. RightUpToFailure'
    BY <2>1, <2>2 DEF IInv, RightUpToFailure, DoneRight, Written
  <2>9. SinglesPadded'
    BY <2>1, PaddingKept
  <2>10. QED
    BY <2>3, <2>4, <2>5, <2>6, <2>7, <2>8, <2>9 DEF IInv
<1>11. QED
  BY <1>1, <1>2, <1>3, <1>4, <1>5, <1>6, <1>7, <1>8, <1>9, <1>10 DEF Next, SlaveStep, MasterStep

-----------------------------------------------------------------------------
(* What follows.                                                           *)

\* addTransaction, handleRequest with IPbusResponse, and processResponse keep
\* the buffers a row of transactions and their indices at the same one of them.
THEOREM InvariantHolds == Spec => []IInv
<1>1. Init => IInv
  BY InitHolds
<1>2. IInv /\ [Next]_vars => IInv'
  BY StepKeepsInv
<1>3. QED
  BY <1>1, <1>2, PTL DEF Spec

\* The variables of request, slave, response and parser keep their types.
THEOREM TypeCorrect == Spec => []TypeOK
BY InvariantHolds, PTL DEF IInv

LEMMA InvGivesSlaveInStep ==
  ASSUME IInv
  PROVE  SlaveInStep
<1>1. Len(request) \in Nat
  BY DEF IInv, TypeOK
<1>2. phase = "slave" => Starts(request, slaveIdx, answered, number)
  BY DEF IInv, SlaveAtHeader
<1>3. QED
  BY <1>1, <1>2 DEF SlaveInStep, Starts, answered, SlaveHeader

\* Wherever handleRequest looks for a header, addTransaction wrote the header
\* of the transaction whose turn it is; it reads the request to its very end.
THEOREM SlaveInStepHolds == Spec => []SlaveInStep
<1>1. IInv => SlaveInStep
  BY InvGivesSlaveInStep
<1>2. QED
  BY <1>1, InvariantHolds, PTL

LEMMA InvGivesMasterInStep ==
  ASSUME IInv
  PROVE  MasterInStep
<1> SUFFICES ASSUME Parsing
             PROVE  BothHeaders /\ Asked.id = idx /\ Answer.id = idx /\ idxResponse < Len(reply)
  BY DEF MasterInStep
<1>1. PICK t : t = asked[idx + 1]
  OBVIOUS
<1>2. /\ Asked = Header(t.type, t.words, idx, "Request") /\ idxResponse \in 1 .. Len(reply) - 1
      /\ Answer.is = "header" /\ Answer.id = idx
  BY <1>1, MasterMeets
<1>3. Len(reply) \in Nat
  BY DEF IInv, TypeOK
<1>4. Asked.is = "header" /\ Asked.id = idx
  BY <1>2 DEF Header
<1>5. QED
  BY <1>2, <1>3, <1>4 DEF BothHeaders

\* Wherever processResponse looks for headers, in the request and in the reply,
\* it meets those of the same transaction, and none that an earlier reply left.
THEOREM MasterInStepHolds == Spec => []MasterInStep
<1>1. IInv => MasterInStep
  BY InvGivesMasterInStep
<1>2. QED
  BY <1>1, InvariantHolds, PTL

LEMMA InvGivesWithinBuffers ==
  ASSUME IInv
  PROVE  WithinBuffers
<1>1. Len(request) <= MaxPacket /\ expected <= MaxPacket /\ Len(reply) <= MaxPacket
  <2>1. PICK spent \in [0 .. number -> 1 .. MaxPacket] : Spends(spent)
    BY DEF IInv, Counted
  <2>2. number \in 0 .. number
    BY DEF IInv, TypeOK, number
  <2>3. spent[number] \in 1 .. MaxPacket /\ spent[number] = expected
    BY <2>1, <2>2 DEF Spends
  <2>4. QED
    BY <2>3, SizesAreNumbers DEF IInv, TypeOK
<1>2. ASSUME Parsing, Matches, Answer.type \notin WriteType
      PROVE  idxResponse + 1 + Answer.words <= MaxPacket
  <2>1. PICK t : t = asked[idx + 1]
    OBVIOUS
  <2>2. AnswerWords = ReplyData(t) /\ idxResponse + 1 + ReplyData(t) <= MaxPacket
    BY <1>2, <2>1, MasterMeets, CopyWithin
  <2>3. Answer.words = ReplyData(t)
    BY <1>2, <2>2 DEF AnswerWords
  <2>4. QED
    BY <2>2, <2>3
<1>3. QED
  BY <1>1, <1>2 DEF WithinBuffers

\* Whatever SwtLink adds, the request and the reply it counts on fit a packet;
\* the slave's reply fits the packet buffer, and so does all that processResponse
\* copies by the word count of an answer, though an error has no words behind it.
THEOREM WithinBuffersHolds == Spec => []WithinBuffers
<1>1. IInv => WithinBuffers
  BY InvGivesWithinBuffers
<1>2. QED
  BY <1>1, InvariantHolds, PTL

\* What SwtLink asks for is never left out of the request, nor does it end the
\* RPC: the padding of isIPbusPacketFull() and the halves of readBlock() leave the
\* room that addTransaction's own test does not look for.
THEOREM EveryOfferIsTakenHolds == Spec => []EveryOfferIsTaken
<1>1. IInv => EveryOfferIsTaken
  BY OfferFits DEF EveryOfferIsTaken
<1>2. QED
  BY <1>1, InvariantHolds, PTL

\* Until it fails, transceive() delivers to each transaction what the registers
\* held when its turn came, whatever the transactions are; it fails at most one
\* transaction further, whose place it may have spoilt only if that was refused.
THEOREM RightUpToFailureHolds == Spec => []RightUpToFailure
<1>1. IInv => RightUpToFailure
  BY DEF IInv
<1>2. QED
  BY <1>1, InvariantHolds, PTL

\* transceive() returns true only if the slave carried out every transaction in
\* its order, and what it delivered is what each of them means.
THEOREM SuccessMeansDoneHolds == Spec => []SuccessMeansDone
<1>1. IInv => SuccessMeansDone
  BY DEF IInv, MasterReads, RightUpToFailure, SuccessMeansDone
<1>2. QED
  BY <1>1, InvariantHolds, PTL

LEMMA FailureHasAReason ==
  ASSUME IInv, [Next]_vars, result' = "failure", phase \in {"replied", "parse"},
         ~(phase = "replied" /\ UNCHANGED response)
  PROVE  SlaveRefused
<1>1. result = "none"
  BY DEF IInv, MasterReads
<1>2. Receive \/ ParseTransaction
  BY <1>1 DEF Next, SlaveStep, MasterStep, vars, Add, Transceive, SlaveReceive, SlaveRead, SlaveWrite,
       SlaveRmw, RmwAnswers, AtHeader, SlaveSend, Timeout, ParseEnd, Return, NextExchange
<1>3. ~Receive
  <2> SUFFICES ASSUME Receive PROVE FALSE
    OBVIOUS
  <2>1. phase = "replied" /\ Len(reply) > expected
    BY <1>1 DEF Receive
  <2>2. PICK spent \in [0 .. number -> 1 .. MaxPacket] : Spends(spent)
    BY DEF IInv, Counted
  <2>3. Len(reply) <= spent[answered] /\ spent[number] = expected /\ answered = number
    BY <2>1, <2>2 DEF Spends, Answering, IInv, SlaveAtHeader
  <2>4. number \in 0 .. number /\ Len(reply) \in Nat
    BY DEF IInv, TypeOK, number
  <2>5. spent[number] \in 1 .. MaxPacket
    BY <2>2, <2>4
  <2>6. spent[number] \in Nat
    BY <2>5, SizesAreNumbers
  <2>7. QED
    BY <2>1, <2>3, <2>4, <2>6
<1>4. PICK t : t = asked[idx + 1]
  OBVIOUS
<1>5. Parsing
  BY <1>2, <1>3 DEF ParseTransaction
<1>6. /\ Matches /\ idx + 1 \in 1 .. number /\ Replied(idxResponse)
      /\ Answer = Word(reply, idxResponse) /\ Answer.id = idx
  BY <1>4, <1>5, MasterMeets
<1>7. Answer.info # "Response"
  BY <1>1, <1>2, <1>3, <1>6 DEF ParseTransaction, ParseAnswer
<1>8. ~Reaches(asked[idx + 1])
  BY <1>6, <1>7 DEF Replied
<1>9. QED
  BY <1>6, <1>8 DEF SlaveRefused

\* A reply that arrives makes transceive() fail only if the slave refused one of
\* the transactions: no mismatch, no reply too long, comes of their bookkeeping.
THEOREM RefusedForAReasonHolds == Spec => RefusedForAReason
<1>1. IInv /\ [Next]_vars =>
        [result' = "failure" /\ phase \in {"replied", "parse"} =>
          \/ phase = "replied" /\ UNCHANGED response
          \/ SlaveRefused]_vars
  BY FailureHasAReason
<1>2. QED
  BY <1>1, InvariantHolds, PTL DEF Spec, RefusedForAReason

=============================================================================
