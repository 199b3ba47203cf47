-------------------------- MODULE IPbusTransactions --------------------------
(***************************************************************************)
(* One packet of transactions after another, word by word: IPbusRequest    *)
(* builds it, IPbusSlave reads it and writes the reply with IPbusResponse, *)
(* and IPbusMaster::processResponse reads request and reply side by side.  *)
(* Nothing in a packet says where a transaction begins: two writers and    *)
(* two readers have to agree on the length of everything before it.        *)
(*                                                                         *)
(* A word is a record that says what it was written as; a reader that      *)
(* meets another kind is out of step.  The value of a register is the      *)
(* transaction that wrote it and the position of the word there,           *)
(* <<exchange, number, position>>.                                         *)
(***************************************************************************)
EXTENDS Naturals, Sequences, FiniteSetsExt

CONSTANTS
    Transaction,     \* what may be asked for: [type, words, addr]
    MemorySize,      \* registers of the slave
    MaxPacket,       \* ipbus::maxPacket, in words
    MaxExchanges     \* bound: packets sent

ReadType == {"Read", "NonIncrementingRead"}
WriteType == {"Write", "NonIncrementingWrite"}
RmwType == {"RMWbits", "RMWsum"}

\* processResponse's default branch and the configuration space are left out:
\* SwtLink asks for neither, and the slave does not know them.
ASSUME TransactionsKnown ==
    Transaction \subseteq [type : ReadType \cup WriteType \cup RmwType,
                           words : Nat \ {0}, addr : Nat]
ASSUME RmwIsOneWord == \A t \in Transaction : t.type \in RmwType => t.words = 1
\* An empty packet has room for a read-modify-write, and half of one for a word.
ASSUME SizesAreNumbers ==
    MemorySize \in Nat /\ MaxPacket \in Nat /\ MaxPacket >= 6 /\ MaxExchanges \in Nat

PacketWord == [is |-> "packet"]
Header(type, words, id, info) ==
    [is |-> "header", type |-> type, words |-> words, id |-> id, info |-> info]
AddressWord(a) == [is |-> "address", value |-> a]
DataWord(v) == [is |-> "data", value |-> v]
Word(buffer, idx) == buffer[idx + 1]         \* the arrays of the code begin at 0

VARIABLES
    phase,           \* where the exchange is
    exchange,        \* packets begun
    listening,       \* the slave's async_receive_from is pending
    hasCallback,     \* its m_requestCallback has been set
    request,         \* the master's m_request, up to m_size
    expected,        \* m_expectedResponseSize
    asked,           \* the transactions that were added
    slaveIdx,        \* handleRequest: idx_request
    reply,           \* the slave's m_response, up to m_size
    memory,
    response,        \* the master's m_response: the whole buffer
    idx, idxRequest, idxResponse,    \* locals of processResponse
    delivered,       \* what it copied for each transaction
    result,          \* what transceive() returns
    seen             \* ghost: the registers before each transaction, and now

requestVars == <<request, expected, asked>>
slaveVars == <<slaveIdx, reply, memory, seen>>
deviceVars == <<listening, hasCallback>>
parseVars == <<idx, idxRequest, idxResponse, delivered>>
vars == <<phase, exchange, deviceVars, requestVars, slaveVars, response,
          parseVars, result>>

number == Len(asked)                         \* m_transactionsNumber

\* What the transaction number n of this packet has to write.
Written(n, words) == [j \in 1 .. words |-> <<exchange, n, j>>]

-----------------------------------------------------------------------------
(* IPbusRequest.                                                           *)

Body(t) ==
    LET words == CASE t.type \in ReadType -> 0
                   [] t.type \in WriteType \cup {"RMWsum"} -> t.words
                   [] t.type = "RMWbits" -> 2
    IN  [j \in 1 .. words |-> DataWord(Written(number, words)[j])]

\* Mutant: the old value that an RMW returns is not counted.
ReplyDataOfReads(t) == IF t.type \in ReadType THEN t.words ELSE 0

ReplyData(t) ==
    CASE t.type \in ReadType -> t.words
      [] t.type \in RmwType -> 1
      [] OTHER -> 0

\* addTransaction's test: it counts neither the address nor a second mask.
Exceeds(t) == Len(request) + t.words + 1 > MaxPacket

\* Mutant: the padding has no room for a read-modify-write.
FullForReads == Len(request) + 2 >= MaxPacket

\* isIPbusPacketFull()
Full == Len(request) + 4 >= MaxPacket

\* Mutant: the second header of the reply is not counted.
PayloadOfOne == MaxPacket - 2

MaxPayload == MaxPacket - 3
Half == MaxPayload \div 2

\* What SwtLink asks for: one word at a time, a full packet being sent before
\* the next command is looked at, ...
Single == {t \in Transaction : t.words = 1 /\ t.type \in {"Read", "Write"} \cup RmwType}
OfSingles == \A i \in 1 .. number : asked[i] \in Single
OfferedSingle(t) == t \in Single /\ OfSingles /\ ~Full

\* ... or a block, in packets of two halves and a last one of one or two parts.
OfferedFirst(t) == t.type \in ReadType /\ number = 0 /\ t.words <= Half
OfferedSecond(t) ==
    /\ number = 1 /\ asked[1].words = Half /\ asked[1].type \in ReadType
    /\ t.type = asked[1].type
    /\ t.addr = asked[1].addr + (IF t.type = "Read" THEN Half ELSE 0)
    /\ t.words <= MaxPayload - Half

Offered(t) == OfferedSingle(t) \/ OfferedFirst(t) \/ OfferedSecond(t)

\* The words are written before the size of the reply is looked at.
AddWords(t) ==
    /\ request' = request \o <<Header(t.type, t.words, number, "Request"), AddressWord(t.addr)>>
                          \o Body(t)
    /\ expected' = expected + 1 + ReplyData(t)

\* A transaction that has no room is silently left out; a reply that would have
\* none throws, which ends the RPC.
Add(t) ==
    /\ phase = "build"
    /\ Offered(t)
    /\ IF Exceeds(t) THEN UNCHANGED <<phase, result, requestVars>>
       ELSE /\ AddWords(t)
            /\ IF expected' > MaxPacket
                 THEN phase' = "done" /\ result' = "failure" /\ UNCHANGED asked
                 ELSE asked' = Append(asked, t) /\ UNCHANGED <<phase, result>>
    /\ UNCHANGED <<exchange, deviceVars, slaveVars, response, parseVars>>

\* transceive(): response.reset() writes the packet header only.
Transceive ==
    /\ phase = "build"
    /\ number > 0
    /\ phase' = "sent"
    /\ response' = [response EXCEPT ![1] = PacketWord]
    /\ UNCHANGED <<exchange, deviceVars, requestVars, slaveVars, parseVars, result>>

-----------------------------------------------------------------------------
(* IPbusSlave::handleRequest and the Memory it locks meanwhile.            *)

SlaveReceive ==
    /\ phase = "sent"
    /\ listening
    /\ phase' = "slave"
    /\ listening' = FALSE
    /\ slaveIdx' = 1
    /\ reply' = <<PacketWord>>
    /\ seen' = <<memory>>
    /\ UNCHANGED <<exchange, hasCallback, requestVars, memory, response, parseVars, result>>

SlaveHeader == Word(request, slaveIdx)
SlaveAddress == Word(request, slaveIdx + 1).value
AtHeader(types) ==
    /\ phase = "slave"
    /\ slaveIdx < Len(request)
    /\ SlaveHeader.is = "header" /\ SlaveHeader.type \in types

\* IPbusResponse::addTransaction: an error carries the number of words asked
\* for, but none of them, and leaves the registers as they were.
Respond(words, data, registers) ==
    /\ reply' = reply \o <<Header(SlaveHeader.type, words, Len(seen) - 1, "Response")>> \o data
    /\ memory' = registers
    /\ seen' = Append(seen, registers)
    /\ UNCHANGED <<phase, exchange, deviceVars, requestVars, response, parseVars, result>>

RespondError(words, info) ==
    /\ reply' = Append(reply, Header(SlaveHeader.type, words, Len(seen) - 1, info))
    /\ seen' = Append(seen, memory)
    /\ UNCHANGED <<phase, exchange, deviceVars, requestVars, memory, response, parseVars, result>>

\* Memory::dataRead and dataWrite succeed.
InMemory(n) == SlaveAddress + n <= MemorySize

SlaveRead ==
    /\ AtHeader(ReadType)
    /\ LET increment == SlaveHeader.type = "Read"
           data == [j \in 1 .. SlaveHeader.words |->
                      DataWord(memory[SlaveAddress + (IF increment THEN j ELSE 1)])]
       IN  IF InMemory(IF increment THEN SlaveHeader.words ELSE 1)
             THEN Respond(SlaveHeader.words, data, memory)
             ELSE RespondError(SlaveHeader.words, "ErrorRead")
    /\ slaveIdx' = slaveIdx + 2

SlaveWrite ==
    /\ AtHeader(WriteType)
    /\ LET increment == SlaveHeader.type = "Write"
           reach == IF increment THEN SlaveHeader.words ELSE 1
           Source(a) == IF increment THEN a - SlaveAddress ELSE SlaveHeader.words
       IN  IF InMemory(reach)
             THEN Respond(SlaveHeader.words, <<>>,
                    [a \in DOMAIN memory |->
                       IF a \in SlaveAddress + 1 .. SlaveAddress + reach
                         THEN Word(request, slaveIdx + 1 + Source(a)).value
                         ELSE memory[a]])
             ELSE RespondError(SlaveHeader.words, "ErrorWrite")
    /\ slaveIdx' = slaveIdx + 2 + SlaveHeader.words

Modified == [memory EXCEPT ![SlaveAddress + 1] = Word(request, slaveIdx + 2).value]

RmwAnswers(value, skip) ==
    /\ AtHeader(RmwType)
    /\ IF InMemory(1) THEN Respond(1, <<value>>, Modified) ELSE RespondError(1, "ErrorRead")
    /\ slaveIdx' = slaveIdx + skip

\* Mutant: the second mask is not skipped.
SlaveRmwOneMask == RmwAnswers(DataWord(memory[SlaveAddress + 1]), 3)

\* Mutant: the new value is returned.
SlaveRmwNewValue ==
    RmwAnswers(Word(request, slaveIdx + 2), IF SlaveHeader.type = "RMWbits" THEN 4 ELSE 3)

\* The value before the operation is returned.
SlaveRmw ==
    RmwAnswers(DataWord(memory[SlaveAddress + 1]), IF SlaveHeader.type = "RMWbits" THEN 4 ELSE 3)

\* A callback that has not been set throws after the reply was sent, and the
\* slave does not listen again.
SlaveSend ==
    /\ phase = "slave"
    /\ slaveIdx >= Len(request)
    /\ phase' = "replied"
    /\ listening' = hasCallback
    /\ UNCHANGED <<exchange, hasCallback, requestVars, slaveVars, response, parseVars, result>>

-----------------------------------------------------------------------------
(* IPbusMaster::transceive and processResponse.                            *)

Return(r) == phase' = "done" /\ result' = r

\* Mutant: only a reply ends the wait.
TimeoutOfReply ==
    /\ phase = "replied"
    /\ Return("failure")
    /\ UNCHANGED <<exchange, deviceVars, requestVars, slaveVars, response, parseVars>>

\* The request or the reply is lost, or nobody listens (IPbusLink).
Timeout ==
    /\ phase \in {"replied", "sent"}
    /\ Return("failure")
    /\ UNCHANGED <<exchange, deviceVars, requestVars, slaveVars, response, parseVars>>

\* What an earlier reply left behind the end of this one stays in the buffer.
Receive ==
    /\ phase = "replied"
    /\ response' = [i \in 1 .. MaxPacket |-> IF i <= Len(reply) THEN reply[i] ELSE response[i]]
    /\ IF Len(reply) > expected THEN Return("failure") ELSE phase' = "parse" /\ UNCHANGED result
    /\ UNCHANGED <<exchange, deviceVars, requestVars, slaveVars, parseVars>>

Asked == Word(request, idxRequest)
Answer == Word(response, idxResponse)
BothHeaders == Asked.is = "header" /\ Answer.is = "header"

\* The output pointer: SwtLink gives a place to whatever has an answer.  Without
\* one an RMW is not stepped over.
HasOutput == asked[idx + 1].type \notin WriteType
SteppedOver == Answer.type \in RmwType => HasOutput

\* What is copied: the words after the answer's header, as far as the buffer goes.
AnswerWords == IF Answer.type \in WriteType THEN 0 ELSE Answer.words
Copied ==
    IF HasOutput THEN SubSeq(response, idxResponse + 2, idxResponse + 1 + AnswerWords) ELSE <<>>

\* Mutant: the second mask is not skipped.
AskedSizeOneMask ==
    CASE Asked.type \in ReadType -> 2
      [] Asked.type \in WriteType -> 2 + Asked.words
      [] Asked.type \in RmwType -> 3

\* Where the request goes on: a read is its address, an RMW its masks too.
AskedSize ==
    CASE Asked.type \in ReadType -> 2
      [] Asked.type \in WriteType -> 2 + Asked.words
      [] Asked.type = "RMWbits" -> 4
      [] Asked.type = "RMWsum" -> 3

Parsing == phase = "parse" /\ idx < number

\* The version, number, type and word count that are expected.
Matches ==
    /\ BothHeaders
    /\ Answer.id = idx /\ Answer.type = Asked.type
    /\ Answer.type \in ReadType => Answer.words = Asked.words
    /\ Answer.type \in RmwType => Answer.words = 1

ParseMismatch ==
    /\ Return("failure")
    /\ UNCHANGED <<exchange, deviceVars, requestVars, slaveVars, response, parseVars>>

\* The data is copied before the info code is looked at.
ParseOne ==
    /\ delivered' = Append(delivered, Copied)
    /\ idxResponse' = idxResponse + 1 + (IF SteppedOver THEN AnswerWords ELSE 0)
    /\ idxRequest' = idxRequest + (IF SteppedOver THEN AskedSize ELSE 1)
    /\ UNCHANGED <<exchange, deviceVars, requestVars, slaveVars, response>>

\* Mutant: the info code is not looked at.
ParseAnswerAnyCode == ParseOne /\ idx' = idx + 1 /\ UNCHANGED <<phase, result>>

ParseAnswer ==
    /\ ParseOne
    /\ \/ Answer.info = "Response" /\ idx' = idx + 1 /\ UNCHANGED <<phase, result>>
       \/ Answer.info # "Response" /\ Return("failure") /\ UNCHANGED idx

\* One round of the loop.  No reply of this slave is a mismatch: MasterInStep.
ParseTransaction == Parsing /\ IF Matches THEN ParseAnswer ELSE ParseMismatch

ParseEnd ==
    /\ phase = "parse"
    /\ idx = number
    /\ Return("success")
    /\ UNCHANGED <<exchange, deviceVars, requestVars, slaveVars, response, parseVars>>

\* executeTransactions() and readBlock() reset the request.
NextExchange ==
    /\ phase = "done"
    /\ exchange < MaxExchanges
    /\ phase' = "build" /\ exchange' = exchange + 1 /\ result' = "none"
    /\ request' = <<PacketWord>> /\ expected' = 1 /\ asked' = <<>>
    /\ idx' = 0 /\ idxRequest' = 1 /\ idxResponse' = 1 /\ delivered' = <<>>
    /\ UNCHANGED <<deviceVars, slaveVars, response>>

-----------------------------------------------------------------------------

Init ==
    /\ phase = "build" /\ exchange = 1 /\ result = "none"
    /\ listening \in BOOLEAN              \* there may be no device
    /\ hasCallback \in BOOLEAN
    /\ request = <<PacketWord>> /\ expected = 1 /\ asked = <<>>
    /\ slaveIdx = 1 /\ reply = <<PacketWord>> /\ seen = <<>>
    /\ memory = [a \in 1 .. MemorySize |-> <<0, 0, a>>]
    /\ response = [i \in 1 .. MaxPacket |-> DataWord(<<0, 0, 0>>)]  \* uninitialized
    /\ idx = 0 /\ idxRequest = 1 /\ idxResponse = 1 /\ delivered = <<>>

SlaveStep == SlaveReceive \/ SlaveRead \/ SlaveWrite \/ SlaveRmw \/ SlaveSend
MasterStep == Timeout \/ Receive \/ ParseTransaction \/ ParseEnd

Next ==
    \/ \E t \in Transaction : Add(t)
    \/ Transceive \/ SlaveStep \/ MasterStep \/ NextExchange

Spec == Init /\ [][Next]_vars

FairSpec == Spec /\ WF_vars(SlaveStep) /\ WF_vars(MasterStep)

-----------------------------------------------------------------------------
(* Properties.                                                             *)

Value == Nat \X Nat \X Nat
Registers == [1 .. MemorySize -> Value]
HeaderWord == [is : {"header"}, type : ReadType \cup WriteType \cup RmwType, words : Nat, id : Nat,
               info : {"Request", "Response", "ErrorRead", "ErrorWrite"}]
AnyWord == {PacketWord} \cup HeaderWord \cup [is : {"address"}, value : Nat]
             \cup [is : {"data"}, value : Value]

\* What the buffers and the counters hold.
TypeOK ==
    /\ phase \in {"build", "sent", "slave", "replied", "parse", "done"}
    /\ result \in {"none", "success", "failure"}
    /\ exchange \in Nat /\ listening \in BOOLEAN /\ hasCallback \in BOOLEAN
    /\ asked \in Seq(Transaction)
    /\ request \in Seq(AnyWord) /\ Len(request) \in 1 .. MaxPacket
    /\ reply \in Seq(AnyWord) /\ Len(reply) \in 1 .. MaxPacket
    /\ response \in [1 .. MaxPacket -> AnyWord]
    /\ memory \in Registers /\ seen \in Seq(Registers)
    /\ slaveIdx \in Nat /\ idx \in 0 .. number /\ idxRequest \in Nat /\ idxResponse \in Nat
    /\ delivered \in Seq(Seq(AnyWord))

\* The slave takes for a header what the master wrote as the next header, and
\* reads to the very end of the request and no further.
SlaveInStep ==
    phase = "slave" =>
        /\ slaveIdx <= Len(request)
        /\ slaveIdx < Len(request) =>
             SlaveHeader.is = "header" /\ SlaveHeader.id = Len(seen) - 1
        /\ slaveIdx = Len(request) => Len(seen) - 1 = number

\* processResponse takes for headers what was written as the headers of the
\* same transaction, in its request and in the slave's reply, and this reply's
\* rather than an earlier one's.
MasterInStep ==
    Parsing =>
        /\ BothHeaders
        /\ Asked.id = idx /\ Answer.id = idx
        /\ idxResponse < Len(reply)

\* No transaction that SwtLink asks for is silently left out, as the caller would
\* not notice, and none makes addTransaction throw after it has been written: a
\* block fills the reply to its last word.
EveryOfferIsTaken ==
    phase = "build" =>
        \A t \in Transaction :
           Offered(t) => ~Exceeds(t) /\ expected + 1 + ReplyData(t) <= MaxPacket

\* Neither the request, the reply it counts on, the slave's reply nor what
\* processResponse copies, for a failed transaction too, goes past the packet
\* buffer, although addTransaction's own test would let the request do so.
WithinBuffers ==
    /\ Len(request) <= MaxPacket /\ expected <= MaxPacket /\ Len(reply) <= MaxPacket
    /\ Parsing /\ Matches /\ Answer.type \notin WriteType =>
          idxResponse + 1 + Answer.words <= MaxPacket

\* What a transaction means: the registers it reaches, its answer, its effect.
Increments(t) == t.type \in {"Read", "Write"}
Reaches(t) == t.addr + (IF Increments(t) THEN t.words ELSE 1) <= MemorySize
Register(t, j) == t.addr + (IF Increments(t) THEN j ELSE 1)
Meant(t, registers) ==
    [j \in 1 .. ReplyData(t) |-> DataWord(registers[Register(t, j)])]
Effect(t, values, registers) ==
    [a \in DOMAIN registers |->
       LET stores == {j \in 1 .. t.words : t.type \notin ReadType /\ Register(t, j) = a}
       IN  IF stores = {} THEN registers[a] ELSE values[Max(stores)]]

\* The slave carried out the transaction i, on the registers as the ones before
\* it left them, and its answer, if it was asked for, was delivered.
DoneRight(i) ==
    LET t == asked[i]
    IN  /\ Reaches(t)
        /\ seen[i + 1] = Effect(t, Written(i - 1, t.words), seen[i])
        /\ delivered[i] = Meant(t, seen[i])

\* An exchange reported as a success was carried out by the slave to the last
\* transaction, one after the other, and each answer is its own: for an RMW the
\* value before it.
SuccessMeansDone ==
    result = "success" =>
        Len(delivered) = number /\ \A i \in 1 .. number : DoneRight(i)

\* When an exchange fails, everything delivered before the transaction that
\* failed is right, and nothing behind it is touched; what it has itself left
\* in its place, if anything, is the answer to a transaction that was refused.
\* SwtTranslator's TransceiveFails rests on this.
RightUpToFailure ==
    /\ \A i \in 1 .. idx : DoneRight(i)
    /\ Len(delivered) > idx =>
          Len(delivered) = idx + 1 /\ idx < number /\ ~Reaches(asked[idx + 1])

SlaveRefused == \E i \in 1 .. number : ~Reaches(asked[i])

\* A reply that arrives is refused only if the slave refused a transaction.
RefusedForAReason ==
    [][result' = "failure" /\ phase \in {"replied", "parse"} =>
          \/ phase = "replied" /\ UNCHANGED response            \* nothing arrived
          \/ SlaveRefused]_vars

\* Every transceive() returns, whether or not the slave still listens.
ExchangeEnds == phase = "sent" ~> phase = "done"

-----------------------------------------------------------------------------
(* Why they hold: the inductive invariant.  No word says how far a buffer  *)
(* has been read; what ties the readers to the writers is that behind each *)
(* header of a buffer, past the words that belong to it, the next header   *)
(* begins or the buffer ends.                                              *)

answered == Len(seen) - 1                    \* transactions the slave has carried out
Answering == phase \in {"slave", "replied", "parse"}

\* The place p of a buffer with n transactions is where the one numbered i
\* begins, or the end of the buffer.
Starts(buffer, p, i, n) ==
    \/ p = Len(buffer) /\ i = n
    \/ p \in 1 .. Len(buffer) - 1 /\ i < n
       /\ Word(buffer, p).is = "header" /\ Word(buffer, p).id = i

RequestSize(t) == 2 + (CASE t.type \in ReadType -> 0
                         [] t.type \in WriteType -> t.words
                         [] t.type = "RMWbits" -> 2
                         [] t.type = "RMWsum" -> 1)

\* The request is its transactions, one behind the other.
Laid(p) ==
    LET i == Word(request, p).id
        t == asked[i + 1]
    IN  /\ i < number
        /\ Word(request, p) = Header(t.type, t.words, i, "Request")
        /\ Word(request, p + 1) = AddressWord(t.addr)
        /\ \A j \in 1 .. RequestSize(t) - 2 : Word(request, p + 1 + j) = DataWord(<<exchange, i, j>>)
        /\ Starts(request, p + RequestSize(t), i + 1, number)

RequestLaid ==
    /\ Starts(request, 1, 0, number)
    /\ \A p \in 1 .. Len(request) - 1 : Word(request, p).is = "header" => Laid(p)

\* So is the reply, as far as it has been written: an answer has its data or it
\* is an error, and an error has none.
Replied(p) ==
    LET i == Word(reply, p).id
        t == asked[i + 1]
    IN  /\ i < answered
        /\ Word(reply, p).type = t.type /\ Word(reply, p).words = t.words
        /\ Word(reply, p).info = "Response" <=> Reaches(t)
        /\ Reaches(t) =>
              /\ \A j \in 1 .. ReplyData(t) : Word(reply, p + j) = Meant(t, seen[i + 1])[j]
              /\ Starts(reply, p + 1 + ReplyData(t), i + 1, answered)
        /\ ~Reaches(t) => Starts(reply, p + 1, i + 1, answered)

ReplyLaid ==
    Answering =>
        /\ Starts(reply, 1, 0, answered)
        /\ \A p \in 1 .. Len(reply) - 1 : Word(reply, p).is = "header" => Replied(p)

\* The registers went from one transaction to the next as they should.
CarriedOut ==
    Answering =>
        /\ answered \in 0 .. number /\ memory = seen[Len(seen)]
        /\ \A i \in 1 .. answered :
              seen[i + 1] = IF Reaches(asked[i])
                              THEN Effect(asked[i], Written(i - 1, asked[i].words), seen[i])
                              ELSE seen[i]

SlaveAtHeader ==
    /\ phase = "slave" => Starts(request, slaveIdx, answered, number)
    /\ phase \in {"replied", "parse"} => answered = number

\* The master reads both buffers at the same transaction.
MasterAtHeader ==
    Starts(request, idxRequest, idx, number) /\ Starts(reply, idxResponse, idx, number)

MasterReads ==
    /\ phase \in {"build", "sent", "slave", "replied"} =>
          idx = 0 /\ idxRequest = 1 /\ idxResponse = 1 /\ delivered = <<>>
    /\ phase = "parse" =>
          /\ \A i \in 1 .. Len(reply) : response[i] = reply[i]
          /\ Len(delivered) = idx
          /\ MasterAtHeader
    /\ result # "none" => phase = "done"
    /\ result = "success" => idx = number /\ Len(delivered) = number
    /\ idx <= Len(delivered)

\* addTransaction counts the words of the reply: spent[i] is its length if the
\* first i transactions have all their data.
Spends(spent) ==
    /\ spent[0] = 1 /\ spent[number] = expected
    /\ \A i \in 1 .. number : spent[i] = spent[i - 1] + 1 + ReplyData(asked[i])
    /\ Answering => Len(reply) <= spent[answered]
    /\ phase = "parse" => idxResponse <= spent[idx]

Counted == \E spent \in [0 .. number -> 1 .. MaxPacket] : Spends(spent)

\* Of one-word transactions the reply is no longer than the request, so that the
\* padding is enough for both.
SinglesPadded == OfSingles => expected <= Len(request)

\* Between any two steps the exchange is as transceive() and the slave rely on:
\* the packets are laid out header by header, the device did what the slave has
\* gone past, and both stand at a header within their buffers.
IInv ==
    /\ TypeOK /\ RequestLaid /\ ReplyLaid /\ CarriedOut
    /\ SlaveAtHeader /\ MasterReads /\ Counted /\ SinglesPadded /\ RightUpToFailure

=============================================================================
