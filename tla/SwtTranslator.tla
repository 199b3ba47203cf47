---------------------------- MODULE SwtTranslator ----------------------------
(***************************************************************************)
(* The translation of one RPC after another: SwtLink::parseSequence with   *)
(* the command buffer, the SWT FIFO, the IPbus request it fills and the    *)
(* CruCommandExecutor that writes the response.                            *)
(*                                                                         *)
(* Commands are deferred: a write adds a transaction to the request and,   *)
(* if it asks for data, a frame to the FIFO that the reply will complete;  *)
(* the commands wait in the buffer until the transactions have succeeded   *)
(* and are then "executed" against a FIFO size that is only emulated.      *)
(*                                                                         *)
(* Addresses, values and text are abstracted to what they are about: the   *)
(* word j that command k of RPC r asks for is <<r, k, j>>.  A transceive   *)
(* may fail at any point of the packet (IPbusMaster, IPbusSlave).          *)
(***************************************************************************)
EXTENDS Naturals, Sequences, FiniteSets, SequencesExt

CONSTANTS
    Script,       \* Script[n]: the sequences a client may send as RPC n
    MaxRpc,       \* bound: RPCs served
    MaxPacket,    \* ipbus::maxPacket, in words
    FifoLimit,    \* SwtFifo::FifoLimit
    Capacity      \* CruCommandBuffer::Capacity

\* A command is [type, mode, n, addr]: n is the argument of read-count, or the
\* number of words of a block read.  Any other text is an "invalid" command.
Command ==
    [type : {"reset", "read", "readcnt", "wait", "invalid"}, mode : {"none"}, n : Nat, addr : Nat]
      \cup [type : {"write"}, n : Nat, addr : Nat,
            mode : {"read", "write", "and", "or", "sum", "block", "unknown"}]

ASSUME ScriptsAreCommands == \A n \in 1 .. MaxRpc : Script[n] \subseteq Seq(Command)
ASSUME LimitsAreNumbers == MaxRpc \in Nat /\ FifoLimit \in Nat /\ Capacity \in Nat
\* An empty packet has room for every single transaction and is not taken for
\* full: otherwise the AND of a pair would leave the buffer before its OR.
ASSUME PacketHasRoom == MaxPacket \in Nat /\ MaxPacket >= 6

VARIABLES
    phase,        \* where rpcHandler is
    rpc,          \* RPCs received
    script,       \* the sequence of the current RPC
    pos,          \* position of the next command in it
    request,      \* m_request: its transactions, in order
    reqSize,      \* its m_size, in words
    respSize,     \* its m_expectedResponseSize
    cmdBuffer,    \* m_cmdBuffer: positions in script
    buf, front,   \* m_fifo: the frames up to m_currentBack, and m_currentFront
    wordsToRead, expectOr, execOnRead, failure, \* locals of parseSequence
    block,        \* readBlock: words read of the block, out of how many
    response,     \* m_fredResponse after its first line
    reply,        \* its first line, once it is sent
    executed      \* ghost: what the device was made to do for this RPC, in order

reqVars   == <<request, reqSize, respSize>>
fifoVars  == <<buf, front>>
parseVars == <<wordsToRead, expectOr, execOnRead, failure>>
rpcVars   == <<rpc, script, reply>>
vars == <<phase, pos, rpcVars, reqVars, cmdBuffer, fifoVars, parseVars, block,
          response, executed>>

\* Any word but the one that was asked for.
NoValue == <<>>
Word(k, j) == <<rpc, k, j>>
Frame(k, j, value) == [kind |-> "frame", asked |-> Word(k, j), data |-> value]
Line(kind, k) == [kind |-> kind, asked |-> Word(k, 0), data |-> NoValue]

\* Swt::responseSize()
ResponseSize(c) ==
    CASE c.mode \in {"read", "and", "sum"} -> 1
      [] c.mode = "block" -> c.n
      [] OTHER -> 0

-----------------------------------------------------------------------------
(* IPbusRequest and the SWT FIFO.                                          *)

RequestWords(mode) ==
    CASE mode = "read" -> 2 [] mode = "or" -> 4 [] OTHER -> 3

ResponseWords(mode) == IF mode = "write" THEN 1 ELSE 2

ResetRequest == request' = <<>> /\ reqSize' = 1 /\ respSize' = 1

\* A request that has no room drops the transaction; a reply that would have
\* none throws.  The first test does not count all the words of an RMW.
AddTransaction(mode, k, slot, next) ==
    IF reqSize + 2 > MaxPacket
      THEN UNCHANGED reqVars /\ phase' = next
      ELSE /\ request' = Append(request, [asked |-> Word(k, 1), slot |-> slot])
           /\ reqSize' = reqSize + RequestWords(mode)
           /\ respSize' = respSize + ResponseWords(mode)
           /\ phase' = IF respSize' > MaxPacket THEN "threw" ELSE next

FifoSize == Len(buf) - front

\* prepareResponseFrame(): the frame goes in now, its data when it comes.
PrepareFrame(k) ==
    /\ buf' = Append(buf, Frame(k, 1, NoValue))
    /\ UNCHANGED front

\* Mutant: the data of the last transaction is not copied.
FilledButLast(p) ==
    [i \in 1 .. Len(buf) |->
       LET T == {t \in 1 .. p : t < p /\ request[t].slot = i}
       IN  IF T = {} THEN buf[i]
           ELSE LET last == CHOOSE t \in T : \A u \in T : u <= t
                IN  [buf[i] EXCEPT !.data = request[last].asked]]

\* processResponse() has copied the data of the first p transactions.
Filled(p) ==
    [i \in 1 .. Len(buf) |->
       LET T == {t \in 1 .. p : request[t].slot = i}
       IN  IF T = {} THEN buf[i]
           ELSE LET last == CHOOSE t \in T : \A u \in T : u <= t
                IN  [buf[i] EXCEPT !.data = request[last].asked]]

\* The reply to the next one was an error: it is refused, but only after the
\* words that follow its header have been copied.
Spoilt(p) ==
    [i \in 1 .. Len(buf) |->
       IF request[p + 1].slot = i THEN [buf[i] EXCEPT !.data = NoValue]
                                  ELSE Filled(p)[i]]

-----------------------------------------------------------------------------
(* CruCommandExecutor: the commands of the buffer, against the FIFO f.     *)
(* emulated is what the real FIFO would hold at that command.              *)

\* Pops n frames into the response, or fails when the FIFO runs out.
Pop(s, f, n) ==
    LET m == IF s.front + n > Len(f) THEN Len(f) - s.front ELSE n
    IN  [s EXCEPT !.resp = @ \o SubSeq(f, s.front + 1, s.front + m),
                  !.front = @ + m, !.emulated = @ - m, !.threw = (m < n)]

ExecuteCommand(s, k, f) ==
    LET c == script[k]
    IN  IF s.threw THEN s ELSE
        CASE c.type = "write" ->
               [s EXCEPT !.resp = Append(@, Line("ack", k)),
                         !.emulated = @ + ResponseSize(c)]
          [] c.type = "wait" -> [s EXCEPT !.resp = Append(@, Line("wait", k))]
          [] c.type = "read" ->
               IF s.emulated = 0 THEN [s EXCEPT !.threw = TRUE]
                                 ELSE Pop(s, f, s.emulated)
          [] c.type = "readcnt" ->
               IF s.emulated = 0 THEN [s EXCEPT !.threw = TRUE]
               ELSE LET n == IF c.n < s.emulated THEN c.n ELSE s.emulated
                        r == Pop(s, f, n)
                    IN  [r EXCEPT !.threw = @ \/ c.n # s.emulated]
          [] OTHER -> s

\* The FIFO's memory is reused only when a whole buffer leaves it empty.
Execute(commands, f, initial, next) ==
    LET start == [emulated |-> initial, front |-> front, resp |-> response,
                  threw |-> FALSE]
        after[n \in 0 .. Len(commands)] ==
          IF n = 0 THEN start ELSE ExecuteCommand(after[n - 1], commands[n], f)
        end == after[Len(commands)]
        clear == ~end.threw /\ end.front = Len(f)
    IN  /\ response' = end.resp
        /\ front' = IF clear THEN 0 ELSE end.front
        /\ buf' = IF clear THEN <<>> ELSE f
        /\ cmdBuffer' = IF end.threw THEN commands ELSE <<>>
        /\ phase' = IF end.threw THEN "threw" ELSE next

-----------------------------------------------------------------------------
(* executeTransactions(): one packet, then the commands it stood for.  The *)
(* device has carried out e transactions, or refused them one by one, and  *)
(* the data of the first p of them is copied.                              *)

Operations(e) == [t \in 1 .. e |-> request[t].asked]
Deliver(e) == executed' = executed \o Operations(e)

Transceived(commands, next) ==
    /\ Deliver(Len(request))
    /\ Execute(commands, Filled(Len(request)), 0, next)
    /\ IF phase' = "threw" THEN UNCHANGED reqVars ELSE ResetRequest

TransceiveFails(commands, next) ==
    /\ \E e \in 0 .. Len(request) : \E p \in 0 .. e :
          /\ Deliver(e)
          /\ buf' = Filled(p) \/ (p < e /\ buf' = Spoilt(p))
    /\ ResetRequest
    /\ cmdBuffer' = commands
    /\ phase' = next
    /\ UNCHANGED <<front, response>>

\* Mutant: the padding has no room for a read-modify-write.
FullForReads == reqSize + 2 >= MaxPacket

Full == reqSize + 4 >= MaxPacket

\* The head of parseSequence's loop.
Flush ==
    /\ phase = "next" /\ ~failure /\ pos <= Len(script) /\ Full
    /\ \/ Transceived(cmdBuffer, "command") /\ UNCHANGED failure
       \/ TransceiveFails(cmdBuffer, "command") /\ failure' = TRUE
    /\ UNCHANGED <<pos, rpcVars, wordsToRead, expectOr, execOnRead, block>>

NoFlush ==
    /\ phase = "next" /\ ~failure /\ pos <= Len(script) /\ ~Full
    /\ phase' = "command"
    /\ UNCHANGED <<pos, rpcVars, reqVars, cmdBuffer, fifoVars, parseVars, block,
                   response, executed>>

-----------------------------------------------------------------------------
(* The commands.  Each one is pushed on the buffer first.                  *)

Cmd == script[pos]
Buffered == Append(cmdBuffer, pos)

\* The next command is of this type and there is room for it.
Takes(type) ==
    /\ phase = "command"
    /\ Cmd.type = type
    /\ Len(cmdBuffer) < Capacity
    /\ pos' = pos + 1
    /\ UNCHANGED rpcVars

\* After a command that is not an AND, an AND still waiting is an error.
Onward == IF expectOr THEN "threw" ELSE "next"

Defer(next) ==
    /\ cmdBuffer' = Buffered
    /\ phase' = next
    /\ UNCHANGED response

\* getNextCmd() or push() throws.
BadCommand ==
    /\ phase = "command"
    /\ Cmd.type = "invalid" \/ Len(cmdBuffer) = Capacity
    /\ phase' = "threw"
    /\ UNCHANGED <<pos, rpcVars, reqVars, cmdBuffer, fifoVars, parseVars, block,
                   response, executed>>

\* Mutant: sc_reset leaves the frames of the sequence before.
ScResetKeepsFrames ==
    /\ Takes("reset")
    /\ wordsToRead' = 0
    /\ Defer(Onward)
    /\ UNCHANGED <<reqVars, fifoVars, expectOr, execOnRead, failure, block, executed>>

ScReset ==
    /\ Takes("reset")
    /\ buf' = <<>> /\ front' = 0
    /\ wordsToRead' = 0
    /\ Defer(Onward)
    /\ UNCHANGED <<reqVars, expectOr, execOnRead, failure, block, executed>>

Wait ==
    /\ Takes("wait")
    /\ Defer(Onward)
    /\ UNCHANGED <<reqVars, fifoVars, parseVars, block, executed>>

\* A read with nothing to read, or of another number of words, throws.
ReadThrows ==
    /\ \/ Takes("read") /\ wordsToRead = 0
       \/ Takes("readcnt") /\ (wordsToRead = 0 \/ wordsToRead # Cmd.n)
    /\ Defer("threw")
    /\ UNCHANGED <<reqVars, fifoVars, parseVars, block, executed>>

\* After a block read the frames are there, so the buffer is executed now,
\* and so is a read whose write was executed with the previous packet.
ReadNow ==
    /\ \/ Takes("read") /\ (execOnRead \/ (Len(cmdBuffer) = 0 /\ FifoSize > 0))
       \/ Takes("readcnt") /\ wordsToRead = Cmd.n /\ execOnRead
    /\ wordsToRead # 0
    /\ Execute(Buffered, buf, FifoSize, Onward)
    /\ execOnRead' = FALSE
    /\ wordsToRead' = 0
    /\ UNCHANGED <<reqVars, expectOr, failure, block, executed>>

ReadLater ==
    /\ ~execOnRead
    /\ \/ Takes("read") /\ (Len(cmdBuffer) > 0 \/ FifoSize = 0)
       \/ Takes("readcnt") /\ wordsToRead = Cmd.n
    /\ wordsToRead # 0
    /\ wordsToRead' = 0
    /\ Defer(Onward)
    /\ UNCHANGED <<reqVars, fifoVars, expectOr, execOnRead, failure, block,
                   executed>>

-----------------------------------------------------------------------------
(* The write commands, by the transaction of their frame.                  *)

Writes(mode) ==
    /\ Takes("write")
    /\ Cmd.mode = mode
    /\ wordsToRead' = wordsToRead + ResponseSize(Cmd)

\* Swt::type() throws.
UnknownFrame ==
    /\ Writes("unknown")
    /\ Defer("threw")
    /\ UNCHANGED <<reqVars, fifoVars, expectOr, execOnRead, failure, block,
                   executed>>

\* A frame that is to be completed does not fit in the FIFO.
WriteOverflows ==
    /\ Len(buf) = FifoLimit
    /\ \/ Writes("read") \/ Writes("sum")
       \/ Writes("or") /\ expectOr /\ Cmd.addr = script[Last(cmdBuffer)].addr
    /\ Defer("threw")
    /\ UNCHANGED <<reqVars, fifoVars, expectOr, execOnRead, failure, block,
                   executed>>

\* Mutant: the FIFO's limit is not tested.
WriteReadUnlimited ==
    /\ \E mode \in {"read", "sum"} :
          /\ Writes(mode)
          /\ PrepareFrame(pos)
          /\ AddTransaction(mode, pos, Len(buf) + 1, Onward)
    /\ cmdBuffer' = Buffered
    /\ UNCHANGED <<response, expectOr, execOnRead, failure, block, executed>>

WriteRead ==
    /\ Len(buf) < FifoLimit
    /\ \E mode \in {"read", "sum"} :
          /\ Writes(mode)
          /\ PrepareFrame(pos)
          /\ AddTransaction(mode, pos, Len(buf) + 1, Onward)
    /\ cmdBuffer' = Buffered
    /\ UNCHANGED <<response, expectOr, execOnRead, failure, block, executed>>

WriteWrite ==
    /\ Writes("write")
    /\ AddTransaction("write", pos, 0, Onward)
    /\ cmdBuffer' = Buffered
    /\ UNCHANGED <<response, fifoVars, expectOr, execOnRead, failure, block,
                   executed>>

\* Mutant: the AND already takes the room of the pair's transaction.
WriteAndReserves ==
    /\ Writes("and")
    /\ expectOr' = TRUE
    /\ reqSize' = reqSize + RequestWords("or")
    /\ Defer("next")
    /\ UNCHANGED <<request, respSize, fifoVars, execOnRead, failure, block, executed>>

WriteAnd ==
    /\ Writes("and")
    /\ expectOr' = TRUE
    /\ Defer("next")
    /\ UNCHANGED <<reqVars, fifoVars, execOnRead, failure, block, executed>>

\* Without an AND just before it, or with one for another address, it throws.
WriteOrThrows ==
    /\ Writes("or")
    /\ expectOr => Cmd.addr # script[Last(cmdBuffer)].addr
    /\ Defer("threw")
    /\ UNCHANGED <<reqVars, fifoVars, expectOr, execOnRead, failure, block,
                   executed>>

WriteOr ==
    /\ Writes("or")
    /\ expectOr /\ Cmd.addr = script[Last(cmdBuffer)].addr
    /\ Len(buf) < FifoLimit
    /\ expectOr' = FALSE
    /\ PrepareFrame(Last(cmdBuffer))
    /\ AddTransaction("or", Last(cmdBuffer), Len(buf) + 1, "next")
    /\ cmdBuffer' = Buffered
    /\ UNCHANGED <<response, execOnRead, failure, block, executed>>

\* A block read first executes what is pending, its own write included.
WriteBlock ==
    /\ Writes("block")
    /\ \/ /\ Transceived(Buffered, IF Cmd.n > FifoLimit THEN Onward ELSE "block")
          /\ block' = [done |-> 0, of |-> Cmd.n]
          /\ IF Cmd.n > FifoLimit THEN failure' = TRUE /\ execOnRead' = TRUE
                                  ELSE UNCHANGED <<failure, execOnRead>>
       \/ /\ TransceiveFails(Buffered, Onward)
          /\ failure' = TRUE
          /\ UNCHANGED <<block, execOnRead>>
    /\ UNCHANGED expectOr

-----------------------------------------------------------------------------
(* readBlock(): packets of two transactions until the block is complete.   *)

MaxPayload == MaxPacket - 3

\* The words of the first transaction, and of the packet.
SizeA(wordLeft) == IF wordLeft > MaxPayload \div 2 THEN MaxPayload \div 2 ELSE wordLeft
PacketWords(wordLeft) ==
    CASE SizeA(wordLeft) = wordLeft -> wordLeft
      [] SizeA(wordLeft) < wordLeft /\ wordLeft < MaxPayload -> wordLeft
      [] OTHER -> MaxPayload

BlockLeft == block.of - block.done
BlockOps ==
    IF SizeA(BlockLeft) < BlockLeft
      THEN <<Word(pos - 1, block.done + 1), Word(pos - 1, block.done + SizeA(BlockLeft) + 1)>>
      ELSE <<Word(pos - 1, block.done + 1)>>

BlockFrames(n) ==
    [j \in 1 .. n |-> Frame(pos - 1, block.done + j, Word(pos - 1, block.done + j))]

\* Mutant: push() does not test the FIFO's limit.
BlockPacketUnlimited ==
    /\ phase = "block" /\ block.done < block.of
    /\ executed' = executed \o BlockOps
    /\ buf' = buf \o BlockFrames(PacketWords(BlockLeft))
    /\ block' = [block EXCEPT !.done = @ + PacketWords(BlockLeft)]
    /\ UNCHANGED <<phase, pos, rpcVars, reqVars, cmdBuffer, front, parseVars,
                   response>>

\* The packet's own request: it is left behind when push() throws.
KeepBlockRequest ==
    /\ request' = [t \in 1 .. Len(BlockOps) |-> [asked |-> BlockOps[t], slot |-> 0]]
    /\ reqSize' = 1 + 2 * Len(BlockOps)
    /\ respSize' = 1 + Len(BlockOps) + PacketWords(BlockLeft)

BlockPacket ==
    /\ phase = "block" /\ block.done < block.of
    /\ LET size == PacketWords(BlockLeft)
           room == FifoLimit - Len(buf)
       IN  /\ executed' = executed \o BlockOps
           /\ IF size <= room
                THEN /\ buf' = buf \o BlockFrames(size)
                     /\ block' = [block EXCEPT !.done = @ + size]
                     /\ UNCHANGED <<phase, reqVars>>
                ELSE /\ buf' = buf \o BlockFrames(room)     \* push() throws
                     /\ phase' = "threw"
                     /\ KeepBlockRequest
                     /\ UNCHANGED block
    /\ UNCHANGED <<pos, rpcVars, cmdBuffer, front, parseVars, response>>

BlockFails ==
    /\ phase = "block" /\ block.done < block.of
    /\ \E e \in 0 .. Len(BlockOps) : executed' = executed \o SubSeq(BlockOps, 1, e)
    /\ failure' = TRUE /\ execOnRead' = TRUE
    /\ phase' = Onward
    /\ UNCHANGED <<pos, rpcVars, reqVars, cmdBuffer, fifoVars, wordsToRead,
                   expectOr, block, response>>

\* The result of readBlock() is the new value of failure, whatever it was.
BlockDone ==
    /\ phase = "block" /\ block.done >= block.of
    /\ failure' = FALSE /\ execOnRead' = TRUE
    /\ phase' = Onward
    /\ UNCHANGED <<pos, rpcVars, reqVars, cmdBuffer, fifoVars, wordsToRead,
                   expectOr, block, response, executed>>

-----------------------------------------------------------------------------
(* rpcHandler() and processRequest().                                      *)

Answer(line) == phase' = "idle" /\ reply' = line

\* Mutant: resetState() forgets the request.
SendRpcKeepsRequest ==
    /\ phase = "idle"
    /\ rpc < MaxRpc
    /\ rpc' = rpc + 1
    /\ script' \in Script[rpc']
    /\ cmdBuffer' = <<>> /\ response' = <<>>
    /\ pos' = 1 /\ executed' = <<>>
    /\ wordsToRead' = 0 /\ expectOr' = FALSE /\ execOnRead' = FALSE
    /\ failure' = FALSE /\ block' = [done |-> 0, of |-> 0]
    /\ \/ Answer("failure")
       \/ script' = <<>> /\ Answer("success")
       \/ script' # <<>> /\ phase' = "next" /\ reply' = "none"
    /\ UNCHANGED <<fifoVars, reqVars>>

SendRpc ==
    /\ phase = "idle"
    /\ rpc < MaxRpc
    /\ rpc' = rpc + 1
    /\ script' \in Script[rpc']
    /\ ResetRequest /\ cmdBuffer' = <<>> /\ response' = <<>>      \* resetState()
    /\ pos' = 1 /\ executed' = <<>>
    /\ wordsToRead' = 0 /\ expectOr' = FALSE /\ execOnRead' = FALSE
    /\ failure' = FALSE /\ block' = [done |-> 0, of |-> 0]
    /\ \/ Answer("failure")                        \* the device is not available
       \/ script' = <<>> /\ Answer("success")
       \/ script' # <<>> /\ phase' = "next" /\ reply' = "none"
    /\ UNCHANGED fifoVars

\* Mutant: the result of the last packet is ignored.
FinishAnyway ==
    /\ phase = "next" /\ ~failure /\ pos > Len(script)
    /\ Transceived(cmdBuffer, "idle") \/ TransceiveFails(cmdBuffer, "idle")
    /\ reply' = IF phase' = "threw" THEN reply ELSE "success"
    /\ UNCHANGED <<pos, rpc, script, parseVars, block>>

\* After the last command what is still pending is executed.
Finish ==
    /\ phase = "next" /\ ~failure /\ pos > Len(script)
    /\ \/ /\ Transceived(cmdBuffer, "idle")
          /\ reply' = IF phase' = "threw" THEN reply ELSE "success"
       \/ /\ TransceiveFails(cmdBuffer, "idle")
          /\ reply' = "failure"
    /\ UNCHANGED <<pos, rpc, script, parseVars, block>>

\* Mutant: exceptions are not caught.
GiveUpOnFailureOnly ==
    /\ phase = "next" /\ failure
    /\ Answer("failure")
    /\ UNCHANGED <<pos, rpc, script, reqVars, cmdBuffer, fifoVars, parseVars,
                   block, response, executed>>

\* A failure ends the loop; an exception is caught in processRequest().
GiveUp ==
    /\ phase = "threw" \/ (phase = "next" /\ failure)
    /\ Answer("failure")
    /\ UNCHANGED <<pos, rpc, script, reqVars, cmdBuffer, fifoVars, parseVars,
                   block, response, executed>>

-----------------------------------------------------------------------------

Init ==
    /\ phase = "idle" /\ rpc = 0 /\ script = <<>> /\ reply = "none" /\ pos = 1
    /\ request = <<>> /\ reqSize = 1 /\ respSize = 1
    /\ cmdBuffer = <<>> /\ buf = <<>> /\ front = 0
    /\ wordsToRead = 0 /\ expectOr = FALSE /\ execOnRead = FALSE
    /\ failure = FALSE /\ block = [done |-> 0, of |-> 0]
    /\ response = <<>> /\ executed = <<>>

Step ==
    \/ Flush \/ NoFlush
    \/ BadCommand \/ ScReset \/ Wait \/ ReadThrows \/ ReadNow \/ ReadLater
    \/ UnknownFrame \/ WriteOverflows \/ WriteRead \/ WriteWrite \/ WriteAnd \/ WriteOrThrows
    \/ WriteOr \/ WriteBlock
    \/ BlockPacket \/ BlockFails \/ BlockDone
    \/ Finish \/ GiveUp

Next == SendRpc \/ Step

Spec == Init /\ [][Next]_vars

\* The handler's thread runs; clients call when they like.
FairSpec == Spec /\ WF_vars(Step)

-----------------------------------------------------------------------------
(* The promise: the commands take effect one by one, in order, on a FIFO   *)
(* that holds every frame as soon as its write has been executed.          *)

RefCommand(s, k) ==
    LET c == script[k]
        ack == [s EXCEPT !.resp = Append(@, Line("ack", k))]
    IN  CASE c.type = "reset" -> [s EXCEPT !.fifo = <<>>]
          [] c.type = "wait" -> [s EXCEPT !.resp = Append(@, Line("wait", k))]
          [] c.type \in {"read", "readcnt"} ->
               [s EXCEPT !.resp = @ \o s.fifo, !.fifo = <<>>]
          [] c.mode = "and" -> [ack EXCEPT !.lastAnd = k]
          [] c.mode = "or" ->
               [ack EXCEPT !.fifo = Append(@, Frame(s.lastAnd, 1, Word(s.lastAnd, 1)))]
          [] OTHER ->
               [ack EXCEPT !.fifo = @ \o [j \in 1 .. ResponseSize(c) |->
                                            Frame(k, j, Word(k, j))]]

\* The state after each command.
RefAfter ==
    LET after[k \in 0 .. Len(script)] ==
            IF k = 0 THEN [fifo |-> <<>>, resp |-> <<>>, lastAnd |-> 0] ELSE RefCommand(after[k - 1], k)
    IN  after

Reference == RefAfter[Len(script)].resp

-----------------------------------------------------------------------------
(* Properties.                                                             *)

Operation == Nat \X Nat \X Nat
Entry == [kind : {"frame", "ack", "wait"}, asked : Operation, data : Operation \cup {NoValue}]

\* What the variables and the buffers hold, and how far the buffers are filled.
TypeOK ==
    /\ phase \in {"idle", "next", "command", "block", "threw"}
    /\ reply \in {"none", "success", "failure"}
    /\ rpc \in 0 .. MaxRpc /\ script \in Seq(Command)
    /\ pos \in 1 .. Len(script) + 1 /\ (phase = "command" => pos <= Len(script))
    /\ request \in Seq([asked : Operation, slot : 0 .. FifoLimit])
    /\ cmdBuffer \in Seq(1 .. pos - 1)
    /\ buf \in Seq(Entry) /\ Len(buf) <= FifoLimit /\ front \in 0 .. Len(buf)
    /\ wordsToRead \in Nat
    /\ expectOr \in BOOLEAN /\ execOnRead \in BOOLEAN /\ failure \in BOOLEAN
    /\ block \in [done : Nat, of : Nat]
    /\ response \in Seq(Entry) /\ executed \in Seq(Operation)

\* The request and the reply it asks for fit in an IPbus packet, whatever the
\* sequence: the padding of isIPbusPacketFull covers what addTransaction's own
\* test forgets.
PacketNeverOverflows == reqSize <= MaxPacket /\ respSize <= MaxPacket

\* The indices of the FIFO stay in its memory, and in order, although frames
\* are prepared, pushed and popped at different times and never moved.
FifoWithinLimit == front <= Len(buf) /\ Len(buf) <= FifoLimit

Before(v, w) == v[2] < w[2] \/ (v[2] = w[2] /\ v[3] < w[3])

\* Over all the packets of an RPC, failed ones included, the device executes
\* the operations of its sequence in their order and none of them twice.
ExecutedInOrder ==
    /\ \A i \in DOMAIN executed : executed[i][1] = rpc
    /\ \A i, j \in DOMAIN executed : i < j => Before(executed[i], executed[j])

\* An OR is paired with m_cmdBuffer(1), the command before it: no packet is
\* executed between an AND and its OR, which would empty the buffer and leave
\* that command behind it.
AndStaysBuffered ==
    phase = "command" /\ expectOr => cmdBuffer # <<>> /\ Last(cmdBuffer) = pos - 1

Answered(line) == phase = "idle" /\ reply = line

\* The positions of the operations the device has to execute.
DeviceOps ==
    {k \in DOMAIN script : script[k].mode \in {"read", "write", "and", "sum"}
                            \/ (script[k].mode = "block" /\ script[k].n > 0)}

\* A reply "success" means that the device has executed the whole sequence.
SuccessMeansExecuted ==
    Answered("success") => \A k \in DeviceOps : \E i \in DOMAIN executed : executed[i][2] = k

\* A reply "success" carries exactly what the commands would have answered one
\* by one: every write acknowledged, every read with its frames, each frame
\* complete, whatever the packets the operations were split into.
SuccessMatchesReference == Answered("success") => response = Reference

\* Every RPC is answered.
RpcReplied == phase # "idle" ~> phase = "idle"

-----------------------------------------------------------------------------
(* Why they hold: the inductive invariant.                                 *)

\* There is room for a read-modify-write at every command, and the reply is no
\* longer than the request, except that of a block.
PacketInv ==
    /\ reqSize \in 1 .. MaxPacket /\ respSize \in 1 .. MaxPacket
    /\ phase \in {"next", "command", "block"} => respSize <= reqSize
    /\ phase = "command" => ~Full

Ordered(ops) == \A i, j \in DOMAIN ops : i < j => Before(ops[i], ops[j])
AllBefore(ops, w) == \A i \in DOMAIN ops : ops[i][1] = w[1] /\ Before(ops[i], w)

\* The AND of a pair has been taken and its OR has not.
AndWaits == expectOr /\ phase \in {"next", "command"}

\* The first operation that the rest of the sequence may still ask for.
NextWord ==
    CASE phase = "block" -> Word(pos - 1, block.done + 1)
      [] AndWaits -> Word(pos - 1, 1)
      [] OTHER -> Word(pos, 1)

\* What was executed, what waits in the request and what the sequence may still
\* ask for follow one another; an AND that waits is the last command in the
\* buffer, which is not flushed until its OR has come.
OrderInv ==
    /\ Ordered(executed) /\ AllBefore(executed, NextWord)
    /\ phase \in {"next", "command"} =>
          /\ Ordered(Operations(Len(request))) /\ AllBefore(Operations(Len(request)), NextWord)
          /\ \A t \in DOMAIN request : AllBefore(executed, request[t].asked)
    /\ phase = "block" => request = <<>>
    /\ AndWaits => cmdBuffer # <<>> /\ Last(cmdBuffer) = pos - 1 /\ ~Full

\* Every step of parseSequence, and every RPC, leaves the buffers well formed,
\* room in the packet, and the operations in their order.
IInv == TypeOK /\ PacketInv /\ OrderInv

=============================================================================
