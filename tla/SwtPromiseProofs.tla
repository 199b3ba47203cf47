-------------------------- MODULE SwtPromiseProofs --------------------------
(***************************************************************************)
(* What the answer "success" promises, for every set of sequences that     *)
(* keep the discipline of SwtPromise and every size of packet, FIFO and    *)
(* command buffer.                                                         *)
(***************************************************************************)
EXTENDS SwtPromise, SwtTranslatorProofs

\* Only a write asks the device for something.
LEMMA CommandKinds ==
  ASSUME NEW c \in Command
  PROVE  /\ c.type \in {"reset", "read", "readcnt", "wait", "invalid", "write"}
         /\ c.type # "write" => c.mode = "none"
         /\ c.type = "write" =>
               c.mode \in {"read", "write", "and", "or", "sum", "block", "unknown"}
BY DEF Command

\* Once a packet is executed, what was in hand has been executed.
LEMMA DeliveredInHand ==
  ASSUME TypeOK, Deliver(Len(request)), NEW k, InHand(k)
  PROVE  \E i \in DOMAIN executed' : executed'[i][2] = k
<1>1. Len(request) \in Nat /\ Len(request) \in 0 .. Len(request) /\ executed \in Seq(Operation)
      /\ DOMAIN request = 1 .. Len(request)
  BY DEF TypeOK
<1>2. PICK ops \in Seq(Operation) :
           /\ Len(ops) = Len(request) /\ executed' = executed \o ops
           /\ \A t \in 1 .. Len(request) : ops[t] = request[t].asked
  BY <1>1, OperationsWords DEF Deliver
<1>4. /\ DOMAIN executed' = 1 .. Len(executed) + Len(request) /\ Len(executed) \in Nat
      /\ DOMAIN executed = 1 .. Len(executed)
      /\ \A i \in 1 .. Len(executed) : executed'[i] = executed[i]
      /\ \A t \in 1 .. Len(request) : executed'[Len(executed) + t] = ops[t]
  <2>1. /\ executed \o ops \in Seq(Operation) /\ Len(executed \o ops) = Len(executed) + Len(ops)
        /\ \A i \in 1 .. Len(executed) : (executed \o ops)[i] = executed[i]
        /\ \A j \in 1 .. Len(ops) : (executed \o ops)[Len(executed) + j] = ops[j]
    <3>1. executed \in Seq(Operation) /\ ops \in Seq(Operation)
      BY <1>1
    <3>2. QED
      BY <3>1, Joined
  <2>2. QED
    BY <1>1, <1>2, <2>1
<1>5. CASE \E i \in DOMAIN executed : executed[i][2] = k
  <2>1. PICK i \in 1 .. Len(executed) : executed[i][2] = k
    BY <1>4, <1>5
  <2>2. i \in DOMAIN executed' /\ executed'[i][2] = k
    BY <1>1, <1>4, <2>1
  <2>3. QED
    BY <2>2
<1>6. CASE \E t \in DOMAIN request : request[t].asked[2] = k
  <2>1. PICK t \in 1 .. Len(request) : request[t].asked[2] = k
    BY <1>1, <1>6
  <2>2. Len(executed) + t \in DOMAIN executed' /\ executed'[Len(executed) + t][2] = k
    BY <1>1, <1>2, <1>4, <2>1
  <2>3. QED
    BY <2>2
<1>7. QED
  BY <1>5, <1>6 DEF InHand

\* What is in hand stays there when more is executed and nothing leaves the
\* request.
LEMMA StaysInHand ==
  ASSUME TypeOK, request' = request, NEW ops \in Seq(Operation), executed' = executed \o ops
  PROVE  /\ \A k : InHand(k) => InHand(k)'
         /\ \A j \in 1 .. Len(ops) : \E i \in DOMAIN executed' : executed'[i] = ops[j]
<1>1. executed \in Seq(Operation) /\ Len(ops) \in Nat /\ Len(executed) \in Nat
      /\ DOMAIN executed = 1 .. Len(executed)
  BY DEF TypeOK
<1>2. /\ DOMAIN executed' = 1 .. Len(executed) + Len(ops)
      /\ \A i \in 1 .. Len(executed) : executed'[i] = executed[i]
      /\ \A j \in 1 .. Len(ops) : executed'[Len(executed) + j] = ops[j]
  <2>1. /\ executed \o ops \in Seq(Operation) /\ Len(executed \o ops) = Len(executed) + Len(ops)
        /\ \A i \in 1 .. Len(executed) : (executed \o ops)[i] = executed[i]
        /\ \A j \in 1 .. Len(ops) : (executed \o ops)[Len(executed) + j] = ops[j]
    BY <1>1, Joined
  <2>2. QED
    BY <1>1, <2>1
<1>3. \A i \in DOMAIN executed : i \in DOMAIN executed' /\ executed'[i] = executed[i]
  BY <1>1, <1>2
<1>4. \A k : InHand(k) => InHand(k)'
  BY <1>3 DEF InHand
<1>5. \A j \in 1 .. Len(ops) : Len(executed) + j \in DOMAIN executed'
  BY <1>1, <1>2
<1>6. QED
  BY <1>2, <1>4, <1>5

\* A transaction that is asked for is in hand, with all that was.
LEMMA AskedInHand ==
  ASSUME TypeOK, executed' = executed, NEW slot, NEW w \in Operation,
         request' = Append(request, [asked |-> w, slot |-> slot])
  PROVE  InHand(w[2])' /\ \A k : InHand(k) => InHand(k)'
<1>1. Len(request) \in Nat /\ DOMAIN request = 1 .. Len(request)
      /\ request \in Seq([asked : Operation, slot : 0 .. FifoLimit])
  BY DEF TypeOK
<1>2. /\ DOMAIN request' = 1 .. Len(request) + 1
      /\ \A t \in 1 .. Len(request) : request'[t] = request[t]
      /\ request'[Len(request) + 1].asked = w
  BY <1>1
<1>3. \A t \in DOMAIN request : t \in DOMAIN request' /\ request'[t] = request[t]
  BY <1>1, <1>2
<1>4. Len(request) + 1 \in DOMAIN request'
  BY <1>1, <1>2
<1>5. QED
  BY <1>2, <1>3, <1>4 DEF InHand

-----------------------------------------------------------------------------
(* Nothing is left out.                                                    *)

LEMMA StopsInHand ==
  ASSUME phase' \in {"idle", "threw"}
  PROVE  AllInHand'
BY DEF AllInHand, Going

\* By the discipline of the clients only an OR follows an AND.
LEMMA OnlyOrAfterAnd ==
  ASSUME TypeOK, AndsArePaired(script), AllInHand, phase \in {"next", "command"}, expectOr
  PROVE  pos <= Len(script) /\ Cmd.mode = "or"
<1>1. pos > 1 /\ script[pos - 1].mode = "and"
  BY DEF AllInHand
<1>2. pos \in Nat /\ pos <= Len(script) + 1 /\ Len(script) \in Nat /\ DOMAIN script = 1 .. Len(script)
  BY DEF TypeOK
<1>3. pos - 1 \in DOMAIN script /\ (pos - 1) + 1 = pos
  BY <1>1, <1>2
<1>4. pos - 1 < Len(script) /\ script[pos].mode = "or"
  BY <1>1, <1>3 DEF AndsArePaired
<1>5. QED
  BY <1>2, <1>4 DEF Cmd

\* A command is done with: what it asked for is in hand, unless it is an AND.
LEMMA TakenInHand ==
  ASSUME TypeOK, AndsArePaired(script), AllInHand, phase = "command", phase' = "next",
         script' = script, pos' = pos + 1, expectOr' <=> Cmd.mode = "and",
         Going' => /\ Going
                   /\ \A k : InHand(k) => InHand(k)'
                   /\ \A k \in DeviceOps :
                         (k = pos /\ Cmd.mode # "and") \/ (k = pos - 1 /\ expectOr) => InHand(k)'
  PROVE  AllInHand'
<1>1. pos \in Nat /\ pos >= 1 /\ pos <= Len(script)
  BY DEF TypeOK
<1>2. pos' > 1 /\ pos' - 1 = pos /\ script'[pos' - 1] = Cmd
  BY <1>1 DEF Cmd
<1>3. ASSUME Going', NEW k \in DeviceOps, Due(k)'
      PROVE  InHand(k)'
  <2>0. k \in Nat /\ k < pos + 1
    BY <1>3, <1>1 DEF Due, DeviceOps, TypeOK
  <2>1. CASE k = pos
    <3>1. ~(expectOr' /\ phase' \in {"next", "command"})
      BY <1>2, <1>3, <2>1 DEF Due, AndWaits
    <3>2. Cmd.mode # "and"
      BY <3>1
    <3>3. QED
      BY <1>3, <2>1, <3>2
  <2>2. CASE k # pos /\ (k = pos - 1 => ~expectOr)
    <3>1. Due(k)
      BY <1>1, <2>0, <2>2 DEF Due, AndWaits
    <3>2. InHand(k)
      BY <1>3, <3>1 DEF AllInHand
    <3>3. QED
      BY <1>3, <3>2
  <2>3. CASE k = pos - 1 /\ expectOr
    BY <1>3, <2>3
  <2>4. QED
    BY <2>1, <2>2, <2>3
<1>4. DeviceOps' = DeviceOps
  BY DEF DeviceOps
<1>5. QED
  BY <1>2, <1>3, <1>4 DEF AllInHand

\* What the commands that are only deferred do to the pairs.
LEMMA DeferredPairs ==
  ASSUME TypeOK, Defers, phase' = "next"
  PROVE  /\ failure' = failure /\ request' = request /\ executed' = executed
         /\ Cmd.mode = "and" => expectOr'
         /\ Cmd.mode # "and" => Cmd.mode = "none" /\ ~expectOr /\ ~expectOr'
<1>1. phase = "command"
  BY DeferredStep
<1>2. Cmd \in Command
  BY <1>1, BufferedType
<1> USE <1>2, CommandKinds DEF Takes, Defer, Onward, Writes, reqVars, parseVars
<1>3. CASE ScReset
  BY <1>3 DEF ScReset
<1>4. CASE Wait
  BY <1>4 DEF Wait
<1>5. CASE ReadLater
  BY <1>5 DEF ReadLater
<1>6. CASE WriteAnd
  BY <1>6 DEF WriteAnd
<1>7. CASE ReadThrows \/ UnknownFrame \/ WriteOverflows \/ WriteOrThrows
  BY <1>7 DEF ReadThrows, UnknownFrame, WriteOverflows, WriteOrThrows
<1>8. QED
  BY <1>3, <1>4, <1>5, <1>6, <1>7 DEF Defers

LEMMA DeferredInHand ==
  ASSUME IInv, AndsArePaired(script), AllInHand, Defers
  PROVE  AllInHand'
<1>1. TypeOK
  BY DEF IInv
<1>2. phase = "command" /\ phase' \in {"next", "threw"} /\ pos' = pos + 1 /\ script' = script
  BY <1>1, DeferredStep
<1>3. CASE phase' = "threw"
  BY <1>3, StopsInHand
<1>4. CASE phase' = "next"
  <2>1. /\ failure' = failure /\ request' = request /\ executed' = executed
        /\ Cmd.mode = "and" => expectOr'
        /\ Cmd.mode # "and" => Cmd.mode = "none" /\ ~expectOr /\ ~expectOr'
    BY <1>1, <1>4, DeferredPairs
  <2>2. ~expectOr
    BY <1>1, <1>2, <2>1, OnlyOrAfterAnd
  <2>3. \A k : InHand(k) => InHand(k)'
    BY <2>1 DEF InHand
  <2>4. pos \in DeviceOps => Cmd.mode = "and"
    BY <2>1 DEF DeviceOps, Cmd
  <2>5. Going' => Going
    BY <1>2, <2>1 DEF Going
  <2>6. expectOr' <=> Cmd.mode = "and"
    BY <2>1
  <2>7. QED
    BY <1>1, <1>2, <1>4, <2>2, <2>3, <2>4, <2>5, <2>6, TakenInHand
<1>5. QED
  BY <1>2, <1>3, <1>4

\* There is room for every transaction: none is dropped.
LEMMA NoneDropped ==
  ASSUME IInv, phase = "command", NEW mode, NEW k, NEW slot, NEW next,
         AddTransaction(mode, k, slot, next)
  PROVE  request' = Append(request, [asked |-> Word(k, 1), slot |-> slot])
<1>1. reqSize \in Nat /\ reqSize + 4 < MaxPacket
  BY PacketHasRoom DEF IInv, PacketInv, Full
<1>2. ~(reqSize + 2 > MaxPacket)
  BY <1>1, PacketHasRoom
<1>3. QED
  BY <1>2 DEF AddTransaction

\* A transaction and, if it answers, the frame it is to complete.
Asks(k) ==
    IF Cmd.mode = "write"
      THEN /\ request' = Append(request, [asked |-> Word(k, 1), slot |-> 0])
           /\ buf' = buf
      ELSE /\ request' = Append(request, [asked |-> Word(k, 1), slot |-> Len(buf) + 1])
           /\ buf' = Append(buf, Frame(k, 1, NoValue)) /\ Len(buf) < FifoLimit

LEMMA AddedExactly ==
  ASSUME IInv, Adds
  PROVE  /\ Cmd.type = "write" /\ Cmd.mode \in {"read", "sum", "write", "or"}
         /\ Asks(AskedFor) /\ front' = front
         /\ wordsToRead' = wordsToRead + ResponseSize(Cmd)
<1>1. phase = "command"
  BY DEF Adds, WriteRead, WriteWrite, WriteOr, Writes, Takes
<1> USE DEF Writes, Takes, PrepareFrame, fifoVars, Asks, AskedFor
<1>2. CASE WriteRead
  <2>1. PICK mode \in {"read", "sum"} :
           Writes(mode) /\ PrepareFrame(pos) /\ AddTransaction(mode, pos, Len(buf) + 1, Onward)
    BY <1>2 DEF WriteRead
  <2>2. request' = Append(request, [asked |-> Word(pos, 1), slot |-> Len(buf) + 1])
    BY <1>1, <2>1, NoneDropped
  <2>3. QED
    BY <1>2, <2>1, <2>2 DEF WriteRead
<1>3. CASE WriteWrite
  <2>1. request' = Append(request, [asked |-> Word(pos, 1), slot |-> 0])
    BY <1>1, <1>3, NoneDropped DEF WriteWrite
  <2>2. QED
    BY <1>3, <2>1 DEF WriteWrite
<1>4. CASE WriteOr
  <2>1. request' = Append(request, [asked |-> Word(Last(cmdBuffer), 1), slot |-> Len(buf) + 1])
    BY <1>1, <1>4, NoneDropped DEF WriteOr
  <2>2. QED
    BY <1>4, <2>1 DEF WriteOr
<1>5. QED
  BY <1>2, <1>3, <1>4 DEF Adds

LEMMA AddedInHand ==
  ASSUME IInv, AndsArePaired(script), AllInHand, Adds
  PROVE  AllInHand'
<1>1. TypeOK /\ pos \in Nat /\ rpc \in Nat
  BY LimitsAreNumbers DEF IInv, TypeOK
<1>2. /\ phase = "command" /\ phase' \in {"next", "threw"} /\ pos' = pos + 1 /\ script' = script
      /\ executed' = executed /\ failure' = failure
      /\ phase' = "next" => ~expectOr' /\ (Cmd.mode = "or" <=> expectOr)
      /\ AskedFor \in Nat /\ (Cmd.mode = "or" => AskedFor = pos - 1)
  BY AddedStep
<1>3. Cmd.mode \in {"read", "sum", "write", "or"} /\ Asks(AskedFor)
  BY AddedExactly
<1>4. CASE phase' = "threw"
  BY <1>4, StopsInHand
<1>5. CASE phase' = "next"
  <2>1. PICK slot : request' = Append(request, [asked |-> Word(AskedFor, 1), slot |-> slot])
    BY <1>3 DEF Asks
  <2>2. Word(AskedFor, 1) \in Operation /\ Word(AskedFor, 1)[2] = AskedFor
    BY <1>1, <1>2 DEF Word, Operation
  <2>3. \A k : k = AskedFor => InHand(k)'
    BY <1>1, <1>2, <2>1, <2>2, AskedInHand
  <2>4. \A k : InHand(k) => InHand(k)'
    BY <1>1, <1>2, <2>1, <2>2, AskedInHand
  <2>5. \A k \in DeviceOps :
           (k = pos /\ Cmd.mode # "and") \/ (k = pos - 1 /\ expectOr) => k = AskedFor
    <3>1. Cmd.mode = "or" => pos \notin DeviceOps
      BY DEF DeviceOps, Cmd
    <3>2. Cmd.mode # "or" => AskedFor = pos
      BY DEF AskedFor
    <3>3. QED
      BY <1>2, <1>5, <3>1, <3>2
  <2>6. Going' => Going
    BY <1>2 DEF Going
  <2>7. expectOr' <=> Cmd.mode = "and"
    BY <1>2, <1>3, <1>5
  <2>8. QED
    BY <1>1, <1>2, <1>5, <2>3, <2>4, <2>5, <2>6, <2>7, TakenInHand
<1>6. QED
  BY <1>2, <1>4, <1>5

\* A packet in the middle of the sequence: it executes what is in hand, or
\* ends the sequence.
LEMMA PacketInHand ==
  ASSUME TypeOK, NEW commands, NEW next, Transceived(commands, next), phase' # "threw"
  PROVE  /\ phase' = next
         /\ \A k : InHand(k) => InHand(k)' /\ \E i \in DOMAIN executed' : executed'[i][2] = k
<1>1. Deliver(Len(request)) /\ phase' = next
  BY DEF Transceived, Execute
<1>2. QED
  BY <1>1, DeliveredInHand DEF InHand

LEMMA FlushInHand ==
  ASSUME IInv, AllInHand, BlocksHaveRoom, Flush \/ NoFlush
  PROVE  AllInHand'
<1>1. TypeOK /\ pos \in Nat
  BY DEF IInv, TypeOK
<1>2. /\ phase = "next" /\ ~failure /\ pos <= Len(script)
      /\ pos' = pos /\ script' = script /\ expectOr' = expectOr
      /\ phase' \in {"command", "threw"}
      /\ failure' => Full
  BY DEF Flush, NoFlush, Transceived, TransceiveFails, Execute, rpcVars, parseVars
<1>3. CASE phase' = "threw"
  BY <1>3, StopsInHand
<1>4. CASE phase' = "command"
  <2>1. failure' => Cmd'.mode # "block"
    BY <1>2 DEF BlocksHaveRoom, Cmd
  <2>2. ASSUME Going' PROVE \A k : InHand(k) => InHand(k)'
    <3>1. CASE NoFlush
      BY <3>1 DEF NoFlush, InHand, reqVars
    <3>2. CASE Transceived(cmdBuffer, "command")
      BY <1>1, <1>4, <3>2, PacketInHand
    <3>3. CASE Flush /\ failure'
      BY <2>2, <3>3 DEF Going
    <3>4. QED
      BY <3>1, <3>2, <3>3 DEF Flush
  <2>3. Going' => Going /\ \A k : Due(k)' => Due(k)
    <3>1. AndWaits' <=> AndWaits
      BY <1>2, <1>4 DEF AndWaits
    <3>2. QED
      BY <1>2, <1>4, <3>1 DEF Going, Due
  <2>4. DeviceOps' = DeviceOps
    BY <1>2 DEF DeviceOps
  <2>5. Going' => \A k \in DeviceOps' : Due(k)' => InHand(k)'
    BY <2>2, <2>3, <2>4 DEF AllInHand
  <2>6. expectOr' <=> pos' > 1 /\ script'[pos' - 1].mode = "and"
    BY <1>2 DEF AllInHand
  <2>7. QED
    BY <1>4, <2>1, <2>5, <2>6 DEF AllInHand
<1>5. QED
  BY <1>2, <1>3, <1>4

LEMMA ReadInHand ==
  ASSUME IInv, AndsArePaired(script), AllInHand, ReadNow
  PROVE  AllInHand'
<1>1. TypeOK
  BY DEF IInv
<1>2. /\ phase = "command" /\ pos' = pos + 1 /\ script' = script /\ expectOr' = expectOr
      /\ request' = request /\ executed' = executed /\ failure' = failure
      /\ Cmd.type # "write"
      /\ phase' = "threw" \/ (phase' = "next" /\ ~expectOr)
  BY DEF ReadNow, Takes, Execute, Onward, rpcVars, reqVars
<1>3. Cmd.mode = "none"
  BY <1>1, <1>2, BufferedType, CommandKinds
<1>4. CASE phase' = "threw"
  BY <1>4, StopsInHand
<1>5. CASE phase' = "next"
  <2>1. \A k : InHand(k) => InHand(k)'
    BY <1>2 DEF InHand
  <2>2. pos \notin DeviceOps
    BY <1>3 DEF DeviceOps, Cmd
  <2>3. Going' => Going
    BY <1>2 DEF Going
  <2>4. expectOr' <=> Cmd.mode = "and"
    BY <1>2, <1>3, <1>5
  <2>5. ~expectOr
    BY <1>2, <1>5
  <2>6. QED
    BY <1>1, <1>2, <1>5, <2>1, <2>2, <2>3, <2>4, <2>5, TakenInHand
<1>6. QED
  BY <1>2, <1>4, <1>5

LEMMA WriteBlockInHand ==
  ASSUME IInv, AndsArePaired(script), AllInHand, WriteBlock
  PROVE  AllInHand'
<1>1. TypeOK /\ pos \in Nat /\ pos >= 1
  BY DEF IInv, TypeOK
<1>2. /\ phase = "command" /\ pos' = pos + 1 /\ script' = script /\ expectOr' = expectOr
      /\ Cmd.mode = "block"
  BY DEF WriteBlock, Writes, Takes, rpcVars
<1>3. ~failure /\ ~expectOr
  BY <1>1, <1>2, OnlyOrAfterAnd DEF AllInHand
<1>4. \/ phase' \in {"next", "threw"} /\ failure'
      \/ phase' = "threw"
      \/ /\ Transceived(Buffered, "block") /\ phase' = "block" /\ ~failure'
         /\ block' = [done |-> 0, of |-> Cmd.n]
  BY <1>2, <1>3 DEF WriteBlock, Transceived, TransceiveFails, Execute, Onward
<1>5. CASE phase' = "threw"
  BY <1>5, StopsInHand
<1>6. CASE phase' = "next" /\ failure'
  BY <1>1, <1>2, <1>3, <1>6, TakenInHand DEF Going
<1>7. CASE /\ Transceived(Buffered, "block") /\ phase' = "block" /\ ~failure'
           /\ block' = [done |-> 0, of |-> Cmd.n]
  <2>1. pos' > 1 /\ pos' - 1 = pos /\ script'[pos' - 1] = Cmd
    BY <1>1, <1>2 DEF Cmd
  <2>2. \A k : InHand(k) => InHand(k)'
    BY <1>1, <1>7, PacketInHand
  <2>3. ASSUME NEW k \in DeviceOps, Due(k)' PROVE Due(k)
    <3>1. k \in Nat /\ k < pos + 1
      BY <1>2, <2>3 DEF Due, DeviceOps, IInv, TypeOK
    <3>2. k # pos
      BY <1>7, <2>1, <2>3 DEF Due
    <3>3. QED
      BY <1>1, <1>2, <1>3, <3>1, <3>2 DEF Due, AndWaits
  <2>4. Going /\ DeviceOps' = DeviceOps
    BY <1>2, <1>3 DEF Going, DeviceOps
  <2>5. \A k \in DeviceOps' : Due(k)' => InHand(k)'
    BY <2>2, <2>3, <2>4 DEF AllInHand
  <2>6. QED
    BY <1>2, <1>7, <2>1, <2>5 DEF AllInHand
<1>8. QED
  BY <1>4, <1>5, <1>6, <1>7

LEMMA BlockInHand ==
  ASSUME IInv, AllInHand, BlockPacket
  PROVE  AllInHand'
<1>1. TypeOK /\ pos \in Nat /\ pos >= 1 /\ block \in [done : Nat, of : Nat]
  BY DEF IInv, TypeOK
<1>2. /\ phase = "block" /\ block.done < block.of /\ pos' = pos /\ script' = script
      /\ failure' = failure /\ executed' = executed \o BlockOps
      /\ \/ phase' = "threw"
         \/ /\ phase' = "block" /\ block' = [block EXCEPT !.done = @ + PacketWords(BlockLeft)]
            /\ request' = request
  BY DEF BlockPacket, rpcVars, reqVars, parseVars
<1>3. BlockOps \in Seq(Operation) /\ Len(BlockOps) \in 1 .. 2 /\ BlockOps[1] = Word(pos - 1, block.done + 1)
  BY <1>1, <1>2, BlockOpsType
<1>4. CASE phase' = "threw"
  BY <1>4, StopsInHand
<1>5. CASE phase' = "block" /\ block' = [block EXCEPT !.done = @ + PacketWords(BlockLeft)] /\ request' = request
  <2>1. \A k : InHand(k) => InHand(k)'
    BY <1>1, <1>2, <1>3, <1>5, StaysInHand
  <2>2. \A k : k = pos - 1 => InHand(k)'
    <3>1. 1 \in 1 .. Len(BlockOps)
      BY <1>3
    <3>2. PICK i \in DOMAIN executed' : executed'[i] = BlockOps[1]
      BY <1>1, <1>2, <1>3, <1>5, <3>1, StaysInHand
    <3>3. executed'[i][2] = pos - 1
      BY <1>3, <3>2 DEF Word
    <3>4. QED
      BY <3>3 DEF InHand
  <2>3. \A k : Due(k)' => Due(k) \/ k = pos - 1
    BY <1>2 DEF Due
  <2>4. Going /\ DeviceOps' = DeviceOps /\ block'.of = block.of
    BY <1>1, <1>2, <1>5 DEF Going, DeviceOps, AllInHand
  <2>5. \A k \in DeviceOps' : Due(k)' => InHand(k)'
    BY <2>1, <2>2, <2>3, <2>4 DEF AllInHand
  <2>6. QED
    BY <1>2, <1>5, <2>4, <2>5 DEF AllInHand
<1>6. QED
  BY <1>2, <1>4, <1>5

LEMMA BlockEndsInHand ==
  ASSUME IInv, AllInHand, BlockFails \/ BlockDone
  PROVE  AllInHand'
<1>1. TypeOK /\ pos \in Nat /\ block \in [done : Nat, of : Nat]
  BY DEF IInv, TypeOK
<1>2. /\ phase = "block" /\ pos' = pos /\ script' = script /\ expectOr' = expectOr
      /\ request' = request /\ block' = block
      /\ phase' = "threw" \/ (phase' = "next" /\ ~expectOr)
      /\ ~failure' => block.done >= block.of /\ executed' = executed
  BY DEF BlockFails, BlockDone, Onward, rpcVars, reqVars
<1>3. CASE phase' = "threw"
  BY <1>3, StopsInHand
<1>4. CASE phase' = "next" /\ ~expectOr
  <2>1. pos > 1 /\ script[pos - 1].mode = "block" /\ block.of = script[pos - 1].n /\ Going
    BY <1>2 DEF AllInHand, Going
  <2>2. ASSUME Going', NEW k \in DeviceOps, Due(k)' PROVE Due(k)
    <3>1. k < pos
      BY <1>2, <2>2 DEF Due
    <3>2. block.done >= block.of
      BY <1>2, <2>2 DEF Going
    <3>3. k = pos - 1 => script[k].mode = "block" /\ script[k].n > 0
      BY <2>1 DEF DeviceOps
    <3>4. k = pos - 1 => block.done > 0
      BY <1>1, <2>1, <3>2, <3>3
    <3>5. ~AndWaits
      BY <1>4 DEF AndWaits
    <3>6. QED
      BY <3>1, <3>4, <3>5 DEF Due
  <2>3. Going' => \A k : InHand(k) => InHand(k)'
    BY <1>2 DEF Going, InHand
  <2>4. DeviceOps' = DeviceOps
    BY <1>2 DEF DeviceOps
  <2>5. Going' => \A k \in DeviceOps' : Due(k)' => InHand(k)'
    BY <2>1, <2>2, <2>3, <2>4 DEF AllInHand
  <2>6. expectOr' <=> pos' > 1 /\ script'[pos' - 1].mode = "and"
    BY <1>2, <1>4, <2>1
  <2>7. QED
    BY <1>4, <2>5, <2>6 DEF AllInHand
<1>5. QED
  BY <1>2, <1>3, <1>4

LEMMA SendRpcInHand ==
  ASSUME IInv, SendRpc
  PROVE  AllInHand' /\ (Answered("success") => DeviceOps = {})'
<1>1. /\ pos' = 1 /\ executed' = <<>> /\ request' = <<>> /\ expectOr' = FALSE
      /\ phase' \in {"idle", "next"} /\ rpc' \in 1 .. MaxRpc /\ script' \in Script[rpc']
      /\ phase' = "idle" /\ reply' = "success" => script' = <<>>
  BY LimitsAreNumbers DEF SendRpc, Answer, ResetRequest, IInv, TypeOK
<1>2. script' \in Seq(Command)
  BY <1>1, ScriptsAreCommands
<1>3. \A k \in DeviceOps' : k \in Nat /\ k >= 1
  BY <1>2 DEF DeviceOps
<1>4. \A k \in DeviceOps' : ~Due(k)'
  BY <1>1, <1>3 DEF Due
<1>5. phase' = "idle" /\ reply' = "success" => DeviceOps' = {}
  BY <1>1 DEF DeviceOps
<1>6. QED
  BY <1>1, <1>4, <1>5 DEF AllInHand, Answered

\* The last packet executes what is still in the request.
LEMMA FinishInHand ==
  ASSUME IInv, AndsArePaired(script), AllInHand, Finish
  PROVE  AllInHand' /\ SuccessMeansExecuted'
<1>1. TypeOK /\ pos \in Nat /\ Len(script) \in Nat /\ DOMAIN script = 1 .. Len(script)
  BY DEF IInv, TypeOK
<1>2. /\ phase = "next" /\ ~failure /\ pos > Len(script) /\ script' = script
      /\ phase' \in {"idle", "threw"}
      /\ phase' = "idle" /\ reply' = "success" => Transceived(cmdBuffer, "idle")
  BY DEF Finish, Transceived, TransceiveFails, Execute
<1>3. ~expectOr
  BY <1>1, <1>2, OnlyOrAfterAnd
<1>4. \A k \in DeviceOps : InHand(k)
  <2>1. \A k \in DeviceOps : Due(k)
    BY <1>1, <1>2, <1>3 DEF Due, DeviceOps, AndWaits
  <2>2. QED
    BY <1>2, <2>1 DEF AllInHand, Going
<1>5. ASSUME phase' = "idle", reply' = "success", NEW k \in DeviceOps
      PROVE  \E i \in DOMAIN executed' : executed'[i][2] = k
  BY <1>1, <1>2, <1>4, <1>5, PacketInHand
<1>6. SuccessMeansExecuted'
  BY <1>2, <1>5 DEF SuccessMeansExecuted, Answered, DeviceOps
<1>7. AllInHand'
  BY <1>2, StopsInHand
<1>8. QED
  BY <1>6, <1>7

\* Only Finish and GiveUp answer a sequence that is being parsed.
LEMMA SequenceGoesOn ==
  ASSUME IInv,
         Flush \/ NoFlush \/ Defers \/ Adds \/ ReadNow \/ WriteBlock \/ BlockPacket
         \/ BlockFails \/ BlockDone
  PROVE  phase' # "idle"
<1>1. CASE Defers
  BY <1>1, DeferredStep DEF IInv
<1>2. CASE Adds
  BY <1>2, AddedStep
<1>3. CASE Flush \/ NoFlush
  BY <1>3 DEF Flush, NoFlush, Transceived, TransceiveFails, Execute
<1>4. CASE ReadNow
  BY <1>4 DEF ReadNow, Execute, Onward
<1>5. CASE WriteBlock
  BY <1>5 DEF WriteBlock, Transceived, TransceiveFails, Execute, Onward
<1>6. CASE BlockPacket
  BY <1>6 DEF BlockPacket
<1>7. CASE BlockFails \/ BlockDone
  BY <1>7 DEF BlockFails, BlockDone, Onward
<1>8. QED
  BY <1>1, <1>2, <1>3, <1>4, <1>5, <1>6, <1>7

LEMMA StepInHand ==
  ASSUME IInv, AndsArePaired(script), AllInHand, BlocksHaveRoom, SuccessMeansExecuted, [Next]_vars
  PROVE  AllInHand' /\ SuccessMeansExecuted'
<1>1. CASE SendRpc
  BY <1>1, SendRpcInHand DEF SuccessMeansExecuted, Answered
<1>2. CASE Finish
  BY <1>2, FinishInHand
<1>3. CASE UNCHANGED vars
  <2>1. AllInHand'
    BY <1>3 DEF AllInHand, vars, rpcVars, reqVars, fifoVars, parseVars, Going, Due, InHand, AndWaits,
       DeviceOps, Cmd
  <2>2. SuccessMeansExecuted'
    BY <1>3 DEF vars, rpcVars, SuccessMeansExecuted, Answered, DeviceOps
  <2>3. QED
    BY <2>1, <2>2
<1>4. CASE BadCommand \/ GiveUp
  <2>1. phase' \in {"idle", "threw"} /\ (phase' = "idle" => reply' = "failure")
    BY <1>4 DEF BadCommand, GiveUp, Answer
  <2>2. QED
    BY <2>1, StopsInHand DEF SuccessMeansExecuted, Answered
<1>5. ASSUME Flush \/ NoFlush \/ Defers \/ Adds \/ ReadNow \/ WriteBlock \/ BlockPacket
               \/ BlockFails \/ BlockDone
      PROVE  AllInHand' /\ SuccessMeansExecuted'
  <2>1. phase' # "idle"
    BY <1>5, SequenceGoesOn
  <2>2. AllInHand'
    BY <1>5, FlushInHand, DeferredInHand, AddedInHand, ReadInHand, WriteBlockInHand, BlockInHand,
       BlockEndsInHand
  <2>3. QED
    BY <2>1, <2>2 DEF SuccessMeansExecuted, Answered
<1>6. QED
  BY <1>1, <1>2, <1>3, <1>4, <1>5 DEF Next, Step, Defers, Adds

\* The sequence of the current RPC is one that its client may send.
LEMMA ScriptOfRpc ==
  ASSUME IInv, [Next]_vars
  PROVE  script' = script \/ \E n \in 1 .. MaxRpc : script' \in Script[n]
<1>1. \/ script' = script
      \/ rpc' = rpc + 1 /\ rpc < MaxRpc /\ script' \in Script[rpc']
  BY DEF Next, Step, SendRpc, Flush, NoFlush, BadCommand, ScReset, Wait, ReadThrows, ReadNow,
     ReadLater, UnknownFrame, WriteOverflows, WriteRead, WriteWrite, WriteAnd, WriteOrThrows,
     WriteOr, WriteBlock, BlockPacket, BlockFails, BlockDone, Finish, GiveUp, Writes, Takes,
     vars, rpcVars
<1>2. rpc' = rpc + 1 /\ rpc < MaxRpc => rpc' \in 1 .. MaxRpc
  BY LimitsAreNumbers DEF IInv, TypeOK
<1>3. QED
  BY <1>1, <1>2

\* If every client follows an AND with its OR and asks for no block where the
\* packet is full, an answer "success" means that the device has executed the
\* whole sequence: each operation was put in the packet that was being filled,
\* and every packet before the answer had succeeded.
THEOREM SuccessMeansExecutedHolds ==
  ASSUME \A n \in 1 .. MaxRpc : \A s \in Script[n] : AndsArePaired(s)
  PROVE  Spec /\ []BlocksHaveRoom => []SuccessMeansExecuted
<1> DEFINE Inv == IInv /\ AndsArePaired(script) /\ AllInHand /\ SuccessMeansExecuted
<1>1. Init => Inv
  <2> SUFFICES ASSUME Init PROVE Inv
    OBVIOUS
  <2>1. AllInHand
    BY DEF Init, AllInHand, Going
  <2>2. SuccessMeansExecuted
    BY DEF Init, SuccessMeansExecuted, Answered
  <2>3. QED
    BY <2>1, <2>2, InitMeetsInv DEF Init, AndsArePaired
<1>2. Inv /\ BlocksHaveRoom /\ [Next]_vars => Inv'
  BY StepKeepsInv, StepInHand, ScriptOfRpc
<1>3. Inv => SuccessMeansExecuted
  OBVIOUS
<1> HIDE DEF Inv
<1>4. QED
  BY <1>1, <1>2, <1>3, PTL DEF Spec

-----------------------------------------------------------------------------
(* The reference, command by command.                                      *)

\* RefAfter is a function of the sequence and of the number of the RPC only.
RefCommandOf(commands, r, s, k) ==
    LET c == commands[k]
        frame(i, j) == [kind |-> "frame", asked |-> <<r, i, j>>, data |-> <<r, i, j>>]
        line(kind) == [kind |-> kind, asked |-> <<r, k, 0>>, data |-> <<>>]
        ack == [s EXCEPT !.resp = Append(@, line("ack"))]
    IN  CASE c.type = "reset" -> [s EXCEPT !.fifo = <<>>]
          [] c.type = "wait" -> [s EXCEPT !.resp = Append(@, line("wait"))]
          [] c.type \in {"read", "readcnt"} -> [s EXCEPT !.resp = @ \o s.fifo, !.fifo = <<>>]
          [] c.mode = "and" -> [ack EXCEPT !.lastAnd = k]
          [] c.mode = "or" -> [ack EXCEPT !.fifo = Append(@, frame(s.lastAnd, 1))]
          [] OTHER -> [ack EXCEPT !.fifo = @ \o [j \in 1 .. ResponseSize(c) |-> frame(k, j)]]
RefOf(commands, r) ==
    LET after[k \in 0 .. Len(commands)] ==
            IF k = 0 THEN [fifo |-> <<>>, resp |-> <<>>, lastAnd |-> 0]
            ELSE RefCommandOf(commands, r, after[k - 1], k)
    IN  after

LEMMA NothingToRun ==
  ASSUME NEW commands, Len(commands) = 0, NEW r
  PROVE  RefOf(commands, r)[0] = [fifo |-> <<>>, resp |-> <<>>, lastAnd |-> 0]
<1> DEFINE start == [fifo |-> <<>>, resp |-> <<>>, lastAnd |-> 0]
           Unrolls(f) == f = [k \in 0 .. Len(commands) |->
                                IF k = 0 THEN start ELSE RefCommandOf(commands, r, f[k - 1], k)]
<1>1. Unrolls([k \in 0 .. 0 |-> start])
  OBVIOUS
<1>2. RefOf(commands, r) = CHOOSE f : Unrolls(f)
  BY DEF RefOf
<1>3. \A f : Unrolls(f) => f[0] = start
  OBVIOUS
<1> HIDE DEF Unrolls, start
<1>4. Unrolls(RefOf(commands, r))
  BY <1>1, <1>2
<1>5. QED
  BY <1>3, <1>4 DEF start

LEMMA RefAfterKept ==
  ASSUME script' = script, rpc' = rpc
  PROVE  RefAfter' = RefAfter
<1>1. RefAfter = RefOf(script, rpc)
  BY Zenon DEF RefAfter, RefOf, RefCommandOf, RefCommand, Frame, Line, Word, ResponseSize, NoValue
<1>2. RefAfter' = RefOf(script', rpc')
  BY Zenon DEF RefAfter, RefOf, RefCommandOf, RefCommand, Frame, Line, Word, ResponseSize, NoValue
<1>3. QED
  BY <1>1, <1>2

\* The state of the reference, and its recursion.
RefState == [fifo : Seq(Entry), resp : Seq(Entry), lastAnd : Nat]
Follows(after, last) ==
    after = [k \in 0 .. last |->
               IF k = 0 THEN [fifo |-> <<>>, resp |-> <<>>, lastAnd |-> 0]
               ELSE RefCommand(after[k - 1], k)]

LEMMA ReferenceRuns ==
  ASSUME NEW last \in Nat
  PROVE  \E after : Follows(after, last)
<1> USE DEF Follows
<1> DEFINE T == {m \in Nat : \E g : Follows(g, m)}
<1>1. 0 \in T
  <2>1. Follows([n \in 0 .. 0 |-> [fifo |-> <<>>, resp |-> <<>>, lastAnd |-> 0]], 0)
    OBVIOUS
  <2>2. QED
    BY <2>1
<1>2. ASSUME NEW m \in Nat, m \in T PROVE m + 1 \in T
  <2>1. PICK g : Follows(g, m)
    BY <1>2
  <2> DEFINE h == [n \in 0 .. m + 1 |-> IF n = m + 1 THEN RefCommand(g[m], m + 1) ELSE g[n]]
  <2>2. \A n \in 0 .. m : h[n] = g[n]
    OBVIOUS
  <2>3. h[m + 1] = RefCommand(g[m], m + 1) /\ DOMAIN h = 0 .. m + 1
    OBVIOUS
  <2>4. ASSUME NEW n \in 0 .. m + 1
        PROVE  h[n] = IF n = 0 THEN [fifo |-> <<>>, resp |-> <<>>, lastAnd |-> 0]
                      ELSE RefCommand(h[n - 1], n)
    <3>1. CASE n = m + 1
      BY <2>2, <2>3, <3>1
    <3>2. CASE n \in 0 .. m
      <4>1. g[n] = IF n = 0 THEN [fifo |-> <<>>, resp |-> <<>>, lastAnd |-> 0]
                   ELSE RefCommand(g[n - 1], n)
        BY <2>1, <3>2
      <4>2. n # 0 => n - 1 \in 0 .. m
        BY <3>2
      <4>3. QED
        BY <2>2, <3>2, <4>1, <4>2
    <3>3. QED
      BY <3>1, <3>2
  <2>5. h = [n \in 0 .. m + 1 |-> h[n]]
    OBVIOUS
  <2> HIDE DEF h
  <2>6. Follows(h, m + 1)
    BY <2>4, <2>5
  <2>7. QED
    BY <2>6
<1>3. last \in T
  <2> HIDE DEF T
  <2>1. QED
    BY <1>1, <1>2, SetInduction
<1>4. QED
  BY <1>3

LEMMA RefSteps ==
  ASSUME TypeOK
  PROVE  /\ RefAfter[0] = [fifo |-> <<>>, resp |-> <<>>, lastAnd |-> 0]
         /\ \A k \in 1 .. Len(script) : RefAfter[k] = RefCommand(RefAfter[k - 1], k)
<1>1. Len(script) \in Nat
  BY DEF TypeOK
<1>2. PICK g : Follows(g, Len(script))
  BY <1>1, ReferenceRuns
<1>3. RefAfter = CHOOSE f : Follows(f, Len(script))
  BY DEF RefAfter, Follows
<1>4. Follows(RefAfter, Len(script))
  BY <1>2, <1>3
<1>5. 0 \in 0 .. Len(script)
  BY <1>1
<1>6. \A k \in 1 .. Len(script) : k \in 0 .. Len(script) /\ k # 0
  BY <1>1
<1>7. QED
  BY <1>4, <1>5, <1>6 DEF Follows

\* What the commands leave to read, by the discipline of the clients.
Unread(k) ==
    IF k = 0 \/ script[k].type # "write" \/ script[k].mode = "and" THEN <<>>
    ELSE IF script[k].mode = "or" THEN <<Frame(k - 1, 1, Word(k - 1, 1))>>
    ELSE [j \in 1 .. ResponseSize(script[k]) |-> Frame(k, j, Word(k, j))]

LEMMA FramesTyped ==
  ASSUME rpc \in Nat, NEW k \in Nat, NEW n \in Nat
  PROVE  /\ [j \in 1 .. n |-> Frame(k, j, Word(k, j))] \in Seq(Entry)
         /\ Len([j \in 1 .. n |-> Frame(k, j, Word(k, j))]) = n
<1>1. \A j \in 1 .. n : Frame(k, j, Word(k, j)) \in Entry
  BY EntryKinds
<1>2. QED
  BY <1>1

LEMMA RefEdits ==
  ASSUME NEW s \in RefState, NEW f, NEW r, NEW n
  PROVE  /\ [s EXCEPT !.fifo = f] = [fifo |-> f, resp |-> s.resp, lastAnd |-> s.lastAnd]
         /\ [s EXCEPT !.resp = r] = [fifo |-> s.fifo, resp |-> r, lastAnd |-> s.lastAnd]
         /\ [s EXCEPT !.lastAnd = n] = [fifo |-> s.fifo, resp |-> s.resp, lastAnd |-> n]
         /\ [s EXCEPT !.resp = r, !.fifo = f] = [fifo |-> f, resp |-> r, lastAnd |-> s.lastAnd]
<1>1. s = [fifo |-> s.fifo, resp |-> s.resp, lastAnd |-> s.lastAnd]
  BY DEF RefState
<1>2. [s EXCEPT !.fifo = f] = [fifo |-> f, resp |-> s.resp, lastAnd |-> s.lastAnd]
  BY <1>1
<1>3. [s EXCEPT !.resp = r] = [fifo |-> s.fifo, resp |-> r, lastAnd |-> s.lastAnd]
  BY <1>1
<1>4. [s EXCEPT !.lastAnd = n] = [fifo |-> s.fifo, resp |-> s.resp, lastAnd |-> n]
  BY <1>1
<1>5. [s EXCEPT !.resp = r, !.fifo = f] = [fifo |-> f, resp |-> r, lastAnd |-> s.lastAnd]
  <2>1. [s EXCEPT !.resp = r, !.fifo = f] = [[s EXCEPT !.resp = r] EXCEPT !.fifo = f]
    BY Zenon
  <2>2. PICK t : t = [s EXCEPT !.resp = r]
    OBVIOUS
  <2>3. t = [fifo |-> s.fifo, resp |-> r, lastAnd |-> s.lastAnd]
    BY <1>3, <2>2
  <2>4. [t EXCEPT !.fifo = f] = [fifo |-> f, resp |-> r, lastAnd |-> s.lastAnd]
    BY <2>3
  <2>5. QED
    BY <2>1, <2>2, <2>4
<1>6. QED
  BY <1>2, <1>3, <1>4, <1>5

\* What each command does to the reference, field by field.
LEMMA RefCommandIs ==
  ASSUME TypeOK, NEW s \in RefState, NEW k \in 1 .. Len(script)
  PROVE  LET r == RefCommand(s, k) IN
         /\ r = [fifo |-> r.fifo, resp |-> r.resp, lastAnd |-> r.lastAnd]
         /\ script[k].type = "reset" => r.fifo = <<>> /\ r.resp = s.resp /\ r.lastAnd = s.lastAnd
         /\ script[k].type = "wait" =>
               r.fifo = s.fifo /\ r.resp = Append(s.resp, Line("wait", k)) /\ r.lastAnd = s.lastAnd
         /\ script[k].type \in {"read", "readcnt"} =>
               r.fifo = <<>> /\ r.resp = s.resp \o s.fifo /\ r.lastAnd = s.lastAnd
         /\ script[k].mode = "and" =>
               r.fifo = s.fifo /\ r.resp = Append(s.resp, Line("ack", k)) /\ r.lastAnd = k
         /\ script[k].mode = "or" =>
               /\ r.fifo = Append(s.fifo, Frame(s.lastAnd, 1, Word(s.lastAnd, 1)))
               /\ r.resp = Append(s.resp, Line("ack", k)) /\ r.lastAnd = s.lastAnd
         /\ script[k].type \in {"write", "invalid"} /\ script[k].mode \notin {"and", "or"} =>
               /\ r.fifo = s.fifo \o [j \in 1 .. ResponseSize(script[k]) |-> Frame(k, j, Word(k, j))]
               /\ r.resp = Append(s.resp, Line("ack", k)) /\ r.lastAnd = s.lastAnd
<1> DEFINE c == script[k]
           acked == Append(s.resp, Line("ack", k))
           flushed == s.resp \o s.fifo
           ack == [s EXCEPT !.resp = acked]
<1>1. c \in Command
  BY DEF TypeOK
<1>2. /\ c.mode \in {"and", "or"} => c.type = "write"
      /\ c.type # "write" => c.mode # "and" /\ c.mode # "or"
      /\ c.type \in {"reset", "read", "readcnt", "wait", "invalid", "write"}
  BY <1>1, CommandKinds
<1> HIDE DEF c
<1>3. s = [fifo |-> s.fifo, resp |-> s.resp, lastAnd |-> s.lastAnd]
  BY DEF RefState
<1>4. c.type = "reset" => RefCommand(s, k) = [s EXCEPT !.fifo = <<>>]
  <2>1. c.type = "reset" =>
           /\ c.type # "wait" /\ c.type \notin {"read", "readcnt"}
           /\ c.mode # "and" /\ c.mode # "or"
    BY <1>2
  <2>2. QED
    BY <2>1, Zenon DEF RefCommand, c
<1>5. c.type = "wait" => RefCommand(s, k) = [s EXCEPT !.resp = Append(@, Line("wait", k))]
  <2>1. c.type = "wait" =>
           /\ c.type # "reset" /\ c.type \notin {"read", "readcnt"}
           /\ c.mode # "and" /\ c.mode # "or"
    BY <1>2
  <2>2. QED
    BY <2>1, Zenon DEF RefCommand, c
<1>6. c.type \in {"read", "readcnt"} =>
         RefCommand(s, k) = [s EXCEPT !.resp = @ \o s.fifo, !.fifo = <<>>]
  <2>1. c.type \in {"read", "readcnt"} =>
           /\ c.type # "reset" /\ c.type # "wait"
           /\ c.mode # "and" /\ c.mode # "or"
    BY <1>2
  <2>2. QED
    BY <2>1, Zenon DEF RefCommand, c
<1>7. c.mode = "and" => RefCommand(s, k) = [ack EXCEPT !.lastAnd = k]
  BY <1>2, Zenon DEF RefCommand, c
<1>8. c.mode = "or" =>
         RefCommand(s, k) = [ack EXCEPT !.fifo = Append(@, Frame(s.lastAnd, 1, Word(s.lastAnd, 1)))]
  BY <1>2, Zenon DEF RefCommand, c
<1>9. c.type \in {"write", "invalid"} /\ c.mode \notin {"and", "or"} =>
         RefCommand(s, k) = [ack EXCEPT !.fifo = @ \o [j \in 1 .. ResponseSize(c) |->
                                                          Frame(k, j, Word(k, j))]]
  <2>1. c.type \in {"write", "invalid"} /\ c.mode \notin {"and", "or"} =>
           /\ c.type # "reset" /\ c.type # "wait" /\ c.type \notin {"read", "readcnt"}
           /\ c.mode # "and" /\ c.mode # "or"
    OBVIOUS
  <2>2. QED
    BY <2>1, Zenon DEF RefCommand, c
<1>10. acked \in Seq(Entry)
  <2>1. Line("ack", k) \in Entry /\ s.resp \in Seq(Entry)
    BY LimitsAreNumbers, EntryKinds DEF TypeOK, RefState
  <2>2. QED
    BY <2>1, AppendProperties
<1>11. ack \in RefState /\ ack.fifo = s.fifo /\ ack.resp = acked /\ ack.lastAnd = s.lastAnd
  BY <1>10 DEF RefState
<1> HIDE DEF acked, ack, flushed
<1>12. c.type = "reset" => RefCommand(s, k) = [fifo |-> <<>>, resp |-> s.resp, lastAnd |-> s.lastAnd]
  BY <1>4, RefEdits
<1>13. c.type = "wait" => RefCommand(s, k) =
         [fifo |-> s.fifo, resp |-> Append(s.resp, Line("wait", k)), lastAnd |-> s.lastAnd]
  BY <1>5, RefEdits
<1>14. c.type \in {"read", "readcnt"} =>
         RefCommand(s, k) = [fifo |-> <<>>, resp |-> flushed, lastAnd |-> s.lastAnd]
  BY <1>6, RefEdits DEF flushed
<1>15. c.mode = "and" => RefCommand(s, k) = [fifo |-> s.fifo, resp |-> acked, lastAnd |-> k]
  BY <1>7, <1>11, RefEdits
<1>16. c.mode = "or" => RefCommand(s, k) =
         [fifo |-> Append(s.fifo, Frame(s.lastAnd, 1, Word(s.lastAnd, 1))), resp |-> acked,
          lastAnd |-> s.lastAnd]
  BY <1>8, <1>11, RefEdits
<1>17. c.type \in {"write", "invalid"} /\ c.mode \notin {"and", "or"} => RefCommand(s, k) =
         [fifo |-> s.fifo \o [j \in 1 .. ResponseSize(c) |-> Frame(k, j, Word(k, j))],
          resp |-> acked, lastAnd |-> s.lastAnd]
  BY <1>9, <1>11, RefEdits
<1>18. \A f, r, n : RefCommand(s, k) = [fifo |-> f, resp |-> r, lastAnd |-> n] =>
         /\ RefCommand(s, k).fifo = f /\ RefCommand(s, k).resp = r /\ RefCommand(s, k).lastAnd = n
         /\ RefCommand(s, k) = [fifo |-> RefCommand(s, k).fifo, resp |-> RefCommand(s, k).resp,
                                lastAnd |-> RefCommand(s, k).lastAnd]
  <2>1. ASSUME NEW r, NEW f, NEW p, NEW n, r = [fifo |-> f, resp |-> p, lastAnd |-> n]
        PROVE  /\ r.fifo = f /\ r.resp = p /\ r.lastAnd = n
               /\ r = [fifo |-> r.fifo, resp |-> r.resp, lastAnd |-> r.lastAnd]
    BY <2>1
  <2>2. QED
    BY <2>1
<1>19. RefCommand(s, k) = [fifo |-> RefCommand(s, k).fifo, resp |-> RefCommand(s, k).resp,
                           lastAnd |-> RefCommand(s, k).lastAnd]
  BY <1>2, <1>12, <1>13, <1>14, <1>15, <1>16, <1>17, <1>18, Zenon
<1>20. c.type = "reset" => /\ RefCommand(s, k).fifo = <<>> /\ RefCommand(s, k).resp = s.resp
                           /\ RefCommand(s, k).lastAnd = s.lastAnd
  BY <1>12, <1>18
<1>21. c.type = "wait" => /\ RefCommand(s, k).fifo = s.fifo
                          /\ RefCommand(s, k).resp = Append(s.resp, Line("wait", k))
                          /\ RefCommand(s, k).lastAnd = s.lastAnd
  BY <1>13, <1>18
<1>22. c.type \in {"read", "readcnt"} =>
          /\ RefCommand(s, k).fifo = <<>> /\ RefCommand(s, k).resp = flushed
          /\ RefCommand(s, k).lastAnd = s.lastAnd
  BY <1>14, <1>18
<1>23. c.mode = "and" => /\ RefCommand(s, k).fifo = s.fifo /\ RefCommand(s, k).resp = acked
                         /\ RefCommand(s, k).lastAnd = k
  BY <1>15, <1>18, Zenon
<1>24. c.mode = "or" =>
          /\ RefCommand(s, k).fifo = Append(s.fifo, Frame(s.lastAnd, 1, Word(s.lastAnd, 1)))
          /\ RefCommand(s, k).resp = acked /\ RefCommand(s, k).lastAnd = s.lastAnd
  BY <1>16, <1>18
<1>25. c.type \in {"write", "invalid"} /\ c.mode \notin {"and", "or"} =>
          /\ RefCommand(s, k).fifo =
                s.fifo \o [j \in 1 .. ResponseSize(c) |-> Frame(k, j, Word(k, j))]
          /\ RefCommand(s, k).resp = acked /\ RefCommand(s, k).lastAnd = s.lastAnd
  BY <1>17, <1>18, Zenon
<1>26. QED
  BY <1>19, <1>20, <1>21, <1>22, <1>23, <1>24, <1>25, Zenon DEF c, acked, flushed

LEMMA RefCommandTyped ==
  ASSUME TypeOK, NEW s \in RefState, NEW k \in 1 .. Len(script)
  PROVE  RefCommand(s, k) \in RefState
<1>1. script[k] \in Command /\ rpc \in Nat /\ k \in Nat /\ script[k].n \in Nat
      /\ ResponseSize(script[k]) \in Nat
  BY LimitsAreNumbers, CommandFacts DEF TypeOK
<1>2. /\ s.fifo \in Seq(Entry) /\ s.resp \in Seq(Entry) /\ s.lastAnd \in Nat
  BY DEF RefState
<1>3. PICK acked \in Seq(Entry) : acked = Append(s.resp, Line("ack", k))
  BY <1>1, <1>2, EntryKinds, AppendProperties
<1>4. PICK waited \in Seq(Entry) : waited = Append(s.resp, Line("wait", k))
  BY <1>1, <1>2, EntryKinds, AppendProperties
<1>5. PICK flushed \in Seq(Entry) : flushed = s.resp \o s.fifo
  BY <1>2, Joined
<1>6. PICK paired \in Seq(Entry) : paired = Append(s.fifo, Frame(s.lastAnd, 1, Word(s.lastAnd, 1)))
  BY <1>1, <1>2, EntryKinds, AppendProperties
<1>7. PICK fed \in Seq(Entry) :
         fed = s.fifo \o [j \in 1 .. ResponseSize(script[k]) |-> Frame(k, j, Word(k, j))]
  <2>1. [j \in 1 .. ResponseSize(script[k]) |-> Frame(k, j, Word(k, j))] \in Seq(Entry)
    BY <1>1, FramesTyped
  <2>2. QED
    BY <1>2, <2>1, Joined
<1>8. ASSUME NEW f \in Seq(Entry), NEW r \in Seq(Entry), NEW n \in Nat
      PROVE  [fifo |-> f, resp |-> r, lastAnd |-> n] \in RefState
  BY DEF RefState
<1>9. script[k].type \in {"reset", "read", "readcnt", "wait", "invalid", "write"}
      /\ (script[k].mode \in {"and", "or"} => script[k].type = "write")
  BY <1>1, CommandKinds
<1>10. RefCommand(s, k) = [fifo |-> RefCommand(s, k).fifo, resp |-> RefCommand(s, k).resp,
                           lastAnd |-> RefCommand(s, k).lastAnd]
  BY RefCommandIs
<1>11. /\ RefCommand(s, k).fifo \in {<<>>, s.fifo, paired, fed}
       /\ RefCommand(s, k).resp \in {s.resp, waited, flushed, acked}
       /\ RefCommand(s, k).lastAnd \in {s.lastAnd, k}
  BY <1>3, <1>4, <1>5, <1>6, <1>7, <1>9, RefCommandIs
<1>12. <<>> \in Seq(Entry)
  OBVIOUS
<1>13. RefCommand(s, k).fifo \in Seq(Entry) /\ RefCommand(s, k).resp \in Seq(Entry)
       /\ RefCommand(s, k).lastAnd \in Nat
  BY <1>1, <1>2, <1>11, <1>12
<1>14. QED
  BY <1>8, <1>10, <1>13

LEMMA RefAfterTyped ==
  ASSUME TypeOK
  PROVE  \A k \in 0 .. Len(script) : RefAfter[k] \in RefState
<1> DEFINE T == {k \in Nat : k <= Len(script) => RefAfter[k] \in RefState}
<1>1. Len(script) \in Nat
  BY DEF TypeOK
<1>2. 0 \in T
  <2>1. RefAfter[0] \in RefState
    <3>1. <<>> \in Seq(Entry) /\ 0 \in Nat
      OBVIOUS
    <3>2. [fifo |-> <<>>, resp |-> <<>>, lastAnd |-> 0] \in RefState
      BY <3>1 DEF RefState
    <3>3. RefAfter[0] = [fifo |-> <<>>, resp |-> <<>>, lastAnd |-> 0]
      BY RefSteps
    <3>4. QED
      BY <3>2, <3>3
  <2>2. QED
    BY <2>1
<1>3. ASSUME NEW k \in Nat, k \in T PROVE k + 1 \in T
  <2>1. SUFFICES ASSUME k + 1 <= Len(script) PROVE RefAfter[k + 1] \in RefState
    OBVIOUS
  <2>2. k + 1 \in 1 .. Len(script) /\ (k + 1) - 1 = k /\ RefAfter[k] \in RefState
    BY <1>1, <1>3, <2>1
  <2>3. RefAfter[k + 1] = RefCommand(RefAfter[k], k + 1)
    BY <2>2, RefSteps
  <2>4. QED
    BY <2>2, <2>3, RefCommandTyped
<1> HIDE DEF T
<1>4. Nat \subseteq T
  BY <1>2, <1>3, SetInduction
<1>5. QED
  BY <1>1, <1>4 DEF T

-----------------------------------------------------------------------------
(* What the discipline gives.                                              *)

Disciplined(s) == AndsArePaired(s) /\ ReadsAtOnce(s)

\* A command that is neither a read nor an OR finds nothing to read before it;
\* an OR that is accepted finds its AND.
LEMMA NothingBefore ==
  ASSUME TypeOK, Disciplined(script), NEW k \in 1 .. Len(script), Accepted(k)
  PROVE  /\ script[k].mode = "or" => k - 1 \in 1 .. Len(script) /\ script[k - 1].mode = "and"
         /\ script[k].type \notin {"read", "readcnt"} /\ script[k].mode # "or" => Settled(k - 1)
         /\ k > 1 => script[k - 1].mode # "and" \/ script[k].mode = "or"
<1>1. /\ script \in Seq(Command) /\ DOMAIN script = 1 .. Len(script) /\ Len(script) \in Nat
      /\ \A i \in 1 .. Len(script) : script[i] \in Command
  BY DEF TypeOK
<1>2. CASE k = 1
  BY <1>2 DEF Accepted, Settled
<1>3. CASE k > 1
  <2>1. k - 1 \in 1 .. Len(script) /\ (k - 1) + 1 = k
    BY <1>1, <1>3
  <2>2. PICK c \in Command : c = script[k - 1]
    BY <1>1, <2>1
  <2>3. /\ c.mode \in {"read", "sum", "or", "block"} => script[k].type \in {"read", "readcnt"}
        /\ c.mode = "and" => script[k].mode = "or"
    BY <1>1, <2>1, <2>2 DEF Disciplined, AndsArePaired, ReadsAtOnce
  <2>4. c.mode \in {"none", "read", "write", "and", "or", "sum", "block", "unknown"}
    BY CommandKinds
  <2>5. script[k].type \notin {"read", "readcnt"} /\ script[k].mode # "or" => Settled(k - 1)
    BY <2>2, <2>3, <2>4 DEF Settled
  <2>6. QED
    BY <2>1, <2>2, <2>3, <2>5 DEF Accepted
<1>4. QED
  BY <1>2, <1>3

LEMMA SettledHasNothing ==
  ASSUME TypeOK, NEW k \in 0 .. Len(script), Settled(k)
  PROVE  Unread(k) = <<>> /\ (k > 0 => ResponseSize(script[k]) = 0)
<1>1. CASE k = 0
  BY <1>1 DEF Unread
<1>2. CASE k > 0
  <2>1. k \in 1 .. Len(script)
    BY <1>2 DEF TypeOK
  <2>2. PICK c \in Command : c = script[k]
    BY <2>1 DEF TypeOK
  <2>3. c.mode \in {"none", "write", "unknown"}
    BY <1>2, <2>2 DEF Settled
  <2>4. ResponseSize(c) = 0
    BY <2>3 DEF ResponseSize
  <2>5. [j \in 1 .. 0 |-> Frame(k, j, Word(k, j))] = <<>>
    OBVIOUS
  <2>6. QED
    BY <2>2, <2>3, <2>4, <2>5 DEF Unread
<1>3. QED
  BY <1>1, <1>2

LEMMA UnreadStep ==
  ASSUME TypeOK, Disciplined(script), NEW k \in 1 .. Len(script), Accepted(k), NEW s \in RefState,
         s.fifo = Unread(k - 1), k > 1 /\ script[k - 1].mode = "and" => s.lastAnd = k - 1
  PROVE  /\ RefCommand(s, k).fifo = Unread(k)
         /\ script[k].mode = "and" => RefCommand(s, k).lastAnd = k
<1>0. /\ script[k].type = "reset" => RefCommand(s, k).fifo = <<>>
      /\ script[k].type = "wait" => RefCommand(s, k).fifo = s.fifo
      /\ script[k].type \in {"read", "readcnt"} => RefCommand(s, k).fifo = <<>>
      /\ script[k].mode = "and" => RefCommand(s, k).fifo = s.fifo /\ RefCommand(s, k).lastAnd = k
      /\ script[k].mode = "or" =>
            RefCommand(s, k).fifo = Append(s.fifo, Frame(s.lastAnd, 1, Word(s.lastAnd, 1)))
      /\ script[k].type = "write" /\ script[k].mode \notin {"and", "or"} =>
            RefCommand(s, k).fifo =
               s.fifo \o [j \in 1 .. ResponseSize(script[k]) |-> Frame(k, j, Word(k, j))]
  BY RefCommandIs
<1>1. PICK c \in Command : c = script[k]
  BY DEF TypeOK
<1>2. /\ k \in Nat /\ k - 1 \in 0 .. Len(script) /\ rpc \in Nat /\ ResponseSize(c) \in Nat
      /\ k # 0
  BY <1>1, LimitsAreNumbers, CommandFacts DEF TypeOK
<1>3. /\ c.type \in {"reset", "read", "readcnt", "wait", "write"}
      /\ c.type # "write" => c.mode = "none"
      /\ c.type = "write" => c.mode \in {"read", "write", "and", "or", "sum", "block", "unknown"}
  BY <1>1, CommandKinds DEF Accepted
<1>4. c.type \notin {"read", "readcnt"} /\ c.mode # "or" => s.fifo = <<>>
  <2>1. c.type \notin {"read", "readcnt"} /\ c.mode # "or" => Settled(k - 1)
    BY <1>1, NothingBefore
  <2>2. QED
    BY <1>2, <2>1, SettledHasNothing
<1>5. CASE c.type = "reset"
  <2>1. RefCommand(s, k).fifo = <<>>
    BY <1>1, <1>5, <1>0
  <2>2. QED
    BY <1>1, <1>3, <1>5, <2>1 DEF Unread
<1>6. CASE c.type = "wait"
  <2>1. RefCommand(s, k).fifo = s.fifo
    BY <1>1, <1>6, <1>0
  <2>2. QED
    BY <1>1, <1>3, <1>4, <1>6, <2>1 DEF Unread
<1>7. CASE c.type \in {"read", "readcnt"}
  <2>1. RefCommand(s, k).fifo = <<>>
    BY <1>1, <1>7, <1>0
  <2>2. QED
    BY <1>1, <1>3, <1>7, <2>1 DEF Unread
<1>8. CASE c.mode = "and"
  <2>1. RefCommand(s, k).fifo = s.fifo /\ RefCommand(s, k).lastAnd = k
    BY <1>1, <1>8, <1>0
  <2>2. QED
    BY <1>1, <1>3, <1>4, <1>8, <2>1 DEF Unread
<1>9. CASE c.mode = "or"
  <2>1. k - 1 \in 1 .. Len(script) /\ script[k - 1].mode = "and"
    BY <1>1, <1>9, NothingBefore
  <2>2. s.lastAnd = k - 1 /\ s.fifo = <<>>
    BY <2>1 DEF Unread
  <2>3. RefCommand(s, k).fifo = Append(<<>>, Frame(k - 1, 1, Word(k - 1, 1)))
    <3>1. RefCommand(s, k).fifo = Append(s.fifo, Frame(s.lastAnd, 1, Word(s.lastAnd, 1)))
      BY <1>1, <1>9, <1>0
    <3>2. QED
      BY <2>2, <3>1
  <2>4. Unread(k) = <<Frame(k - 1, 1, Word(k - 1, 1))>>
    BY <1>1, <1>2, <1>3, <1>9 DEF Unread
  <2>5. \A e : Append(<<>>, e) = <<e>>
    OBVIOUS
  <2>6. QED
    BY <1>1, <1>9, <2>3, <2>4, <2>5
<1>10. CASE c.type = "write" /\ c.mode \notin {"and", "or"}
  <2>1. PICK frames \in Seq(Entry) : frames = [j \in 1 .. ResponseSize(c) |-> Frame(k, j, Word(k, j))]
    BY <1>2, FramesTyped
  <2>2. RefCommand(s, k).fifo = <<>> \o frames
    <3>1. RefCommand(s, k).fifo =
             s.fifo \o [j \in 1 .. ResponseSize(script[k]) |-> Frame(k, j, Word(k, j))]
      BY <1>1, <1>10, <1>0
    <3>2. s.fifo = <<>>
      BY <1>3, <1>4, <1>10
    <3>3. QED
      BY <1>1, <2>1, <3>1, <3>2
  <2>3. <<>> \o frames = frames
    BY ConcatEmptySeq
  <2>4. Unread(k) = frames
    BY <1>1, <1>2, <1>10, <2>1 DEF Unread
  <2>5. QED
    BY <1>1, <1>10, <2>2, <2>3, <2>4
<1>11. QED
  BY <1>3, <1>5, <1>6, <1>7, <1>8, <1>9, <1>10

\* What the reference leaves to read after each accepted command.
LEMMA ReferenceUnread ==
  ASSUME TypeOK, Disciplined(script), NEW last \in 0 .. Len(script),
         \A k \in 1 .. last : Accepted(k)
  PROVE  \A k \in 0 .. last : RefAfter[k].fifo = Unread(k)
<1> DEFINE Holds(k) == /\ RefAfter[k].fifo = Unread(k)
                       /\ k > 0 /\ script[k].mode = "and" => RefAfter[k].lastAnd = k
           T == {k \in Nat : k <= last => Holds(k)}
<1>1. Len(script) \in Nat /\ last \in Nat
  BY DEF TypeOK
<1>2. 0 \in T
  <2>1. Holds(0)
    BY RefSteps DEF Unread
  <2>2. QED
    BY <2>1
<1>3. ASSUME NEW k \in Nat, k \in T PROVE k + 1 \in T
  <2>1. SUFFICES ASSUME k + 1 <= last PROVE Holds(k + 1)
    OBVIOUS
  <2>2. /\ k + 1 \in 1 .. Len(script) /\ (k + 1) - 1 = k /\ Holds(k) /\ k + 1 \in 1 .. last
        /\ RefAfter[k] \in RefState
    BY <1>1, <1>3, <2>1, RefAfterTyped
  <2>3. RefAfter[k + 1] = RefCommand(RefAfter[k], k + 1)
    BY <2>2, RefSteps
  <2>4. (k + 1 > 1 /\ script[k].mode = "and") => RefAfter[k].lastAnd = k
    BY <2>2
  <2>5. Accepted(k + 1)
    BY <2>2
  <2>6. /\ RefCommand(RefAfter[k], k + 1).fifo = Unread(k + 1)
        /\ script[k + 1].mode = "and" => RefCommand(RefAfter[k], k + 1).lastAnd = k + 1
    BY <2>2, <2>4, <2>5, UnreadStep
  <2>7. QED
    BY <2>3, <2>6
<1> HIDE DEF T
<1>4. Nat \subseteq T
  BY <1>2, <1>3, SetInduction
<1>5. QED
  BY <1>1, <1>4 DEF T

-----------------------------------------------------------------------------
(* The executor against the reference.                                     *)

\* What each command does to the executor, field by field.
LEMMA WriteExecuted ==
  ASSUME TypeOK, NEW f \in Seq(Entry), NEW s \in State(f), ~s.threw, NEW k \in 1 .. Len(script)
  PROVE  /\ script[k].type = "write" =>
               /\ ExecuteCommand(s, k, f).resp = Append(s.resp, Line("ack", k))
               /\ ExecuteCommand(s, k, f).emulated = s.emulated + ResponseSize(script[k])
               /\ ExecuteCommand(s, k, f).front = s.front
         /\ script[k].type = "wait" =>
               /\ ExecuteCommand(s, k, f).resp = Append(s.resp, Line("wait", k))
               /\ ExecuteCommand(s, k, f).emulated = s.emulated
               /\ ExecuteCommand(s, k, f).front = s.front
         /\ script[k].type \in {"reset", "invalid"} => ExecuteCommand(s, k, f) = s
<1> DEFINE acked == Append(s.resp, Line("ack", k))
           waited == Append(s.resp, Line("wait", k))
           more == s.emulated + ResponseSize(script[k])
<1>1. s = [emulated |-> s.emulated, front |-> s.front, resp |-> s.resp, threw |-> s.threw]
  BY DEF State
<1>2. script[k].type = "write" =>
         ExecuteCommand(s, k, f) = [s EXCEPT !.resp = acked, !.emulated = more]
  BY Zenon DEF ExecuteCommand
<1>3. script[k].type = "wait" => ExecuteCommand(s, k, f) = [s EXCEPT !.resp = waited]
  <2>1. script[k].type = "wait" => script[k].type # "write"
    OBVIOUS
  <2>2. QED
    BY <2>1, Zenon DEF ExecuteCommand
<1>4. script[k].type \in {"reset", "invalid"} => ExecuteCommand(s, k, f) = s
  <2>1. script[k].type \in {"reset", "invalid"} =>
           /\ script[k].type # "write" /\ script[k].type # "wait"
           /\ script[k].type # "read" /\ script[k].type # "readcnt"
    OBVIOUS
  <2>2. QED
    BY <2>1, Zenon DEF ExecuteCommand
<1> HIDE DEF acked, waited, more
<1>5. PICK w : w = [s EXCEPT !.resp = acked, !.emulated = more]
  OBVIOUS
<1>6. w.resp = acked /\ w.emulated = more /\ w.front = s.front
  BY <1>1, <1>5
<1>7. PICK v : v = [s EXCEPT !.resp = waited]
  OBVIOUS
<1>8. v.resp = waited /\ v.emulated = s.emulated /\ v.front = s.front
  BY <1>1, <1>7
<1>9. script[k].type = "write" =>
         /\ ExecuteCommand(s, k, f).resp = acked
         /\ ExecuteCommand(s, k, f).emulated = more
         /\ ExecuteCommand(s, k, f).front = s.front
  BY <1>2, <1>5, <1>6, Zenon
<1>10. script[k].type = "wait" =>
         /\ ExecuteCommand(s, k, f).resp = waited
         /\ ExecuteCommand(s, k, f).emulated = s.emulated
         /\ ExecuteCommand(s, k, f).front = s.front
  BY <1>3, <1>7, <1>8, Zenon
<1>11. QED
  BY <1>4, <1>9, <1>10, Zenon DEF acked, waited, more

\* A read that is not refused pops all there is.
LEMMA ReadExecuted ==
  ASSUME TypeOK, NEW f \in Seq(Entry), NEW s \in State(f), ~s.threw, NEW k \in 1 .. Len(script),
         script[k].type \in {"read", "readcnt"}
  PROVE  /\ s.emulated = 0 => ExecuteCommand(s, k, f).threw
         /\ s.emulated > 0 /\ s.front + s.emulated <= Len(f) /\ ~ExecuteCommand(s, k, f).threw =>
               /\ ExecuteCommand(s, k, f).resp =
                     s.resp \o SubSeq(f, s.front + 1, s.front + s.emulated)
               /\ ExecuteCommand(s, k, f).emulated = 0
               /\ ExecuteCommand(s, k, f).front = s.front + s.emulated
<1>1. s = [emulated |-> s.emulated, front |-> s.front, resp |-> s.resp, threw |-> s.threw]
      /\ s.emulated \in Nat /\ s.front \in Nat /\ Len(f) \in Nat
  BY DEF State
<1>2. script[k].n \in Nat
  BY CommandFacts DEF TypeOK
<1> DEFINE n == IF script[k].n < s.emulated THEN script[k].n ELSE s.emulated
           popped == Pop(s, f, s.emulated)
           counted == [Pop(s, f, n) EXCEPT !.threw = @ \/ script[k].n # s.emulated]
<1>3. script[k].type = "read" =>
         ExecuteCommand(s, k, f) = IF s.emulated = 0 THEN [s EXCEPT !.threw = TRUE] ELSE popped
  <2>1. script[k].type = "read" => script[k].type # "write" /\ script[k].type # "wait"
    OBVIOUS
  <2>2. QED
    BY <2>1, Zenon DEF ExecuteCommand
<1>4. script[k].type = "readcnt" =>
         ExecuteCommand(s, k, f) = IF s.emulated = 0 THEN [s EXCEPT !.threw = TRUE] ELSE counted
  <2>1. script[k].type = "readcnt" =>
           /\ script[k].type # "write" /\ script[k].type # "wait" /\ script[k].type # "read"
    OBVIOUS
  <2>2. QED
    BY <2>1, Zenon DEF ExecuteCommand
<1>5. [s EXCEPT !.threw = TRUE].threw
  BY <1>1
<1>6. s.emulated = 0 => ExecuteCommand(s, k, f).threw
  <2> HIDE DEF popped, counted
  <2>1. QED
    BY <1>3, <1>4, <1>5
<1>7. ASSUME s.front + s.emulated <= Len(f)
      PROVE  /\ popped.resp = s.resp \o SubSeq(f, s.front + 1, s.front + s.emulated)
             /\ popped.emulated = 0
             /\ popped.front = s.front + s.emulated
  <2> DEFINE flushed == s.resp \o SubSeq(f, s.front + 1, s.front + s.emulated)
             m == IF s.front + s.emulated > Len(f) THEN Len(f) - s.front ELSE s.emulated
  <2>1. m = s.emulated
    BY <1>1, <1>7
  <2>2. popped = [s EXCEPT !.resp = @ \o SubSeq(f, s.front + 1, s.front + m),
                           !.front = @ + m, !.emulated = @ - m, !.threw = (m < s.emulated)]
    BY DEF Pop
  <2> HIDE DEF m
  <2>3. popped = [s EXCEPT !.resp = flushed, !.front = s.front + s.emulated,
                           !.emulated = s.emulated - s.emulated, !.threw = (s.emulated < s.emulated)]
    BY <2>1, <2>2
  <2> HIDE DEF flushed, popped
  <2>4. popped.resp = flushed /\ popped.front = s.front + s.emulated
        /\ popped.emulated = s.emulated - s.emulated
    BY <1>1, <2>3
  <2>5. QED
    BY <1>1, <2>4 DEF flushed
<1>8. ASSUME script[k].type = "readcnt", s.emulated > 0, ~ExecuteCommand(s, k, f).threw
      PROVE  /\ ExecuteCommand(s, k, f).resp = popped.resp
             /\ ExecuteCommand(s, k, f).emulated = popped.emulated
             /\ ExecuteCommand(s, k, f).front = popped.front
  <2>1. ExecuteCommand(s, k, f) = counted
    BY <1>1, <1>4, <1>8, Zenon
  <2>2. PICK p \in State(f) : p = Pop(s, f, n)
    BY <1>1, <1>2, PopType
  <2>3. counted = [p EXCEPT !.threw = @ \/ script[k].n # s.emulated]
    BY <2>2, Zenon
  <2> HIDE DEF counted
  <2>4. /\ counted.threw = (p.threw \/ script[k].n # s.emulated)
        /\ counted.resp = p.resp /\ counted.emulated = p.emulated /\ counted.front = p.front
    BY <2>3 DEF State
  <2>5. script[k].n = s.emulated
    BY <1>8, <2>1, <2>4
  <2>6. n = s.emulated
    BY <2>5
  <2>7. p = popped
    BY <2>2, <2>6, Zenon
  <2>8. QED
    BY <2>1, <2>4, <2>7, Zenon
<1> HIDE DEF popped, counted
<1>9. script[k].type = "read" /\ s.emulated > 0 => ExecuteCommand(s, k, f) = popped
  BY <1>1, <1>3
<1>10. QED
  BY <1>6, <1>7, <1>8, <1>9

FrameOf(k) == Frame(k, 1, Word(k, 1))
Prepares(k) == script[k].mode \in {"read", "sum", "and"}

\* The frames f are those that the commands after base, up to last, prepare.
Complete(f, base, last) ==
    /\ \A j \in DOMAIN f : \E k \in base + 1 .. last : Prepares(k) /\ f[j] = FrameOf(k)
    /\ \A k \in base + 1 .. last : Prepares(k) => \E j \in DOMAIN f : f[j] = FrameOf(k)
    /\ \A i, j \in DOMAIN f : i < j => f[i].asked[2] < f[j].asked[2]

\* The frames that the executor counts after command k, and the first command
\* whose frame it has not popped.
Pending(k) ==
    IF k = 0 \/ script[k].type # "write" THEN 0
    ELSE IF script[k].mode = "or" THEN 1 ELSE ResponseSize(script[k])
First(k) ==
    IF k = 0 THEN 1
    ELSE IF script[k].mode \in {"read", "sum", "and", "block"} THEN k
    ELSE IF script[k].mode = "or" THEN k - 1 ELSE k + 1

\* The executor has not thrown: it has done what the reference does.
Tracks(s, f, k) ==
    ~s.threw =>
       /\ s.resp = RefAfter[k].resp
       /\ s.emulated = Pending(k)
       /\ \A j \in DOMAIN f : j <= s.front <=> f[j].asked[2] < First(k)

LEMMA PendingFacts ==
  ASSUME TypeOK, NEW k \in 1 .. Len(script)
  PROVE  /\ script[k].mode \in {"read", "sum", "and"} => Pending(k) = 1 /\ First(k) = k
         /\ script[k].mode = "or" => Pending(k) = 1 /\ First(k) = k - 1
         /\ script[k].mode = "block" => First(k) = k
         /\ script[k].mode \in {"none", "write", "unknown"} => Pending(k) = 0 /\ First(k) = k + 1
<1>1. PICK c \in Command : c = script[k]
  BY DEF TypeOK
<1>2. /\ c.mode \in {"read", "sum", "and", "or", "block"} => c.type = "write"
      /\ c.mode \in {"read", "sum", "and"} => ResponseSize(c) = 1
      /\ c.mode \in {"none", "write", "unknown"} => ResponseSize(c) = 0
  BY CommandKinds DEF ResponseSize
<1>3. k # 0 /\ k \in Nat
  BY DEF TypeOK
<1>4. QED
  BY <1>1, <1>2, <1>3 DEF Pending, First

LEMMA SettledPending ==
  ASSUME TypeOK, NEW k \in 0 .. Len(script), Settled(k)
  PROVE  Pending(k) = 0 /\ First(k) = k + 1
<1>1. CASE k = 0
  BY <1>1 DEF Pending, First
<1>2. CASE k > 0
  <2>1. k \in 1 .. Len(script)
    BY <1>2 DEF TypeOK
  <2>2. QED
    BY <1>2, <2>1, PendingFacts DEF Settled
<1>3. QED
  BY <1>1, <1>2

LEMMA CompleteFrames ==
  ASSUME TypeOK, NEW f \in Seq(Entry), NEW base \in Nat, NEW last \in Nat, Complete(f, base, last)
  PROVE  /\ DOMAIN f = 1 .. Len(f) /\ Len(f) \in Nat
         /\ \A j \in 1 .. Len(f) : f[j] = FrameOf(f[j].asked[2])
                                   /\ f[j].asked[2] \in base + 1 .. last /\ Prepares(f[j].asked[2])
<1>1. \A k : FrameOf(k).asked[2] = k
  BY DEF FrameOf, Frame, Word
<1>2. QED
  BY <1>1 DEF Complete

\* The frame that the executor pops next.
LEMMA NextFrame ==
  ASSUME TypeOK, NEW f \in Seq(Entry), NEW base \in Nat, NEW last \in Nat, Complete(f, base, last),
         NEW q \in base + 1 .. last, Prepares(q), NEW i \in 0 .. Len(f),
         \A j \in DOMAIN f : j <= i <=> f[j].asked[2] < q
  PROVE  /\ i + 1 <= Len(f) /\ f[i + 1] = FrameOf(q)
         /\ \A j \in DOMAIN f : j <= i + 1 <=> f[j].asked[2] < q + 1
<1>1. /\ DOMAIN f = 1 .. Len(f) /\ Len(f) \in Nat /\ i \in Nat /\ q \in Nat
      /\ \A j \in 1 .. Len(f) : f[j] = FrameOf(f[j].asked[2]) /\ f[j].asked[2] \in Nat
  <2>1. base + 1 .. last \subseteq Nat
    OBVIOUS
  <2>2. QED
    BY <2>1, CompleteFrames
<1>2. \A a, b \in 1 .. Len(f) : a < b => f[a].asked[2] < f[b].asked[2]
  BY <1>1 DEF Complete
<1>3. PICK p \in 1 .. Len(f) : f[p] = FrameOf(q)
  BY <1>1 DEF Complete
<1>4. f[p].asked[2] = q
  BY <1>3 DEF FrameOf, Frame, Word
<1>5. i < p
  BY <1>1, <1>4
<1>6. i + 1 \in 1 .. Len(f)
  BY <1>1, <1>5
<1>7. ~(f[i + 1].asked[2] < q)
  BY <1>1, <1>6
<1>8. ~(i + 1 < p)
  <2>1. f[i + 1].asked[2] \in Nat
    BY <1>1, <1>6
  <2>2. i + 1 < p => f[i + 1].asked[2] < q
    BY <1>2, <1>4, <1>6
  <2>3. QED
    BY <1>7, <2>2
<1>9. p = i + 1
  BY <1>1, <1>5, <1>8
<1>10. ASSUME NEW j \in 1 .. Len(f) PROVE j <= i + 1 <=> f[j].asked[2] < q + 1
  <2>1. f[j].asked[2] \in Nat /\ j \in Nat
    BY <1>1
  <2>2. CASE j <= i
    BY <1>1, <2>1, <2>2
  <2>3. CASE j = i + 1
    BY <1>1, <1>4, <1>9, <2>3
  <2>4. CASE j > i + 1
    <3>1. q < f[j].asked[2]
      BY <1>2, <1>4, <1>9, <2>4
    <3>2. QED
      BY <1>1, <2>1, <2>4, <3>1
  <2>5. QED
    BY <1>1, <2>1, <2>2, <2>3, <2>4
<1>11. QED
  BY <1>1, <1>3, <1>6, <1>9, <1>10

LEMMA SubSeqOne ==
  ASSUME NEW S, NEW f \in Seq(S), NEW i \in 1 .. Len(f)
  PROVE  SubSeq(f, i, i) = <<f[i]>>
<1>1. i \in Nat /\ Len(f) \in Nat
  OBVIOUS
<1>2. SubSeq(f, i, i) = [j \in 1 .. 1 |-> f[i + j - 1]]
  BY <1>1
<1>3. \A j \in 1 .. 1 : i + j - 1 = i
  BY <1>1
<1>4. [j \in 1 .. 1 |-> f[i + j - 1]] = [j \in 1 .. 1 |-> f[i]]
  BY <1>3
<1>5. [j \in 1 .. 1 |-> f[i]] = <<f[i]>>
  OBVIOUS
<1>6. QED
  BY <1>2, <1>4, <1>5

\* A read that is accepted follows the operation whose frame it pops, or
\* nothing.
LEMMA ReadsLast ==
  ASSUME TypeOK, Disciplined(script), NEW k \in 1 .. Len(script), script[k].type \in {"read", "readcnt"}
  PROVE  /\ k - 1 \in 1 .. Len(script)
         /\ script[k - 1].mode \in {"read", "sum", "or", "block"} \/ Settled(k - 1)
<1>1. /\ DOMAIN script = 1 .. Len(script) /\ Len(script) \in Nat
      /\ \A i \in 1 .. Len(script) : script[i] \in Command
  BY DEF TypeOK
<1>2. k # 1
  BY <1>1 DEF Disciplined, ReadsAtOnce
<1>3. k - 1 \in 1 .. Len(script) /\ (k - 1) + 1 = k
  BY <1>1, <1>2
<1>4. PICK c \in Command : c = script[k - 1]
  BY <1>1, <1>3
<1>5. c.mode # "and"
  <2>1. c.mode = "and" => script[k].mode = "or"
    BY <1>1, <1>3, <1>4 DEF Disciplined, AndsArePaired
  <2>2. script[k].mode = "none"
    BY <1>1, CommandKinds
  <2>3. QED
    BY <2>1, <2>2
<1>6. c.mode \in {"none", "read", "write", "and", "or", "sum", "block", "unknown"}
  BY CommandKinds
<1>7. QED
  BY <1>3, <1>4, <1>5, <1>6 DEF Settled

\* The frame that a command leaves to be read is its own, or that of the AND
\* before it.
LEMMA OwedFrame ==
  ASSUME TypeOK, Disciplined(script), NEW base \in 0 .. Len(script), Settled(base),
         NEW k \in 1 .. Len(script), base < k, Accepted(k), script[k].mode \in {"read", "sum", "or"}
  PROVE  \E q \in base + 1 .. k :
            /\ Prepares(q) /\ First(k) = q /\ Pending(k) = 1 /\ Unread(k) = <<FrameOf(q)>>
            /\ \A i \in q + 1 .. k : ~Prepares(i)
<1>1. k \in Nat /\ base \in Nat /\ k # 0 /\ k \in base + 1 .. k
  BY DEF TypeOK
<1>2. PICK d \in Command : d = script[k]
  BY DEF TypeOK
<1>3. d.type = "write"
  BY <1>2, CommandKinds
<1>4. CASE d.mode \in {"read", "sum"}
  <2>1. Pending(k) = 1 /\ First(k) = k /\ Prepares(k)
    BY <1>2, <1>4, PendingFacts DEF Prepares
  <2>2. ResponseSize(d) = 1 /\ d.mode # "and" /\ d.mode # "or"
    BY <1>4 DEF ResponseSize
  <2>3. Unread(k) = [j \in 1 .. 1 |-> Frame(k, j, Word(k, j))]
    BY <1>1, <1>2, <1>3, <2>2 DEF Unread
  <2>4. [j \in 1 .. 1 |-> Frame(k, j, Word(k, j))] = <<FrameOf(k)>>
    BY DEF FrameOf
  <2>5. k + 1 .. k = {}
    BY <1>1
  <2>6. QED
    BY <1>1, <2>1, <2>3, <2>4, <2>5
<1>5. CASE d.mode = "or"
  <2>1. Pending(k) = 1 /\ First(k) = k - 1
    BY <1>2, <1>5, PendingFacts
  <2>2. Unread(k) = <<FrameOf(k - 1)>>
    BY <1>1, <1>2, <1>3, <1>5 DEF Unread, FrameOf
  <2>3. k - 1 \in 1 .. Len(script) /\ script[k - 1].mode = "and"
    BY <1>2, <1>5, NothingBefore
  <2>4. k - 1 # base
    <3>1. base # 0 => script[base].mode # "and"
      BY DEF Settled
    <3>2. QED
      BY <2>3, <3>1
  <2>5. k - 1 \in base + 1 .. k /\ (k - 1) + 1 .. k = {k}
    BY <1>1, <2>3, <2>4
  <2>6. Prepares(k - 1) /\ ~Prepares(k)
    BY <1>2, <1>5, <2>3 DEF Prepares
  <2>7. QED
    BY <2>1, <2>2, <2>5, <2>6
<1>6. QED
  BY <1>2, <1>4, <1>5

LEMMA TracksStep ==
  ASSUME TypeOK, Disciplined(script), NEW f \in Seq(Entry),
         NEW base \in 0 .. Len(script), NEW last \in 1 .. Len(script), Settled(base),
         Complete(f, base, last), \A i \in 1 .. last : Accepted(i),
         \A i \in base + 1 .. last - 1 : script[i].mode # "block",
         NEW k \in base + 1 .. last, NEW s \in State(f), Tracks(s, f, k - 1)
  PROVE  Tracks(ExecuteCommand(s, k, f), f, k)
<1>1. /\ k \in 1 .. Len(script) /\ k - 1 \in 0 .. Len(script) /\ k \in 1 .. last /\ k - 1 \in 0 .. last
      /\ last \in 0 .. Len(script) /\ base \in Nat /\ last \in Nat /\ k \in Nat
  BY DEF TypeOK
<1>2. PICK c \in Command : c = script[k]
  BY <1>1 DEF TypeOK
<1>3. /\ c.type \in {"reset", "read", "readcnt", "wait", "write"}
      /\ c.type # "write" => c.mode = "none"
      /\ c.type = "write" => c.mode \in {"read", "write", "and", "or", "sum", "block", "unknown"}
  BY <1>1, <1>2, CommandKinds DEF Accepted
<1>4. CASE s.threw
  <2>1. ExecuteCommand(s, k, f) = s
    BY <1>4, Zenon DEF ExecuteCommand
  <2>2. QED
    BY <1>4, <2>1 DEF Tracks
<1>5. CASE ~s.threw
  <2>1. /\ s.resp = RefAfter[k - 1].resp /\ s.emulated = Pending(k - 1)
        /\ \A j \in DOMAIN f : j <= s.front <=> f[j].asked[2] < First(k - 1)
    BY <1>5 DEF Tracks
  <2>2. RefAfter[k] = RefCommand(RefAfter[k - 1], k) /\ RefAfter[k - 1] \in RefState
    BY <1>1, RefSteps, RefAfterTyped
  <2>3. RefAfter[k - 1].fifo = Unread(k - 1)
    BY <1>1, ReferenceUnread
  <2>4. /\ c.type = "reset" => RefAfter[k].resp = RefAfter[k - 1].resp
        /\ c.type = "wait" => RefAfter[k].resp = Append(RefAfter[k - 1].resp, Line("wait", k))
        /\ c.type \in {"read", "readcnt"} => RefAfter[k].resp = RefAfter[k - 1].resp \o Unread(k - 1)
        /\ c.type = "write" => RefAfter[k].resp = Append(RefAfter[k - 1].resp, Line("ack", k))
    <3>1. PICK r \in RefState : r = RefAfter[k - 1]
      BY <2>2
    <3>2. /\ script[k].type = "reset" => RefCommand(r, k).resp = r.resp
          /\ script[k].type = "wait" => RefCommand(r, k).resp = Append(r.resp, Line("wait", k))
          /\ script[k].type \in {"read", "readcnt"} => RefCommand(r, k).resp = r.resp \o r.fifo
          /\ script[k].mode = "and" => RefCommand(r, k).resp = Append(r.resp, Line("ack", k))
          /\ script[k].mode = "or" => RefCommand(r, k).resp = Append(r.resp, Line("ack", k))
          /\ script[k].type \in {"write", "invalid"} /\ script[k].mode \notin {"and", "or"} =>
                RefCommand(r, k).resp = Append(r.resp, Line("ack", k))
      BY <1>1, RefCommandIs
    <3>3. RefAfter[k] = RefCommand(r, k)
      BY <2>2, <3>1
    <3>4. QED
      BY <1>2, <2>3, <3>1, <3>2, <3>3
  <2>5. c.mode # "or" /\ c.type \notin {"read", "readcnt"} => Pending(k - 1) = 0 /\ First(k - 1) = k
    <3>1. c.mode # "or" /\ c.type \notin {"read", "readcnt"} => Settled(k - 1)
      BY <1>1, <1>2, NothingBefore
    <3>2. (k - 1) + 1 = k
      BY <1>1
    <3>3. QED
      BY <1>1, <3>1, <3>2, SettledPending
  <2>6. /\ DOMAIN f = 1 .. Len(f) /\ Len(f) \in Nat
        /\ \A j \in DOMAIN f : f[j].asked[2] \in Nat /\ Prepares(f[j].asked[2])
    <3>1. base + 1 .. last \subseteq Nat
      BY <1>1
    <3>2. QED
      BY <1>1, <3>1, CompleteFrames
  <2>7. CASE c.type = "write" /\ c.mode # "or"
    <3>1. ResponseSize(c) \in Nat /\ s.emulated + ResponseSize(c) = Pending(k)
      <4>1. s.emulated = 0 /\ ResponseSize(c) \in Nat
        BY <2>1, <2>5, <2>7, CommandFacts
      <4>2. Pending(k) = ResponseSize(c)
        BY <1>1, <1>2, <2>7 DEF Pending
      <4>3. QED
        BY <4>1, <4>2
    <3>2. /\ ExecuteCommand(s, k, f).resp = RefAfter[k].resp
          /\ ExecuteCommand(s, k, f).emulated = Pending(k)
          /\ ExecuteCommand(s, k, f).front = s.front
      BY <1>1, <1>2, <1>5, <2>1, <2>4, <2>7, <3>1, WriteExecuted
    <3>3. First(k) = k \/ (First(k) = k + 1 /\ ~Prepares(k))
      BY <1>1, <1>2, <1>3, <2>7, PendingFacts DEF Prepares
    <3>4. \A j \in DOMAIN f : f[j].asked[2] < k <=> f[j].asked[2] < First(k)
      <4>1. ASSUME NEW j \in DOMAIN f, First(k) = k + 1, ~Prepares(k)
            PROVE  f[j].asked[2] < k <=> f[j].asked[2] < k + 1
        <5>1. f[j].asked[2] # k /\ f[j].asked[2] \in Nat
          BY <2>6, <4>1
        <5>2. QED
          BY <1>1, <5>1
      <4>2. QED
        BY <3>3, <4>1
    <3>5. QED
      BY <2>1, <2>5, <2>7, <3>2, <3>4 DEF Tracks
  <2>8. CASE c.mode = "or"
    <3>1. k - 1 \in 1 .. Len(script) /\ script[k - 1].mode = "and"
      BY <1>1, <1>2, <2>8, NothingBefore
    <3>2. Pending(k - 1) = 1 /\ First(k - 1) = k - 1
      BY <3>1, PendingFacts
    <3>3. Pending(k) = 1 /\ First(k) = k - 1
      BY <1>1, <1>2, <2>8, PendingFacts
    <3>4. c.type = "write" /\ ResponseSize(c) = 0
      BY <1>3, <2>8 DEF ResponseSize
    <3>5. /\ ExecuteCommand(s, k, f).resp = RefAfter[k].resp
          /\ ExecuteCommand(s, k, f).emulated = 1
          /\ ExecuteCommand(s, k, f).front = s.front
      <4>1. /\ ExecuteCommand(s, k, f).resp = Append(s.resp, Line("ack", k))
            /\ ExecuteCommand(s, k, f).emulated = s.emulated + ResponseSize(c)
            /\ ExecuteCommand(s, k, f).front = s.front
        BY <1>1, <1>2, <1>5, <3>4, WriteExecuted
      <4>2. s.emulated + ResponseSize(c) = 1
        BY <2>1, <3>2, <3>4
      <4>3. QED
        BY <2>1, <2>4, <3>4, <4>1, <4>2
    <3>6. QED
      BY <2>1, <3>2, <3>3, <3>5 DEF Tracks
  <2>9. CASE c.type \in {"wait", "reset"}
    <3>1. Pending(k) = 0 /\ First(k) = k + 1 /\ ~Prepares(k)
      BY <1>1, <1>2, <1>3, <2>9, PendingFacts DEF Prepares
    <3>2. s.emulated = 0 /\ First(k - 1) = k
      BY <2>1, <2>5, <2>9, <1>3
    <3>3. /\ ExecuteCommand(s, k, f).resp = RefAfter[k].resp
          /\ ExecuteCommand(s, k, f).emulated = 0
          /\ ExecuteCommand(s, k, f).front = s.front
      BY <1>1, <1>2, <1>5, <2>1, <2>4, <2>9, <3>2, WriteExecuted
    <3>4. ASSUME NEW j \in DOMAIN f PROVE f[j].asked[2] < k <=> f[j].asked[2] < k + 1
      <4>1. f[j].asked[2] # k /\ f[j].asked[2] \in Nat
        BY <2>6, <3>1
      <4>2. QED
        BY <1>1, <4>1
    <3>5. QED
      BY <2>1, <3>1, <3>2, <3>3, <3>4 DEF Tracks
  <2>10. CASE c.type \in {"read", "readcnt"}
    <3>1. /\ k - 1 \in 1 .. Len(script)
          /\ script[k - 1].mode \in {"read", "sum", "or", "block"} \/ Settled(k - 1)
      BY <1>1, <1>2, <2>10, ReadsLast
    <3>2. CASE Settled(k - 1)
      <4>1. s.emulated = 0
        BY <1>1, <2>1, <3>2, SettledPending
      <4>2. ExecuteCommand(s, k, f).threw
        BY <1>1, <1>2, <1>5, <2>10, <4>1, ReadExecuted
      <4>3. QED
        BY <4>2 DEF Tracks
    <3>3. CASE ~Settled(k - 1)
      <4>1. k - 1 # base
        BY <3>3
      <4>2. k - 1 \in base + 1 .. last - 1
        BY <1>1, <3>1, <4>1
      <4>3. script[k - 1].mode # "block"
        BY <4>2
      <4>4. PICK q \in base + 1 .. last : /\ Prepares(q) /\ First(k - 1) = q /\ Pending(k - 1) = 1
                                          /\ Unread(k - 1) = <<FrameOf(q)>> /\ q + 1 <= k
                                          /\ \A i \in q + 1 .. k : ~Prepares(i)
        <5>1. k - 1 \in 1 .. Len(script) /\ base < k - 1 /\ Accepted(k - 1)
              /\ script[k - 1].mode \in {"read", "sum", "or"}
          BY <1>1, <3>1, <3>3, <4>1, <4>2, <4>3
        <5>2. PICK q \in base + 1 .. k - 1 :
                 /\ Prepares(q) /\ First(k - 1) = q /\ Pending(k - 1) = 1
                 /\ Unread(k - 1) = <<FrameOf(q)>>
                 /\ \A i \in q + 1 .. k - 1 : ~Prepares(i)
          BY <5>1, OwedFrame
        <5>3. ~Prepares(k)
          BY <1>2, <1>3, <2>10 DEF Prepares
        <5>4. q \in base + 1 .. last /\ q + 1 <= k
              /\ \A i \in q + 1 .. k : i \in q + 1 .. k - 1 \/ i = k
          BY <1>1, <5>2
        <5>5. QED
          BY <5>2, <5>3, <5>4
      <4>5. s.front \in 0 .. Len(f) /\ s.emulated = 1 /\ s.front \in Nat
        BY <2>1, <2>6, <4>4 DEF State
      <4>6. /\ s.front + 1 <= Len(f) /\ f[s.front + 1] = FrameOf(q)
            /\ \A j \in DOMAIN f : j <= s.front + 1 <=> f[j].asked[2] < q + 1
        <5>1. \A j \in DOMAIN f : j <= s.front <=> f[j].asked[2] < q
          BY <2>1, <4>4
        <5>2. PICK i \in 0 .. Len(f) : i = s.front
          BY <4>5
        <5>3. \A j \in DOMAIN f : j <= i <=> f[j].asked[2] < q
          BY <5>1, <5>2
        <5>4. /\ i + 1 <= Len(f) /\ f[i + 1] = FrameOf(q)
              /\ \A j \in DOMAIN f : j <= i + 1 <=> f[j].asked[2] < q + 1
          BY <1>1, <4>4, <5>3, NextFrame
        <5>5. QED
          BY <5>2, <5>4
      <4>7. SubSeq(f, s.front + 1, s.front + 1) = <<FrameOf(q)>>
        <5>1. SubSeq(f, s.front + 1, s.front + 1) = <<f[s.front + 1]>>
          <6>1. s.front + 1 \in 1 .. Len(f)
            BY <2>6, <4>5, <4>6
          <6>2. QED
            BY <6>1, SubSeqOne
        <5>2. QED
          BY <4>6, <5>1
      <4>8. SUFFICES ASSUME ~ExecuteCommand(s, k, f).threw
                     PROVE  Tracks(ExecuteCommand(s, k, f), f, k)
        BY DEF Tracks
      <4>9. /\ ExecuteCommand(s, k, f).resp = s.resp \o SubSeq(f, s.front + 1, s.front + 1)
            /\ ExecuteCommand(s, k, f).emulated = 0
            /\ ExecuteCommand(s, k, f).front = s.front + 1
        <5>1. s.emulated > 0 /\ s.front + s.emulated <= Len(f)
          BY <4>5, <4>6
        <5>2. /\ ExecuteCommand(s, k, f).resp = s.resp \o SubSeq(f, s.front + 1, s.front + s.emulated)
              /\ ExecuteCommand(s, k, f).emulated = 0
              /\ ExecuteCommand(s, k, f).front = s.front + s.emulated
          BY <1>1, <1>2, <1>5, <2>10, <4>8, <5>1, ReadExecuted
        <5>3. QED
          BY <4>5, <5>2
      <4>10. ExecuteCommand(s, k, f).resp = RefAfter[k].resp
        BY <2>1, <2>4, <2>10, <4>4, <4>7, <4>9
      <4>11. Pending(k) = 0 /\ First(k) = k + 1
        BY <1>1, <1>2, <1>3, <2>10, PendingFacts
      <4>12. ASSUME NEW j \in DOMAIN f PROVE f[j].asked[2] < q + 1 <=> f[j].asked[2] < k + 1
        <5>1. f[j].asked[2] \in Nat /\ f[j].asked[2] \notin q + 1 .. k /\ q \in Nat
          BY <1>1, <2>6, <4>4
        <5>2. QED
          BY <1>1, <4>4, <5>1
      <4>13. QED
        BY <4>6, <4>9, <4>10, <4>11, <4>12 DEF Tracks
    <3>4. QED
      BY <3>2, <3>3
  <2>11. QED
    BY <1>3, <2>7, <2>8, <2>9, <2>10
<1>6. QED
  BY <1>4, <1>5

\* A whole buffer: the commands from the first to the last answer what the
\* reference answers, and the FIFO keeps what the last one leaves to be read.
LEMMA ExecutionTracks ==
  ASSUME TypeOK, Disciplined(script), NEW commands \in Seq(1 .. Len(script)), NEW f \in Seq(Entry),
         NEW base \in 0 .. Len(script), NEW last \in 0 .. Len(script),
         last = base + Len(commands), \A i \in 1 .. Len(commands) : commands[i] = base + i,
         Settled(base), Complete(f, base, last), \A i \in 1 .. last : Accepted(i),
         \A i \in base + 1 .. last - 1 : script[i].mode # "block",
         front = 0, response = RefAfter[base].resp,
         NEW next, Execute(commands, f, 0, next), phase' # "threw"
  PROVE  /\ phase' = next /\ response' = RefAfter[last].resp /\ cmdBuffer' = <<>>
         /\ Settled(last) \/ (last > 0 /\ script[last].mode = "block") => buf' = <<>> /\ front' = 0
         /\ last > 0 /\ script[last].mode \in {"read", "sum", "or"} =>
               SubSeq(buf', front' + 1, Len(buf')) = Unread(last)
<1>1. Len(commands) \in Nat /\ base \in Nat /\ last \in Nat /\ Len(f) \in Nat /\ Len(script) \in Nat
      /\ DOMAIN f = 1 .. Len(f) /\ front <= Len(f)
  BY DEF TypeOK
<1>2. PICK after : /\ Executed(after, commands, f, 0)
                   /\ after[Len(commands)] \in State(f)
                   /\ Leaves(after[Len(commands)], commands, f, next)
  BY <1>1, ExecutorEnds
<1>3. \A j \in 1 .. Len(f) : f[j].asked[2] \in base + 1 .. last /\ Prepares(f[j].asked[2])
  BY <1>1, CompleteFrames
<1>4. \A n \in 0 .. Len(commands) : Tracks(after[n], f, base + n)
  <2> DEFINE T == {n \in Nat : n <= Len(commands) => Tracks(after[n], f, base + n)}
  <2>1. 0 \in T
    <3>1. PICK s : s = after[0]
      OBVIOUS
    <3>2. s = [emulated |-> 0, front |-> 0, resp |-> response, threw |-> FALSE]
      BY <1>2, <3>1 DEF Executed
    <3>3. s.emulated = 0 /\ s.front = 0 /\ s.resp = RefAfter[base].resp
      BY <3>2
    <3>4. Pending(base) = 0 /\ First(base) = base + 1
      BY SettledPending
    <3>5. ASSUME NEW j \in DOMAIN f PROVE j <= 0 <=> f[j].asked[2] < base + 1
      <4>1. f[j].asked[2] \in base + 1 .. last /\ j \in 1 .. Len(f)
        BY <1>1, <1>3
      <4>2. QED
        BY <1>1, <4>1
    <3>6. Tracks(s, f, base)
      BY <3>3, <3>4, <3>5 DEF Tracks
    <3>7. base + 0 = base
      BY <1>1
    <3>8. QED
      BY <3>1, <3>6, <3>7
  <2>2. ASSUME NEW n \in Nat, n \in T PROVE n + 1 \in T
    <3>1. SUFFICES ASSUME n + 1 <= Len(commands) PROVE Tracks(after[n + 1], f, base + (n + 1))
      OBVIOUS
    <3>2. /\ n \in 0 .. Len(commands) /\ n + 1 \in 1 .. Len(commands) /\ (n + 1) - 1 = n
          /\ base + (n + 1) \in base + 1 .. last /\ (base + (n + 1)) - 1 = base + n
          /\ last \in 1 .. Len(script)
      BY <1>1, <3>1
    <3>3. after[n + 1] = ExecuteCommand(after[n], base + (n + 1), f) /\ after[n] \in State(f)
      BY <1>2, <3>2 DEF Executed
    <3>4. PICK k \in base + 1 .. last : k = base + (n + 1)
      BY <3>2
    <3>5. PICK s \in State(f) : s = after[n]
      BY <3>3
    <3>6. Tracks(s, f, k - 1)
      BY <2>2, <3>1, <3>2, <3>4, <3>5
    <3>7. Tracks(ExecuteCommand(s, k, f), f, k)
      BY <3>2, <3>6, TracksStep
    <3>8. QED
      BY <3>3, <3>4, <3>5, <3>7
  <2> HIDE DEF T
  <2>3. Nat \subseteq T
    BY <2>1, <2>2, SetInduction
  <2>4. QED
    BY <1>1, <2>3 DEF T
<1>5. PICK end \in State(f) : Leaves(end, commands, f, next) /\ Tracks(end, f, last)
  <2>1. Len(commands) \in 0 .. Len(commands)
    BY <1>1
  <2>2. Tracks(after[Len(commands)], f, last)
    BY <1>4, <2>1
  <2>3. QED
    BY <1>2, <2>2
<1>6. ~end.threw
  BY <1>5 DEF Leaves
<1>7. /\ end.resp = RefAfter[last].resp
      /\ \A j \in DOMAIN f : j <= end.front <=> f[j].asked[2] < First(last)
  BY <1>5, <1>6 DEF Tracks
<1>8. end.front \in 0 .. Len(f)
  BY <1>5 DEF State
<1>9. response' = RefAfter[last].resp /\ cmdBuffer' = <<>> /\ phase' = next
  BY <1>5, <1>6, <1>7 DEF Leaves
<1>10. ASSUME Settled(last) \/ (last > 0 /\ script[last].mode = "block")
       PROVE  buf' = <<>> /\ front' = 0
  <2>1. \A j \in 1 .. Len(f) : f[j].asked[2] < First(last)
    <3>1. CASE Settled(last)
      <4>1. First(last) = last + 1
        BY <3>1, SettledPending
      <4>2. QED
        BY <1>1, <1>3, <4>1
    <3>2. CASE last > 0 /\ script[last].mode = "block"
      <4>1. First(last) = last /\ ~Prepares(last)
        BY <1>1, <3>2, PendingFacts DEF Prepares
      <4>2. ASSUME NEW j \in 1 .. Len(f) PROVE f[j].asked[2] < last
        <5>1. f[j].asked[2] \in base + 1 .. last /\ f[j].asked[2] # last
          BY <1>3, <4>1
        <5>2. QED
          BY <1>1, <5>1
      <4>3. QED
        BY <4>1, <4>2
    <3>3. QED
      BY <1>10, <3>1, <3>2
  <2>2. end.front = Len(f)
    <3>1. CASE Len(f) = 0
      BY <1>8, <3>1
    <3>2. CASE Len(f) > 0
      <4>1. Len(f) \in 1 .. Len(f)
        BY <1>1, <3>2
      <4>2. Len(f) <= end.front
        BY <1>1, <1>7, <2>1, <4>1
      <4>3. QED
        BY <1>1, <1>8, <4>2
    <3>3. QED
      BY <1>1, <3>1, <3>2
  <2>3. QED
    BY <1>5, <1>6, <2>2 DEF Leaves
<1>11. ASSUME last > 0, script[last].mode \in {"read", "sum", "or"}
       PROVE  SubSeq(buf', front' + 1, Len(buf')) = Unread(last)
  <2>1. last # base
    <3>1. base # 0 => script[base].mode \notin {"read", "sum", "or"}
      BY DEF Settled
    <3>2. QED
      BY <1>11, <3>1
  <2>2. last \in 1 .. Len(script) /\ base < last /\ last \in 1 .. last
    BY <1>1, <1>11, <2>1
  <2>3. PICK q \in base + 1 .. last :
           /\ Prepares(q) /\ First(last) = q /\ Unread(last) = <<FrameOf(q)>>
           /\ \A i \in q + 1 .. last : ~Prepares(i)
    BY <1>11, <2>2, OwedFrame
  <2>4. PICK i \in 0 .. Len(f) : i = end.front
    BY <1>8
  <2>5. /\ i + 1 <= Len(f) /\ f[i + 1] = FrameOf(q)
        /\ \A j \in DOMAIN f : j <= i + 1 <=> f[j].asked[2] < q + 1
    <3>1. \A j \in DOMAIN f : j <= i <=> f[j].asked[2] < q
      BY <1>7, <2>3, <2>4
    <3>2. base \in Nat /\ last \in Nat /\ q \in base + 1 .. last /\ Prepares(q)
      BY <1>1, <2>3
    <3>3. QED
      BY <3>1, <3>2, NextFrame, SMTT(30)
  <2>6. i + 1 = Len(f)
    <3>1. Len(f) \in 1 .. Len(f)
      BY <1>1, <2>4, <2>5
    <3>2. f[Len(f)].asked[2] \in base + 1 .. last /\ f[Len(f)].asked[2] \notin q + 1 .. last
      BY <1>3, <2>3, <3>1
    <3>3. f[Len(f)].asked[2] < q + 1
      BY <1>1, <2>3, <3>2
    <3>4. Len(f) <= i + 1
      BY <1>1, <2>5, <3>1, <3>3
    <3>5. QED
      BY <1>1, <2>4, <2>5, <3>4
  <2>7. front' = i /\ buf' = f
    <3>1. end.front # Len(f)
      BY <1>1, <2>4, <2>6
    <3>2. QED
      BY <1>5, <2>4, <3>1 DEF Leaves
  <2>8. SubSeq(f, i + 1, Len(f)) = <<FrameOf(q)>>
    <3>1. i + 1 \in 1 .. Len(f)
      BY <1>1, <2>4, <2>5
    <3>2. QED
      BY <2>5, <2>6, <3>1, SubSeqOne
  <2>9. QED
    BY <2>3, <2>7, <2>8
<1>12. QED
  BY <1>9, <1>10, <1>11

-----------------------------------------------------------------------------
(* The stages of a sequence.                                               *)

LEMMA SameStages ==
  ASSUME rpc' = rpc, script' = script, pos' = pos, request' = request, reqSize' = reqSize,
         cmdBuffer' = cmdBuffer, buf' = buf, front' = front, execOnRead' = execOnRead,
         block' = block, response' = response, AndWaits' <=> AndWaits
  PROVE  /\ NotYet => NotYet'
         /\ Waiting => Waiting'
         /\ Holding => Holding'
         /\ Doomed => Doomed'
         /\ Reading => Reading'
<1>1. RefAfter' = RefAfter
  BY RefAfterKept
<1>2. NotYet => NotYet'
  BY DEF NotYet
<1>3. Doomed => Doomed'
  BY DEF Doomed
<1>4. Holding => Holding'
  BY <1>1 DEF Holding
<1>5. Reading => Reading'
  BY <1>1, Zenon DEF Reading, Frame, Word
<1>6. Waiting => Waiting'
  <2>1. done' = done /\ Deferred' = Deferred
    BY DEF done, Deferred
  <2>2. \A k : Prepared(k)' <=> Prepared(k)
    BY DEF Prepared
  <2>3. BufferFollows => BufferFollows'
    BY <2>1, Zenon DEF BufferFollows
  <2>4. FramesWait => FramesWait'
    BY <2>1, <2>2, Zenon DEF FramesWait, Frame, Word
  <2>5. SlotsOfFrames => SlotsOfFrames'
    BY Zenon DEF SlotsOfFrames
  <2>6. Settled(done) => Settled(done)'
    BY <2>1, Zenon DEF Settled
  <2>7. QED
    BY <1>1, <2>1, <2>3, <2>4, <2>5, <2>6, Zenon DEF Waiting
<1>7. QED
  BY <1>2, <1>3, <1>4, <1>5, <1>6

\* The FIFO holds the frames of the commands that wait, and the transactions
\* complete each of them.
LEMMA FilledComplete ==
  ASSUME TypeOK, Waiting, ~AndWaits
  PROVE  Complete(Filled(Len(request)), done, pos - 1)
<1> DEFINE p == Len(request)
           f == Filled(p)
<1>1. /\ p \in Nat /\ DOMAIN request = 1 .. p /\ Len(buf) \in Nat /\ DOMAIN buf = 1 .. Len(buf)
      /\ f \in Seq(Entry) /\ Len(f) = Len(buf) /\ DOMAIN f = 1 .. Len(f)
  <2>1. p \in 0 .. Len(request)
    BY DEF TypeOK
  <2>2. QED
    BY <2>1, FilledFrames DEF TypeOK
<1>2. ASSUME NEW i \in 1 .. Len(buf), NEW k, buf[i] = Frame(k, 1, NoValue)
      PROVE  f[i] = FrameOf(k)
  <2> DEFINE T == {t \in 1 .. p : request[t].slot = i}
             last == CHOOSE t \in T : \A u \in T : u <= t
  <2>1. f[i] = IF T = {} THEN buf[i] ELSE [buf[i] EXCEPT !.data = request[last].asked]
    BY DEF Filled
  <2>2. T # {}
    BY <1>1 DEF Waiting, SlotsOfFrames
  <2>3. last \in T
    <3>1. T \in SUBSET (0 .. p)
      BY <1>1
    <3> HIDE DEF T
    <3>2. QED
      BY <1>1, <2>2, <3>1, LargestOf
  <2> HIDE DEF last
  <2>4. request[last].slot = i /\ last \in DOMAIN request
    BY <1>1, <2>3
  <2>5. request[last].asked = buf[i].asked
    <3>1. request[last].slot # 0
      BY <2>4
    <3>2. QED
      BY <2>4, <3>1 DEF Waiting, SlotsOfFrames
  <2>6. buf[i].asked = Word(k, 1)
    BY <1>2 DEF Frame
  <2> HIDE DEF T, f
  <2>7. f[i] = [Frame(k, 1, NoValue) EXCEPT !.data = Word(k, 1)]
    BY <1>2, <2>1, <2>2, <2>5, <2>6
  <2>8. QED
    BY <2>7 DEF Frame, FrameOf
<1>3. \A k : Prepared(k) <=> Prepares(k)
  BY DEF Prepared, Prepares
<1>4. /\ \A i \in 1 .. Len(buf) : \E k \in done + 1 .. pos - 1 :
            Prepares(k) /\ buf[i] = Frame(k, 1, NoValue)
      /\ \A k \in done + 1 .. pos - 1 : Prepares(k) => \E i \in 1 .. Len(buf) : buf[i].asked[2] = k
      /\ \A i, j \in 1 .. Len(buf) : i < j => buf[i].asked[2] < buf[j].asked[2]
  BY <1>1, <1>3 DEF Waiting, FramesWait, Deferred
<1> HIDE DEF f
<1>5. \A i \in 1 .. Len(buf) : \E k \in done + 1 .. pos - 1 :
         Prepares(k) /\ f[i] = FrameOf(k) /\ buf[i].asked[2] = k
  <2>1. \A k : Frame(k, 1, NoValue).asked[2] = k
    BY DEF Frame, Word
  <2>2. QED
    BY <1>2, <1>4, <2>1
<1>6. \A k : FrameOf(k).asked[2] = k
  BY DEF FrameOf, Frame, Word
<1>7. \A k \in done + 1 .. pos - 1 : Prepares(k) => \E i \in 1 .. Len(buf) : f[i] = FrameOf(k)
  BY <1>4, <1>5
<1>8. \A i \in 1 .. Len(buf) : f[i].asked[2] = buf[i].asked[2]
  BY <1>5, <1>6
<1>9. \A i, j \in 1 .. Len(buf) : i < j => f[i].asked[2] < f[j].asked[2]
  BY <1>4, <1>8
<1>10. Complete(f, done, pos - 1)
  BY <1>1, <1>5, <1>7, <1>9 DEF Complete
<1>11. QED
  BY <1>10 DEF f

\* A packet whose transactions have all succeeded.
LEMMA PacketTracks ==
  ASSUME TypeOK, Disciplined(script), Waiting, NEW commands \in Seq(1 .. Len(script)),
         NEW last \in 0 .. Len(script), last = done + Len(commands),
         \A i \in 1 .. Len(commands) : commands[i] = done + i,
         Complete(Filled(Len(request)), done, last), \A i \in 1 .. last : Accepted(i),
         \A i \in done + 1 .. last - 1 : script[i].mode # "block",
         NEW next, Transceived(commands, next), phase' # "threw"
  PROVE  /\ phase' = next /\ response' = RefAfter[last].resp /\ cmdBuffer' = <<>>
         /\ request' = <<>> /\ reqSize' = 1
         /\ Settled(last) \/ (last > 0 /\ script[last].mode = "block") => buf' = <<>> /\ front' = 0
         /\ last > 0 /\ script[last].mode \in {"read", "sum", "or"} =>
               SubSeq(buf', front' + 1, Len(buf')) = RefAfter[last].fifo
<1>1. Execute(commands, Filled(Len(request)), 0, next) /\ request' = <<>> /\ reqSize' = 1
  BY DEF Transceived, ResetRequest
<1>2. PICK f \in Seq(Entry) : f = Filled(Len(request))
  <2>1. Len(request) \in 0 .. Len(request)
    BY DEF TypeOK
  <2>2. QED
    BY <2>1, FilledFrames
<1>3. PICK base \in 0 .. Len(script) : base = done
  <2>1. done \in Nat /\ done <= last
    <3>1. Len(cmdBuffer) \in Nat /\ pos \in Nat /\ Len(commands) \in Nat
      BY DEF TypeOK
    <3>2. done >= 0
      BY DEF Waiting, BufferFollows
    <3>3. QED
      BY <3>1, <3>2 DEF done
  <2>2. QED
    BY <2>1 DEF TypeOK
<1>4. front = 0 /\ response = RefAfter[base].resp /\ Settled(base)
  BY <1>3 DEF Waiting
<1>5. /\ last = base + Len(commands) /\ \A i \in 1 .. Len(commands) : commands[i] = base + i
      /\ Complete(f, base, last) /\ \A i \in base + 1 .. last - 1 : script[i].mode # "block"
      /\ Execute(commands, f, 0, next)
  BY <1>1, <1>2, <1>3
<1>6. /\ phase' = next /\ response' = RefAfter[last].resp /\ cmdBuffer' = <<>>
      /\ Settled(last) \/ (last > 0 /\ script[last].mode = "block") => buf' = <<>> /\ front' = 0
      /\ last > 0 /\ script[last].mode \in {"read", "sum", "or"} =>
            SubSeq(buf', front' + 1, Len(buf')) = Unread(last)
  BY <1>4, <1>5, ExecutionTracks
<1>7. RefAfter[last].fifo = Unread(last)
  <2>1. last \in 0 .. last
    BY DEF TypeOK
  <2>2. QED
    BY <2>1, ReferenceUnread
<1>8. QED
  BY <1>1, <1>6, <1>7

\* The commands that wait are executed.
LEMMA WaitingExecuted ==
  ASSUME TypeOK, Disciplined(script), Waiting, ~AndWaits, \A k \in 1 .. pos - 1 : Accepted(k),
         NEW next, Transceived(cmdBuffer, next), phase' # "threw"
  PROVE  /\ phase' = next /\ response' = RefAfter[pos - 1].resp /\ cmdBuffer' = <<>>
         /\ request' = <<>> /\ reqSize' = 1
         /\ Settled(pos - 1) \/ script[pos - 1].mode = "block" => buf' = <<>> /\ front' = 0
         /\ script[pos - 1].mode \in {"read", "sum", "or"} =>
               SubSeq(buf', front' + 1, Len(buf')) = RefAfter[pos - 1].fifo
<1>1. /\ pos \in Nat /\ pos > 1 /\ pos <= Len(script) + 1 /\ Len(script) \in Nat
      /\ Len(cmdBuffer) \in Nat /\ DOMAIN cmdBuffer = 1 .. Len(cmdBuffer)
  BY DEF TypeOK, Waiting
<1>2. PICK last \in 0 .. Len(script) : last = pos - 1 /\ last > 0
  BY <1>1
<1>3. PICK commands \in Seq(1 .. Len(script)) : commands = cmdBuffer
  <2>1. cmdBuffer \in Seq(1 .. pos - 1)
    BY DEF TypeOK
  <2>2. 1 .. pos - 1 \subseteq 1 .. Len(script)
    BY <1>1
  <2>3. QED
    BY <2>1, <2>2, SeqWider
<1>4. last = done + Len(commands) /\ \A i \in 1 .. Len(commands) : commands[i] = done + i
  BY <1>1, <1>2, <1>3 DEF done, Waiting, BufferFollows
<1>5. Complete(Filled(Len(request)), done, last) /\ \A k \in 1 .. last : Accepted(k)
  BY <1>2, FilledComplete
<1>6. \A i \in done + 1 .. last - 1 : script[i].mode # "block"
  <2>1. ASSUME NEW i \in done + 1 .. last - 1 PROVE script[i].mode # "block"
    <3>1. done \in Nat
      BY <1>1 DEF done, Waiting, BufferFollows
    <3>2. i - done \in 1 .. Len(cmdBuffer) /\ done + (i - done) = i
      BY <1>1, <1>2, <1>3, <1>4, <3>1
    <3>3. QED
      BY <1>1, <3>2 DEF Waiting, BufferFollows
  <2>2. QED
    BY <2>1
<1>7. Transceived(commands, next)
  BY <1>3
<1>8. /\ phase' = next /\ response' = RefAfter[last].resp /\ cmdBuffer' = <<>>
      /\ request' = <<>> /\ reqSize' = 1
      /\ Settled(last) \/ (last > 0 /\ script[last].mode = "block") => buf' = <<>> /\ front' = 0
      /\ last > 0 /\ script[last].mode \in {"read", "sum", "or"} =>
            SubSeq(buf', front' + 1, Len(buf')) = RefAfter[last].fifo
  BY <1>4, <1>5, <1>6, <1>7, PacketTracks
<1>9. QED
  BY <1>2, <1>8

\* A block read executes them too, its own write included.
LEMMA BlockExecuted ==
  ASSUME TypeOK, Disciplined(script), Waiting, ~AndWaits, \A k \in 1 .. pos - 1 : Accepted(k),
         phase = "command", Cmd.type = "write", Cmd.mode = "block",
         NEW next, Transceived(Buffered, next), phase' # "threw"
  PROVE  /\ phase' = next /\ response' = RefAfter[pos].resp /\ cmdBuffer' = <<>>
         /\ request' = <<>> /\ reqSize' = 1 /\ buf' = <<>> /\ front' = 0
<1>1. /\ pos \in Nat /\ pos > 1 /\ pos <= Len(script) /\ Len(script) \in Nat
      /\ Len(cmdBuffer) \in Nat /\ DOMAIN cmdBuffer = 1 .. Len(cmdBuffer)
      /\ cmdBuffer \in Seq(1 .. pos - 1)
  BY DEF TypeOK, Waiting
<1>2. PICK last \in 0 .. Len(script) : last = pos /\ last > 0
  BY <1>1
<1>3. PICK commands \in Seq(1 .. Len(script)) :
         /\ commands = Buffered /\ Len(commands) = Len(cmdBuffer) + 1
         /\ \A i \in 1 .. Len(cmdBuffer) : commands[i] = cmdBuffer[i]
         /\ commands[Len(cmdBuffer) + 1] = pos
  <2>1. 1 .. pos - 1 \subseteq 1 .. Len(script) /\ pos \in 1 .. Len(script)
    BY <1>1
  <2>2. cmdBuffer \in Seq(1 .. Len(script))
    BY <1>1, <2>1, SeqWider
  <2>3. Buffered \in Seq(1 .. Len(script))
    BY <2>1, <2>2, AppendProperties DEF Buffered
  <2>4. /\ Len(Buffered) = Len(cmdBuffer) + 1 /\ Buffered[Len(cmdBuffer) + 1] = pos
        /\ \A i \in 1 .. Len(cmdBuffer) : Buffered[i] = cmdBuffer[i]
    BY <1>1, AppendProperties DEF Buffered
  <2>5. QED
    BY <2>3, <2>4
<1>4. done \in Nat /\ done + Len(cmdBuffer) = pos - 1
  BY <1>1 DEF done, Waiting, BufferFollows
<1>5. last = done + Len(commands)
  BY <1>1, <1>2, <1>3, <1>4
<1>6. \A i \in 1 .. Len(commands) : commands[i] = done + i
  <2>1. ASSUME NEW i \in 1 .. Len(commands) PROVE commands[i] = done + i
    <3>1. CASE i \in 1 .. Len(cmdBuffer)
      BY <1>1, <1>3, <3>1 DEF Waiting, BufferFollows
    <3>2. CASE i = Len(cmdBuffer) + 1
      BY <1>1, <1>3, <1>4, <3>2
    <3>3. QED
      BY <1>1, <1>3, <3>1, <3>2
  <2>2. QED
    BY <2>1
<1>7. Accepted(pos)
  BY DEF Accepted, Cmd
<1>8. \A k \in 1 .. last : Accepted(k)
  <2>1. \A k \in 1 .. last : k \in 1 .. pos - 1 \/ k = pos
    BY <1>1, <1>2
  <2>2. QED
    BY <1>7, <2>1
<1>9. Complete(Filled(Len(request)), done, last)
  <2>1. Complete(Filled(Len(request)), done, pos - 1)
    BY FilledComplete
  <2>2. ~Prepares(pos)
    BY DEF Prepares, Cmd
  <2>3. \A k \in done + 1 .. last : k \in done + 1 .. pos - 1 \/ k = pos
    BY <1>1, <1>2, <1>4
  <2>4. done + 1 .. pos - 1 \subseteq done + 1 .. last
    BY <1>1, <1>2, <1>4
  <2>5. QED
    BY <2>1, <2>2, <2>3, <2>4 DEF Complete
<1>10. \A i \in done + 1 .. last - 1 : script[i].mode # "block"
  <2>1. ASSUME NEW i \in done + 1 .. last - 1 PROVE script[i].mode # "block"
    <3>1. i - done \in 1 .. Len(cmdBuffer) /\ done + (i - done) = i
      BY <1>1, <1>2, <1>4
    <3>2. QED
      BY <1>1, <3>1 DEF Waiting, BufferFollows
  <2>2. QED
    BY <2>1
<1>11. Transceived(commands, next)
  BY <1>3
<1>12. /\ phase' = next /\ response' = RefAfter[last].resp /\ cmdBuffer' = <<>>
       /\ request' = <<>> /\ reqSize' = 1
       /\ Settled(last) \/ (last > 0 /\ script[last].mode = "block") => buf' = <<>> /\ front' = 0
  BY <1>5, <1>6, <1>8, <1>9, <1>10, <1>11, PacketTracks
<1>13. script[last].mode = "block"
  BY <1>2 DEF Cmd
<1>14. QED
  BY <1>2, <1>12, <1>13

-----------------------------------------------------------------------------
(* A command is put in the buffer.                                         *)

LEMMA BufferGrows ==
  ASSUME TypeOK, BufferFollows, phase = "command", Cmd.mode # "block", script' = script,
         pos' = pos + 1, cmdBuffer' = Buffered
  PROVE  /\ BufferFollows' /\ done' = done /\ done \in Nat /\ done <= pos - 1
         /\ \A k : k \in Deferred' <=> k \in Deferred \/ k = pos
         /\ \A k \in Deferred : k \in Nat /\ k < pos
<1>1. /\ pos \in Nat /\ Len(cmdBuffer) \in Nat /\ DOMAIN cmdBuffer = 1 .. Len(cmdBuffer)
      /\ cmdBuffer \in Seq(1 .. pos - 1)
  BY DEF TypeOK
<1>2. done \in Nat /\ done + Len(cmdBuffer) = pos - 1 /\ done <= pos - 1
  BY <1>1 DEF done, BufferFollows
<1>3. /\ Len(cmdBuffer') = Len(cmdBuffer) + 1 /\ cmdBuffer'[Len(cmdBuffer) + 1] = pos
      /\ \A i \in 1 .. Len(cmdBuffer) : cmdBuffer'[i] = cmdBuffer[i]
      /\ DOMAIN cmdBuffer' = 1 .. Len(cmdBuffer) + 1
  BY <1>1 DEF Buffered
<1>4. done' = done
  BY <1>1, <1>2, <1>3 DEF done
<1>5. ASSUME NEW i \in 1 .. Len(cmdBuffer) + 1
      PROVE  cmdBuffer'[i] = done + i /\ script[done + i].mode # "block"
  <2>1. CASE i \in 1 .. Len(cmdBuffer)
    BY <1>1, <1>3, <2>1 DEF BufferFollows
  <2>2. CASE i = Len(cmdBuffer) + 1
    <3>1. done + i = pos
      BY <1>1, <1>2, <2>2
    <3>2. QED
      BY <1>3, <2>2, <3>1 DEF Cmd
  <2>3. QED
    BY <1>1, <2>1, <2>2
<1>6. BufferFollows'
  BY <1>2, <1>3, <1>4, <1>5 DEF BufferFollows
<1>7. \A k : k \in Deferred' <=> k \in Deferred \/ k = pos
  <2>1. Deferred' = done + 1 .. (pos + 1) - 1
    BY <1>4 DEF Deferred
  <2>2. done + 1 .. (pos + 1) - 1 = (done + 1 .. pos - 1) \cup {pos}
    BY <1>1, <1>2
  <2>3. QED
    BY <2>1, <2>2 DEF Deferred
<1>8. \A k \in Deferred : k \in Nat /\ k < pos
  BY <1>1, <1>2 DEF Deferred
<1>9. QED
  BY <1>2, <1>4, <1>6, <1>7, <1>8

\* A command that prepares no frame.
LEMMA NoFrameAdded ==
  ASSUME FramesWait, rpc' = rpc, buf' = buf,
         \A k : k \in Deferred' <=> k \in Deferred \/ k = pos,
         \A k : k = pos => ~Prepared(k)',
         \A k \in Deferred : Prepared(k)' <=> Prepared(k)
  PROVE  FramesWait'
<1>1. \A k : Frame(k, 1, NoValue)' = Frame(k, 1, NoValue)
  BY Zenon DEF Frame, Word
<1>2. \A k \in Deferred' : Prepared(k)' => k \in Deferred /\ Prepared(k)
  OBVIOUS
<1>3. \A k \in Deferred : Prepared(k) => k \in Deferred' /\ Prepared(k)'
  OBVIOUS
<1>4. \A i \in DOMAIN buf' : \E k \in Deferred' : Prepared(k)' /\ buf'[i] = Frame(k, 1, NoValue)'
  BY <1>1, <1>3 DEF FramesWait
<1>5. \A k \in Deferred' : Prepared(k)' => \E i \in DOMAIN buf' : buf'[i].asked[2] = k
  BY <1>2 DEF FramesWait
<1>6. \A i, j \in DOMAIN buf' : i < j => buf'[i].asked[2] < buf'[j].asked[2]
  BY DEF FramesWait
<1>7. QED
  BY <1>4, <1>5, <1>6, Zenon DEF FramesWait

\* A command that prepares the frame of command q.
LEMMA FrameAdded ==
  ASSUME TypeOK, FramesWait, rpc' = rpc, NEW q \in Nat, buf' = Append(buf, Frame(q, 1, NoValue)),
         q \in Deferred', \A k : k = q => Prepared(k)',
         \A k \in Deferred' : k # q /\ Prepared(k)' => k \in Deferred /\ Prepared(k),
         \A k \in Deferred : Prepared(k) => k \in Deferred' /\ Prepared(k)' /\ k < q
  PROVE  FramesWait'
<1>1. \A k : Frame(k, 1, NoValue)' = Frame(k, 1, NoValue)
  BY Zenon DEF Frame, Word
<1>2. /\ buf \in Seq(Entry) /\ Len(buf) \in Nat /\ DOMAIN buf = 1 .. Len(buf)
      /\ DOMAIN buf' = 1 .. Len(buf) + 1
      /\ \A i \in 1 .. Len(buf) : buf'[i] = buf[i]
      /\ buf'[Len(buf) + 1] = Frame(q, 1, NoValue)
  BY DEF TypeOK
<1>3. \A k : Frame(k, 1, NoValue).asked[2] = k
  BY DEF Frame, Word
<1>4. ASSUME NEW i \in 1 .. Len(buf) + 1
      PROVE  \E k \in Deferred' : Prepared(k)' /\ buf'[i] = Frame(k, 1, NoValue)'
  <2>1. CASE i \in 1 .. Len(buf)
    <3>1. PICK k \in Deferred : Prepared(k) /\ buf[i] = Frame(k, 1, NoValue)
      BY <1>2, <2>1 DEF FramesWait
    <3>2. QED
      BY <1>1, <1>2, <2>1, <3>1
  <2>2. CASE i = Len(buf) + 1
    BY <1>1, <1>2, <2>2
  <2>3. QED
    BY <1>2, <2>1, <2>2
<1>5. ASSUME NEW k \in Deferred', Prepared(k)'
      PROVE  \E i \in DOMAIN buf' : buf'[i].asked[2] = k
  <2>1. CASE k = q
    <3>1. Len(buf) + 1 \in DOMAIN buf' /\ buf'[Len(buf) + 1].asked[2] = q
      BY <1>2, <1>3
    <3>2. QED
      BY <2>1, <3>1
  <2>2. CASE k # q
    <3>1. PICK i \in 1 .. Len(buf) : buf[i].asked[2] = k
      BY <1>2, <1>5, <2>2 DEF FramesWait
    <3>2. i \in DOMAIN buf' /\ buf'[i].asked[2] = k
      BY <1>2, <3>1
    <3>3. QED
      BY <3>2
  <2>3. QED
    BY <2>1, <2>2
<1>6. ASSUME NEW i \in 1 .. Len(buf) + 1, NEW j \in 1 .. Len(buf) + 1, i < j
      PROVE  buf'[i].asked[2] < buf'[j].asked[2]
  <2>1. i \in 1 .. Len(buf)
    BY <1>2, <1>6
  <2>2. CASE j \in 1 .. Len(buf)
    BY <1>2, <1>6, <2>1, <2>2 DEF FramesWait
  <2>3. CASE j = Len(buf) + 1
    <3>1. PICK k \in Deferred : Prepared(k) /\ buf[i] = Frame(k, 1, NoValue)
      BY <1>2, <2>1 DEF FramesWait
    <3>2. buf'[i].asked[2] = k /\ k < q /\ buf'[j].asked[2] = q
      BY <1>2, <1>3, <2>1, <2>3, <3>1
    <3>3. QED
      BY <3>2
  <2>4. QED
    BY <1>2, <2>2, <2>3
<1>7. QED
  BY <1>2, <1>4, <1>5, <1>6, Zenon DEF FramesWait

LEMMA SlotsGrow ==
  ASSUME TypeOK, SlotsOfFrames, NEW q
  PROVE  /\ request' = Append(request, [asked |-> Word(q, 1), slot |-> 0]) /\ buf' = buf =>
               SlotsOfFrames'
         /\ request' = Append(request, [asked |-> Word(q, 1), slot |-> Len(buf) + 1])
            /\ buf' = Append(buf, Frame(q, 1, NoValue)) => SlotsOfFrames'
<1>1. /\ request \in Seq([asked : Operation, slot : 0 .. FifoLimit]) /\ buf \in Seq(Entry)
      /\ Len(request) \in Nat /\ DOMAIN request = 1 .. Len(request)
      /\ Len(buf) \in Nat /\ DOMAIN buf = 1 .. Len(buf)
      /\ \A t \in 1 .. Len(request) : request[t].slot \in Nat
  <2>1. request \in Seq([asked : Operation, slot : 0 .. FifoLimit])
    BY DEF TypeOK
  <2>2. \A t \in 1 .. Len(request) : request[t] \in [asked : Operation, slot : 0 .. FifoLimit]
    BY <2>1, ElementOfSeq
  <2>3. \A t \in 1 .. Len(request) : request[t].slot \in Nat
    BY <2>2, LimitsAreNumbers
  <2>4. QED
    BY <2>1, <2>3 DEF TypeOK
<1>2. /\ \A i \in 1 .. Len(buf) : \E t \in 1 .. Len(request) : request[t].slot = i
      /\ \A t \in 1 .. Len(request) : request[t].slot # 0 =>
            request[t].slot <= Len(buf) /\ request[t].asked = buf[request[t].slot].asked
  BY <1>1 DEF SlotsOfFrames
<1>3. ASSUME NEW slot, request' = Append(request, [asked |-> Word(q, 1), slot |-> slot])
      PROVE  /\ DOMAIN request' = 1 .. Len(request) + 1
             /\ \A t \in 1 .. Len(request) : request'[t] = request[t]
             /\ request'[Len(request) + 1].slot = slot
             /\ request'[Len(request) + 1].asked = Word(q, 1)
  BY <1>1, <1>3
<1>4. ASSUME request' = Append(request, [asked |-> Word(q, 1), slot |-> 0]), buf' = buf
      PROVE  SlotsOfFrames'
  <2>1. \A i \in 1 .. Len(buf) : \E t \in DOMAIN request' : request'[t].slot = i
    <3>1. \A t \in 1 .. Len(request) : t \in DOMAIN request' /\ request'[t] = request[t]
      BY <1>1, <1>3, <1>4
    <3>2. QED
      BY <1>2, <3>1
  <2>2. ASSUME NEW t \in 1 .. Len(request) + 1, request'[t].slot # 0
        PROVE  request'[t].slot <= Len(buf) /\ request'[t].asked = buf[request'[t].slot].asked
    <3>1. t # Len(request) + 1
      BY <1>3, <1>4, <2>2
    <3>2. t \in 1 .. Len(request)
      BY <1>1, <3>1
    <3>3. QED
      BY <1>2, <1>3, <1>4, <2>2, <3>2
  <2>3. QED
    BY <1>1, <1>3, <1>4, <2>1, <2>2 DEF SlotsOfFrames
<1>5. ASSUME request' = Append(request, [asked |-> Word(q, 1), slot |-> Len(buf) + 1]),
             buf' = Append(buf, Frame(q, 1, NoValue))
      PROVE  SlotsOfFrames'
  <2>1. /\ DOMAIN buf' = 1 .. Len(buf) + 1 /\ Len(buf') = Len(buf) + 1
        /\ \A i \in 1 .. Len(buf) : buf'[i] = buf[i]
        /\ buf'[Len(buf) + 1] = Frame(q, 1, NoValue)
    BY <1>1, <1>5
  <2>2. /\ DOMAIN request' = 1 .. Len(request) + 1
        /\ \A t \in 1 .. Len(request) : request'[t] = request[t]
        /\ request'[Len(request) + 1].slot = Len(buf) + 1
        /\ request'[Len(request) + 1].asked = Word(q, 1)
    BY <1>3, <1>5
  <2>3. ASSUME NEW i \in 1 .. Len(buf) + 1
        PROVE  \E t \in DOMAIN request' : request'[t].slot = i
    <3>1. CASE i \in 1 .. Len(buf)
      <4>1. PICK t \in 1 .. Len(request) : request[t].slot = i
        BY <1>2, <3>1
      <4>2. t \in DOMAIN request' /\ request'[t].slot = i
        BY <1>1, <2>2, <4>1
      <4>3. QED
        BY <4>2
    <3>2. CASE i = Len(buf) + 1
      <4>1. Len(request) + 1 \in DOMAIN request'
        BY <1>1, <2>2
      <4>2. QED
        BY <2>2, <3>2, <4>1
    <3>3. QED
      BY <1>1, <3>1, <3>2
  <2>4. ASSUME NEW t \in 1 .. Len(request) + 1, request'[t].slot # 0
        PROVE  request'[t].slot <= Len(buf') /\ request'[t].asked = buf'[request'[t].slot].asked
    <3>1. CASE t \in 1 .. Len(request)
      <4>1. /\ request'[t] = request[t] /\ request[t].slot \in 1 .. Len(buf)
            /\ request[t].asked = buf[request[t].slot].asked
        BY <1>1, <1>2, <2>2, <2>4, <3>1
      <4>2. QED
        BY <1>1, <2>1, <4>1
    <3>2. CASE t = Len(request) + 1
      <4>1. request'[t].slot = Len(buf) + 1 /\ request'[t].asked = Word(q, 1)
        BY <2>2, <3>2
      <4>2. buf'[Len(buf) + 1].asked = Word(q, 1)
        BY <2>1 DEF Frame
      <4>3. QED
        BY <1>1, <2>1, <4>1, <4>2
    <3>3. QED
      BY <1>1, <3>1, <3>2
  <2>5. QED
    BY <2>1, <2>2, <2>3, <2>4 DEF SlotsOfFrames
<1>6. QED
  BY <1>4, <1>5

LEMMA WaitingGrows ==
  ASSUME TypeOK, Waiting, phase = "command", rpc' = rpc, script' = script, pos' = pos + 1,
         cmdBuffer' = Buffered, front' = front, response' = response, execOnRead' = execOnRead,
         Cmd.mode # "block", FramesWait', SlotsOfFrames'
  PROVE  Waiting'
<1>1. RefAfter' = RefAfter
  BY RefAfterKept
<1>2. BufferFollows' /\ done' = done
  BY BufferGrows DEF Waiting
<1>3. Settled(done)'
  BY <1>2, Zenon DEF Settled, Waiting
<1>4. pos' > 1
  BY DEF TypeOK
<1>5. RefAfter'[done'].resp = RefAfter[done].resp
  BY <1>1, <1>2
<1>6. QED
  BY <1>2, <1>3, <1>4, <1>5, Zenon DEF Waiting

LEMMA DoomedStays ==
  ASSUME TypeOK, script' = script, cmdBuffer' = Buffered, execOnRead' = execOnRead, Doomed
  PROVE  Doomed'
<1>1. cmdBuffer \in Seq(1 .. pos - 1) /\ cmdBuffer # <<>>
  BY DEF TypeOK, Doomed
<1>2. cmdBuffer' # <<>> /\ cmdBuffer'[1] = cmdBuffer[1]
  BY <1>1 DEF Buffered
<1>3. QED
  BY <1>2 DEF Doomed

\* What can be taken at each stage.
LEMMA StagesOfCommand ==
  ASSUME TypeOK, Disciplined(script), KeepsUp, Going, phase \in {"next", "command"}
  PROVE  /\ NotYet \/ Waiting \/ Holding \/ Doomed
         /\ NotYet => pos <= Len(script) /\ Cmd.type = "reset"
         /\ pos <= Len(script) /\ Cmd.type = "reset" => NotYet
         /\ Holding => pos <= Len(script) /\ Cmd.type \in {"read", "readcnt"}
         /\ \A k \in 1 .. pos - 1 : Accepted(k)
<1>1. /\ script \in Seq(Command) /\ DOMAIN script = 1 .. Len(script) /\ Len(script) \in Nat
      /\ pos \in Nat /\ pos >= 1 /\ pos <= Len(script) + 1 /\ cmdBuffer \in Seq(1 .. pos - 1)
  BY DEF TypeOK
<1>2. (NotYet \/ Waiting \/ Holding \/ Doomed) /\ \A k \in 1 .. pos - 1 : Accepted(k)
  BY DEF KeepsUp
<1>3. NotYet => pos <= Len(script) /\ Cmd.type = "reset"
  <2>1. script # <<>> => 1 \in 1 .. Len(script)
    BY <1>1
  <2>2. QED
    BY <1>1, <2>1 DEF NotYet, Disciplined, ReadsAtOnce, Cmd
<1>4. ASSUME pos <= Len(script), Cmd.type = "reset" PROVE NotYet
  <2>1. pos = 1
    BY <1>1, <1>4 DEF Disciplined, ReadsAtOnce, Cmd
  <2>2. ~Waiting /\ ~Holding
    BY <2>1 DEF Waiting, Holding
  <2>3. ~Doomed
    <3>1. cmdBuffer \in Seq({})
      <4>1. 1 .. pos - 1 = {}
        BY <2>1
      <4>2. QED
        BY <1>1, <4>1
    <3>2. cmdBuffer = <<>>
      BY <3>1
    <3>3. QED
      BY <3>2 DEF Doomed
  <2>4. QED
    BY <1>2, <2>2, <2>3
<1>5. Holding => pos <= Len(script) /\ Cmd.type \in {"read", "readcnt"}
  <2>1. SUFFICES ASSUME Holding PROVE pos <= Len(script) /\ Cmd.type \in {"read", "readcnt"}
    OBVIOUS
  <2>2. pos - 1 \in 1 .. Len(script) /\ (pos - 1) + 1 = pos
        /\ script[pos - 1].mode \in {"read", "sum", "or", "block"}
    BY <1>1, <2>1 DEF Holding
  <2>3. pos - 1 < Len(script) /\ script[pos].type \in {"read", "readcnt"}
    BY <1>1, <2>2 DEF Disciplined, ReadsAtOnce
  <2>4. QED
    BY <1>1, <2>3 DEF Cmd
<1>6. QED
  BY <1>2, <1>3, <1>4, <1>5

LEMMA StopsKeepingUp ==
  ASSUME phase' \in {"idle", "threw"} \/ failure'
  PROVE  KeepsUp'
BY DEF KeepsUp, Going

\* A command has been taken.
LEMMA TakenKeepsUp ==
  ASSUME TypeOK, KeepsUp, Going, phase = "command", phase' = "next", script' = script, pos' = pos + 1,
         Accepted(pos), Waiting' \/ Holding' \/ Doomed'
  PROVE  KeepsUp'
<1>1. \A k \in 1 .. pos : Accepted(k)
  <2>1. \A k \in 1 .. pos : k \in 1 .. pos - 1 \/ k = pos
    BY DEF TypeOK
  <2>2. QED
    BY <2>1 DEF KeepsUp
<1>2. \A k : Accepted(k)' <=> Accepted(k)
  BY Zenon DEF Accepted
<1>3. pos' - 1 = pos
  BY DEF TypeOK
<1>4. \A k \in 1 .. pos' - 1 : Accepted(k)'
  BY <1>1, <1>2, <1>3
<1>5. QED
  BY <1>4, Zenon DEF KeepsUp

-----------------------------------------------------------------------------
(* Step by step.                                                           *)

LEMMA DeferredSame ==
  ASSUME TypeOK, Defers, phase' = "next"
  PROVE  /\ rpc' = rpc /\ script' = script /\ pos' = pos + 1 /\ cmdBuffer' = Buffered
         /\ response' = response /\ request' = request /\ reqSize' = reqSize
         /\ failure' = failure /\ execOnRead' = execOnRead
         /\ Cmd.type = "reset" => buf' = <<>> /\ front' = 0
         /\ Cmd.type # "reset" => buf' = buf /\ front' = front
         /\ Cmd.type \in {"read", "readcnt"} => ~execOnRead
         /\ Cmd.type \in {"reset", "wait", "read", "readcnt", "write"}
<1> USE DEF Takes, Defer, Onward, Writes, reqVars, parseVars, rpcVars, fifoVars
<1>1. CASE ScReset
  BY <1>1 DEF ScReset
<1>2. CASE Wait
  BY <1>2 DEF Wait
<1>3. CASE ReadLater
  BY <1>3 DEF ReadLater
<1>4. CASE WriteAnd
  BY <1>4 DEF WriteAnd
<1>5. CASE ReadThrows \/ UnknownFrame \/ WriteOverflows \/ WriteOrThrows
  BY <1>5 DEF ReadThrows, UnknownFrame, WriteOverflows, WriteOrThrows
<1>6. QED
  BY <1>1, <1>2, <1>3, <1>4, <1>5 DEF Defers

LEMMA DeferredKeepsUp ==
  ASSUME IInv, Disciplined(script), AllInHand, KeepsUp, Defers
  PROVE  KeepsUp'
<1>1. TypeOK /\ AndsArePaired(script)
  BY DEF IInv, Disciplined
<1>2. phase = "command" /\ phase' \in {"next", "threw"} /\ pos' = pos + 1 /\ script' = script
  BY <1>1, DeferredStep
<1>3. CASE phase' = "threw" \/ failure'
  BY <1>3, StopsKeepingUp
<1>4. CASE phase' = "next" /\ ~failure'
  <2>1. /\ rpc' = rpc /\ cmdBuffer' = Buffered /\ response' = response
        /\ request' = request /\ failure' = failure /\ execOnRead' = execOnRead
        /\ Cmd.type = "reset" => buf' = <<>> /\ front' = 0
        /\ Cmd.type # "reset" => buf' = buf /\ front' = front
        /\ Cmd.type \in {"read", "readcnt"} => ~execOnRead
        /\ Cmd.type \in {"reset", "wait", "read", "readcnt", "write"}
    BY <1>1, <1>4, DeferredSame
  <2>2. /\ Cmd.mode = "and" => expectOr'
        /\ Cmd.mode # "and" => Cmd.mode = "none" /\ ~expectOr /\ ~expectOr'
    BY <1>1, <1>4, DeferredPairs
  <2>3. ~expectOr
    BY <1>1, <1>2, <2>2, OnlyOrAfterAnd
  <2>4. Going /\ phase \in {"next", "command"} /\ pos <= Len(script) /\ pos \in Nat
    BY <1>1, <1>2, <1>4, <2>1 DEF Going, TypeOK
  <2>5. /\ NotYet \/ Waiting \/ Holding \/ Doomed
        /\ NotYet => Cmd.type = "reset"
        /\ Cmd.type = "reset" => NotYet
        /\ Holding => Cmd.type \in {"read", "readcnt"}
    BY <1>1, <2>4, StagesOfCommand
  <2>6. Accepted(pos)
    BY <2>1, <2>2 DEF Accepted, Cmd
  <2>7. CASE Doomed
    <3>1. Doomed'
      BY <1>1, <1>2, <2>1, <2>7, DoomedStays
    <3>2. QED
      BY <1>1, <1>2, <1>4, <2>4, <2>6, <3>1, TakenKeepsUp
  <2>8. CASE Holding
    <3>1. cmdBuffer' = <<pos>>
      BY <2>1, <2>8 DEF Buffered, Holding
    <3>2. Doomed'
      BY <1>2, <2>1, <2>5, <2>8, <3>1 DEF Doomed, Cmd
    <3>3. QED
      BY <1>1, <1>2, <1>4, <2>4, <2>6, <3>2, TakenKeepsUp
  <2>9. CASE Waiting
    <3>1. Cmd.type # "reset"
      BY <2>5, <2>9 DEF NotYet, Waiting
    <3>2. BufferFollows /\ FramesWait /\ SlotsOfFrames
      BY <2>9 DEF Waiting
    <3>3. /\ \A k : k \in Deferred' <=> k \in Deferred \/ k = pos
          /\ \A k \in Deferred : k \in Nat /\ k < pos
      BY <1>1, <1>2, <2>1, <2>2, <3>2, BufferGrows
    <3>4. \A k : k = pos => ~Prepared(k)'
      BY <1>2, <1>4, <2>2, <2>4 DEF Prepared, AndWaits, Cmd
    <3>5. \A k \in Deferred : Prepared(k)' <=> Prepared(k)
      BY <1>2, <2>3, <2>4, <3>3 DEF Prepared, AndWaits
    <3>6. FramesWait'
      BY <2>1, <3>1, <3>2, <3>3, <3>4, <3>5, NoFrameAdded
    <3>7. SlotsOfFrames'
      BY <2>1, <3>1, <3>2, Zenon DEF SlotsOfFrames
    <3>8. Waiting'
      BY <1>1, <1>2, <2>1, <2>2, <2>9, <3>1, <3>6, <3>7, WaitingGrows
    <3>9. QED
      BY <1>1, <1>2, <1>4, <2>4, <2>6, <3>8, TakenKeepsUp
  <2>10. CASE NotYet
    <3>1. pos = 1 /\ cmdBuffer' = <<1>> /\ pos' = 2 /\ buf' = <<>> /\ front' = 0 /\ request' = <<>>
          /\ response' = <<>> /\ ~execOnRead'
      BY <1>2, <2>1, <2>5, <2>10 DEF NotYet, Buffered
    <3>2. done' = 0 /\ Deferred' = {1}
      <4>1. done' = 0
        BY <3>1 DEF done
      <4>2. QED
        BY <3>1, <4>1 DEF Deferred
    <3>3. RefAfter' = RefAfter /\ RefAfter[0].resp = <<>>
      BY <1>1, <1>2, <2>1, RefAfterKept, RefSteps
    <3>4. script[1].mode = "none"
      BY <1>1, <1>2, <2>5, <2>10, <3>1, BufferedType, CommandKinds DEF Cmd
    <3>5. BufferFollows'
      BY <1>2, <3>1, <3>2, <3>4 DEF BufferFollows
    <3>6. FramesWait'
      <4>1. \A k \in Deferred' : ~Prepared(k)'
        BY <1>2, <3>2, <3>4 DEF Prepared
      <4>2. QED
        BY <3>1, <4>1 DEF FramesWait
    <3>7. SlotsOfFrames'
      BY <3>1 DEF SlotsOfFrames
    <3>8. Settled(done)'
      BY <3>2 DEF Settled
    <3>9. Waiting'
      BY <3>1, <3>2, <3>3, <3>5, <3>6, <3>7, <3>8 DEF Waiting
    <3>10. QED
      BY <1>1, <1>2, <1>4, <2>4, <2>6, <3>9, TakenKeepsUp
  <2>11. QED
    BY <2>5, <2>7, <2>8, <2>9, <2>10
<1>5. QED
  BY <1>2, <1>3, <1>4

LEMMA AddedKeepsUp ==
  ASSUME IInv, Disciplined(script), AllInHand, KeepsUp, Adds
  PROVE  KeepsUp'
<1>1. TypeOK /\ AndsArePaired(script)
  BY DEF IInv, Disciplined
<1>2. /\ phase = "command" /\ phase' \in {"next", "threw"}
      /\ pos' = pos + 1 /\ rpc' = rpc /\ script' = script /\ cmdBuffer' = Buffered
      /\ response' = response /\ execOnRead' = execOnRead /\ failure' = failure
      /\ AskedFor \in Nat /\ (Cmd.mode = "or" => expectOr /\ AskedFor = pos - 1)
      /\ phase' = "next" => ~expectOr' /\ (Cmd.mode = "or" <=> expectOr)
  BY AddedStep
<1>3. /\ Cmd.type = "write" /\ Cmd.mode \in {"read", "sum", "write", "or"}
      /\ Asks(AskedFor) /\ front' = front
  BY AddedExactly
<1>4. CASE phase' = "threw" \/ failure'
  BY <1>4, StopsKeepingUp
<1>5. CASE phase' = "next" /\ ~failure'
  <2>1. Going /\ phase \in {"next", "command"} /\ pos <= Len(script) /\ pos \in Nat
    BY <1>1, <1>2, <1>5 DEF Going, TypeOK
  <2>2. Doomed \/ Waiting
    <3>1. /\ NotYet \/ Waiting \/ Holding \/ Doomed
          /\ NotYet => Cmd.type = "reset"
          /\ Holding => Cmd.type \in {"read", "readcnt"}
      BY <1>1, <2>1, StagesOfCommand
    <3>2. QED
      BY <1>3, <3>1
  <2>3. Accepted(pos)
    <3>1. expectOr => pos > 1 /\ script[pos - 1].mode = "and"
      BY <1>2 DEF AllInHand
    <3>2. QED
      BY <1>2, <1>3, <3>1 DEF Accepted, Cmd
  <2>4. CASE Doomed
    <3>1. Doomed'
      BY <1>1, <1>2, <2>4, DoomedStays
    <3>2. QED
      BY <1>1, <1>2, <1>5, <2>1, <2>3, <3>1, TakenKeepsUp
  <2>5. CASE Waiting
    <3>1. BufferFollows /\ FramesWait /\ SlotsOfFrames
      BY <2>5 DEF Waiting
    <3>2. Cmd.mode # "block"
      BY <1>3
    <3>3. /\ \A k : k \in Deferred' <=> k \in Deferred \/ k = pos
          /\ \A k \in Deferred : k \in Nat /\ k < pos
          /\ done \in Nat
      BY <1>1, <1>2, <3>1, <3>2, BufferGrows
    <3>4. SlotsOfFrames'
      BY <1>1, <1>3, <3>1, SlotsGrow DEF Asks
    <3>5. ~AndWaits'
      BY <1>2, <1>5 DEF AndWaits
    <3>6. AndWaits <=> Cmd.mode = "or"
      BY <1>2, <1>5 DEF AndWaits
    <3>7. \A k : Prepared(k)' <=> script[k].mode \in {"read", "sum", "and"}
      BY <1>2, <3>5 DEF Prepared
    <3>8. FramesWait'
      <4>1. CASE Cmd.mode = "write"
        <5>1. buf' = buf
          BY <1>3, <4>1 DEF Asks
        <5>2. \A k : k = pos => ~Prepared(k)'
          BY <3>7, <4>1 DEF Cmd
        <5>3. \A k \in Deferred : Prepared(k)' <=> Prepared(k)
          BY <3>6, <3>7, <4>1 DEF Prepared
        <5>4. QED
          BY <1>2, <3>1, <3>3, <5>1, <5>2, <5>3, NoFrameAdded
      <4>2. CASE Cmd.mode \in {"read", "sum"}
        <5>1. AskedFor = pos /\ buf' = Append(buf, Frame(pos, 1, NoValue))
          BY <1>3, <4>2 DEF Asks, AskedFor
        <5>2. PICK q \in Nat : q = pos
          BY <2>1
        <5>3. q \in Deferred' /\ \A k : k = q => Prepared(k)'
          BY <3>3, <3>7, <4>2, <5>2 DEF Cmd
        <5>4. \A k : Prepared(k)' <=> Prepared(k)
          BY <3>6, <3>7, <4>2 DEF Prepared
        <5>5. \A k \in Deferred' : k # q => k \in Deferred
          BY <3>3, <5>2
        <5>6. \A k \in Deferred : k \in Deferred' /\ k < q
          BY <3>3, <5>2
        <5>7. buf' = Append(buf, Frame(q, 1, NoValue))
          BY <5>1, <5>2
        <5>8. QED
          BY <1>1, <1>2, <3>1, <5>3, <5>4, <5>5, <5>6, <5>7, FrameAdded
      <4>3. CASE Cmd.mode = "or"
        <5>1. AskedFor = pos - 1 /\ buf' = Append(buf, Frame(AskedFor, 1, NoValue)) /\ AndWaits
          BY <1>2, <1>3, <3>6, <4>3 DEF Asks
        <5>2. PICK q \in Nat : q = AskedFor
          BY <1>2
        <5>3. q \in Deferred /\ q \in Deferred'
          <6>1. cmdBuffer # <<>>
            BY <5>1 DEF IInv, OrderInv
          <6>2. Len(cmdBuffer) \in Nat \ {0}
            BY <1>1, <6>1 DEF TypeOK
          <6>3. q \in done + 1 .. pos - 1
            BY <2>1, <3>3, <5>1, <5>2, <6>2 DEF done
          <6>4. QED
            BY <3>3, <6>3 DEF Deferred
        <5>4. script[q].mode = "and"
          BY <1>2, <4>3, <5>1, <5>2 DEF AllInHand
        <5>5. \A k : k = q => Prepared(k)'
          BY <3>7, <5>4
        <5>6. ASSUME NEW k \in Deferred', k # q, Prepared(k)'
              PROVE  k \in Deferred /\ Prepared(k)
          <6>1. k # pos
            BY <3>7, <4>3, <5>6 DEF Cmd
          <6>2. k \in Deferred
            BY <3>3, <5>6, <6>1
          <6>3. QED
            BY <3>7, <5>1, <5>2, <5>6, <6>2 DEF Prepared
        <5>7. ASSUME NEW k \in Deferred, Prepared(k)
              PROVE  k \in Deferred' /\ Prepared(k)' /\ k < q
          <6>1. k # pos - 1 /\ k \in Nat /\ k < pos
            BY <3>3, <5>1, <5>7 DEF Prepared
          <6>2. Prepared(k)'
            BY <3>7, <5>7 DEF Prepared
          <6>3. QED
            BY <2>1, <3>3, <5>1, <5>2, <6>1, <6>2
        <5>8. buf' = Append(buf, Frame(q, 1, NoValue))
          BY <5>1, <5>2
        <5>9. QED
          BY <1>1, <1>2, <3>1, <5>3, <5>5, <5>6, <5>7, <5>8, FrameAdded
      <4>4. QED
        BY <1>3, <4>1, <4>2, <4>3
    <3>9. Waiting'
      BY <1>1, <1>2, <1>3, <2>5, <3>2, <3>4, <3>8, WaitingGrows
    <3>10. QED
      BY <1>1, <1>2, <1>5, <2>1, <2>3, <3>9, TakenKeepsUp
  <2>6. QED
    BY <2>2, <2>4, <2>5
<1>6. QED
  BY <1>2, <1>4, <1>5

-----------------------------------------------------------------------------
(* Packets in the middle of the sequence.                                  *)

\* A buffer that begins with a read is executed against an empty count.
LEMMA DoomedThrows ==
  ASSUME TypeOK, Doomed, phase \in {"next", "command"}, NEW commands \in Seq(1 .. Len(script)),
         Len(commands) >= 1, commands[1] = cmdBuffer[1],
         NEW f \in Seq(Entry), front <= Len(f), NEW next, Execute(commands, f, 0, next)
  PROVE  phase' = "threw"
<1>1. Len(commands) \in Nat
  OBVIOUS
<1>2. PICK after : /\ Executed(after, commands, f, 0)
                   /\ Leaves(after[Len(commands)], commands, f, next)
  BY ExecutorEnds
<1>3. after[1].threw
  <2>1. 1 \in 1 .. Len(commands) /\ 0 \in 0 .. Len(commands) /\ 1 - 1 = 0
    BY <1>1
  <2>2. after[1] = ExecuteCommand(after[0], commands[1], f) /\ after[0] \in State(f)
    BY <1>2, <2>1 DEF Executed
  <2>3. PICK s \in State(f) : s = after[0]
    BY <2>2
  <2>4. s = [emulated |-> 0, front |-> front, resp |-> response, threw |-> FALSE]
    BY <1>2, <2>3 DEF Executed
  <2>5. s.emulated = 0 /\ ~s.threw
    BY <2>4
  <2>6. PICK k \in 1 .. Len(script) : k = commands[1] /\ script[k].type \in {"read", "readcnt"}
    BY <1>1, <2>1 DEF Doomed
  <2>7. ExecuteCommand(s, k, f).threw
    BY <2>5, <2>6, ReadExecuted
  <2>8. QED
    BY <2>2, <2>3, <2>6, <2>7
<1>4. after[Len(commands)].threw
  <2> DEFINE T == {n \in Nat : n + 1 <= Len(commands) => after[n + 1].threw}
  <2>1. 0 \in T
    BY <1>3
  <2>2. ASSUME NEW n \in Nat, n \in T PROVE n + 1 \in T
    <3>1. SUFFICES ASSUME (n + 1) + 1 <= Len(commands) PROVE after[(n + 1) + 1].threw
      OBVIOUS
    <3>2. (n + 1) + 1 \in 1 .. Len(commands) /\ ((n + 1) + 1) - 1 = n + 1 /\ n + 1 <= Len(commands)
      BY <1>1, <3>1
    <3>3. after[(n + 1) + 1] = ExecuteCommand(after[n + 1], commands[(n + 1) + 1], f)
      BY <1>2, <3>2 DEF Executed
    <3>4. after[n + 1].threw
      BY <2>2, <3>2
    <3>5. ASSUME NEW s, NEW k, s.threw PROVE ExecuteCommand(s, k, f) = s
      BY <3>5, Zenon DEF ExecuteCommand
    <3>6. QED
      BY <3>3, <3>4, <3>5
  <2> HIDE DEF T
  <2>3. Nat \subseteq T
    BY <2>1, <2>2, SetInduction
  <2>4. Len(commands) - 1 \in T /\ (Len(commands) - 1) + 1 = Len(commands)
    BY <1>1, <2>3
  <2>5. QED
    BY <2>4 DEF T
<1>5. QED
  BY <1>2, <1>4 DEF Leaves

\* The buffer can be executed only after its ANDs have had their ORs.
LEMMA DoomedBuffer ==
  ASSUME TypeOK, Doomed, phase \in {"next", "command"}, pos <= Len(script) \/ phase = "next",
         NEW commands, commands = cmdBuffer \/ (commands = Buffered /\ phase = "command"),
         NEW next, Transceived(commands, next)
  PROVE  phase' = "threw"
<1>1. /\ pos \in Nat /\ pos <= Len(script) + 1 /\ Len(script) \in Nat /\ pos >= 1
      /\ phase = "command" => pos <= Len(script)
      /\ cmdBuffer \in Seq(1 .. pos - 1) /\ cmdBuffer # <<>> /\ Len(cmdBuffer) \in Nat
  BY DEF TypeOK, Doomed
<1>2. cmdBuffer \in Seq(1 .. Len(script))
  <2>1. 1 .. pos - 1 \subseteq 1 .. Len(script)
    BY <1>1
  <2>2. QED
    BY <1>1, <2>1, SeqWider
<1>3. PICK c \in Seq(1 .. Len(script)) : c = commands /\ Len(c) >= 1 /\ c[1] = cmdBuffer[1]
  <2>1. CASE commands = cmdBuffer
    BY <1>1, <1>2, <2>1
  <2>2. CASE commands = Buffered /\ phase = "command"
    <3>1. pos \in 1 .. Len(script)
      BY <1>1, <2>2
    <3>2. Buffered \in Seq(1 .. Len(script))
      BY <1>2, <3>1, AppendProperties DEF Buffered
    <3>3. Len(Buffered) >= 1 /\ Buffered[1] = cmdBuffer[1]
      BY <1>1 DEF Buffered
    <3>4. QED
      BY <2>2, <3>2, <3>3
  <2>3. QED
    BY <2>1, <2>2
<1>4. PICK f \in Seq(Entry) : f = Filled(Len(request)) /\ Len(f) = Len(buf)
  <2>1. Len(request) \in 0 .. Len(request)
    BY DEF TypeOK
  <2>2. QED
    BY <2>1, FilledFrames
<1>5. front <= Len(f)
  BY <1>4 DEF TypeOK
<1>6. Execute(c, f, 0, next)
  BY <1>3, <1>4 DEF Transceived
<1>7. QED
  BY <1>3, <1>5, <1>6, DoomedThrows

LEMMA FlushKeepsUp ==
  ASSUME IInv, Disciplined(script), AllInHand, KeepsUp, Flush \/ NoFlush
  PROVE  KeepsUp'
<1>1. TypeOK /\ pos \in Nat /\ pos <= Len(script) /\ pos >= 1
  BY DEF IInv, TypeOK, Flush, NoFlush
<1>2. /\ phase = "next" /\ ~failure /\ Going /\ pos' = pos /\ script' = script /\ rpc' = rpc
      /\ expectOr' = expectOr /\ execOnRead' = execOnRead /\ phase' \in {"command", "threw"}
  BY DEF Flush, NoFlush, Transceived, TransceiveFails, Execute, rpcVars, parseVars, Going
<1>3. /\ NotYet \/ Waiting \/ Holding \/ Doomed
      /\ \A k \in 1 .. pos - 1 : Accepted(k)
  BY <1>1, <1>2, StagesOfCommand
<1>4. CASE phase' = "threw" \/ failure'
  BY <1>4, StopsKeepingUp
<1>5. \A k \in 1 .. pos' - 1 : Accepted(k)'
  BY <1>2, <1>3 DEF Accepted
<1>6. CASE NoFlush
  <2>1. AndWaits' <=> AndWaits
    BY <1>6 DEF NoFlush, AndWaits, parseVars
  <2>2. NotYet' \/ Waiting' \/ Holding' \/ Doomed'
    BY <1>2, <1>3, <1>6, <2>1, SameStages DEF NoFlush, reqVars, fifoVars
  <2>3. phase' # "block"
    BY <1>2
  <2>4. QED
    BY <1>5, <2>2, <2>3 DEF KeepsUp
<1>7. CASE Flush /\ phase' = "command" /\ ~failure'
  <2>1. Transceived(cmdBuffer, "command") /\ Full
    BY <1>7 DEF Flush
  <2>2. ~NotYet /\ ~Holding
    BY <2>1, PacketHasRoom DEF Full, NotYet, Holding
  <2>3. ~Doomed
    BY <1>1, <1>2, <1>7, <2>1, DoomedBuffer
  <2>4. ~AndWaits
    BY <2>1 DEF IInv, OrderInv
  <2>5. Waiting
    BY <1>3, <2>2, <2>3
  <2>6. /\ response' = RefAfter[pos - 1].resp /\ cmdBuffer' = <<>>
        /\ request' = <<>> /\ reqSize' = 1
        /\ Settled(pos - 1) \/ script[pos - 1].mode = "block" => buf' = <<>> /\ front' = 0
        /\ script[pos - 1].mode \in {"read", "sum", "or"} =>
              SubSeq(buf', front' + 1, Len(buf')) = RefAfter[pos - 1].fifo
    BY <1>1, <1>3, <1>7, <2>1, <2>4, <2>5, WaitingExecuted
  <2>7. RefAfter' = RefAfter
    BY <1>2, RefAfterKept
  <2>8. CASE script[pos - 1].mode \in {"read", "sum", "or"}
    <3>1. Holding'
      BY <1>2, <2>5, <2>6, <2>7, <2>8 DEF Holding, Waiting
    <3>2. QED
      BY <1>5, <1>7, <3>1 DEF KeepsUp
  <2>9. CASE script[pos - 1].mode \notin {"read", "sum", "or"}
    <3>1. pos > 1 /\ ~execOnRead /\ done \in Nat /\ done <= pos - 1 /\ done + Len(cmdBuffer) = pos - 1
          /\ Len(cmdBuffer) \in Nat /\ pos - 1 \in 1 .. Len(script)
      BY <1>1, <2>5 DEF Waiting, BufferFollows, done, TypeOK
    <3>2. script[pos - 1].mode # "and"
      BY <1>2, <2>4, <3>1 DEF AllInHand, AndWaits
    <3>3. script[pos - 1].mode # "block"
      <4>1. CASE Len(cmdBuffer) = 0
        <5>1. done = pos - 1 /\ pos - 1 # 0
          BY <3>1, <4>1
        <5>2. Settled(pos - 1)
          BY <2>5, <5>1 DEF Waiting
        <5>3. QED
          BY <5>1, <5>2 DEF Settled
      <4>2. CASE Len(cmdBuffer) # 0
        <5>1. Len(cmdBuffer) \in DOMAIN cmdBuffer
          BY <1>1, <3>1, <4>2 DEF TypeOK
        <5>2. QED
          BY <2>5, <3>1, <5>1 DEF Waiting, BufferFollows
      <4>3. QED
        BY <4>1, <4>2
    <3>4. Settled(pos - 1)
      <4>1. PICK c \in Command : c = script[pos - 1]
        BY <1>1, <3>1 DEF TypeOK
      <4>2. c.mode \in {"none", "read", "write", "and", "or", "sum", "block", "unknown"}
        BY CommandKinds
      <4>3. QED
        BY <2>9, <3>2, <3>3, <4>1, <4>2 DEF Settled
    <3>5. buf' = <<>> /\ front' = 0
      BY <2>6, <3>4
    <3>6. done' = pos - 1 /\ Deferred' = {}
      <4>1. done' = pos - 1
        BY <1>1, <1>2, <2>6 DEF done
      <4>2. QED
        BY <1>1, <1>2, <4>1 DEF Deferred
    <3>7. BufferFollows' /\ FramesWait' /\ SlotsOfFrames'
      BY <2>6, <3>1, <3>5, <3>6 DEF BufferFollows, FramesWait, SlotsOfFrames
    <3>8. Settled(done)'
      BY <1>2, <3>4, <3>6, Zenon DEF Settled
    <3>9. Waiting'
      BY <1>2, <2>6, <2>7, <3>1, <3>5, <3>6, <3>7, <3>8 DEF Waiting
    <3>10. QED
      BY <1>5, <1>7, <3>9 DEF KeepsUp
  <2>10. QED
    BY <2>8, <2>9
<1>8. QED
  BY <1>2, <1>4, <1>6, <1>7

LEMMA FinishKeepsUp ==
  ASSUME IInv, Disciplined(script), AllInHand, KeepsUp, Finish
  PROVE  KeepsUp' /\ SuccessMatchesReference'
<1>1. /\ TypeOK /\ AndsArePaired(script) /\ pos \in Nat /\ Len(script) \in Nat /\ pos >= 1
      /\ pos <= Len(script) + 1
  BY DEF IInv, TypeOK, Disciplined
<1>2. /\ phase = "next" /\ ~failure /\ pos > Len(script) /\ Going /\ script' = script /\ rpc' = rpc
      /\ phase' \in {"idle", "threw"}
      /\ phase' = "idle" /\ reply' = "success" => Transceived(cmdBuffer, "idle")
  BY DEF Finish, Transceived, TransceiveFails, Execute, Going
<1>3. KeepsUp'
  BY <1>2, StopsKeepingUp
<1>4. ~AndWaits
  BY <1>1, <1>2, OnlyOrAfterAnd DEF AndWaits
<1>5. /\ Waiting \/ Doomed
      /\ \A k \in 1 .. pos - 1 : Accepted(k)
  BY <1>1, <1>2, StagesOfCommand
<1>6. ASSUME Transceived(cmdBuffer, "idle"), phase' = "idle"
      PROVE  response' = RefAfter[Len(script)].resp
  <2>1. Waiting
    BY <1>1, <1>2, <1>5, <1>6, DoomedBuffer
  <2>2. response' = RefAfter[pos - 1].resp
    BY <1>1, <1>4, <1>5, <1>6, <2>1, WaitingExecuted
  <2>3. pos - 1 = Len(script)
    BY <1>1, <1>2
  <2>4. QED
    BY <2>2, <2>3
<1>7. RefAfter' = RefAfter
  BY <1>2, RefAfterKept
<1>8. SuccessMatchesReference'
  BY <1>2, <1>6, <1>7, Zenon DEF SuccessMatchesReference, Answered, Reference
<1>9. QED
  BY <1>3, <1>8

LEMMA WriteBlockKeepsUp ==
  ASSUME IInv, Disciplined(script), AllInHand, KeepsUp, WriteBlock
  PROVE  KeepsUp'
<1>1. TypeOK /\ AndsArePaired(script) /\ pos \in Nat /\ pos >= 1
  BY DEF IInv, TypeOK, Disciplined
<1>2. /\ phase = "command" /\ pos' = pos + 1 /\ script' = script /\ rpc' = rpc
      /\ Cmd.type = "write" /\ Cmd.mode = "block"
  BY DEF WriteBlock, Writes, Takes, rpcVars
<1>3. ~failure /\ ~expectOr /\ Going /\ pos <= Len(script)
  BY <1>1, <1>2, OnlyOrAfterAnd DEF AllInHand, Going, TypeOK
<1>4. \/ phase' = "threw" \/ failure'
      \/ Transceived(Buffered, "block") /\ phase' = "block" /\ block' = [done |-> 0, of |-> Cmd.n]
  BY <1>3 DEF WriteBlock, Transceived, TransceiveFails, Execute, Onward
<1>5. CASE phase' = "threw" \/ failure'
  BY <1>5, StopsKeepingUp
<1>6. CASE Transceived(Buffered, "block") /\ phase' = "block" /\ block' = [done |-> 0, of |-> Cmd.n]
  <2>1. /\ Waiting \/ Doomed
        /\ \A k \in 1 .. pos - 1 : Accepted(k)
    <3>1. /\ NotYet \/ Waiting \/ Holding \/ Doomed
          /\ NotYet => Cmd.type = "reset"
          /\ Holding => Cmd.type \in {"read", "readcnt"}
          /\ \A k \in 1 .. pos - 1 : Accepted(k)
      BY <1>1, <1>2, <1>3, StagesOfCommand
    <3>2. QED
      BY <1>2, <3>1
  <2>2. ~Doomed
    BY <1>1, <1>2, <1>3, <1>6, DoomedBuffer
  <2>3. ~AndWaits
    BY <1>3 DEF AndWaits
  <2>4. /\ response' = RefAfter[pos].resp /\ cmdBuffer' = <<>>
        /\ request' = <<>> /\ reqSize' = 1 /\ buf' = <<>> /\ front' = 0
    BY <1>1, <1>2, <1>6, <2>1, <2>2, <2>3, BlockExecuted
  <2>5. RefAfter' = RefAfter
    BY <1>2, RefAfterKept
  <2>6. pos' - 1 = pos
    BY <1>1, <1>2
  <2>7. Cmd.n \in Nat
    BY <1>1, <1>2, BufferedType, CommandFacts
  <2>8. Reading'
    BY <1>6, <2>4, <2>5, <2>6, <2>7 DEF Reading
  <2>9. Accepted(pos)
    BY <1>2 DEF Accepted, Cmd
  <2>10. \A k \in 1 .. pos' - 1 : Accepted(k)'
    <3>1. \A k : Accepted(k)' <=> Accepted(k)
      BY <1>2, Zenon DEF Accepted
    <3>2. \A k \in 1 .. pos : k \in 1 .. pos - 1 \/ k = pos
      BY <1>1
    <3>3. QED
      BY <2>1, <2>6, <2>9, <3>1, <3>2
  <2>11. QED
    BY <1>6, <2>8, <2>10 DEF KeepsUp
<1>7. QED
  BY <1>4, <1>5, <1>6

\* A read whose frames are there takes all of them.
LEMMA ReadKeepsUp ==
  ASSUME IInv, Disciplined(script), AllInHand, KeepsUp, ReadNow
  PROVE  KeepsUp'
<1>1. TypeOK /\ AndsArePaired(script) /\ pos \in Nat /\ pos >= 1
  BY DEF IInv, TypeOK, Disciplined
<1>2. /\ phase = "command" /\ pos' = pos + 1 /\ script' = script /\ rpc' = rpc
      /\ Cmd.type \in {"read", "readcnt"} /\ execOnRead' = FALSE
      /\ failure' = failure /\ request' = request /\ reqSize' = reqSize
      /\ execOnRead \/ (Len(cmdBuffer) = 0 /\ FifoSize > 0)
      /\ Execute(Buffered, buf, FifoSize, Onward)
  BY DEF ReadNow, Takes, rpcVars, reqVars
<1>3. phase' \in {"next", "threw"}
  BY <1>2 DEF Execute, Onward
<1>4. CASE phase' = "threw" \/ failure'
  BY <1>4, StopsKeepingUp
<1>5. CASE phase' = "next" /\ ~failure'
  <2>1. Going /\ phase \in {"next", "command"} /\ pos <= Len(script)
    BY <1>1, <1>2, <1>5 DEF Going, TypeOK
  <2>2. /\ NotYet \/ Waiting \/ Holding \/ Doomed
        /\ NotYet => Cmd.type = "reset"
        /\ \A k \in 1 .. pos - 1 : Accepted(k)
    BY <1>1, <2>1, StagesOfCommand
  <2>3. ~Waiting
    <3>1. SUFFICES ASSUME Waiting PROVE FALSE
      OBVIOUS
    <3>2. Len(cmdBuffer) = 0 /\ FifoSize > 0 /\ front = 0
      BY <1>2, <3>1 DEF Waiting
    <3>3. Deferred = {}
      BY <1>1, <3>2 DEF Deferred, done
    <3>4. DOMAIN buf = {}
      BY <3>1, <3>3 DEF Waiting, FramesWait
    <3>5. Len(buf) = 0
      BY <1>1, <3>4 DEF TypeOK
    <3>6. QED
      BY <3>2, <3>5 DEF FifoSize
  <2>4. ~Doomed
    <3>1. SUFFICES ASSUME Doomed PROVE FALSE
      OBVIOUS
    <3>2. cmdBuffer \in Seq(1 .. pos - 1) /\ cmdBuffer # <<>> /\ Len(cmdBuffer) = 0
      BY <1>1, <1>2, <3>1 DEF Doomed, TypeOK
    <3>3. QED
      BY <3>2
  <2>5. Holding
    BY <1>2, <2>2, <2>3, <2>4
  <2>6. PICK k \in 1 .. Len(script) : k = pos /\ script[k].type \in {"read", "readcnt"}
    BY <1>1, <1>2, <2>1 DEF Cmd
  <2>7. PICK c \in Seq(1 .. Len(script)) : c = Buffered /\ Len(c) = 1 /\ c[1] = k
    <3>1. Buffered = <<k>>
      BY <2>5, <2>6 DEF Buffered, Holding
    <3>2. <<k>> \in Seq(1 .. Len(script)) /\ Len(<<k>>) = 1 /\ <<k>>[1] = k
      BY <2>6
    <3>3. QED
      BY <3>1, <3>2
  <2>8. /\ buf \in Seq(Entry) /\ Len(buf) \in Nat /\ front \in Nat /\ front <= Len(buf)
        /\ FifoSize \in Nat /\ front + FifoSize = Len(buf)
    BY <1>1 DEF TypeOK, FifoSize
  <2>9. PICK after : /\ Executed(after, c, buf, FifoSize)
                     /\ Leaves(after[Len(c)], c, buf, Onward)
    BY <1>1, <1>2, <2>7, <2>8, ExecutorEnds
  <2>10. PICK s \in State(buf) : s = after[0]
    BY <2>7, <2>9 DEF Executed
  <2>11. s.emulated = FifoSize /\ s.front = front /\ s.resp = response /\ ~s.threw
    <3>1. s = [emulated |-> FifoSize, front |-> front, resp |-> response, threw |-> FALSE]
      BY <2>9, <2>10 DEF Executed
    <3>2. QED
      BY <3>1
  <2>12. PICK end : end = ExecuteCommand(s, k, buf) /\ Leaves(end, c, buf, Onward)
    <3>1. 1 \in 1 .. Len(c) /\ 1 - 1 = 0
      BY <2>7
    <3>2. after[1] = ExecuteCommand(after[0], c[1], buf)
      BY <2>9, <3>1 DEF Executed
    <3>3. QED
      BY <2>7, <2>9, <2>10, <3>2
  <2>13. ~end.threw
    BY <1>5, <2>12 DEF Leaves
  <2>14. /\ s.emulated = 0 => ExecuteCommand(s, k, buf).threw
         /\ s.emulated > 0 /\ s.front + s.emulated <= Len(buf) /\ ~ExecuteCommand(s, k, buf).threw =>
               /\ ExecuteCommand(s, k, buf).resp =
                     s.resp \o SubSeq(buf, s.front + 1, s.front + s.emulated)
               /\ ExecuteCommand(s, k, buf).emulated = 0
               /\ ExecuteCommand(s, k, buf).front = s.front + s.emulated
    BY <1>1, <2>6, <2>8, <2>10, <2>11, ReadExecuted
  <2>15. end.resp = response \o SubSeq(buf, front + 1, Len(buf)) /\ end.front = Len(buf)
    <3>0. s.emulated # 0
      BY <2>12, <2>13, <2>14
    <3>1. s.emulated > 0 /\ s.front + s.emulated <= Len(buf)
      BY <2>8, <2>11, <3>0
    <3>2. /\ end.resp = s.resp \o SubSeq(buf, s.front + 1, s.front + s.emulated)
          /\ end.front = s.front + s.emulated
      BY <2>12, <2>13, <2>14, <3>1
    <3>3. QED
      BY <2>8, <2>11, <3>2
  <2>16. buf' = <<>> /\ front' = 0 /\ cmdBuffer' = <<>>
         /\ response' = response \o SubSeq(buf, front + 1, Len(buf))
    BY <2>12, <2>13, <2>15 DEF Leaves
  <2>17. RefAfter[k].resp = response \o SubSeq(buf, front + 1, Len(buf))
    <3>1. k - 1 \in 0 .. Len(script)
      BY <1>1, <2>6
    <3>2. PICK r \in RefState : r = RefAfter[k - 1]
      BY <1>1, <3>1, RefAfterTyped
    <3>3. RefAfter[k] = RefCommand(r, k)
      BY <1>1, <2>6, <3>2, RefSteps
    <3>4. RefCommand(r, k).resp = r.resp \o r.fifo
      BY <1>1, <2>6, RefCommandIs
    <3>5. response = r.resp /\ SubSeq(buf, front + 1, Len(buf)) = r.fifo
      BY <2>5, <2>6, <3>2 DEF Holding
    <3>6. QED
      BY <3>3, <3>4, <3>5
  <2>18. script[pos].mode = "none" /\ script[pos].type # "invalid"
    BY <1>1, <1>2, BufferedType, CommandKinds DEF Cmd
  <2>19. Waiting'
    <3>0. pos' > 1 /\ pos' - 1 = pos
      <4>1. pos \in Nat /\ pos > 1 /\ pos' = pos + 1
        BY <1>1, <1>2, <2>5 DEF Holding
      <4>2. QED
        BY <4>1
    <3>1. pos' > 1 /\ request' = <<>> /\ pos' - 1 = pos
      BY <1>2, <2>5, <3>0 DEF Holding
    <3>2. done' = pos /\ Deferred' = {}
      <4>1. done' = pos
        BY <1>1, <2>16, <3>1 DEF done
      <4>2. QED
        BY <1>1, <3>1, <4>1 DEF Deferred
    <3>3. BufferFollows' /\ FramesWait' /\ SlotsOfFrames'
      BY <1>1, <2>16, <3>1, <3>2 DEF BufferFollows, FramesWait, SlotsOfFrames
    <3>4. Settled(done)'
      BY <1>2, <2>18, <3>2, Zenon DEF Settled
    <3>5. RefAfter'[done'].resp = response'
      BY <1>2, <2>6, <2>16, <2>17, <3>2, RefAfterKept
    <3>6. QED
      BY <1>2, <2>16, <3>1, <3>3, <3>4, <3>5 DEF Waiting
  <2>20. Accepted(pos)
    BY <2>18 DEF Accepted
  <2>21. QED
    BY <1>1, <1>2, <1>5, <2>1, <2>19, <2>20, TakenKeepsUp
<1>6. QED
  BY <1>3, <1>4, <1>5

\* A packet of a block read.
LEMMA BlockKeepsUp ==
  ASSUME IInv, KeepsUp, BlockPacket
  PROVE  KeepsUp'
<1>1. TypeOK /\ pos \in Nat /\ pos >= 1 /\ rpc \in Nat /\ block \in [done : Nat, of : Nat]
      /\ buf \in Seq(Entry)
  BY LimitsAreNumbers DEF IInv, TypeOK
<1>2. /\ phase = "block" /\ block.done < block.of /\ pos' = pos /\ script' = script /\ rpc' = rpc
      /\ failure' = failure /\ cmdBuffer' = cmdBuffer
      /\ front' = front /\ response' = response
      /\ \/ phase' = "threw"
         \/ /\ phase' = "block" /\ block' = [block EXCEPT !.done = @ + PacketWords(BlockLeft)]
            /\ buf' = buf \o BlockFrames(PacketWords(BlockLeft))
            /\ request' = request /\ reqSize' = reqSize
  BY DEF BlockPacket, rpcVars, reqVars, parseVars
<1>3. CASE phase' = "threw" \/ failure'
  BY <1>3, StopsKeepingUp
<1>4. CASE /\ phase' = "block" /\ block' = [block EXCEPT !.done = @ + PacketWords(BlockLeft)]
           /\ buf' = buf \o BlockFrames(PacketWords(BlockLeft)) /\ ~failure'
           /\ request' = request /\ reqSize' = reqSize
  <2>1. Reading /\ \A k \in 1 .. pos - 1 : Accepted(k)
    BY <1>2, <1>4 DEF KeepsUp, Going
  <2>2. PICK size \in Nat : size = PacketWords(BlockLeft) /\ size <= BlockLeft
    <3>1. BlockLeft \in Nat \ {0} /\ PacketWords(BlockLeft) \in Nat
      BY <1>1, <1>2, BlockOpsType
    <3>2. MaxPayload \in Nat
      BY PacketHasRoom DEF MaxPayload
    <3>3. PacketWords(BlockLeft) <= BlockLeft
      BY <3>1, <3>2 DEF PacketWords, SizeA
    <3>4. QED
      BY <3>1, <3>3
  <2>3. block.done \in Nat /\ block.of \in Nat /\ BlockLeft = block.of - block.done
        /\ block'.done = block.done + size /\ block'.of = block.of
    BY <1>1, <1>4, <2>2 DEF BlockLeft
  <2>4. block'.done <= block'.of
    BY <2>2, <2>3
  <2>5. /\ BlockFrames(size) \in Seq(Entry) /\ Len(BlockFrames(size)) = size
        /\ \A j \in 1 .. size : BlockFrames(size)[j] =
              Frame(pos - 1, block.done + j, Word(pos - 1, block.done + j))
    <3>1. \A j \in 1 .. size : Frame(pos - 1, block.done + j, Word(pos - 1, block.done + j)) \in Entry
      <4>1. \A j \in 1 .. size : block.done + j \in Nat
        BY <2>3
      <4>2. pos - 1 \in Nat
        BY <1>1
      <4>3. QED
        BY <1>1, <4>1, <4>2, EntryKinds
    <3>2. QED
      BY <3>1 DEF BlockFrames
  <2>6. PICK frames \in Seq(Entry) : frames = BlockFrames(size)
    BY <2>5
  <2>7. Len(buf) = block.done /\ Len(buf) \in Nat /\ DOMAIN buf = 1 .. Len(buf)
    BY <1>1, <2>1 DEF Reading
  <2>8. /\ Len(buf') = block.done + size /\ DOMAIN buf' = 1 .. block.done + size
        /\ \A j \in 1 .. block.done : buf'[j] = buf[j]
        /\ \A j \in 1 .. size : buf'[block.done + j] = frames[j]
    <3>1. buf' = buf \o frames /\ Len(frames) = size
      BY <1>4, <2>2, <2>5, <2>6
    <3>2. /\ buf \o frames \in Seq(Entry) /\ Len(buf \o frames) = Len(buf) + Len(frames)
          /\ \A i \in 1 .. Len(buf) : (buf \o frames)[i] = buf[i]
          /\ \A j \in 1 .. Len(frames) : (buf \o frames)[Len(buf) + j] = frames[j]
      BY <1>1, Joined
    <3>3. QED
      BY <2>7, <3>1, <3>2
  <2>9. ASSUME NEW j \in 1 .. block.done + size
        PROVE  buf'[j] = Frame(pos - 1, j, Word(pos - 1, j))
    <3>1. CASE j \in 1 .. block.done
      BY <2>1, <2>7, <2>8, <3>1 DEF Reading
    <3>2. CASE j \notin 1 .. block.done
      <4>1. j - block.done \in 1 .. size /\ block.done + (j - block.done) = j
        BY <2>3, <3>2
      <4>2. QED
        BY <2>5, <2>6, <2>8, <4>1
    <3>3. QED
      BY <3>1, <3>2
  <2>10. \A j : (Frame(pos - 1, j, Word(pos - 1, j)))' = Frame(pos - 1, j, Word(pos - 1, j))
    BY <1>2, Zenon DEF Frame, Word
  <2>11. RefAfter' = RefAfter
    BY <1>2, RefAfterKept
  <2>12. \A j \in DOMAIN buf' : buf'[j] = (Frame(pos - 1, j, Word(pos - 1, j)))'
    BY <2>8, <2>9, <2>10
  <2>13. /\ cmdBuffer' = <<>> /\ request' = <<>> /\ reqSize' = 1 /\ front' = 0
         /\ response' = RefAfter'[pos' - 1].resp
    BY <1>2, <1>4, <2>1, <2>11 DEF Reading
  <2>14. Reading'
    BY <2>3, <2>4, <2>8, <2>12, <2>13, Zenon DEF Reading
  <2>15. \A k \in 1 .. pos' - 1 : Accepted(k)'
    BY <1>2, <2>1, Zenon DEF Accepted
  <2>16. QED
    BY <1>4, <2>14, <2>15 DEF KeepsUp
<1>5. QED
  BY <1>2, <1>3, <1>4

\* The block is complete, and its frames are there.
LEMMA BlockEndsKeepingUp ==
  ASSUME IInv, Disciplined(script), AllInHand, KeepsUp, BlockFails \/ BlockDone
  PROVE  KeepsUp'
<1>1. TypeOK /\ pos \in Nat /\ pos >= 1 /\ pos <= Len(script) + 1 /\ Len(script) \in Nat
      /\ block \in [done : Nat, of : Nat] /\ buf \in Seq(Entry)
  BY DEF IInv, TypeOK
<1>2. /\ phase = "block" /\ pos' = pos /\ script' = script /\ rpc' = rpc
      /\ phase' \in {"next", "threw"}
      /\ ~failure' => BlockDone
  BY DEF BlockFails, BlockDone, Onward, rpcVars
<1>3. CASE phase' = "threw" \/ failure'
  BY <1>3, StopsKeepingUp
<1>4. CASE phase' = "next" /\ BlockDone
  <2>1. ~failure /\ pos > 1 /\ script[pos - 1].mode = "block" /\ block.of = script[pos - 1].n
    BY <1>2 DEF AllInHand
  <2>2. Reading /\ \A k \in 1 .. pos - 1 : Accepted(k)
    BY <1>2, <2>1 DEF KeepsUp, Going
  <2>3. /\ block.done = block.of /\ request' = request /\ reqSize' = reqSize
        /\ cmdBuffer' = cmdBuffer /\ buf' = buf /\ front' = front /\ response' = response
    BY <1>1, <1>4, <2>2 DEF BlockDone, Reading, reqVars, fifoVars
  <2>4. PICK k \in 1 .. Len(script) : k = pos - 1 /\ k # 0
    BY <1>1, <2>1
  <2>5. PICK c \in Command : c = script[k]
    BY <1>1 DEF TypeOK
  <2>6. c.type = "write" /\ c.mode # "and" /\ c.mode # "or" /\ ResponseSize(c) = c.n /\ c.n \in Nat
        /\ c.n = block.of
    BY <2>1, <2>4, <2>5, CommandKinds, CommandFacts DEF ResponseSize
  <2>7. Unread(k) = [j \in 1 .. block.of |-> Frame(k, j, Word(k, j))]
    BY <2>4, <2>5, <2>6 DEF Unread
  <2>8. buf = [j \in 1 .. block.of |-> Frame(k, j, Word(k, j))]
    <3>1. Len(buf) = block.of /\ DOMAIN buf = 1 .. block.of
      BY <1>1, <2>2, <2>3 DEF Reading
    <3>2. \A j \in 1 .. block.of : buf[j] = Frame(k, j, Word(k, j))
      BY <2>2, <2>4, <3>1 DEF Reading
    <3>3. buf = [j \in 1 .. block.of |-> buf[j]]
      BY <1>1, <3>1
    <3>4. QED
      BY <3>2, <3>3
  <2>9. RefAfter[k].fifo = Unread(k)
    <3>1. k \in 0 .. Len(script) /\ k \in 0 .. k
      BY <1>1, <2>4
    <3>2. \A i \in 1 .. k : Accepted(i)
      BY <2>2, <2>4
    <3>3. QED
      BY <1>1, <3>1, <3>2, ReferenceUnread
  <2>10. SubSeq(buf, front + 1, Len(buf)) = buf
    <3>1. front = 0
      BY <2>2 DEF Reading
    <3>2. SubSeq(buf, 1, Len(buf)) = buf
      BY <1>1
    <3>3. QED
      BY <3>1, <3>2
  <2>11. RefAfter' = RefAfter
    BY <1>2, RefAfterKept
  <2>12. Holding'
    <3>1. SubSeq(buf, front + 1, Len(buf)) = RefAfter[pos - 1].fifo
      BY <2>4, <2>7, <2>8, <2>9, <2>10
    <3>2. QED
      BY <1>2, <2>1, <2>2, <2>3, <2>11, <3>1 DEF Holding, Reading
  <2>13. \A i \in 1 .. pos' - 1 : Accepted(i)'
    BY <1>2, <2>2, Zenon DEF Accepted
  <2>14. QED
    BY <1>4, <2>12, <2>13 DEF KeepsUp
<1>5. QED
  BY <1>2, <1>3, <1>4

LEMMA SendRpcKeepsUp ==
  ASSUME IInv, SendRpc
  PROVE  KeepsUp' /\ SuccessMatchesReference'
<1>1. /\ pos' = 1 /\ execOnRead' = FALSE /\ cmdBuffer' = <<>> /\ response' = <<>>
      /\ request' = <<>> /\ reqSize' = 1
      /\ phase' = "idle" \/ (phase' = "next" /\ script' # <<>>)
      /\ phase' = "idle" /\ reply' = "success" => script' = <<>>
  BY DEF SendRpc, Answer, ResetRequest
<1>2. KeepsUp'
  <2>1. phase' = "next" => NotYet'
    BY <1>1 DEF NotYet
  <2>2. \A k \in 1 .. pos' - 1 : FALSE
    BY <1>1
  <2>3. QED
    BY <1>1, <2>1, <2>2 DEF KeepsUp, Going
<1>3. ASSUME script' = <<>> PROVE Reference' = <<>>
  <2>1. RefAfter' = RefOf(script', rpc')
    BY Zenon DEF RefAfter, RefOf, RefCommandOf, RefCommand, Frame, Line, Word, ResponseSize, NoValue
  <2>2. Reference' = RefAfter'[Len(script')].resp
    BY DEF Reference
  <2>3. Len(script') = 0
    BY <1>3
  <2>4. Reference' = RefOf(script', rpc')[0].resp
    BY <2>1, <2>2, <2>3
  <2>5. RefOf(script', rpc')[0] = [fifo |-> <<>>, resp |-> <<>>, lastAnd |-> 0]
    BY <2>3, NothingToRun
  <2>6. QED
    BY <2>4, <2>5
<1>4. SuccessMatchesReference'
  BY <1>1, <1>3 DEF SuccessMatchesReference, Answered
<1>5. QED
  BY <1>2, <1>4

LEMMA StepKeepsUp ==
  ASSUME IInv, Disciplined(script), AllInHand, KeepsUp, SuccessMatchesReference, [Next]_vars
  PROVE  KeepsUp' /\ SuccessMatchesReference'
<1>1. CASE SendRpc
  BY <1>1, SendRpcKeepsUp
<1>2. CASE Finish
  BY <1>2, FinishKeepsUp
<1>3. CASE UNCHANGED vars
  <2>1. /\ rpc' = rpc /\ script' = script /\ pos' = pos /\ request' = request /\ reqSize' = reqSize
        /\ cmdBuffer' = cmdBuffer /\ buf' = buf /\ front' = front /\ execOnRead' = execOnRead
        /\ block' = block /\ response' = response /\ phase' = phase /\ failure' = failure
        /\ reply' = reply /\ expectOr' = expectOr
    BY <1>3 DEF vars, rpcVars, reqVars, fifoVars, parseVars
  <2>2. (AndWaits' <=> AndWaits) /\ (Going' <=> Going)
    BY <2>1 DEF AndWaits, Going
  <2>3. (NotYet => NotYet') /\ (Waiting => Waiting') /\ (Holding => Holding') /\ (Doomed => Doomed')
        /\ (Reading => Reading')
    BY <2>1, <2>2, SameStages
  <2>4. \A k : Accepted(k)' <=> Accepted(k)
    BY <2>1 DEF Accepted
  <2>5. KeepsUp'
    BY <2>1, <2>2, <2>3, <2>4 DEF KeepsUp
  <2>6. RefAfter' = RefAfter
    BY <2>1, RefAfterKept
  <2>7. SuccessMatchesReference'
    BY <2>1, <2>6 DEF SuccessMatchesReference, Answered, Reference
  <2>8. QED
    BY <2>5, <2>7
<1>4. CASE BadCommand \/ GiveUp
  <2>1. phase' \in {"idle", "threw"} /\ (phase' = "idle" => reply' = "failure")
    BY <1>4 DEF BadCommand, GiveUp, Answer
  <2>2. QED
    BY <2>1, StopsKeepingUp DEF SuccessMatchesReference, Answered
<1>5. ASSUME Flush \/ NoFlush \/ Defers \/ Adds \/ ReadNow \/ WriteBlock \/ BlockPacket
               \/ BlockFails \/ BlockDone
      PROVE  KeepsUp' /\ SuccessMatchesReference'
  <2>1. phase' # "idle"
    BY <1>5, SequenceGoesOn
  <2>2. KeepsUp'
    BY <1>5, FlushKeepsUp, DeferredKeepsUp, AddedKeepsUp, ReadKeepsUp, WriteBlockKeepsUp,
       BlockKeepsUp, BlockEndsKeepingUp
  <2>3. QED
    BY <2>1, <2>2 DEF SuccessMatchesReference, Answered
<1>6. QED
  BY <1>1, <1>2, <1>3, <1>4, <1>5 DEF Next, Step, Defers, Adds

LEMMA PromiseKept ==
  ASSUME \A n \in 1 .. MaxRpc : \A s \in Script[n] : AndsArePaired(s) /\ ReadsAtOnce(s)
  PROVE  Spec /\ []BlocksHaveRoom => [](AllInHand /\ KeepsUp /\ SuccessMatchesReference)
<1> DEFINE Inv == /\ IInv /\ Disciplined(script) /\ AllInHand /\ SuccessMeansExecuted
                  /\ KeepsUp /\ SuccessMatchesReference
<1>1. Init => Inv
  <2> SUFFICES ASSUME Init PROVE Inv
    OBVIOUS
  <2>1. AllInHand /\ KeepsUp
    BY DEF Init, AllInHand, KeepsUp, Going
  <2>2. SuccessMeansExecuted /\ SuccessMatchesReference
    BY DEF Init, SuccessMeansExecuted, SuccessMatchesReference, Answered
  <2>3. Disciplined(script)
    BY DEF Init, Disciplined, AndsArePaired, ReadsAtOnce
  <2>4. QED
    BY <2>1, <2>2, <2>3, InitMeetsInv
<1>2. Inv /\ BlocksHaveRoom /\ [Next]_vars => Inv'
  <2> SUFFICES ASSUME Inv, BlocksHaveRoom, [Next]_vars PROVE Inv'
    OBVIOUS
  <2>1. AndsArePaired(script)
    BY DEF Disciplined
  <2>2. AllInHand' /\ SuccessMeansExecuted'
    BY <2>1, StepInHand
  <2>3. KeepsUp' /\ SuccessMatchesReference'
    BY StepKeepsUp
  <2>4. Disciplined(script)'
    <3>1. script' = script \/ \E n \in 1 .. MaxRpc : script' \in Script[n]
      BY ScriptOfRpc
    <3>2. QED
      BY <3>1 DEF Disciplined
  <2>5. QED
    BY <2>2, <2>3, <2>4, StepKeepsInv
<1>3. Inv => AllInHand /\ KeepsUp /\ SuccessMatchesReference
  OBVIOUS
<1> HIDE DEF Inv
<1>4. QED
  BY <1>1, <1>2, <1>3, PTL DEF Spec

\* For clients that follow an AND with its OR, reset first and read what an
\* operation answers with the next command, the commands taken, the request,
\* the FIFO and the response stay together as PromiseInv says as long as no
\* block is asked for where the packet is full.
THEOREM PromiseInvHolds ==
  ASSUME \A n \in 1 .. MaxRpc : \A s \in Script[n] : AndsArePaired(s) /\ ReadsAtOnce(s)
  PROVE  Spec /\ []BlocksHaveRoom => []PromiseInv
<1>1. Spec /\ []BlocksHaveRoom => [](AllInHand /\ KeepsUp /\ SuccessMatchesReference)
  BY PromiseKept
<1>2. BlocksHaveRoom /\ AllInHand /\ KeepsUp /\ SuccessMatchesReference => PromiseInv
  BY DEF PromiseInv
<1>3. QED
  BY <1>1, <1>2, PTL

\* If every client follows an AND with its OR, resets first and reads what an
\* operation answers with the next command, and asks for no block where the
\* packet is full, an answer "success" carries the response of the commands
\* taken one by one: the packets the operations were split into, and the FIFO
\* that is only emulated while they are executed, cannot be told from it.
THEOREM SuccessMatchesReferenceHolds ==
  ASSUME \A n \in 1 .. MaxRpc : \A s \in Script[n] : AndsArePaired(s) /\ ReadsAtOnce(s)
  PROVE  Spec /\ []BlocksHaveRoom => []SuccessMatchesReference
BY PromiseKept, PTL

-----------------------------------------------------------------------------
(* Sequences without blocks.                                               *)

NoBlocks(s) == \A k \in DOMAIN s : s[k].mode # "block"

LEMMA NothingToRoom ==
  ASSUME TypeOK, NoBlocks(script)
  PROVE  BlocksHaveRoom
<1>1. pos \in Nat /\ pos >= 1 /\ DOMAIN script = 1 .. Len(script)
  BY DEF TypeOK
<1>2. pos <= Len(script) => Cmd.mode # "block"
  BY <1>1 DEF NoBlocks, Cmd
<1>3. QED
  BY <1>2 DEF BlocksHaveRoom

\* A client that asks for no block never meets the failure that readBlock
\* forgets.
LEMMA RoomWithoutBlocks ==
  ASSUME \A n \in 1 .. MaxRpc : \A s \in Script[n] : NoBlocks(s)
  PROVE  Spec => []BlocksHaveRoom
<1> DEFINE Inv == IInv /\ NoBlocks(script)
<1>1. Init => Inv
  BY InitMeetsInv DEF Init, NoBlocks
<1>2. Inv /\ [Next]_vars => Inv'
  BY StepKeepsInv, ScriptOfRpc
<1>3. Inv => BlocksHaveRoom
  BY NothingToRoom DEF IInv
<1> HIDE DEF Inv
<1>4. QED
  BY <1>1, <1>2, <1>3, PTL DEF Spec

\* Without blocks the two promises hold of the clients' discipline alone.
THEOREM PromisesWithoutBlocks ==
  ASSUME \A n \in 1 .. MaxRpc : \A s \in Script[n] : AndsArePaired(s) /\ ReadsAtOnce(s) /\ NoBlocks(s)
  PROVE  Spec => [](SuccessMeansExecuted /\ SuccessMatchesReference)
<1>1. \A n \in 1 .. MaxRpc : \A s \in Script[n] : AndsArePaired(s)
  OBVIOUS
<1>2. \A n \in 1 .. MaxRpc : \A s \in Script[n] : AndsArePaired(s) /\ ReadsAtOnce(s)
  OBVIOUS
<1>3. \A n \in 1 .. MaxRpc : \A s \in Script[n] : NoBlocks(s)
  OBVIOUS
<1>4. Spec => []BlocksHaveRoom
  BY <1>3, RoomWithoutBlocks
<1>5. Spec /\ []BlocksHaveRoom => []SuccessMeansExecuted
  BY <1>1, SuccessMeansExecutedHolds
<1>6. Spec /\ []BlocksHaveRoom => []SuccessMatchesReference
  BY <1>2, SuccessMatchesReferenceHolds
<1>7. QED
  BY <1>4, <1>5, <1>6, PTL

=============================================================================
