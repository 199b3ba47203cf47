------------------------- MODULE SwtTranslatorProofs -------------------------
(***************************************************************************)
(* What SwtTranslator guarantees for every set of sequences and every size *)
(* of packet, FIFO and command buffer: the packets fit, the FIFO stays in  *)
(* its memory, and the device executes the operations in their order.      *)
(***************************************************************************)
EXTENDS SwtTranslator, SequenceTheorems, Induction

\* readBlock cuts a block into packets that make progress, never read past the
\* block, leave the reply its three headers, and whose two transactions have
\* sizes that fit in the 8-bit word count of addTransaction (for the packets of
\* 368 words of the program, and any up to 513).
THEOREM BlockPacketsFit ==
  ASSUME NEW wordLeft \in Nat \ {0}
  PROVE  /\ PacketWords(wordLeft) \in 1 .. wordLeft
         /\ 3 + PacketWords(wordLeft) <= MaxPacket
         /\ SizeA(wordLeft) \in 1 .. PacketWords(wordLeft)
         /\ MaxPacket <= 513 => /\ SizeA(wordLeft) <= 255
                               /\ PacketWords(wordLeft) - SizeA(wordLeft) <= 255
<1>1. MaxPayload \in Nat /\ MaxPayload >= 2 /\ MaxPacket = MaxPayload + 3
  BY PacketHasRoom DEF MaxPayload
<1> DEFINE half == MaxPayload \div 2
<1>2. half \in Nat /\ 1 <= half /\ 2 * half <= MaxPayload /\ MaxPayload <= 2 * half + 1
  BY <1>1
<1>3. SizeA(wordLeft) = IF wordLeft > half THEN half ELSE wordLeft
  BY DEF SizeA
<1> HIDE DEF half
<1>4. CASE wordLeft <= half
  <2>1. SizeA(wordLeft) = wordLeft /\ PacketWords(wordLeft) = wordLeft
    BY <1>2, <1>3, <1>4 DEF PacketWords
  <2>2. QED
    BY <1>1, <1>2, <1>4, <2>1
<1>5. CASE wordLeft > half
  <2>1. SizeA(wordLeft) = half
    BY <1>3, <1>5
  <2>2. PacketWords(wordLeft) = IF wordLeft < MaxPayload THEN wordLeft ELSE MaxPayload
    BY <1>1, <1>2, <1>5, <2>1 DEF PacketWords
  <2>3. QED
    BY <1>1, <1>2, <1>5, <2>1, <2>2
<1>6. QED
  BY <1>2, <1>4, <1>5

\* The actions that leave the request as it is and do not come from the head
\* of the loop, where the room for a command is made.
Neutral ==
    \/ BadCommand \/ ScReset \/ Wait \/ ReadThrows \/ ReadNow \/ ReadLater
    \/ UnknownFrame \/ WriteOverflows \/ WriteAnd \/ WriteOrThrows
    \/ BlockFails \/ BlockDone \/ GiveUp

LEMMA NeutralLeaves ==
  ASSUME Neutral
  PROVE  /\ UNCHANGED reqVars /\ phase' # "command"
         /\ phase \in {"next", "command", "block"} \/ phase' = "idle"
BY DEF Neutral, BadCommand, ScReset, Wait, ReadThrows, ReadNow, ReadLater,
       UnknownFrame, WriteOverflows, WriteAnd, WriteOrThrows, BlockFails, BlockDone,
       GiveUp, Execute, Defer, Onward, Answer, Takes, Writes

\* Executing a packet leaves the request empty, or as it was if the executor
\* throws.
LEMMA ExecutionResets ==
  ASSUME NEW commands, NEW next \in {"command", "block", "next", "threw", "idle"},
         Transceived(commands, next) \/ TransceiveFails(commands, next)
  PROVE  \/ phase' = next /\ reqSize' = 1 /\ respSize' = 1
         \/ phase' = "threw" /\ UNCHANGED reqVars
BY DEF Transceived, TransceiveFails, Execute, ResetRequest

\* A transaction added while there is room for four words still fits, and its
\* reply is no longer than itself.
LEMMA TransactionFits ==
  ASSUME PacketInv, phase = "command", NEW mode, NEW k, NEW slot,
         NEW next \in {"next", "threw"},
         AddTransaction(mode, k, slot, next)
  PROVE  PacketInv'
<1>1. RequestWords(mode) \in 2 .. 4 /\ ResponseWords(mode) \in 1 .. 2
  BY DEF RequestWords, ResponseWords
<1>2. ResponseWords(mode) <= RequestWords(mode)
  BY DEF RequestWords, ResponseWords
<1>3. CASE reqSize + 2 > MaxPacket
  BY <1>3, PacketHasRoom DEF PacketInv, AddTransaction, reqVars
<1>4. CASE ~(reqSize + 2 > MaxPacket)
  <2>1. reqSize' = reqSize + RequestWords(mode) /\ respSize' = respSize + ResponseWords(mode)
    BY <1>4 DEF AddTransaction
  <2>2. phase' # "command"
    BY <1>4 DEF AddTransaction
  <2>3. QED
    BY <1>1, <1>2, <2>1, <2>2, PacketHasRoom DEF PacketInv, Full
<1>5. QED
  BY <1>3, <1>4

\* The request that a block leaves behind fits as well.
LEMMA BlockFits ==
  ASSUME TypeOK, PacketInv, BlockPacket
  PROVE  PacketInv'
<1>1. phase = "block" /\ block.done < block.of /\ block \in [done : Nat, of : Nat]
  BY DEF BlockPacket, TypeOK
<1>2. PICK left \in Nat \ {0} : left = BlockLeft
  BY <1>1 DEF BlockLeft
<1>3. PICK size \in Nat : size = PacketWords(BlockLeft) /\ 3 + size <= MaxPacket
  BY <1>2, BlockPacketsFit, PacketHasRoom
<1>4. Len(BlockOps) \in 1 .. 2
  BY DEF BlockOps
<1>5. \/ phase' = phase /\ UNCHANGED reqVars
      \/ phase' = "threw" /\ KeepBlockRequest
  BY DEF BlockPacket
<1>6. CASE phase' = phase /\ UNCHANGED reqVars
  BY <1>1, <1>6 DEF PacketInv, reqVars
<1>7. CASE phase' = "threw" /\ KeepBlockRequest
  <2>1. reqSize' \in 1 .. 5 /\ respSize' \in 1 .. 3 + size
    BY <1>3, <1>4, <1>7 DEF KeepBlockRequest
  <2>2. QED
    BY <1>3, <1>7, <2>1, PacketHasRoom DEF PacketInv
<1>8. QED
  BY <1>5, <1>6, <1>7

\* Every step keeps the room.
LEMMA PacketInvKept ==
  ASSUME TypeOK, PacketInv, [Next]_vars
  PROVE  PacketInv'
<1> USE PacketHasRoom
<1>1. CASE SendRpc
  BY <1>1 DEF SendRpc, ResetRequest, PacketInv, Answer
<1>2. CASE Flush
  <2>1. \/ phase' = "command" /\ reqSize' = 1 /\ respSize' = 1
        \/ phase' = "threw" /\ UNCHANGED reqVars
    BY <1>2, ExecutionResets DEF Flush
  <2>2. QED
    BY <2>1 DEF PacketInv, reqVars, Full
<1>3. CASE NoFlush
  BY <1>3 DEF NoFlush, Full, PacketInv, reqVars
<1>4. CASE WriteRead
  BY <1>4, TransactionFits DEF WriteRead, Writes, Takes, Onward
<1>5. CASE WriteWrite
  BY <1>5, TransactionFits DEF WriteWrite, Writes, Takes, Onward
<1>6. CASE WriteOr
  BY <1>6, TransactionFits DEF WriteOr, Writes, Takes
<1>7. CASE WriteBlock
  <2>1. \E next \in {"block", "next", "threw"} :
           Transceived(Buffered, next) \/ TransceiveFails(Buffered, next)
    BY <1>7 DEF WriteBlock, Onward
  <2>2. phase' # "command" /\ (UNCHANGED reqVars \/ (reqSize' = 1 /\ respSize' = 1))
    BY <2>1, ExecutionResets
  <2>3. phase = "command"
    BY <1>7 DEF WriteBlock, Writes, Takes
  <2>4. QED
    BY <2>2, <2>3 DEF PacketInv, reqVars
<1>8. CASE Finish
  <2>1. \/ phase' = "idle" /\ reqSize' = 1 /\ respSize' = 1
        \/ phase' = "threw" /\ UNCHANGED reqVars
    BY <1>8, ExecutionResets DEF Finish
  <2>2. QED
    BY <2>1 DEF PacketInv, reqVars
<1>9. CASE Neutral
  BY <1>9, NeutralLeaves DEF PacketInv, reqVars
<1>10. CASE BlockPacket
  BY <1>10, BlockFits
<1>11. CASE UNCHANGED vars
  BY <1>11 DEF vars, reqVars, PacketInv, Full
<1>12. QED
  BY <1>1, <1>2, <1>3, <1>4, <1>5, <1>6, <1>7, <1>8, <1>9, <1>10, <1>11
  DEF Next, Step, Neutral

-----------------------------------------------------------------------------
(* What the buffers hold.                                                  *)

LEMMA Joined ==
  ASSUME NEW S, NEW b \in Seq(S), NEW c \in Seq(S)
  PROVE  /\ b \o c \in Seq(S) /\ Len(b \o c) = Len(b) + Len(c)
         /\ \A i \in 1 .. Len(b) : (b \o c)[i] = b[i]
         /\ \A j \in 1 .. Len(c) : (b \o c)[Len(b) + j] = c[j]
BY ConcatProperties

\* The data of the transactions goes into frames that are there.
LEMMA FilledFrames ==
  ASSUME TypeOK, NEW p \in 0 .. Len(request)
  PROVE  Filled(p) \in Seq(Entry) /\ Len(Filled(p)) = Len(buf)
<1> DEFINE T(i) == {t \in 1 .. p : request[t].slot = i}
           last(i) == CHOOSE t \in T(i) : \A u \in T(i) : u <= t
<1>1. /\ buf \in Seq(Entry) /\ Len(buf) \in Nat /\ Len(request) \in Nat /\ p \in Nat
      /\ \A t \in 1 .. p : request[t].asked \in Operation
  <2>1. request \in Seq([asked : Operation, slot : 0 .. FifoLimit]) /\ Len(request) \in Nat
    BY DEF TypeOK
  <2>2. \A t \in 1 .. Len(request) : request[t] \in [asked : Operation, slot : 0 .. FifoLimit]
    BY <2>1, ElementOfSeq
  <2>3. \A t \in 1 .. Len(request) : request[t].asked \in Operation
    BY <2>2
  <2>4. \A t \in 1 .. p : t \in 1 .. Len(request)
    BY <2>1
  <2>5. QED
    BY <2>1, <2>3, <2>4 DEF TypeOK
<1>2. ASSUME NEW i, T(i) # {} PROVE request[last(i)].asked \in Operation
  <2>1. T(i) \in SUBSET (0 .. p)
    BY <1>1
  <2> HIDE DEF T
  <2>2. last(i) \in T(i)
    BY <1>1, <1>2, <2>1, LargestOf
  <2>3. QED
    BY <1>1, <2>2 DEF T
<1>3. Filled(p) = [i \in 1 .. Len(buf) |->
                     IF T(i) = {} THEN buf[i] ELSE [buf[i] EXCEPT !.data = request[last(i)].asked]]
  BY DEF Filled
<1> HIDE DEF T, last
<1>4. ASSUME NEW i \in 1 .. Len(buf) PROVE Filled(p)[i] \in Entry
  <2>1. buf[i] \in Entry
    BY <1>1
  <2>2. T(i) # {} => [buf[i] EXCEPT !.data = request[last(i)].asked] \in Entry
    BY <1>2, <2>1 DEF Entry
  <2>3. QED
    BY <1>3, <2>1, <2>2
<1>5. Filled(p) = [i \in 1 .. Len(buf) |-> Filled(p)[i]]
  BY <1>3
<1>6. QED
  BY <1>1, <1>4, <1>5

LEMMA SpoiltFrames ==
  ASSUME TypeOK, NEW p \in 0 .. Len(request)
  PROVE  Spoilt(p) \in Seq(Entry) /\ Len(Spoilt(p)) = Len(buf)
<1>1. /\ Filled(p) \in Seq(Entry) /\ Len(Filled(p)) = Len(buf)
      /\ buf \in Seq(Entry) /\ Len(buf) \in Nat
  BY FilledFrames DEF TypeOK
<1>2. ASSUME NEW i \in 1 .. Len(buf) PROVE [buf[i] EXCEPT !.data = NoValue] \in Entry
  <2>1. buf[i] \in Entry
    BY <1>1
  <2>2. QED
    BY <2>1 DEF Entry
<1>3. QED
  BY <1>1, <1>2 DEF Spoilt

\* What the executor works on.
State(f) == [emulated : Nat, front : 0 .. Len(f), resp : Seq(Entry), threw : BOOLEAN]

LEMMA PopType ==
  ASSUME NEW f \in Seq(Entry), NEW s \in State(f), NEW n \in Nat, n <= s.emulated
  PROVE  Pop(s, f, n) \in State(f)
<1> DEFINE m == IF s.front + n > Len(f) THEN Len(f) - s.front ELSE n
           r == s.resp \o SubSeq(f, s.front + 1, s.front + m)
           i == s.front + m
           e == s.emulated - m
           b == m < n
<1>1. /\ s.front \in Nat /\ Len(f) \in Nat /\ s.front <= Len(f) /\ s.emulated \in Nat
      /\ s.resp \in Seq(Entry)
  BY DEF State
<1>2. m \in Nat /\ s.front + m <= Len(f) /\ m <= s.emulated
  BY <1>1
<1>3. Pop(s, f, n) = [s EXCEPT !.resp = r, !.front = i, !.emulated = e, !.threw = b]
  BY DEF Pop
<1> HIDE DEF m
<1>4. SubSeq(f, s.front + 1, s.front + m) \in Seq(Entry)
  <2>1. \A k \in s.front + 1 .. s.front + m : f[k] \in Entry
    BY <1>1, <1>2
  <2>2. QED
    BY <1>1, <1>2, <2>1, SubSeqProperties
<1>5. r \in Seq(Entry)
  BY <1>1, <1>4, Joined
<1>6. i \in 0 .. Len(f) /\ e \in Nat /\ b \in BOOLEAN
  BY <1>1, <1>2
<1> HIDE DEF r, i, e, b
<1>7. QED
  BY <1>3, <1>5, <1>6 DEF State

LEMMA CommandFacts ==
  ASSUME NEW c \in Command
  PROVE  c.n \in Nat /\ ResponseSize(c) \in Nat
BY DEF Command, ResponseSize

LEMMA EntryKinds ==
  ASSUME rpc \in Nat, NEW k \in Nat
  PROVE  /\ Line("ack", k) \in Entry /\ Line("wait", k) \in Entry
         /\ \A j \in Nat : Word(k, j) \in Operation
         /\ \A j \in Nat : Frame(k, j, NoValue) \in Entry /\ Frame(k, j, Word(k, j)) \in Entry
BY DEF Line, Frame, Word, Entry, Operation, NoValue

LEMMA ExecuteCommandType ==
  ASSUME TypeOK, NEW f \in Seq(Entry), NEW s \in State(f), NEW k \in 1 .. Len(script)
  PROVE  ExecuteCommand(s, k, f) \in State(f)
<1> DEFINE c == script[k]
<1>1. c \in Command /\ rpc \in Nat /\ k \in Nat
  BY LimitsAreNumbers DEF TypeOK
<1>2. c.n \in Nat /\ ResponseSize(c) \in Nat
  BY <1>1, CommandFacts
<1>3. Line("ack", k) \in Entry /\ Line("wait", k) \in Entry
  BY <1>1, EntryKinds
<1>4. /\ s.emulated \in Nat /\ s.resp \in Seq(Entry)
      /\ Append(s.resp, Line("ack", k)) \in Seq(Entry) /\ Append(s.resp, Line("wait", k)) \in Seq(Entry)
  BY <1>3 DEF State
<1> HIDE DEF c
<1>5. [s EXCEPT !.resp = Append(@, Line("ack", k)), !.emulated = @ + ResponseSize(c)] \in State(f)
  <2>1. s.emulated + ResponseSize(c) \in Nat
    BY <1>2, <1>4
  <2>2. ASSUME NEW r \in Seq(Entry), NEW e \in Nat
        PROVE  [s EXCEPT !.resp = r, !.emulated = e] \in State(f)
    BY DEF State
  <2>3. QED
    BY <1>4, <2>1, <2>2
<1>6. [s EXCEPT !.resp = Append(@, Line("wait", k))] \in State(f)
  BY <1>4 DEF State
<1>7. [s EXCEPT !.threw = TRUE] \in State(f)
  BY DEF State
<1>8. Pop(s, f, s.emulated) \in State(f)
  BY <1>4, PopType
<1> DEFINE n == IF c.n < s.emulated THEN c.n ELSE s.emulated
<1>9. [Pop(s, f, n) EXCEPT !.threw = @ \/ c.n # s.emulated] \in State(f)
  <2>1. n \in Nat /\ n <= s.emulated
    BY <1>2, <1>4
  <2>2. Pop(s, f, n) \in State(f)
    BY <2>1, PopType
  <2>3. (Pop(s, f, n).threw \/ c.n # s.emulated) \in BOOLEAN
    OBVIOUS
  <2>4. QED
    BY <2>2, <2>3 DEF State
<1>10. QED
  BY <1>5, <1>6, <1>7, <1>8, <1>9 DEF ExecuteCommand, c

\* The executor's recursion over the buffer is well defined.
Runs(after, commands, f, start, last) ==
    after = [n \in 0 .. last |->
               IF n = 0 THEN start ELSE ExecuteCommand(after[n - 1], commands[n], f)]

LEMMA ExecutorRuns ==
  ASSUME NEW commands, NEW f, NEW start, NEW last \in Nat
  PROVE  \E after : Runs(after, commands, f, start, last)
<1> USE DEF Runs
<1> DEFINE Run(g, m) == Runs(g, commands, f, start, m)
           T == {m \in Nat : \E g : Run(g, m)}
<1>1. 0 \in T
  <2>1. Run([n \in 0 .. 0 |-> start], 0)
    OBVIOUS
  <2>2. QED
    BY <2>1
<1>2. ASSUME NEW m \in Nat, m \in T PROVE m + 1 \in T
  <2>1. PICK g : Run(g, m)
    BY <1>2
  <2> DEFINE h == [n \in 0 .. m + 1 |->
                     IF n = m + 1 THEN ExecuteCommand(g[m], commands[m + 1], f) ELSE g[n]]
  <2>2. \A n \in 0 .. m : h[n] = g[n]
    OBVIOUS
  <2>3. h[m + 1] = ExecuteCommand(g[m], commands[m + 1], f) /\ DOMAIN h = 0 .. m + 1
    OBVIOUS
  <2>4. ASSUME NEW n \in 0 .. m + 1
        PROVE  h[n] = IF n = 0 THEN start ELSE ExecuteCommand(h[n - 1], commands[n], f)
    <3>1. CASE n = m + 1
      BY <2>2, <2>3, <3>1
    <3>2. CASE n \in 0 .. m
      <4>1. g[n] = IF n = 0 THEN start ELSE ExecuteCommand(g[n - 1], commands[n], f)
        BY <2>1, <3>2
      <4>2. n # 0 => n - 1 \in 0 .. m
        BY <3>2
      <4>3. QED
        BY <2>2, <3>2, <4>1, <4>2
    <3>3. QED
      BY <3>1, <3>2
  <2>5. h = [n \in 0 .. m + 1 |-> h[n]]
    OBVIOUS
  <2> HIDE DEF h
  <2>6. Run(h, m + 1)
    BY <2>4, <2>5
  <2>7. QED
    BY <2>6
<1>3. last \in T
  <2> HIDE DEF T
  <2>1. QED
    BY <1>1, <1>2, SetInduction
<1>4. QED
  BY <1>3

\* The states of the executor, command by command, and what is left of it.
Executed(after, commands, f, initial) ==
    /\ after[0] = [emulated |-> initial, front |-> front, resp |-> response, threw |-> FALSE]
    /\ \A n \in 1 .. Len(commands) : after[n] = ExecuteCommand(after[n - 1], commands[n], f)
    /\ \A n \in 0 .. Len(commands) : after[n] \in State(f)
Leaves(end, commands, f, next) ==
    /\ response' = end.resp
    /\ front' = IF ~end.threw /\ end.front = Len(f) THEN 0 ELSE end.front
    /\ buf' = IF ~end.threw /\ end.front = Len(f) THEN <<>> ELSE f
    /\ cmdBuffer' = IF end.threw THEN commands ELSE <<>>
    /\ phase' = IF end.threw THEN "threw" ELSE next

LEMMA ExecutorEnds ==
  ASSUME TypeOK, NEW commands \in Seq(1 .. Len(script)), NEW f \in Seq(Entry), front <= Len(f),
         NEW initial \in Nat, NEW next, Execute(commands, f, initial, next)
  PROVE  \E after : /\ Executed(after, commands, f, initial)
                    /\ after[Len(commands)] \in State(f)
                    /\ Leaves(after[Len(commands)], commands, f, next)
<1> DEFINE start == [emulated |-> initial, front |-> front, resp |-> response, threw |-> FALSE]
           Run(g) == Runs(g, commands, f, start, Len(commands))
           after == CHOOSE g : Run(g)
           end == after[Len(commands)]
<1>1. Len(commands) \in Nat /\ Len(f) \in Nat /\ front \in Nat
  BY DEF TypeOK
<1>2. start \in State(f)
  BY <1>1 DEF State, TypeOK
<1> HIDE DEF start
<1>3. Run(after)
  <2>1. \E g : Run(g)
    BY <1>1, ExecutorRuns
  <2> HIDE DEF Run
  <2>2. QED
    BY <2>1
<1>4. after[0] = start
  <2>1. 0 \in 0 .. Len(commands)
    BY <1>1
  <2>2. QED
    BY <1>3, <2>1 DEF Runs
<1>5. \A n \in 1 .. Len(commands) : after[n] = ExecuteCommand(after[n - 1], commands[n], f)
  <2>1. \A n \in 1 .. Len(commands) : n \in 0 .. Len(commands) /\ n # 0
    BY <1>1
  <2>2. QED
    BY <1>3, <2>1 DEF Runs
<1>6. Leaves(end, commands, f, next)
  BY DEF Execute, Runs, Leaves, start
<1> HIDE DEF after
<1>7. \A n \in 0 .. Len(commands) : after[n] \in State(f)
  <2> DEFINE T == {n \in Nat : n <= Len(commands) => after[n] \in State(f)}
  <2>1. 0 \in T
    BY <1>2, <1>4
  <2>2. ASSUME NEW n \in Nat, n \in T PROVE n + 1 \in T
    <3>1. SUFFICES ASSUME n + 1 <= Len(commands) PROVE after[n + 1] \in State(f)
      OBVIOUS
    <3>2. n + 1 \in 1 .. Len(commands) /\ (n + 1) - 1 = n
      BY <1>1, <3>1
    <3>3. after[n] \in State(f) /\ commands[n + 1] \in 1 .. Len(script)
      BY <1>1, <2>2, <3>1
    <3>4. QED
      BY <1>5, <3>2, <3>3, ExecuteCommandType
  <2> HIDE DEF T
  <2>3. Nat \subseteq T
    BY <2>1, <2>2, SetInduction
  <2>4. QED
    BY <1>1, <2>3 DEF T
<1>8. end \in State(f)
  BY <1>1, <1>7
<1>9. Executed(after, commands, f, initial)
  BY <1>4, <1>5, <1>7 DEF Executed, start
<1>10. QED
  BY <1>6, <1>8, <1>9

\* Whatever the commands are, the executor pops no frame that is not there.
LEMMA Execution ==
  ASSUME TypeOK, NEW commands \in Seq(1 .. Len(script)), NEW f \in Seq(Entry), front <= Len(f),
         NEW initial \in Nat, NEW next, Execute(commands, f, initial, next)
  PROVE  /\ response' \in Seq(Entry)
         /\ buf' \in Seq(Entry) /\ Len(buf') <= Len(f) /\ front' \in 0 .. Len(buf')
         /\ \/ phase' = "threw" /\ cmdBuffer' = commands
            \/ phase' = next /\ cmdBuffer' = <<>>
<1>1. PICK end \in State(f) : Leaves(end, commands, f, next)
  BY ExecutorEnds
<1>2. end.resp \in Seq(Entry) /\ end.front \in 0 .. Len(f) /\ end.threw \in BOOLEAN
      /\ Len(f) \in Nat
  BY <1>1 DEF State
<1>3. <<>> \in Seq(Entry) /\ Len(<<>>) = 0
  OBVIOUS
<1>4. buf' \in Seq(Entry) /\ Len(buf') <= Len(f) /\ front' \in 0 .. Len(buf')
  BY <1>1, <1>2, <1>3 DEF Leaves
<1>5. \/ phase' = "threw" /\ cmdBuffer' = commands
      \/ phase' = next /\ cmdBuffer' = <<>>
  BY <1>1 DEF Leaves
<1>6. QED
  BY <1>1, <1>2, <1>4, <1>5 DEF Leaves

LEMMA SeqWider ==
  ASSUME NEW S, NEW T, S \subseteq T, NEW s \in Seq(S)
  PROVE  s \in Seq(T)
<1>1. Len(s) \in Nat /\ s \in [1 .. Len(s) -> S]
  BY LenProperties
<1>2. s \in [1 .. Len(s) -> T]
  BY <1>1
<1>3. QED
  BY <1>1, <1>2, SeqDef

LEMMA BufferedType ==
  ASSUME TypeOK, phase = "command"
  PROVE  /\ pos \in Nat \ {0} /\ pos <= Len(script) /\ Len(script) \in Nat /\ Cmd \in Command
         /\ Buffered \in Seq(1 .. pos) /\ Buffered \in Seq(1 .. Len(script))
         /\ Buffered # <<>> /\ Last(Buffered) = pos
<1>1. pos \in Nat \ {0} /\ pos <= Len(script) /\ Len(script) \in Nat /\ script \in Seq(Command)
  BY DEF TypeOK
<1>2. cmdBuffer \in Seq(1 .. pos)
  <2>1. 1 .. pos - 1 \subseteq 1 .. pos /\ cmdBuffer \in Seq(1 .. pos - 1)
    BY <1>1 DEF TypeOK
  <2>2. QED
    BY <2>1, SeqWider
<1>3. /\ Buffered \in Seq(1 .. pos) /\ Len(Buffered) = Len(cmdBuffer) + 1
      /\ Buffered[Len(cmdBuffer) + 1] = pos
  BY <1>1, <1>2, AppendProperties DEF Buffered
<1>4. Buffered \in Seq(1 .. Len(script))
  <2>1. 1 .. pos \subseteq 1 .. Len(script)
    BY <1>1
  <2>2. QED
    BY <1>3, <2>1, SeqWider
<1>5. Buffered # <<>> /\ Last(Buffered) = pos
  BY <1>2, <1>3 DEF Last
<1>6. Cmd \in Command
  BY <1>1 DEF Cmd
<1>7. QED
  BY <1>1, <1>3, <1>4, <1>5, <1>6

\* The commands that are only put in the buffer, or in it and the FIFO cleared.
Defers ==
    \/ ScReset \/ Wait \/ ReadThrows \/ ReadLater \/ UnknownFrame \/ WriteOverflows
    \/ WriteAnd \/ WriteOrThrows

LEMMA DeferredStep ==
  ASSUME TypeOK, Defers
  PROVE  /\ phase = "command" /\ phase' \in {"next", "threw"}
         /\ pos' = pos + 1 /\ rpc' = rpc /\ script' = script /\ reply' = reply
         /\ cmdBuffer' = Buffered
         /\ UNCHANGED <<buf, front>> \/ (buf' = <<>> /\ front' = 0)
         /\ request' = request /\ reqSize' = reqSize /\ block' = block
         /\ response' = response /\ executed' = executed
         /\ wordsToRead' \in Nat /\ expectOr' \in BOOLEAN
         /\ execOnRead' \in BOOLEAN /\ failure' \in BOOLEAN
         /\ \/ phase' = "threw" \/ ~expectOr'
            \/ WriteAnd
<1>1. phase = "command"
  BY DEF Defers, ScReset, Wait, ReadThrows, ReadLater, UnknownFrame, WriteOverflows, WriteAnd,
         WriteOrThrows, Writes, Takes
<1>2. ResponseSize(Cmd) \in Nat /\ wordsToRead \in Nat
  BY <1>1, BufferedType, CommandFacts DEF TypeOK
<1>3. wordsToRead + ResponseSize(Cmd) \in Nat
  BY <1>2
<1> USE DEF Takes, Defer, Onward, Writes, rpcVars, reqVars, fifoVars, parseVars, TypeOK
<1>4. CASE ScReset
  BY <1>4, <1>2 DEF ScReset
<1>5. CASE Wait
  BY <1>5, <1>2 DEF Wait
<1>6. CASE ReadThrows
  BY <1>6, <1>2 DEF ReadThrows
<1>7. CASE ReadLater
  BY <1>7, <1>2 DEF ReadLater
<1>8. CASE UnknownFrame
  BY <1>8, <1>3 DEF UnknownFrame
<1>9. CASE WriteOverflows
  BY <1>9, <1>3 DEF WriteOverflows
<1>10. CASE WriteAnd
  BY <1>10, <1>3 DEF WriteAnd
<1>11. CASE WriteOrThrows
  BY <1>11, <1>3 DEF WriteOrThrows
<1>12. QED
  BY <1>4, <1>5, <1>6, <1>7, <1>8, <1>9, <1>10, <1>11 DEF Defers

LEMMA DeferredTyped ==
  ASSUME TypeOK, Defers
  PROVE  TypeOK'
<1>1. /\ phase = "command" /\ phase' \in {"next", "threw"}
      /\ pos' = pos + 1 /\ rpc' = rpc /\ script' = script /\ reply' = reply
      /\ cmdBuffer' = Buffered
      /\ UNCHANGED <<buf, front>> \/ (buf' = <<>> /\ front' = 0)
      /\ request' = request /\ block' = block
      /\ response' = response /\ executed' = executed
      /\ wordsToRead' \in Nat /\ expectOr' \in BOOLEAN
      /\ execOnRead' \in BOOLEAN /\ failure' \in BOOLEAN
  BY DeferredStep
<1>2. pos \in Nat \ {0} /\ pos <= Len(script) /\ Len(script) \in Nat /\ Buffered \in Seq(1 .. pos)
  BY <1>1, BufferedType
<1>3. pos' \in 1 .. Len(script) + 1 /\ pos' - 1 = pos /\ cmdBuffer' \in Seq(1 .. pos' - 1)
  BY <1>1, <1>2
<1>4. buf' \in Seq(Entry) /\ Len(buf') <= FifoLimit /\ front' \in 0 .. Len(buf')
  <2>1. CASE buf' = <<>> /\ front' = 0
    BY <2>1, LimitsAreNumbers
  <2>2. CASE UNCHANGED <<buf, front>>
    BY <2>2 DEF TypeOK
  <2>3. QED
    BY <1>1, <2>1, <2>2
<1>5. QED
  BY <1>1, <1>3, <1>4 DEF TypeOK

\* The commands that ask for a transaction, and for which word.
Adds == WriteRead \/ WriteWrite \/ WriteOr
AskedFor == IF Cmd.mode = "or" THEN Last(cmdBuffer) ELSE pos

LEMMA AddedStep ==
  ASSUME IInv, Adds
  PROVE  /\ phase = "command" /\ phase' \in {"next", "threw"}
         /\ pos' = pos + 1 /\ rpc' = rpc /\ script' = script /\ reply' = reply
         /\ cmdBuffer' = Buffered
         /\ UNCHANGED <<buf, front>>
              \/ (Len(buf) < FifoLimit /\ front' = front
                    /\ \E k \in Nat : buf' = Append(buf, Frame(k, 1, NoValue)))
         /\ \/ request' = request
            \/ \E slot \in 0 .. FifoLimit :
                  request' = Append(request, [asked |-> Word(AskedFor, 1), slot |-> slot])
         /\ AskedFor \in Nat /\ (Cmd.mode = "or" => expectOr /\ AskedFor = pos - 1)
         /\ block' = block /\ response' = response /\ executed' = executed
         /\ wordsToRead' \in Nat /\ expectOr' \in BOOLEAN
         /\ execOnRead' = execOnRead /\ failure' = failure
         /\ phase' = "next" => ~expectOr' /\ (Cmd.mode = "or" <=> expectOr)
<1>1. phase = "command"
  BY DEF Adds, WriteRead, WriteWrite, WriteOr, Writes, Takes
<1>2. pos \in Nat /\ ResponseSize(Cmd) \in Nat /\ wordsToRead \in Nat
  BY <1>1, BufferedType, CommandFacts DEF IInv, TypeOK
<1>3. wordsToRead + ResponseSize(Cmd) \in Nat
  BY <1>2
<1>4. Len(buf) \in Nat /\ (Len(buf) < FifoLimit => Len(buf) + 1 \in 0 .. FifoLimit)
      /\ 0 \in 0 .. FifoLimit
  BY LimitsAreNumbers DEF IInv, TypeOK
<1>5. ASSUME NEW mode, NEW k, NEW slot \in 0 .. FifoLimit, NEW next \in {"next", "threw"},
             AddTransaction(mode, k, slot, next)
      PROVE  /\ \/ request' = request
                \/ request' = Append(request, [asked |-> Word(k, 1), slot |-> slot])
             /\ phase' \in {next, "threw"}
  BY <1>5 DEF AddTransaction, reqVars
<1>6. CASE WriteRead
  <2>1. PICK mode \in {"read", "sum"} :
           Writes(mode) /\ PrepareFrame(pos) /\ AddTransaction(mode, pos, Len(buf) + 1, Onward)
    BY <1>6 DEF WriteRead
  <2>2. Cmd.mode # "or" /\ AskedFor = pos /\ Len(buf) < FifoLimit /\ Onward \in {"next", "threw"}
    BY <1>6, <2>1 DEF AskedFor, Writes, WriteRead, Onward
  <2>3. /\ \/ request' = request
           \/ request' = Append(request, [asked |-> Word(pos, 1), slot |-> Len(buf) + 1])
        /\ phase' \in {Onward, "threw"}
    BY <1>4, <1>5, <2>1, <2>2
  <2>4. phase' = "next" => ~expectOr
    BY <2>3 DEF Onward
  <2>5. QED
    BY <1>1, <1>2, <1>3, <1>4, <1>6, <2>1, <2>2, <2>3, <2>4
    DEF WriteRead, Writes, Takes, PrepareFrame, rpcVars, IInv, TypeOK
<1>7. CASE WriteWrite
  <2>1. Cmd.mode # "or" /\ AskedFor = pos /\ Onward \in {"next", "threw"}
    BY <1>7 DEF AskedFor, Writes, WriteWrite, Onward
  <2>2. /\ \/ request' = request
           \/ request' = Append(request, [asked |-> Word(pos, 1), slot |-> 0])
        /\ phase' \in {Onward, "threw"}
    BY <1>4, <1>5, <1>7, <2>1 DEF WriteWrite
  <2>3. phase' = "next" => ~expectOr
    BY <2>2 DEF Onward
  <2>4. QED
    BY <1>1, <1>2, <1>3, <1>4, <1>7, <2>1, <2>2, <2>3
    DEF WriteWrite, Writes, Takes, fifoVars, rpcVars, IInv, TypeOK
<1>8. CASE WriteOr
  <2>1. Cmd.mode = "or" /\ expectOr /\ AskedFor = Last(cmdBuffer) /\ Len(buf) < FifoLimit
    BY <1>8 DEF AskedFor, Writes, WriteOr
  <2>2. Last(cmdBuffer) = pos - 1 /\ Last(cmdBuffer) \in Nat
    <3>1. cmdBuffer # <<>> /\ Last(cmdBuffer) = pos - 1 /\ pos \in Nat \ {0}
      BY <1>1, <2>1 DEF IInv, OrderInv, AndWaits, TypeOK
    <3>2. QED
      BY <3>1
  <2>3. /\ \/ request' = request
           \/ request' = Append(request, [asked |-> Word(AskedFor, 1), slot |-> Len(buf) + 1])
        /\ phase' \in {"next", "threw"}
    BY <1>4, <1>5, <1>8, <2>1 DEF WriteOr
  <2>4. QED
    BY <1>1, <1>2, <1>3, <1>4, <1>8, <2>1, <2>2, <2>3
    DEF WriteOr, Writes, Takes, PrepareFrame, rpcVars, IInv, TypeOK
<1>9. QED
  BY <1>6, <1>7, <1>8 DEF Adds

LEMMA AddedTyped ==
  ASSUME IInv, Adds
  PROVE  TypeOK'
<1>1. /\ phase = "command" /\ phase' \in {"next", "threw"}
      /\ pos' = pos + 1 /\ rpc' = rpc /\ script' = script /\ reply' = reply
      /\ cmdBuffer' = Buffered
      /\ UNCHANGED <<buf, front>>
           \/ (Len(buf) < FifoLimit /\ front' = front
                 /\ \E k \in Nat : buf' = Append(buf, Frame(k, 1, NoValue)))
      /\ \/ request' = request
         \/ \E slot \in 0 .. FifoLimit :
               request' = Append(request, [asked |-> Word(AskedFor, 1), slot |-> slot])
      /\ AskedFor \in Nat
      /\ block' = block /\ response' = response /\ executed' = executed
      /\ wordsToRead' \in Nat /\ expectOr' \in BOOLEAN
      /\ execOnRead' = execOnRead /\ failure' = failure
  BY AddedStep
<1>2. pos \in Nat \ {0} /\ pos <= Len(script) /\ Len(script) \in Nat /\ Buffered \in Seq(1 .. pos)
  BY <1>1, BufferedType DEF IInv
<1>3. pos' \in 1 .. Len(script) + 1 /\ pos' - 1 = pos /\ cmdBuffer' \in Seq(1 .. pos' - 1)
  BY <1>1, <1>2
<1>4. rpc \in Nat /\ Len(buf) \in Nat /\ buf \in Seq(Entry) /\ front \in 0 .. Len(buf)
      /\ Len(buf) <= FifoLimit /\ request \in Seq([asked : Operation, slot : 0 .. FifoLimit])
  BY LimitsAreNumbers DEF IInv, TypeOK
<1>5. buf' \in Seq(Entry) /\ Len(buf') <= FifoLimit /\ front' \in 0 .. Len(buf')
  <2>1. CASE UNCHANGED <<buf, front>>
    BY <1>4, <2>1
  <2>2. ASSUME NEW k \in Nat, Len(buf) < FifoLimit, front' = front,
               buf' = Append(buf, Frame(k, 1, NoValue))
        PROVE  buf' \in Seq(Entry) /\ Len(buf') <= FifoLimit /\ front' \in 0 .. Len(buf')
    <3>1. Frame(k, 1, NoValue) \in Entry
      BY <1>4, EntryKinds
    <3>2. buf' \in Seq(Entry) /\ Len(buf') = Len(buf) + 1
      BY <1>4, <2>2, <3>1, AppendProperties
    <3>3. QED
      BY <1>4, <2>2, <3>2, LimitsAreNumbers
  <2>3. QED
    BY <1>1, <2>1, <2>2
<1>6. request' \in Seq([asked : Operation, slot : 0 .. FifoLimit])
  <2>1. ASSUME NEW slot \in 0 .. FifoLimit,
               request' = Append(request, [asked |-> Word(AskedFor, 1), slot |-> slot])
        PROVE  request' \in Seq([asked : Operation, slot : 0 .. FifoLimit])
    <3>1. Word(AskedFor, 1) \in Operation
      BY <1>1, <1>4, EntryKinds
    <3>2. [asked |-> Word(AskedFor, 1), slot |-> slot] \in [asked : Operation, slot : 0 .. FifoLimit]
      BY <3>1
    <3>3. QED
      BY <1>4, <2>1, <3>2, AppendProperties
  <2>2. QED
    BY <1>1, <1>4, <2>1
<1>7. QED
  BY <1>1, <1>3, <1>5, <1>6 DEF IInv, TypeOK

\* What executing a packet leaves behind, whether it succeeds or not.
LEMMA PacketTyped ==
  ASSUME TypeOK, NEW commands \in Seq(1 .. Len(script)), NEW next,
         Transceived(commands, next) \/ TransceiveFails(commands, next)
  PROVE  /\ response' \in Seq(Entry)
         /\ buf' \in Seq(Entry) /\ Len(buf') <= FifoLimit /\ front' \in 0 .. Len(buf')
         /\ cmdBuffer' = commands \/ cmdBuffer' = <<>>
         /\ phase' = next \/ phase' = "threw"
         /\ request' \in Seq([asked : Operation, slot : 0 .. FifoLimit])
         /\ executed' \in Seq(Operation)
<1>1. /\ Len(buf) \in Nat /\ buf \in Seq(Entry) /\ front \in 0 .. Len(buf) /\ Len(buf) <= FifoLimit
      /\ Len(request) \in Nat /\ response \in Seq(Entry) /\ executed \in Seq(Operation)
      /\ request \in Seq([asked : Operation, slot : 0 .. FifoLimit])
  BY LimitsAreNumbers DEF TypeOK
<1>2. ASSUME NEW e \in 0 .. Len(request), Deliver(e) PROVE executed' \in Seq(Operation)
  <2>1. \A t \in 1 .. e : request[t].asked \in Operation
    <3>1. \A t \in 1 .. Len(request) : request[t] \in [asked : Operation, slot : 0 .. FifoLimit]
      BY <1>1, ElementOfSeq
    <3>2. \A t \in 1 .. Len(request) : request[t].asked \in Operation
      BY <3>1
    <3>3. QED
      BY <1>1, <3>2
  <2>2. Operations(e) \in Seq(Operation)
    BY <1>1, <2>1 DEF Operations
  <2>3. QED
    BY <1>1, <1>2, <2>2, Joined DEF Deliver
<1>3. CASE Transceived(commands, next)
  <2>1. Deliver(Len(request)) /\ Execute(commands, Filled(Len(request)), 0, next)
        /\ (UNCHANGED reqVars \/ ResetRequest)
    BY <1>3 DEF Transceived
  <2>2. Filled(Len(request)) \in Seq(Entry) /\ Len(Filled(Len(request))) = Len(buf)
    BY <1>1, FilledFrames
  <2>3. /\ response' \in Seq(Entry) /\ buf' \in Seq(Entry) /\ Len(buf') <= Len(buf)
        /\ front' \in 0 .. Len(buf')
        /\ cmdBuffer' = commands \/ cmdBuffer' = <<>>
        /\ phase' = next \/ phase' = "threw"
    <3>1. front <= Len(Filled(Len(request))) /\ 0 \in Nat
      BY <1>1, <2>2
    <3>2. QED
      BY <2>1, <2>2, <3>1, Execution
  <2>4. executed' \in Seq(Operation)
    BY <1>1, <1>2, <2>1
  <2>5. request' \in Seq([asked : Operation, slot : 0 .. FifoLimit])
    <3>1. request' = request \/ request' = <<>>
      BY <2>1 DEF reqVars, ResetRequest
    <3>2. QED
      BY <1>1, <3>1, EmptySeq
  <2>6. Len(buf') <= FifoLimit
    BY <1>1, <2>3, LimitsAreNumbers
  <2>7. QED
    BY <2>3, <2>4, <2>5, <2>6
<1>4. CASE TransceiveFails(commands, next)
  <2>1. PICK e \in 0 .. Len(request) :
           Deliver(e) /\ \E p \in 0 .. e : buf' = Filled(p) \/ (p < e /\ buf' = Spoilt(p))
    BY <1>4 DEF TransceiveFails
  <2>p. PICK p \in 0 .. e : buf' = Filled(p) \/ (p < e /\ buf' = Spoilt(p))
    BY <2>1
  <2>2. p \in 0 .. Len(request)
    BY <1>1
  <2>3. buf' \in Seq(Entry) /\ Len(buf') = Len(buf)
    BY <2>p, <2>2, FilledFrames, SpoiltFrames
  <2>4. executed' \in Seq(Operation)
    BY <1>2, <2>1
  <2>5. QED
    BY <1>1, <1>4, <2>3, <2>4 DEF TransceiveFails, ResetRequest
<1>5. QED
  BY <1>3, <1>4

LEMMA ExecutesTyped ==
  ASSUME TypeOK, Flush \/ ReadNow \/ WriteBlock \/ Finish
  PROVE  TypeOK'
<1>1. /\ Len(script) \in Nat /\ pos \in 1 .. Len(script) + 1 /\ cmdBuffer \in Seq(1 .. pos - 1)
      /\ wordsToRead \in Nat /\ script \in Seq(Command)
      /\ block \in [done : Nat, of : Nat] /\ reply \in {"none", "success", "failure"}
  BY DEF TypeOK
<1>2. 1 .. pos - 1 \subseteq 1 .. Len(script)
  BY <1>1
<1>3. cmdBuffer \in Seq(1 .. Len(script))
  BY <1>1, <1>2, SeqWider
<1>4. <<>> \in Seq(1 .. pos - 1) /\ <<>> \in Seq(1 .. pos)
  OBVIOUS
<1>5. CASE Flush
  <2>1. /\ phase = "next" /\ pos <= Len(script)
        /\ Transceived(cmdBuffer, "command") \/ TransceiveFails(cmdBuffer, "command")
        /\ failure' \in BOOLEAN
        /\ pos' = pos /\ rpc' = rpc /\ script' = script /\ reply' = reply /\ block' = block
        /\ wordsToRead' = wordsToRead /\ expectOr' = expectOr /\ execOnRead' = execOnRead
    BY <1>5 DEF Flush, rpcVars, TypeOK
  <2>2. /\ response' \in Seq(Entry)
        /\ buf' \in Seq(Entry) /\ Len(buf') <= FifoLimit /\ front' \in 0 .. Len(buf')
        /\ cmdBuffer' = cmdBuffer \/ cmdBuffer' = <<>>
        /\ phase' = "command" \/ phase' = "threw"
        /\ request' \in Seq([asked : Operation, slot : 0 .. FifoLimit])
        /\ executed' \in Seq(Operation)
    BY <1>3, <2>1, PacketTyped
  <2>3. cmdBuffer' \in Seq(1 .. pos' - 1)
    BY <1>1, <1>4, <2>1, <2>2
  <2>4. QED
    BY <2>1, <2>2, <2>3 DEF TypeOK
<1>6. CASE ReadNow
  <2>1. /\ phase = "command" /\ Execute(Buffered, buf, FifoSize, Onward)
        /\ pos' = pos + 1 /\ rpc' = rpc /\ script' = script /\ reply' = reply /\ block' = block
        /\ wordsToRead' = 0 /\ expectOr' = expectOr /\ execOnRead' = FALSE
        /\ request' = request /\ executed' = executed /\ failure' = failure
    BY <1>6 DEF ReadNow, Takes, rpcVars, reqVars
  <2>2. pos <= Len(script) /\ Buffered \in Seq(1 .. pos) /\ Buffered \in Seq(1 .. Len(script))
    BY <2>1, BufferedType
  <2>3. buf \in Seq(Entry) /\ front <= Len(buf) /\ FifoSize \in Nat /\ Len(buf) <= FifoLimit
        /\ Len(buf) \in Nat
    BY DEF TypeOK, FifoSize
  <2>4. /\ response' \in Seq(Entry)
        /\ buf' \in Seq(Entry) /\ Len(buf') <= Len(buf) /\ front' \in 0 .. Len(buf')
        /\ \/ phase' = "threw" /\ cmdBuffer' = Buffered
           \/ phase' = Onward /\ cmdBuffer' = <<>>
    BY <2>1, <2>2, <2>3, Execution
  <2>5. pos' \in 1 .. Len(script) + 1 /\ pos' - 1 = pos
    BY <1>1, <2>1, <2>2
  <2>6. cmdBuffer' \in Seq(1 .. pos' - 1) /\ phase' \in {"next", "threw"}
    BY <1>4, <2>2, <2>4, <2>5 DEF Onward
  <2>7. Len(buf') <= FifoLimit
    BY <2>3, <2>4, LimitsAreNumbers
  <2>8. QED
    BY <2>1, <2>4, <2>5, <2>6, <2>7 DEF TypeOK
<1>7. CASE WriteBlock
  <2>1. /\ phase = "command" /\ Writes("block")
        /\ pos' = pos + 1 /\ rpc' = rpc /\ script' = script /\ reply' = reply
        /\ wordsToRead' = wordsToRead + ResponseSize(Cmd) /\ expectOr' = expectOr
        /\ execOnRead' \in BOOLEAN /\ failure' \in BOOLEAN
        /\ block' = block \/ block' = [done |-> 0, of |-> Cmd.n]
    BY <1>7 DEF WriteBlock, Writes, Takes, rpcVars, TypeOK
  <2>2. PICK next \in {"block", "next", "threw"} :
           Transceived(Buffered, next) \/ TransceiveFails(Buffered, next)
    BY <1>7 DEF WriteBlock, Onward
  <2>3. /\ pos <= Len(script) /\ Buffered \in Seq(1 .. pos) /\ Buffered \in Seq(1 .. Len(script))
        /\ Cmd.n \in Nat /\ ResponseSize(Cmd) \in Nat
    BY <2>1, BufferedType, CommandFacts
  <2>4. /\ response' \in Seq(Entry)
        /\ buf' \in Seq(Entry) /\ Len(buf') <= FifoLimit /\ front' \in 0 .. Len(buf')
        /\ cmdBuffer' = Buffered \/ cmdBuffer' = <<>>
        /\ phase' = next \/ phase' = "threw"
        /\ request' \in Seq([asked : Operation, slot : 0 .. FifoLimit])
        /\ executed' \in Seq(Operation)
    BY <2>2, <2>3, PacketTyped
  <2>5. pos' \in 1 .. Len(script) + 1 /\ pos' - 1 = pos
    BY <1>1, <2>1, <2>3
  <2>6. cmdBuffer' \in Seq(1 .. pos' - 1)
    BY <1>4, <2>3, <2>4, <2>5
  <2>7. block' \in [done : Nat, of : Nat] /\ wordsToRead' \in Nat
    BY <1>1, <2>1, <2>3
  <2>8. QED
    BY <2>1, <2>4, <2>5, <2>6, <2>7 DEF TypeOK
<1>8. CASE Finish
  <2>1. /\ Transceived(cmdBuffer, "idle") \/ TransceiveFails(cmdBuffer, "idle")
        /\ reply' \in {"none", "success", "failure"}
        /\ pos' = pos /\ rpc' = rpc /\ script' = script /\ block' = block
        /\ wordsToRead' = wordsToRead /\ expectOr' = expectOr /\ execOnRead' = execOnRead
        /\ failure' = failure
    BY <1>1, <1>8 DEF Finish, parseVars
  <2>2. /\ response' \in Seq(Entry)
        /\ buf' \in Seq(Entry) /\ Len(buf') <= FifoLimit /\ front' \in 0 .. Len(buf')
        /\ cmdBuffer' = cmdBuffer \/ cmdBuffer' = <<>>
        /\ phase' = "idle" \/ phase' = "threw"
        /\ request' \in Seq([asked : Operation, slot : 0 .. FifoLimit])
        /\ executed' \in Seq(Operation)
    BY <1>3, <2>1, PacketTyped
  <2>3. cmdBuffer' \in Seq(1 .. pos' - 1)
    BY <1>1, <1>4, <2>1, <2>2
  <2>4. QED
    BY <2>1, <2>2, <2>3 DEF TypeOK
<1>9. QED
  BY <1>5, <1>6, <1>7, <1>8

\* The operations of a packet of a block are its next words.
LEMMA BlockOpsType ==
  ASSUME TypeOK, phase = "block", block.done < block.of
  PROVE  /\ BlockLeft \in Nat \ {0} /\ PacketWords(BlockLeft) \in Nat
         /\ SizeA(BlockLeft) \in 1 .. PacketWords(BlockLeft)
         /\ BlockOps \in Seq(Operation) /\ Len(BlockOps) \in 1 .. 2
         /\ BlockOps[1] = Word(pos - 1, block.done + 1)
         /\ Len(BlockOps) = 2 => /\ SizeA(BlockLeft) < PacketWords(BlockLeft)
                                 /\ BlockOps[2] = Word(pos - 1, block.done + SizeA(BlockLeft) + 1)
<1>1. block.done \in Nat /\ block.of \in Nat /\ pos - 1 \in Nat /\ rpc \in Nat
  BY LimitsAreNumbers DEF TypeOK
<1>2. BlockLeft \in Nat \ {0}
  BY <1>1 DEF BlockLeft
<1>3. PICK left \in Nat \ {0} : left = BlockLeft
  BY <1>2
<1>4. PacketWords(left) \in 1 .. left /\ SizeA(left) \in 1 .. PacketWords(left)
  BY BlockPacketsFit
<1>5. SizeA(left) < left => SizeA(left) < PacketWords(left)
  <2>1. MaxPayload \in Nat /\ MaxPayload >= 3
    BY PacketHasRoom DEF MaxPayload
  <2>2. MaxPayload \div 2 \in Nat /\ MaxPayload \div 2 < MaxPayload
    BY <2>1
  <2>3. SizeA(left) <= MaxPayload \div 2 /\ SizeA(left) \in Nat
    BY <2>2 DEF SizeA
  <2>4. SizeA(left) < left => PacketWords(left) = left \/ PacketWords(left) = MaxPayload
    BY <2>3 DEF PacketWords
  <2>5. QED
    BY <2>1, <2>2, <2>3, <2>4
<1>6. SizeA(left) \in Nat /\ PacketWords(left) \in Nat
  BY <1>4
<1>7. Word(pos - 1, block.done + 1) \in Operation /\ Word(pos - 1, block.done + SizeA(left) + 1) \in Operation
  BY <1>1, <1>6, EntryKinds
<1>8. BlockOps \in Seq(Operation) /\ Len(BlockOps) = IF SizeA(left) < left THEN 2 ELSE 1
  BY <1>3, <1>7 DEF BlockOps
<1>9. BlockOps[1] = Word(pos - 1, block.done + 1)
      /\ (SizeA(left) < left => BlockOps[2] = Word(pos - 1, block.done + SizeA(left) + 1))
  BY <1>3, <1>7 DEF BlockOps
<1>10. QED
  BY <1>2, <1>3, <1>4, <1>5, <1>6, <1>8, <1>9

LEMMA BlockTyped ==
  ASSUME TypeOK, BlockPacket
  PROVE  TypeOK'
<1>1. /\ phase = "block" /\ block.done < block.of
      /\ pos' = pos /\ rpc' = rpc /\ script' = script /\ reply' = reply
      /\ cmdBuffer' = cmdBuffer /\ front' = front /\ wordsToRead' = wordsToRead
      /\ expectOr' = expectOr /\ execOnRead' = execOnRead /\ failure' = failure
      /\ response' = response /\ executed' = executed \o BlockOps
  BY DEF BlockPacket, rpcVars, parseVars
<1>2. /\ buf \in Seq(Entry) /\ Len(buf) \in Nat /\ Len(buf) <= FifoLimit /\ front \in 0 .. Len(buf)
      /\ executed \in Seq(Operation) /\ block \in [done : Nat, of : Nat]
      /\ pos - 1 \in Nat /\ rpc \in Nat /\ FifoLimit \in Nat
  BY LimitsAreNumbers DEF TypeOK
<1>3. BlockOps \in Seq(Operation) /\ PacketWords(BlockLeft) \in Nat
  BY <1>1, BlockOpsType
<1>4. executed' \in Seq(Operation)
  BY <1>1, <1>2, <1>3, Joined
<1>5. ASSUME NEW n \in Nat PROVE BlockFrames(n) \in Seq(Entry) /\ Len(BlockFrames(n)) = n
  <2>1. \A j \in 1 .. n : Frame(pos - 1, block.done + j, Word(pos - 1, block.done + j)) \in Entry
    <3>1. \A j \in 1 .. n : block.done + j \in Nat
      BY <1>2
    <3>2. QED
      BY <1>2, <3>1, EntryKinds
  <2>2. QED
    BY <2>1 DEF BlockFrames
<1>6. PICK n \in Nat : /\ n <= FifoLimit - Len(buf) /\ buf' = buf \o BlockFrames(n)
                       /\ \/ block' = [block EXCEPT !.done = @ + PacketWords(BlockLeft)] /\ phase' = phase
                          \/ block' = block /\ phase' = "threw"
  <2>1. CASE PacketWords(BlockLeft) <= FifoLimit - Len(buf)
    BY <1>3, <2>1 DEF BlockPacket
  <2>2. CASE ~(PacketWords(BlockLeft) <= FifoLimit - Len(buf))
    <3>1. FifoLimit - Len(buf) \in Nat
      BY <1>2
    <3>2. QED
      BY <2>2, <3>1 DEF BlockPacket
  <2>3. QED
    BY <2>1, <2>2
<1>7. buf' \in Seq(Entry) /\ Len(buf') = Len(buf) + n
  <2>1. BlockFrames(n) \in Seq(Entry) /\ Len(BlockFrames(n)) = n
    BY <1>5
  <2>2. QED
    BY <1>2, <1>6, <2>1, Joined
<1>8. Len(buf') <= FifoLimit /\ front' \in 0 .. Len(buf')
  BY <1>1, <1>2, <1>6, <1>7
<1>9. block' \in [done : Nat, of : Nat]
  BY <1>2, <1>3, <1>6
<1>10. phase' \in {"block", "threw"}
  BY <1>1, <1>6
<1>11. request' \in Seq([asked : Operation, slot : 0 .. FifoLimit])
  <2>1. request' = request \/ KeepBlockRequest
    BY DEF BlockPacket, reqVars
  <2>2. CASE KeepBlockRequest
    <3>1. PICK m \in Nat : m = Len(BlockOps) /\ \A t \in 1 .. m : BlockOps[t] \in Operation
      BY <1>3
    <3>2. \A t \in 1 .. m : [asked |-> BlockOps[t], slot |-> 0] \in [asked : Operation, slot : 0 .. FifoLimit]
      BY <1>2, <3>1
    <3>3. QED
      BY <2>2, <3>1, <3>2 DEF KeepBlockRequest
  <2>3. QED
    BY <2>1, <2>2 DEF TypeOK
<1>12. QED
  BY <1>1, <1>4, <1>7, <1>8, <1>9, <1>10, <1>11 DEF TypeOK

\* The steps that leave request, buffers and position as they are.
Stays == NoFlush \/ BadCommand \/ BlockFails \/ BlockDone \/ GiveUp

LEMMA StaysTyped ==
  ASSUME TypeOK, Stays
  PROVE  TypeOK'
<1>1. /\ pos' = pos /\ rpc' = rpc /\ script' = script /\ request' = request /\ cmdBuffer' = cmdBuffer
      /\ buf' = buf /\ front' = front /\ wordsToRead' = wordsToRead /\ expectOr' = expectOr
      /\ execOnRead' \in BOOLEAN /\ failure' \in BOOLEAN /\ block' = block /\ response' = response
      /\ phase' \in {"idle", "next", "command", "threw"}
      /\ phase' = "command" => pos <= Len(script)
      /\ reply' \in {"none", "success", "failure"}
  BY DEF Stays, NoFlush, BadCommand, BlockFails, BlockDone, GiveUp, rpcVars, reqVars, fifoVars,
         parseVars, Onward, Answer, TypeOK
<1>2. executed' \in Seq(Operation)
  <2>1. CASE BlockFails
    <3>1. phase = "block" /\ block.done < block.of
      BY <2>1 DEF BlockFails
    <3>2. BlockOps \in Seq(Operation) /\ executed \in Seq(Operation)
      BY <3>1, BlockOpsType DEF TypeOK
    <3>3. PICK e \in 0 .. Len(BlockOps) : executed' = executed \o SubSeq(BlockOps, 1, e)
      BY <2>1 DEF BlockFails
    <3>4. SubSeq(BlockOps, 1, e) \in Seq(Operation)
      <4>1. Len(BlockOps) \in Nat /\ \A i \in 1 .. e : BlockOps[i] \in Operation
        BY <3>2
      <4>2. QED
        BY <4>1, SubSeqProperties
    <3>5. QED
      BY <3>2, <3>3, <3>4, Joined
  <2>2. CASE ~BlockFails
    BY <2>2 DEF Stays, NoFlush, BadCommand, BlockDone, GiveUp, TypeOK
  <2>3. QED
    BY <2>1, <2>2
<1>3. QED
  BY <1>1, <1>2 DEF TypeOK

LEMMA SendRpcTyped ==
  ASSUME TypeOK, SendRpc
  PROVE  TypeOK'
<1>1. /\ rpc' = rpc + 1 /\ rpc < MaxRpc /\ script' \in Script[rpc'] /\ request' = <<>>
      /\ cmdBuffer' = <<>> /\ response' = <<>> /\ pos' = 1 /\ executed' = <<>>
      /\ wordsToRead' = 0 /\ expectOr' = FALSE /\ execOnRead' = FALSE /\ failure' = FALSE
      /\ block' = [done |-> 0, of |-> 0] /\ buf' = buf /\ front' = front
      /\ phase' \in {"idle", "next"} /\ reply' \in {"none", "success", "failure"}
  BY DEF SendRpc, ResetRequest, Answer, fifoVars
<1>2. rpc' \in 1 .. MaxRpc
  BY <1>1, LimitsAreNumbers DEF TypeOK
<1>3. script' \in Seq(Command)
  BY <1>1, <1>2, ScriptsAreCommands
<1>4. Len(script') \in Nat /\ pos' \in 1 .. Len(script') + 1
  BY <1>1, <1>3
<1>5. rpc' \in 0 .. MaxRpc
  BY <1>2
<1>6. QED
  BY <1>1, <1>3, <1>4, <1>5, EmptySeq DEF TypeOK

LEMMA TypedKept ==
  ASSUME IInv, [Next]_vars
  PROVE  TypeOK'
<1>1. TypeOK
  BY DEF IInv
<1>2. CASE UNCHANGED vars
  BY <1>1, <1>2 DEF TypeOK, vars, rpcVars, reqVars, fifoVars, parseVars
<1>3. CASE Next
  BY <1>1, <1>3, DeferredTyped, AddedTyped, ExecutesTyped, BlockTyped, StaysTyped, SendRpcTyped
  DEF Next, Step, Defers, Adds, Stays
<1>4. QED
  BY <1>2, <1>3

-----------------------------------------------------------------------------
(* The order of the operations.                                            *)

LEMMA BeforeTransitive ==
  ASSUME NEW u \in Operation, NEW v \in Operation, NEW w \in Operation, Before(u, v), Before(v, w)
  PROVE  Before(u, w)
BY DEF Before, Operation

LEMMA AllBeforeLater ==
  ASSUME NEW ops \in Seq(Operation), NEW v \in Operation, NEW w \in Operation, AllBefore(ops, v),
         v = w \/ (v[1] = w[1] /\ Before(v, w))
  PROVE  AllBefore(ops, w)
<1>1. CASE v = w
  BY <1>1
<1>2. CASE v[1] = w[1] /\ Before(v, w)
  <2>1. ASSUME NEW i \in DOMAIN ops PROVE ops[i][1] = w[1] /\ Before(ops[i], w)
    <3>1. ops[i] \in Operation
      BY ElementOfSeq
    <3>2. ops[i][1] = v[1] /\ Before(ops[i], v)
      BY DEF AllBefore
    <3>3. QED
      BY <1>2, <3>1, <3>2, BeforeTransitive
  <2>2. QED
    BY <2>1 DEF AllBefore
<1>3. QED
  BY <1>1, <1>2

LEMMA OrderedJoin ==
  ASSUME NEW a \in Seq(Operation), NEW b \in Seq(Operation), Ordered(a), Ordered(b),
         \A j \in DOMAIN b : AllBefore(a, b[j])
  PROVE  Ordered(a \o b)
<1>1. /\ a \o b \in Seq(Operation) /\ Len(a \o b) = Len(a) + Len(b)
      /\ \A i \in 1 .. Len(a) : (a \o b)[i] = a[i]
      /\ \A j \in 1 .. Len(b) : (a \o b)[Len(a) + j] = b[j]
      /\ Len(a) \in Nat /\ Len(b) \in Nat
  BY Joined
<1>2. DOMAIN a = 1 .. Len(a) /\ DOMAIN b = 1 .. Len(b) /\ DOMAIN (a \o b) = 1 .. Len(a) + Len(b)
  BY <1>1
<1>3. ASSUME NEW i \in 1 .. Len(a) + Len(b), NEW j \in 1 .. Len(a) + Len(b), i < j
      PROVE  Before((a \o b)[i], (a \o b)[j])
  <2>1. CASE j <= Len(a)
    <3>1. i \in 1 .. Len(a) /\ j \in 1 .. Len(a)
      BY <1>1, <1>3, <2>1
    <3>2. QED
      BY <1>1, <1>2, <1>3, <3>1 DEF Ordered
  <2>2. CASE i <= Len(a) /\ j > Len(a)
    <3>1. i \in 1 .. Len(a) /\ j - Len(a) \in 1 .. Len(b) /\ Len(a) + (j - Len(a)) = j
      BY <1>1, <1>3, <2>2
    <3>2. (a \o b)[i] = a[i] /\ (a \o b)[j] = b[j - Len(a)]
      BY <1>1, <3>1
    <3>3. Before(a[i], b[j - Len(a)])
      BY <1>2, <3>1 DEF AllBefore
    <3>4. QED
      BY <3>2, <3>3
  <2>3. CASE i > Len(a)
    <3> DEFINE k == i - Len(a)
               l == j - Len(a)
    <3>1. k \in 1 .. Len(b) /\ l \in 1 .. Len(b) /\ Len(a) + k = i /\ Len(a) + l = j /\ k < l
      BY <1>1, <1>3, <2>3
    <3> HIDE DEF k, l
    <3>2. (a \o b)[i] = b[k] /\ (a \o b)[j] = b[l]
      BY <1>1, <3>1
    <3>3. Before(b[k], b[l])
      BY <1>2, <3>1 DEF Ordered
    <3>4. QED
      BY <3>2, <3>3
  <2>4. QED
    BY <1>1, <2>1, <2>2, <2>3
<1>4. QED
  BY <1>2, <1>3 DEF Ordered

LEMMA AllBeforeJoin ==
  ASSUME NEW a \in Seq(Operation), NEW b \in Seq(Operation), NEW w, AllBefore(a, w), AllBefore(b, w)
  PROVE  AllBefore(a \o b, w)
<1>1. /\ a \o b \in Seq(Operation) /\ Len(a \o b) = Len(a) + Len(b)
      /\ \A i \in 1 .. Len(a) : (a \o b)[i] = a[i]
      /\ \A j \in 1 .. Len(b) : (a \o b)[Len(a) + j] = b[j]
      /\ Len(a) \in Nat /\ Len(b) \in Nat
  BY Joined
<1>2. DOMAIN a = 1 .. Len(a) /\ DOMAIN b = 1 .. Len(b) /\ DOMAIN (a \o b) = 1 .. Len(a) + Len(b)
  BY <1>1
<1>3. ASSUME NEW i \in 1 .. Len(a) + Len(b)
      PROVE  (a \o b)[i][1] = w[1] /\ Before((a \o b)[i], w)
  <2>1. CASE i <= Len(a)
    <3>1. i \in 1 .. Len(a)
      BY <1>1, <2>1
    <3>2. QED
      BY <1>1, <1>2, <3>1 DEF AllBefore
  <2>2. CASE i > Len(a)
    <3>1. i - Len(a) \in 1 .. Len(b) /\ Len(a) + (i - Len(a)) = i
      BY <1>1, <2>2
    <3>2. (a \o b)[i] = b[i - Len(a)]
      BY <1>1, <3>1
    <3>3. QED
      BY <1>2, <3>1, <3>2 DEF AllBefore
  <2>3. QED
    BY <1>1, <2>1, <2>2
<1>4. QED
  BY <1>2, <1>3 DEF AllBefore

LEMMA NextWordIs ==
  ASSUME TypeOK
  PROVE  /\ NextWord \in Operation /\ NextWord[1] = rpc
         /\ Word(pos, 1) \in Operation /\ Word(pos + 1, 1) \in Operation
         /\ phase = "block" => NextWord = Word(pos - 1, block.done + 1)
         /\ AndWaits => NextWord = Word(pos - 1, 1)
         /\ phase # "block" /\ ~AndWaits => NextWord = Word(pos, 1)
         /\ NextWord = Word(pos, 1) \/ Before(NextWord, Word(pos, 1))
         /\ Before(NextWord, Word(pos + 1, 1)) /\ Before(Word(pos, 1), Word(pos + 1, 1))
<1>1. rpc \in Nat /\ pos \in Nat /\ pos - 1 \in Nat /\ block.done \in Nat
  BY LimitsAreNumbers DEF TypeOK
<1>2. \A k, j \in Nat : Word(k, j) \in Operation /\ Word(k, j) = <<rpc, k, j>>
  BY <1>1 DEF Word, Operation
<1>3. /\ phase = "block" => NextWord = Word(pos - 1, block.done + 1)
      /\ AndWaits => NextWord = Word(pos - 1, 1)
      /\ phase # "block" /\ ~AndWaits => NextWord = Word(pos, 1)
  BY DEF NextWord, AndWaits
<1>4. NextWord \in {Word(pos - 1, block.done + 1), Word(pos - 1, 1), Word(pos, 1)}
  BY <1>3
<1>5. \A j \in Nat : Before(Word(pos - 1, j), Word(pos, 1)) /\ Before(Word(pos - 1, j), Word(pos + 1, 1))
  BY <1>1, <1>2 DEF Before
<1>6. Before(Word(pos, 1), Word(pos + 1, 1))
  BY <1>1, <1>2 DEF Before
<1>7. block.done + 1 \in Nat /\ pos + 1 \in Nat
  BY <1>1
<1>8. QED
  BY <1>1, <1>2, <1>3, <1>4, <1>5, <1>6, <1>7

LEMMA OperationsWords ==
  ASSUME TypeOK, NEW e \in 0 .. Len(request)
  PROVE  /\ Operations(e) \in Seq(Operation) /\ Len(Operations(e)) = e /\ DOMAIN Operations(e) = 1 .. e
         /\ \A t \in 1 .. e : Operations(e)[t] = request[t].asked /\ t \in DOMAIN request
         /\ \A t \in 1 .. e : Operations(e)[t] = Operations(Len(request))[t]
<1>1. Len(request) \in Nat /\ request \in Seq([asked : Operation, slot : 0 .. FifoLimit])
      /\ DOMAIN request = 1 .. Len(request)
  BY DEF TypeOK
<1>2. \A t \in 1 .. Len(request) : request[t] \in [asked : Operation, slot : 0 .. FifoLimit]
  BY <1>1, ElementOfSeq
<1>3. \A t \in 1 .. Len(request) : request[t].asked \in Operation
  BY <1>2
<1>4. e \in Nat /\ \A t \in 1 .. e : t \in 1 .. Len(request)
  BY <1>1
<1>5. Operations(e) \in Seq(Operation) /\ Len(Operations(e)) = e
  BY <1>3, <1>4 DEF Operations
<1>6. QED
  BY <1>1, <1>4, <1>5 DEF Operations

\* Executing the first operations of a request keeps the order.
LEMMA DeliverOrder ==
  ASSUME IInv, phase \in {"next", "command"}, NEW e \in 0 .. Len(request), Deliver(e)
  PROVE  Ordered(executed') /\ AllBefore(executed', NextWord)
<1> DEFINE ops == Operations(e)
<1>1. /\ ops \in Seq(Operation) /\ DOMAIN ops = 1 .. e
      /\ \A t \in 1 .. e : ops[t] = request[t].asked /\ t \in DOMAIN request
      /\ \A t \in 1 .. e : ops[t] = Operations(Len(request))[t]
  BY OperationsWords DEF IInv
<1>2. /\ Ordered(executed) /\ AllBefore(executed, NextWord)
      /\ Ordered(Operations(Len(request))) /\ AllBefore(Operations(Len(request)), NextWord)
      /\ \A t \in DOMAIN request : AllBefore(executed, request[t].asked)
      /\ executed \in Seq(Operation)
  BY DEF IInv, OrderInv, TypeOK
<1>3. DOMAIN Operations(Len(request)) = 1 .. Len(request) /\ Len(request) \in Nat
  BY DEF Operations, IInv, TypeOK
<1>4. executed' = executed \o ops
  BY DEF Deliver
<1>5. \A t \in 1 .. e : t \in 1 .. Len(request)
  BY <1>3
<1> HIDE DEF ops
<1>6. Ordered(ops)
  BY <1>1, <1>2, <1>3, <1>5 DEF Ordered
<1>7. AllBefore(ops, NextWord)
  BY <1>1, <1>2, <1>3, <1>5 DEF AllBefore
<1>8. \A j \in DOMAIN ops : AllBefore(executed, ops[j])
  BY <1>1, <1>2
<1>9. QED
  BY <1>1, <1>2, <1>4, <1>6, <1>7, <1>8, OrderedJoin, AllBeforeJoin

LEMMA PacketOrder ==
  ASSUME IInv, phase \in {"next", "command"}, NEW commands, NEW next,
         Transceived(commands, next) \/ TransceiveFails(commands, next)
  PROVE  /\ Ordered(executed') /\ AllBefore(executed', NextWord)
         /\ phase' = next \/ phase' = "threw"
         /\ phase' # "threw" => request' = <<>> /\ reqSize' = 1
<1>1. Len(request) \in 0 .. Len(request)
  BY DEF IInv, TypeOK
<1>2. \E e \in 0 .. Len(request) : Deliver(e)
  BY <1>1 DEF Transceived, TransceiveFails
<1>3. Ordered(executed') /\ AllBefore(executed', NextWord)
  BY <1>2, DeliverOrder
<1>4. /\ phase' = next \/ phase' = "threw"
      /\ phase' # "threw" => request' = <<>> /\ reqSize' = 1
  BY DEF Transceived, TransceiveFails, Execute, ResetRequest
<1>5. QED
  BY <1>3, <1>4

\* A step after which no operation waits need only look at what was executed.
LEMMA OrderOfExecuted ==
  ASSUME TypeOK, TypeOK', Ordered(executed'), AllBefore(executed', NextWord'),
         phase' \in {"idle", "threw"} \/ request' = <<>>, ~AndWaits'
  PROVE  OrderInv'
<1>1. CASE request' = <<>>
  <2>1. /\ Ordered(Operations(Len(request))') /\ AllBefore(Operations(Len(request))', NextWord')
        /\ DOMAIN request' = {}
    <3>1. Len(request') = 0 /\ DOMAIN request' = {}
      BY <1>1
    <3>2. DOMAIN Operations(Len(request))' = {}
      BY <3>1 DEF Operations
    <3>3. QED
      BY <3>1, <3>2 DEF Ordered, AllBefore
  <2>2. QED
    BY <1>1, <2>1 DEF OrderInv
<1>2. CASE phase' \in {"idle", "threw"}
  BY <1>2 DEF OrderInv
<1>3. QED
  BY <1>1, <1>2

\* What was executed is before all that the sequence may still ask for: the
\* next word moves on, and with it the position.
LEMMA MovesOn ==
  ASSUME TypeOK, TypeOK', rpc' = rpc, pos' \in {pos, pos + 1}, phase' # "block", ~AndWaits',
         NEW ops \in Seq(Operation), AllBefore(ops, NextWord)
  PROVE  AllBefore(ops, NextWord')
<1>1. /\ NextWord \in Operation /\ NextWord[1] = rpc
      /\ Word(pos, 1) \in Operation /\ Word(pos + 1, 1) \in Operation
      /\ NextWord = Word(pos, 1) \/ Before(NextWord, Word(pos, 1))
      /\ Before(NextWord, Word(pos + 1, 1))
  BY NextWordIs
<1>2. NextWord' = Word(pos, 1) \/ NextWord' = Word(pos + 1, 1)
  <2>1. NextWord' = <<rpc', pos', 1>>
    BY DEF NextWord, Word
  <2>2. QED
    BY <2>1 DEF Word
<1>3. Word(pos, 1)[1] = rpc /\ Word(pos + 1, 1)[1] = rpc
  BY DEF Word
<1>4. QED
  BY <1>1, <1>2, <1>3, AllBeforeLater

LEMMA SendRpcOrder ==
  ASSUME IInv, TypeOK', SendRpc
  PROVE  OrderInv'
<1>1. executed' = <<>> /\ request' = <<>> /\ ~AndWaits'
  BY DEF SendRpc, ResetRequest, AndWaits
<1>2. Ordered(executed') /\ AllBefore(executed', NextWord')
  BY <1>1 DEF Ordered, AllBefore
<1>3. QED
  BY <1>1, <1>2, OrderOfExecuted DEF IInv

LEMMA ExecutesOrder ==
  ASSUME IInv, TypeOK', Flush \/ ReadNow \/ WriteBlock \/ Finish
  PROVE  OrderInv'
<1>1. TypeOK /\ pos \in Nat /\ rpc \in Nat
  BY LimitsAreNumbers DEF IInv, TypeOK
<1>2. CASE Flush
  <2>1. /\ phase = "next" /\ Full /\ pos' = pos /\ rpc' = rpc /\ expectOr' = expectOr
        /\ Transceived(cmdBuffer, "command") \/ TransceiveFails(cmdBuffer, "command")
    BY <1>2 DEF Flush, rpcVars
  <2>2. /\ Ordered(executed') /\ AllBefore(executed', NextWord)
        /\ phase' = "command" \/ phase' = "threw"
        /\ phase' # "threw" => request' = <<>>
    BY <2>1, PacketOrder
  <2>3. ~expectOr
    BY <2>1 DEF IInv, OrderInv, AndWaits
  <2>4. ~AndWaits' /\ phase' # "block"
    BY <2>1, <2>2, <2>3 DEF AndWaits
  <2>5. AllBefore(executed', NextWord')
    <3>1. executed' \in Seq(Operation)
      BY DEF TypeOK
    <3>2. QED
      BY <1>1, <2>1, <2>2, <2>4, <3>1, MovesOn
  <2>6. QED
    BY <1>1, <2>2, <2>4, <2>5, OrderOfExecuted
<1>3. CASE ReadNow
  <2>1. /\ phase = "command" /\ pos' = pos + 1 /\ rpc' = rpc /\ expectOr' = expectOr
        /\ executed' = executed /\ request' = request /\ reqSize' = reqSize
        /\ phase' \in {Onward, "threw"}
    BY <1>3 DEF ReadNow, Takes, Execute, rpcVars, reqVars
  <2>2. phase' = "threw" \/ (phase' = "next" /\ ~expectOr)
    BY <2>1 DEF Onward
  <2>3. ~AndWaits' /\ phase' # "block"
    BY <2>1, <2>2 DEF AndWaits
  <2>4. /\ Ordered(executed) /\ AllBefore(executed, NextWord) /\ executed \in Seq(Operation)
        /\ Ordered(Operations(Len(request))) /\ AllBefore(Operations(Len(request)), NextWord)
        /\ \A t \in DOMAIN request : AllBefore(executed, request[t].asked)
        /\ Operations(Len(request)) \in Seq(Operation)
    <3>1. Len(request) \in 0 .. Len(request)
      BY <1>1 DEF TypeOK
    <3>2. Operations(Len(request)) \in Seq(Operation)
      BY <1>1, <3>1, OperationsWords
    <3>3. QED
      BY <2>1, <3>2 DEF IInv, OrderInv, TypeOK
  <2>5. AllBefore(executed, NextWord') /\ AllBefore(Operations(Len(request)), NextWord')
    BY <1>1, <2>1, <2>3, <2>4, MovesOn
  <2>6. Operations(Len(request))' = Operations(Len(request))
    BY <2>1 DEF Operations
  <2>7. QED
    BY <2>1, <2>2, <2>3, <2>4, <2>5, <2>6 DEF OrderInv
<1>4. CASE WriteBlock
  <2>1. /\ phase = "command" /\ pos' = pos + 1 /\ rpc' = rpc /\ expectOr' = expectOr
    BY <1>4 DEF WriteBlock, Writes, Takes, rpcVars
  <2>2. PICK next \in {"block", "next", "threw"} :
           /\ Transceived(Buffered, next) \/ TransceiveFails(Buffered, next)
           /\ next = "block" => block' = [done |-> 0, of |-> Cmd.n]
           /\ next = "next" => ~expectOr
    BY <1>4 DEF WriteBlock, Onward
  <2>3. /\ Ordered(executed') /\ AllBefore(executed', NextWord)
        /\ phase' = next \/ phase' = "threw"
        /\ phase' # "threw" => request' = <<>>
    BY <2>1, <2>2, PacketOrder
  <2>4. ~AndWaits'
    BY <2>1, <2>2, <2>3 DEF AndWaits
  <2>5. executed' \in Seq(Operation)
    BY DEF TypeOK
  <2>6. AllBefore(executed', NextWord')
    <3>1. CASE phase' # "block"
      BY <1>1, <2>1, <2>3, <2>4, <2>5, <3>1, MovesOn
    <3>2. CASE phase' = "block"
      <4>1. block'.done = 0
        BY <2>2, <2>3, <3>2
      <4>2. NextWord' = Word(pos, 1)
        <5>1. NextWord' = <<rpc', pos' - 1, block'.done + 1>>
          BY <3>2 DEF NextWord, AndWaits, Word
        <5>2. pos' - 1 = pos /\ block'.done + 1 = 1
          BY <1>1, <2>1, <4>1
        <5>3. QED
          BY <2>1, <5>1, <5>2 DEF Word
      <4>3. /\ NextWord \in Operation /\ NextWord[1] = rpc /\ Word(pos, 1) \in Operation
            /\ NextWord = Word(pos, 1) \/ Before(NextWord, Word(pos, 1))
        BY <1>1, NextWordIs
      <4>4. Word(pos, 1)[1] = rpc
        BY DEF Word
      <4>5. AllBefore(executed', Word(pos, 1))
        BY <2>3, <2>5, <4>3, <4>4, AllBeforeLater
      <4>6. QED
        BY <4>2, <4>5
    <3>3. QED
      BY <3>1, <3>2
  <2>7. QED
    BY <1>1, <2>3, <2>4, <2>6, OrderOfExecuted
<1>5. CASE Finish
  <2>1. /\ phase = "next" /\ pos' = pos /\ rpc' = rpc
        /\ Transceived(cmdBuffer, "idle") \/ TransceiveFails(cmdBuffer, "idle")
    BY <1>5 DEF Finish
  <2>2. /\ Ordered(executed') /\ AllBefore(executed', NextWord)
        /\ phase' = "idle" \/ phase' = "threw"
    BY <2>1, PacketOrder
  <2>3. ~AndWaits' /\ phase' # "block"
    BY <2>2 DEF AndWaits
  <2>4. AllBefore(executed', NextWord')
    <3>1. executed' \in Seq(Operation)
      BY DEF TypeOK
    <3>2. QED
      BY <1>1, <2>1, <2>2, <2>3, <3>1, MovesOn
  <2>5. QED
    BY <1>1, <2>2, <2>3, <2>4, OrderOfExecuted
<1>6. QED
  BY <1>2, <1>3, <1>4, <1>5

\* While the same operations wait, they and the executed ones need only be
\* before what the sequence may ask for next.
LEMMA SameOperations ==
  ASSUME IInv, phase \in {"next", "command"}, phase' # "block",
         request' = request, executed' = executed,
         \A ops \in Seq(Operation) : AllBefore(ops, NextWord) => AllBefore(ops, NextWord'),
         AndWaits' => cmdBuffer' # <<>> /\ Last(cmdBuffer') = pos' - 1 /\ ~Full'
  PROVE  OrderInv'
<1>1. /\ Ordered(executed) /\ AllBefore(executed, NextWord)
      /\ Ordered(Operations(Len(request))) /\ AllBefore(Operations(Len(request)), NextWord)
      /\ \A t \in DOMAIN request : AllBefore(executed, request[t].asked)
  BY DEF IInv, OrderInv
<1>2. executed \in Seq(Operation) /\ Operations(Len(request)) \in Seq(Operation)
  <2>1. TypeOK /\ Len(request) \in 0 .. Len(request)
    BY DEF IInv, TypeOK
  <2>2. QED
    BY <2>1, OperationsWords DEF TypeOK
<1>3. AllBefore(executed, NextWord') /\ AllBefore(Operations(Len(request)), NextWord')
  BY <1>1, <1>2
<1>4. Operations(Len(request))' = Operations(Len(request))
  BY DEF Operations
<1>5. QED
  BY <1>1, <1>3, <1>4 DEF OrderInv

LEMMA DeferredOrder ==
  ASSUME IInv, TypeOK', Defers
  PROVE  OrderInv'
<1>1. /\ phase = "command" /\ phase' \in {"next", "threw"}
      /\ pos' = pos + 1 /\ rpc' = rpc /\ cmdBuffer' = Buffered
      /\ request' = request /\ reqSize' = reqSize /\ executed' = executed
      /\ phase' = "threw" \/ ~expectOr' \/ WriteAnd
  BY DeferredStep DEF IInv
<1>2. TypeOK /\ pos \in Nat /\ rpc \in Nat
  BY LimitsAreNumbers DEF IInv, TypeOK
<1>3. CASE phase' = "threw" \/ ~expectOr'
  <2>1. ~AndWaits' /\ phase' # "block"
    BY <1>1, <1>3 DEF AndWaits
  <2>2. \A ops \in Seq(Operation) : AllBefore(ops, NextWord) => AllBefore(ops, NextWord')
    BY <1>1, <1>2, <2>1, MovesOn
  <2>3. QED
    BY <1>1, <2>1, <2>2, SameOperations
<1>4. CASE WriteAnd
  <2>1. expectOr' /\ phase' = "next"
    BY <1>4 DEF WriteAnd, Defer
  <2>2. AndWaits' /\ phase' # "block"
    BY <2>1 DEF AndWaits
  <2>3. NextWord' = Word(pos, 1)
    <3>1. NextWord' = <<rpc', pos' - 1, 1>>
      BY <2>2 DEF NextWord, AndWaits, Word
    <3>2. pos' - 1 = pos
      BY <1>1, <1>2
    <3>3. QED
      BY <1>1, <3>1, <3>2 DEF Word
  <2>4. \A ops \in Seq(Operation) : AllBefore(ops, NextWord) => AllBefore(ops, NextWord')
    <3>1. /\ NextWord \in Operation /\ NextWord[1] = rpc /\ Word(pos, 1) \in Operation
          /\ NextWord = Word(pos, 1) \/ Before(NextWord, Word(pos, 1))
      BY <1>2, NextWordIs
    <3>2. Word(pos, 1)[1] = rpc
      BY DEF Word
    <3>3. QED
      BY <2>3, <3>1, <3>2, AllBeforeLater
  <2>5. cmdBuffer' # <<>> /\ Last(cmdBuffer') = pos' - 1
    <3>1. Buffered # <<>> /\ Last(Buffered) = pos
      BY <1>1, <1>2, BufferedType
    <3>2. QED
      BY <1>1, <1>2, <3>1
  <2>6. ~Full'
    <3>1. ~Full
      BY <1>1 DEF IInv, PacketInv
    <3>2. QED
      BY <1>1, <3>1 DEF Full
  <2>7. QED
    BY <1>1, <2>2, <2>4, <2>5, <2>6, SameOperations
<1>5. QED
  BY <1>1, <1>3, <1>4

LEMMA AddedOrder ==
  ASSUME IInv, TypeOK', Adds
  PROVE  OrderInv'
<1>1. /\ phase = "command" /\ phase' \in {"next", "threw"}
      /\ pos' = pos + 1 /\ rpc' = rpc /\ executed' = executed
      /\ \/ request' = request
         \/ \E slot \in 0 .. FifoLimit :
               request' = Append(request, [asked |-> Word(AskedFor, 1), slot |-> slot])
      /\ Cmd.mode = "or" => AskedFor = pos - 1
      /\ phase' = "next" => ~expectOr' /\ (Cmd.mode = "or" <=> expectOr)
  BY AddedStep
<1>2. TypeOK /\ pos \in Nat /\ rpc \in Nat /\ Len(request) \in 0 .. Len(request)
      /\ executed \in Seq(Operation)
  BY LimitsAreNumbers DEF IInv, TypeOK
<1>3. ~AndWaits' /\ phase' # "block"
  BY <1>1 DEF AndWaits
<1>4. \A ops \in Seq(Operation) : AllBefore(ops, NextWord) => AllBefore(ops, NextWord')
  BY <1>1, <1>2, <1>3, MovesOn
<1>5. CASE request' = request
  BY <1>1, <1>3, <1>4, <1>5, SameOperations
<1>6. CASE phase' = "threw"
  <2>1. Ordered(executed) /\ AllBefore(executed, NextWord)
    BY DEF IInv, OrderInv
  <2>2. Ordered(executed') /\ AllBefore(executed', NextWord')
    BY <1>1, <1>2, <1>4, <2>1
  <2>3. QED
    BY <1>2, <1>3, <1>6, <2>2, OrderOfExecuted
<1>7. CASE phase' = "next" /\ request' # request
  <2>1. PICK slot \in 0 .. FifoLimit :
           request' = Append(request, [asked |-> Word(AskedFor, 1), slot |-> slot])
    BY <1>1, <1>7
  <2>2. Word(AskedFor, 1) = NextWord
    <3>1. CASE Cmd.mode = "or"
      <4>1. AndWaits /\ AskedFor = pos - 1
        BY <1>1, <1>7, <3>1 DEF AndWaits
      <4>2. QED
        BY <1>2, <4>1, NextWordIs
    <3>2. CASE Cmd.mode # "or"
      <4>1. ~AndWaits /\ AskedFor = pos
        BY <1>1, <1>7, <3>2 DEF AndWaits, AskedFor
      <4>2. QED
        BY <1>1, <1>2, <4>1, NextWordIs
    <3>3. QED
      BY <3>1, <3>2
  <2> DEFINE ops == Operations(Len(request))
             new == [asked |-> Word(AskedFor, 1), slot |-> slot]
  <2>3. /\ Ordered(executed) /\ AllBefore(executed, NextWord)
        /\ Ordered(ops) /\ AllBefore(ops, NextWord)
        /\ \A t \in DOMAIN request : AllBefore(executed, request[t].asked)
        /\ ops \in Seq(Operation) /\ Len(ops) = Len(request)
        /\ \A t \in 1 .. Len(request) : ops[t] = request[t].asked
    BY <1>1, <1>2, OperationsWords DEF IInv, OrderInv
  <2>4. /\ NextWord \in Operation /\ NextWord[1] = rpc /\ Before(NextWord, Word(pos + 1, 1))
    BY <1>2, NextWordIs
  <2>5. /\ Len(request') = Len(request) + 1 /\ DOMAIN request' = 1 .. Len(request) + 1
        /\ \A t \in 1 .. Len(request) : request'[t] = request[t]
        /\ request'[Len(request) + 1] = new
    BY <1>2, <2>1 DEF TypeOK
  <2>6. new.asked = NextWord
    BY <2>2
  <2>7. NextWord' = Word(pos + 1, 1)
    <3>1. NextWord' = <<rpc', pos', 1>>
      BY <1>3 DEF NextWord, Word
    <3>2. QED
      BY <1>1, <3>1 DEF Word
  <2>8. Operations(Len(request))' = ops \o <<NextWord>>
    <3>1. /\ ops \o <<NextWord>> \in Seq(Operation) /\ Len(ops \o <<NextWord>>) = Len(request) + 1
          /\ \A t \in 1 .. Len(request) : (ops \o <<NextWord>>)[t] = ops[t]
          /\ (ops \o <<NextWord>>)[Len(request) + 1] = NextWord
      <4>1. <<NextWord>> \in Seq(Operation) /\ Len(<<NextWord>>) = 1 /\ <<NextWord>>[1] = NextWord
        BY <2>4
      <4>2. QED
        BY <2>3, <4>1, Joined
    <3>2. Operations(Len(request))' = [t \in 1 .. Len(request) + 1 |-> request'[t].asked]
      BY <2>5 DEF Operations
    <3>3. \A t \in 1 .. Len(request) + 1 : request'[t].asked = (ops \o <<NextWord>>)[t]
      <4>1. \A t \in 1 .. Len(request) + 1 : t \in 1 .. Len(request) \/ t = Len(request) + 1
        BY <1>2
      <4>2. QED
        BY <2>3, <2>5, <2>6, <3>1, <4>1
    <3>4. ops \o <<NextWord>> = [t \in 1 .. Len(request) + 1 |-> (ops \o <<NextWord>>)[t]]
      BY <3>1
    <3>5. QED
      BY <3>2, <3>3, <3>4
  <2> HIDE DEF ops, new
  <2>9. /\ <<NextWord>> \in Seq(Operation) /\ Ordered(<<NextWord>>)
        /\ \A j \in DOMAIN <<NextWord>> : <<NextWord>>[j] = NextWord
        /\ AllBefore(<<NextWord>>, Word(pos + 1, 1))
    <3>1. DOMAIN <<NextWord>> = 1 .. 1 /\ <<NextWord>>[1] = NextWord /\ Word(pos + 1, 1)[1] = rpc
      BY DEF Word
    <3>2. QED
      BY <2>4, <3>1 DEF Ordered, AllBefore
  <2>10. Ordered(Operations(Len(request))')
    BY <2>3, <2>8, <2>9, OrderedJoin
  <2>11. AllBefore(Operations(Len(request))', NextWord')
    BY <1>4, <2>3, <2>7, <2>8, <2>9, AllBeforeJoin
  <2>12. \A t \in DOMAIN request' : AllBefore(executed', request'[t].asked)
    <3>1. DOMAIN request = 1 .. Len(request) /\ Len(request) \in Nat
      BY <1>2 DEF TypeOK
    <3>2. \A t \in DOMAIN request' : t \in DOMAIN request \/ t = Len(request) + 1
      BY <2>5, <3>1
    <3>3. QED
      BY <1>1, <2>3, <2>5, <2>6, <3>1, <3>2
  <2>13. AllBefore(executed', NextWord') /\ Ordered(executed')
    BY <1>1, <1>2, <1>4, <2>3
  <2>14. QED
    BY <1>3, <1>7, <2>10, <2>11, <2>12, <2>13 DEF OrderInv
<1>8. QED
  BY <1>1, <1>5, <1>6, <1>7

\* The operations of a packet of a block follow one another, whether all of
\* them are executed or only the first ones.
LEMMA BlockOpsOrder ==
  ASSUME IInv, phase = "block", block.done < block.of, NEW ops \in Seq(Operation),
         Len(ops) \in 0 .. Len(BlockOps), \A j \in 1 .. Len(ops) : ops[j] = BlockOps[j]
  PROVE  /\ Ordered(executed \o ops) /\ executed \o ops \in Seq(Operation)
         /\ AllBefore(executed \o ops, Word(pos, 1))
         /\ AllBefore(executed \o ops, Word(pos - 1, block.done + PacketWords(BlockLeft) + 1))
<1>1. /\ TypeOK /\ pos - 1 \in Nat /\ pos \in Nat /\ rpc \in Nat /\ block.done \in Nat
      /\ executed \in Seq(Operation) /\ Len(ops) \in Nat
  BY LimitsAreNumbers DEF IInv, TypeOK
<1>2. NextWord = Word(pos - 1, block.done + 1) /\ NextWord \in Operation
  BY <1>1, NextWordIs
<1>3. Ordered(executed) /\ AllBefore(executed, NextWord)
  BY DEF IInv, OrderInv
<1>4. PICK size \in Nat : size = PacketWords(BlockLeft)
  BY <1>1, BlockOpsType
<1>5. PICK first \in 1 .. size : first = SizeA(BlockLeft)
  BY <1>1, <1>4, BlockOpsType
<1>6. /\ Len(BlockOps) \in 1 .. 2
      /\ BlockOps[1] = Word(pos - 1, block.done + 1)
      /\ Len(BlockOps) = 2 => first < size /\ BlockOps[2] = Word(pos - 1, block.done + first + 1)
  BY <1>1, <1>4, <1>5, BlockOpsType
<1>7. /\ \A j \in Nat : Word(pos - 1, j) \in Operation /\ Word(pos - 1, j) = <<rpc, pos - 1, j>>
      /\ Word(pos, 1) \in Operation /\ Word(pos, 1) = <<rpc, pos, 1>>
  BY <1>1 DEF Word, Operation
<1>8. /\ \A i, j \in Nat : i < j => Before(Word(pos - 1, i), Word(pos - 1, j))
      /\ \A j \in Nat : Before(Word(pos - 1, j), Word(pos, 1))
      /\ \A j \in Nat : Word(pos - 1, j)[1] = rpc
      /\ Word(pos, 1)[1] = rpc
  BY <1>1, <1>7 DEF Before
<1>9. /\ block.done + 1 \in Nat /\ block.done + first + 1 \in Nat /\ block.done + size + 1 \in Nat
      /\ block.done + 1 < block.done + first + 1 /\ block.done + 1 < block.done + size + 1
      /\ first < size => block.done + first + 1 < block.done + size + 1
  <2>1. block.done \in Nat /\ first \in Nat \ {0} /\ size \in Nat \ {0}
    BY <1>1
  <2>2. \A d \in Nat : /\ d + 1 \in Nat /\ d + first + 1 \in Nat /\ d + size + 1 \in Nat
                       /\ d + 1 < d + first + 1 /\ d + 1 < d + size + 1
                       /\ first < size => d + first + 1 < d + size + 1
    BY <2>1
  <2>3. QED
    BY <2>1, <2>2
<1>10. \A j \in DOMAIN ops : ops[j] = Word(pos - 1, block.done + 1)
                               \/ (j = 2 /\ Len(BlockOps) = 2
                                     /\ ops[j] = Word(pos - 1, block.done + first + 1))
  <2>1. \A j \in DOMAIN ops : j = 1 \/ (j = 2 /\ Len(BlockOps) = 2)
    BY <1>1, <1>6
  <2>2. QED
    BY <1>6, <2>1
<1>11. DOMAIN ops \subseteq {1, 2} /\ (2 \in DOMAIN ops => Len(BlockOps) = 2)
  BY <1>1, <1>6
<1>12. Ordered(ops)
  <2>1. ASSUME NEW i \in DOMAIN ops, NEW j \in DOMAIN ops, i < j PROVE Before(ops[i], ops[j])
    <3>1. i = 1 /\ j = 2 /\ Len(BlockOps) = 2
      BY <1>11, <2>1
    <3>2. ops[1] = BlockOps[1] /\ ops[2] = BlockOps[2]
      BY <1>1, <2>1, <3>1
    <3>3. QED
      BY <1>6, <1>8, <1>9, <3>1, <3>2
  <2>2. QED
    BY <2>1 DEF Ordered
<1>13. \A j \in DOMAIN ops : AllBefore(executed, ops[j])
  <2>0. executed \in Seq(Operation) /\ Word(pos - 1, block.done + 1) \in Operation
    BY <1>1, <1>7, <1>9
  <2>1. AllBefore(executed, Word(pos - 1, block.done + 1))
    BY <1>2, <1>3
  <2>2. AllBefore(executed, Word(pos - 1, block.done + first + 1))
    <3>1. Word(pos - 1, block.done + first + 1) \in Operation
      BY <1>7, <1>9
    <3>2. Word(pos - 1, block.done + first + 1)[1] = Word(pos - 1, block.done + 1)[1]
      BY <1>8, <1>9
    <3>3. Before(Word(pos - 1, block.done + 1), Word(pos - 1, block.done + first + 1))
      BY <1>8, <1>9
    <3>4. QED
      BY <2>0, <2>1, <3>1, <3>2, <3>3, AllBeforeLater
  <2>3. QED
    BY <1>10, <2>1, <2>2
<1>14. AllBefore(ops, Word(pos, 1)) /\ AllBefore(ops, Word(pos - 1, block.done + size + 1))
  BY <1>6, <1>8, <1>9, <1>10 DEF AllBefore
<1>15. AllBefore(executed, Word(pos, 1)) /\ AllBefore(executed, Word(pos - 1, block.done + size + 1))
  <2>0. executed \in Seq(Operation) /\ Word(pos - 1, block.done + 1) \in Operation
    BY <1>1, <1>7, <1>9
  <2>1. AllBefore(executed, Word(pos - 1, block.done + 1))
    BY <1>2, <1>3
  <2>2. AllBefore(executed, Word(pos, 1))
    <3>1. Word(pos, 1) \in Operation
      BY <1>7, <1>9
    <3>2. Word(pos, 1)[1] = Word(pos - 1, block.done + 1)[1]
      BY <1>8, <1>9
    <3>3. Before(Word(pos - 1, block.done + 1), Word(pos, 1))
      BY <1>8, <1>9
    <3>4. QED
      BY <2>0, <2>1, <3>1, <3>2, <3>3, AllBeforeLater
  <2>3. AllBefore(executed, Word(pos - 1, block.done + size + 1))
    <3>1. Word(pos - 1, block.done + size + 1) \in Operation
      BY <1>7, <1>9
    <3>2. Word(pos - 1, block.done + size + 1)[1] = Word(pos - 1, block.done + 1)[1]
      BY <1>8, <1>9
    <3>3. Before(Word(pos - 1, block.done + 1), Word(pos - 1, block.done + size + 1))
      BY <1>8, <1>9
    <3>4. QED
      BY <2>0, <2>1, <3>1, <3>2, <3>3, AllBeforeLater
  <2>4. QED
    BY <2>2, <2>3
<1>16. QED
  BY <1>1, <1>3, <1>4, <1>12, <1>13, <1>14, <1>15, OrderedJoin, AllBeforeJoin, Joined

LEMMA BlockOrder ==
  ASSUME IInv, TypeOK', BlockPacket
  PROVE  OrderInv'
<1>1. /\ phase = "block" /\ block.done < block.of /\ pos' = pos /\ rpc' = rpc
      /\ executed' = executed \o BlockOps
      /\ request' = request \/ phase' = "threw"
  BY DEF BlockPacket, rpcVars, reqVars
<1>2. TypeOK /\ pos \in Nat /\ block.done \in Nat /\ request = <<>>
  BY <1>1 DEF IInv, TypeOK, OrderInv
<1>3. BlockOps \in Seq(Operation) /\ Len(BlockOps) \in 0 .. Len(BlockOps)
      /\ PacketWords(BlockLeft) \in Nat
  BY <1>1, <1>2, BlockOpsType
<1>4. /\ Ordered(executed')
      /\ AllBefore(executed', Word(pos, 1))
      /\ AllBefore(executed', Word(pos - 1, block.done + PacketWords(BlockLeft) + 1))
  BY <1>1, <1>3, BlockOpsOrder
<1>5. \/ phase' = "block" /\ block' = [block EXCEPT !.done = @ + PacketWords(BlockLeft)]
      \/ phase' = "threw"
  BY <1>1 DEF BlockPacket
<1>6. ~AndWaits'
  BY <1>5 DEF AndWaits
<1>7. AllBefore(executed', NextWord')
  <2>1. CASE phase' = "threw"
    <3>1. NextWord' = <<rpc', pos', 1>>
      BY <1>6, <2>1 DEF NextWord, Word
    <3>2. NextWord' = Word(pos, 1)
      BY <1>1, <3>1 DEF Word
    <3>3. QED
      BY <1>4, <3>2
  <2>2. CASE phase' = "block" /\ block' = [block EXCEPT !.done = @ + PacketWords(BlockLeft)]
    <3>1. NextWord' = <<rpc', pos' - 1, block'.done + 1>>
      BY <2>2 DEF NextWord, AndWaits, Word
    <3>2. block'.done = block.done + PacketWords(BlockLeft)
      BY <1>2, <2>2 DEF TypeOK
    <3>3. NextWord' = Word(pos - 1, block.done + PacketWords(BlockLeft) + 1)
      BY <1>1, <3>1, <3>2 DEF Word
    <3>4. QED
      BY <1>4, <3>3
  <2>3. QED
    BY <1>5, <2>1, <2>2
<1>8. QED
  BY <1>1, <1>2, <1>4, <1>6, <1>7, OrderOfExecuted

LEMMA StaysOrder ==
  ASSUME IInv, TypeOK', Stays
  PROVE  OrderInv'
<1>1. /\ pos' = pos /\ rpc' = rpc /\ request' = request /\ reqSize' = reqSize
      /\ cmdBuffer' = cmdBuffer /\ expectOr' = expectOr /\ block' = block
  BY DEF Stays, NoFlush, BadCommand, BlockFails, BlockDone, GiveUp, rpcVars, reqVars, fifoVars,
         parseVars
<1>2. TypeOK /\ pos \in Nat /\ rpc \in Nat /\ executed \in Seq(Operation)
  BY LimitsAreNumbers DEF IInv, TypeOK
<1>3. CASE NoFlush
  <2>1. phase = "next" /\ phase' = "command" /\ executed' = executed /\ ~Full
    BY <1>3 DEF NoFlush
  <2>2. NextWord' = NextWord /\ (AndWaits' <=> AndWaits)
    <3>1. AndWaits' <=> AndWaits
      BY <1>1, <2>1 DEF AndWaits
    <3>2. CASE AndWaits
      <4>1. NextWord = <<rpc, pos - 1, 1>>
        BY <2>1, <3>2 DEF NextWord, Word
      <4>2. NextWord' = <<rpc', pos' - 1, 1>>
        BY <2>1, <3>1, <3>2 DEF NextWord, Word
      <4>3. QED
        BY <1>1, <3>1, <4>1, <4>2
    <3>3. CASE ~AndWaits
      <4>1. NextWord = <<rpc, pos, 1>>
        BY <2>1, <3>3 DEF NextWord, Word
      <4>2. NextWord' = <<rpc', pos', 1>>
        BY <2>1, <3>1, <3>3 DEF NextWord, Word
      <4>3. QED
        BY <1>1, <3>1, <4>1, <4>2
    <3>4. QED
      BY <3>2, <3>3
  <2>3. AndWaits' => cmdBuffer' # <<>> /\ Last(cmdBuffer') = pos' - 1 /\ ~Full'
    BY <1>1, <2>1, <2>2 DEF IInv, OrderInv, Full
  <2>4. QED
    BY <1>1, <2>1, <2>2, <2>3, SameOperations
<1>4. CASE BadCommand \/ GiveUp
  <2>1. phase' \in {"idle", "threw"} /\ executed' = executed
    BY <1>4 DEF BadCommand, GiveUp, Answer
  <2>2. ~AndWaits' /\ phase' # "block"
    BY <2>1 DEF AndWaits
  <2>3. Ordered(executed') /\ AllBefore(executed', NextWord')
    BY <1>1, <1>2, <2>1, <2>2, MovesOn DEF IInv, OrderInv
  <2>4. QED
    BY <1>2, <2>1, <2>2, <2>3, OrderOfExecuted
<1>5. CASE BlockDone \/ BlockFails
  <2>1. phase = "block" /\ phase' = Onward /\ request = <<>>
    BY <1>5 DEF BlockDone, BlockFails, IInv, OrderInv
  <2>2. ~AndWaits' /\ phase' # "block"
    BY <1>1, <2>1 DEF AndWaits, Onward
  <2>3. NextWord' = Word(pos, 1)
    <3>1. NextWord' = <<rpc', pos', 1>>
      BY <2>2 DEF NextWord, Word
    <3>2. QED
      BY <1>1, <3>1 DEF Word
  <2>4. Ordered(executed') /\ AllBefore(executed', Word(pos, 1))
    <3>1. CASE BlockDone
      <4>1. executed' = executed
        BY <3>1 DEF BlockDone
      <4>2. /\ NextWord \in Operation /\ NextWord[1] = rpc /\ Word(pos, 1) \in Operation
            /\ NextWord = Word(pos, 1) \/ Before(NextWord, Word(pos, 1))
        BY <1>2, NextWordIs
      <4>3. Word(pos, 1)[1] = rpc
        BY DEF Word
      <4>4. QED
        BY <1>2, <4>1, <4>2, <4>3, AllBeforeLater DEF IInv, OrderInv
    <3>2. CASE BlockFails
      <4>1. block.done < block.of
        BY <3>2 DEF BlockFails
      <4>2. BlockOps \in Seq(Operation) /\ Len(BlockOps) \in Nat
        BY <1>2, <2>1, <4>1, BlockOpsType
      <4>3. PICK e \in 0 .. Len(BlockOps) : executed' = executed \o SubSeq(BlockOps, 1, e)
        BY <3>2 DEF BlockFails
      <4>4. /\ SubSeq(BlockOps, 1, e) \in Seq(Operation) /\ Len(SubSeq(BlockOps, 1, e)) = e
            /\ \A j \in 1 .. e : SubSeq(BlockOps, 1, e)[j] = BlockOps[j]
        <5>1. \A i \in 1 .. e : BlockOps[i] \in Operation
          BY <4>2
        <5>2. QED
          BY <4>2, <5>1, SubSeqProperties
      <4>5. QED
        BY <2>1, <4>1, <4>3, <4>4, BlockOpsOrder
    <3>3. QED
      BY <1>5, <3>1, <3>2
  <2>5. QED
    BY <1>1, <1>2, <2>1, <2>2, <2>3, <2>4, OrderOfExecuted
<1>6. QED
  BY <1>3, <1>4, <1>5 DEF Stays

LEMMA OrderKept ==
  ASSUME IInv, TypeOK', [Next]_vars
  PROVE  OrderInv'
<1>1. CASE UNCHANGED vars
  BY <1>1 DEF IInv, OrderInv, vars, rpcVars, reqVars, fifoVars, parseVars, NextWord, AndWaits,
     Operations, Word, Full
<1>2. CASE Next
  BY <1>2, DeferredOrder, AddedOrder, ExecutesOrder, BlockOrder, StaysOrder, SendRpcOrder
  DEF Next, Step, Defers, Adds, Stays
<1>3. QED
  BY <1>1, <1>2

LEMMA StepKeepsInv == IInv /\ [Next]_vars => IInv'
BY TypedKept, PacketInvKept, OrderKept DEF IInv

LEMMA InitMeetsInv == Init => IInv
<1> SUFFICES ASSUME Init PROVE IInv
  OBVIOUS
<1>1. TypeOK
  <2>1. /\ script \in Seq(Command) /\ Len(script) = 0 /\ cmdBuffer \in Seq(1 .. pos - 1)
        /\ request \in Seq([asked : Operation, slot : 0 .. FifoLimit])
        /\ buf \in Seq(Entry) /\ Len(buf) = 0
        /\ response \in Seq(Entry) /\ executed \in Seq(Operation)
    BY EmptySeq DEF Init
  <2>2. /\ phase = "idle" /\ reply = "none" /\ rpc \in 0 .. MaxRpc /\ pos \in 1 .. Len(script) + 1
        /\ Len(buf) <= FifoLimit /\ front \in 0 .. Len(buf) /\ wordsToRead \in Nat
        /\ expectOr \in BOOLEAN /\ execOnRead \in BOOLEAN /\ failure \in BOOLEAN
        /\ block \in [done : Nat, of : Nat]
    <3>1. pos = 1 /\ front = 0 /\ rpc = 0
      BY DEF Init
    <3>2. rpc \in 0 .. MaxRpc /\ Len(buf) <= FifoLimit /\ front \in 0 .. Len(buf)
      BY <2>1, <3>1, LimitsAreNumbers
    <3>3. pos \in 1 .. Len(script) + 1
      BY <2>1, <3>1
    <3>4. QED
      BY <3>2, <3>3 DEF Init
  <2>3. QED
    BY <2>1, <2>2 DEF TypeOK
<1>2. PacketInv
  BY PacketHasRoom DEF Init, PacketInv
<1>3. OrderInv
  BY DEF Init, OrderInv, Ordered, AllBefore, AndWaits
<1>4. QED
  BY <1>1, <1>2, <1>3 DEF IInv

-----------------------------------------------------------------------------
(* What follows.                                                           *)

\* Whatever sequences the clients send and wherever a packet fails, the
\* translator's buffers hold what their types say, the request leaves room for
\* the next command, and what was executed, what waits and what the sequence
\* may still ask for follow one another.
THEOREM InvariantHolds == Spec => []IInv
BY InitMeetsInv, StepKeepsInv, PTL DEF Spec

\* The variables keep their types, the executor's results included: a buffer
\* holds commands of the sequence, the FIFO and the response whole frames.
THEOREM TypeCorrect == Spec => []TypeOK
BY InvariantHolds, PTL DEF IInv

\* No sequence of commands overflows a packet, or asks for a reply that does.
THEOREM PacketsFit == Spec => []PacketNeverOverflows
<1>1. IInv => PacketNeverOverflows
  BY PacketHasRoom DEF IInv, PacketInv, PacketNeverOverflows
<1>2. QED
  BY <1>1, InvariantHolds, PTL

\* The FIFO's indices stay in order and in its memory, whatever the commands
\* do: every push tests the limit, and the executor never pops a frame that
\* was not pushed.
THEOREM FifoWithinLimitHolds == Spec => []FifoWithinLimit
<1>1. IInv => FifoWithinLimit
  BY LimitsAreNumbers DEF IInv, TypeOK, FifoWithinLimit
<1>2. QED
  BY <1>1, InvariantHolds, PTL

\* However a sequence is split into packets, and whichever of them fail half
\* way, the device executes its operations in order and none of them twice.
THEOREM ExecutedInOrderHolds == Spec => []ExecutedInOrder
<1>1. IInv => ExecutedInOrder
  <2> SUFFICES ASSUME IInv PROVE ExecutedInOrder
    OBVIOUS
  <2>1. Ordered(executed) /\ AllBefore(executed, NextWord) /\ NextWord[1] = rpc
    BY NextWordIs DEF IInv, OrderInv
  <2>2. QED
    BY <2>1 DEF Ordered, AllBefore, ExecutedInOrder
<1>2. QED
  BY <1>1, InvariantHolds, PTL

\* No packet is executed between an AND and its OR: an AND adds nothing to the
\* packet, and was taken when there was room for the whole pair.
THEOREM AndStaysBufferedHolds == Spec => []AndStaysBuffered
<1>1. IInv => AndStaysBuffered
  BY DEF IInv, OrderInv, AndWaits, AndStaysBuffered
<1>2. QED
  BY <1>1, InvariantHolds, PTL

=============================================================================
