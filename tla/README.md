# A TLA+ development of ALFIPbus

ALFIPbus serves the FIT detectors of ALICE: a client (FRED) sends a *sequence*
of CRU commands by a DIM RPC, the server translates it into IPbus transactions,
exchanges IPbus packets with a device over UDP and answers with the words the
commands asked for. These modules model what is hard to test in that program:
the threads that share one link, the links that share one `io_context`, the
packets master and slave must read alike, the deferred execution of a sequence,
the text of a request, and the server's start and end.

Contents: 1 the system, 2 the modules, 3 the runs, 4 the proofs, 5 findings,
6 what is not modelled, 7 the plan. Paths are relative to `src/`; `M:` is
`src/IPbus/IPbusMaster.cxx`, `L:` is `src/IpbusSWT/SwtLink.cxx`.

## 1. The system

| component | state | operations | interacts with |
|---|---|---|---|
| `AlfIPbus`, `main` | `s_running`, the links | construct, `startServer`, `mainLoop`, `stop` on SIGINT | constructs and terminates links |
| `SwtLink` | `m_terminate`, the request, the response, the command buffer, the FIFO, the text of the answer | `rpcHandler`, `processRequest`, `parseSequence`, `executeTransactions`, `readBlock`, `runStatusThread`, `terminate` | is a `DimRpcParallel` (called by DIM) and an `IPbusMaster`; detaches status threads |
| `IPbusMaster` | socket, timer, `m_linkMutex`, `m_receiveStatus`, `m_isAvailable`, `m_isStatusCheckInProgress` | `checkStatus`, `transceive`, `receive`, `reopen`, two handlers | the device, by UDP; the `io_context` |
| `CruCommandSequence` | the text and a position in it | `getNextCmd`, `isNextCmd` | read by `parseSequence` |
| `CruCommandBuffer`, `SwtFifo`, `CruCommandExecutor` | deferred commands; response frames (`m_currentBack`, `m_currentFront`); none | `push`, `reset`; `push`, `prepareResponseFrame`, `pop`, `clear`; `execute` | filled by `parseSequence`, the frames completed by `processResponse` |
| `IPbusRequest`, `IPbusResponse` | packet buffer, sizes, output pointers | `addTransaction`, `reset`, `setSize` | sent and parsed by the master |
| `IPbusSlave`, `Memory` | registers | `start`, `handleRequest`, `processRequest` | a device emulated for tests |
| `Swt`, `utils` | a frame | text to frame and back | the parser, the executor |
| `AlfConfig`, `AlfInfo`, `logging` | configuration | read at start | `AlfIPbus` |

How they work together. `AlfIPbus` constructs one `SwtLink` per configured
link on one `io_context`; the constructor checks the device and starts a status
thread. DIM calls `rpcHandler` from a thread of its own, one call at a time for
a service. An RPC resets the link's state, parses the sequence, and each time a
packet is full, a block read is met or the sequence ends, `transceive`s the
request under `m_linkMutex` and executes the commands that have been waiting
for it. A timeout makes the link unavailable; an RPC that ends with the link
unavailable starts a status thread, which repeats `checkStatus` until the
device answers or the link is terminated.

What is hard, and what would make each part correct:

* **The link.** Threads meet on flags that are read without the mutex
  (`M:165`, `L:15`, `L:18`), all packets have ID 0, and two asynchronous
  operations are started and drained in each `receive()`. Correct means: a
  reply is never taken for the answer to another request; nothing is pending
  when `receive()` returns; the mutex is released on every path; a link that is
  down always has somebody to bring it up again, and does come up; RPCs are
  answered; threads end.
* **The translation.** Frames, commands and transactions advance at different
  speeds: a frame enters the FIFO before its word is known, a command is
  executed after its transaction, against an *emulated* FIFO size; a packet
  split, a block read, a failure or an exception may fall anywhere between.
  Correct means: the packet and the FIFO stay in their buffers; the device
  executes operations in order and never twice; an answer `success` means what
  it says and carries the words the commands would have given one by one.
* **Packets.** Nothing in a packet marks where a transaction begins; two
  writers and two readers count words by four pieces of code. Correct means:
  they agree, stay in their buffers, a success was carried out in order, and a
  failure has delivered nothing wrong before the transaction that failed.
* **The `io_context`.** All links run their handlers on it, and each drains,
  stops and restarts it as if it were alone. Correct means: nothing is left
  over, nobody is left waiting on a context that is stopped or restarted.
* **Text.** Lines, arguments and frames are cut by positions. Correct means:
  every line is taken for what it says, and a frame survives the round trip.
* **The server's life cycle.** A signal during construction, and detached
  threads that outlive the links.

`PROJECT.json` lists the hazards one by one at the lines where they bite, with
the properties that cover each, or the reason why none does.

## 2. The modules

### IPbusLink: one link and its threads

`IPbusMaster.cxx:11-241` and the thread control of `SwtLink.cxx:13-41`.
A thread is `Main` (constructor, then the main loop), `Rpc` (the DIM thread) or
a slot `s` of `StatusThread` (a detached thread; `"idle"` when not running).
`pc[t]` says where it is:

| `pc` | code |
|---|---|
| `chkLock` ... `chkUnlock` | `checkStatus`: lock, `reopen`, `m_isAvailable = false`, `send_to`, (receive), the judgement of the reply, the flag, unlock |
| `run`, `drain`, `judge` | inside `receive()`: the `run_one` loop, the drain loop; then back in the caller |
| `txTest` ... `txUnlock` | `transceive`: the unlocked test, lock, `send_to`, (receive, perhaps twice), unlock |
| `final`, `spawn` | the end of `rpcHandler`, `runStatusThread` |
| `loop` | the condition of the status thread's loop |

`isAvailable`, `checkInProgress`, `terminate`, `linkMutex`, `receiveStatus` are
the variables of the code. `received` stands for `m_receivedSize`, `m_error`
and the buffer. `recvOp` and `timerOp` are the two asynchronous operations,
external to the program: armed by `receive()`, made ready by the environment or
a cancellation, executed by a thread inside `run_one()`. `net` holds the
datagrams between the socket's current port and the device; `reopen()` gives
the socket a new ephemeral port, so `CheckReopen` empties it. The field
`fresh` of a datagram is a ghost: no later request has been sent. No action
tests it, with one exception that is an assumption on the environment: once the
network has healed, an answer to the latest request beats the timeout.

The drain loop of `receive()` is one step here, `ReceiveReturn`, taken when
`run_one()` returns 0 (`RunOneReturnsZero`: both operations are done). That this
is when it does, and that nothing is then left over, is not shown here but in
`IoContext`, where the loop goes step by step. A receive may also end with an
error and no bytes (`RequestBounces`): it counts as received, its use gives up,
and the link stays available.

Steps are as fine as the shared state makes them observable: a test of an
unlocked flag, a lock, a send, a handler, an unlock are separate actions.

What is assumed of the outside: the network loses, delays and reorders
datagrams but does not duplicate them; a receive ends with an error only when
nobody took the request (a port reported unreachable), not while a reply is under
way, and not once the network has healed; only the device sends to the port; DIM
calls the handler from one thread; `reopen()` succeeds; a `bool` is read and
written whole (the calls of pthread and asio between the accesses keep the
compiler from caching it). With duplication `FreshAnswer` would fail, since the
packets carry no identifier.

The contents of an RPC are abstracted to the number of transceives it makes
and whether it goes on after each.

### LinkService: what a link promises

An abstract link without threads, operations or datagrams: it is up or down,
and one user at a time makes an exchange or a check. A use gets the answer to
its own request, or a timeout that takes the link down in the same step, or
gives up; only a check with its answer takes the link up. `IPbusLink`
implements it: `Service` instantiates it with `up <- isAvailable`, and the user
and the outcome read off the holder of the mutex, its place and the receive
status. An answer to another request would be the outcome `"stale"`, which the
abstract link does not have. `SwtTranslator` relies on this and no more: a
transceive succeeds or fails.

### IoContext: the links on one io_context

`M:49-122`, the loops of `receive()` around `run_one()` and `restart()`, for
any number of links and threads. `armed` are the operations that wait, `ready`
counts the queued handlers of each kind and link, `stopped` is the context's
state. `run_one()` is external and modelled as boost's scheduler does it: it
returns 0 when the context is stopped, executes any ready handler of any link
otherwise, and stops the context in a step of its own when the last
outstanding work is done. A handler that is left over is counted, so that one
of an earlier `receive()` can be taken for the next one's. `linkOf` is chosen
once: which thread works on which link.

### IPbusTransactions: the packets

`IPbusRequest::addTransaction`, `IPbusSlave::handleRequest` with
`IPbusResponse` and the memory, and `IPbusMaster::processResponse`, word by
word, one exchange after another on the same buffers. A word is a record that
says what it was written as (packet header, transaction header, address, data),
so a reader out of step meets the wrong kind. A register holds
`<<exchange, transaction, position>>`, the word last written to it. The
response buffer keeps what an earlier, longer reply left in it. `seen` is a
ghost: the registers before each transaction. The value that a read-modify-write
computes from its masks is abstracted to the first mask's word; which register it
reaches, what it returns and when it takes effect are not.

What may be added is what `SwtLink` asks for (`Offered`): transactions of one
word while `isIPbusPacketFull()` says no, or the one or two parts of a block
that `readBlock` puts into a packet. `Add` has both tests of `addTransaction` as
they are in the code: the first (`Exceeds`) counts neither the address nor the
second mask and leaves a transaction out without a word, the second throws when
the words have been written. That `Offered` keeps away from both is a property.

| action | code |
|---|---|
| `Add`, `Transceive` | `addTransaction`, left out and thrown included; `transceive` |
| `SlaveReceive`, `SlaveRead`, `SlaveWrite`, `SlaveRmw`, `SlaveSend` | `handleRequest`, one transaction a step |
| `ParseTransaction`, `ParseEnd` | `processResponse`: a mismatch (`ParseMismatch`, which no reply of this slave is), or copied and judged by the info code (`ParseAnswer`); done |

### CruText: the text of a request

`CruCommandSequence`, the constructor and printing of `Swt`, and the digits of
`utils`. A text is a sequence of tokens: comma, newline, the name of a command,
a decimal number, the 21 characters of a frame, or anything else. `GetNextCmd`
finds the line and its last comma, as the code's loop does, and takes what is
before it for the argument; an exception leaves the position where it was. An
argument that `std::from_chars` does not convert but that passes the test of
its end leaves the number uninitialized: any number. Frames are their
hexadecimal digits, lower case apart from upper case. That a text is a sequence
of such tokens is the assumption `TextsAreTokens`; which texts there are is a
constant. `Lines` cuts the text at its newlines without looking at the parser,
and `Means` says what a line may stand for: the grammar the parser is held
against.

### AlfServer: start and end

`main()`, `AlfIPbus`, and what they see of the links: `initLinks` constructs
them one by one, each with a check by `main()` itself and then a status thread;
SIGINT may come at any moment; `mainLoop` terminates the links and `main()`
returns, which ends the process and its detached threads. A check is a step in
and a step out, with any result; `IPbusLink` has its inside.

### SwtTranslator: one RPC after another

`SwtLink.cxx:43-271`, `CruCommandExecutor.cxx`, `CruCommandBuffer.h`,
`SwtFifo.h`, `IPbusRequest.cxx`. The link is abstracted to its result: a
`transceive` succeeds, or fails after the device has been made to carry out any
number of the packet's transactions (it may refuse some: `IPbusSlave` goes on
after an error) and the master has copied the data of any smaller number of
them; the one it stops at may leave words in its frame that are no answer,
since `processResponse` copies before it looks at the info code.
`IPbusLink` decides *when* it fails, this module what then happens. The word
`j` that command `k` of RPC `r` asks for is `<<r, k, j>>`, so a word that turns
up in the wrong place, or in a later RPC, is recognised.

| action | code |
|---|---|
| `SendRpc` | `rpcHandler`, `resetState`, the empty request (`L:28-49`, `L:66`) |
| `Flush`, `NoFlush` | the head of the loop (`L:111-113`) |
| `ScReset`, `Wait`, `ReadThrows`, `ReadNow`, `ReadLater` | the commands, with and without immediate execution |
| `WriteRead`, `WriteWrite`, `WriteAnd`, `WriteOr`, `WriteBlock`, ... | the frames by transaction type |
| `WriteOverflows`, `WriteOrThrows`, `BadCommand` | the exceptions |
| `BlockPacket`, `BlockFails`, `BlockDone` | one packet of `readBlock`, or its end |
| `Finish`, `GiveUp` | the last packet and the answer; a failure or a caught exception |

`Execute` is `CruCommandExecutor::execute` as a fold over the buffered commands
(one step of the code's thread: nothing else touches the data). `Transceived`
and `TransceiveFails` are `executeTransactions`. `buf` holds the frames up to
`m_currentBack` and `front` is `m_currentFront`, so a slot of the FIFO keeps its
index as a pointer into it does in the code. `Reference` at the end of the
module is the abstract meaning of a sequence: commands take effect one by one
on a FIFO that has every word at once.

The executor's exception leaves the request as it is, as in the code: it is
the next RPC's `resetState` that clears it.

Text is not modelled: a text that the parser rejects is an `invalid` command,
and a frame is its transaction type, its word count and an address.

### SwtPromise: what `success` promises, and to whom

The discipline of a client, as predicates on a sequence: `AndsArePaired` (an AND
is followed by its OR) and `ReadsAtOnce` (`sc_reset` first and only there, the
answer of an operation read by the next command, no empty block). And the
invariant that makes the promise good, `PromiseInv`, in two parts. `AllInHand`:
whatever the sequence has asked for so far has been executed or is in the
request. `KeepsUp`: the sequence is at one of five stages. Nothing has been done
(`NotYet`); commands wait in the buffer for their transactions, the frames of
the FIFO are theirs, in their order, each the target of its transaction
(`Waiting`); the last command was executed with its packet, and the FIFO holds
what the next `read` will take (`Holding`); a block is being read (`Reading`);
or a read waits behind an answer that was executed before it, and the executor
will throw (`Doomed`). At each stage the response is the reference's, after the
commands executed so far.

### Others

`MCSwtTranslator`, `MCIPbusTransactions` and `MCCruText` define the sequences,
the transactions and the texts for TLC; the other modules are checked as they
are. `IPbusLinkProofs`, `IoContextProofs`, `IPbusTransactionsProofs`,
`SwtTranslatorProofs`, `SwtPromiseProofs`, `CruTextProofs` and `AlfServerProofs`
hold the theorems, `Induction` the four lemmas about natural numbers that the
recursive definitions of three of them need. Definitions
whose comment begins with *Mutant* are wrong on purpose: each states a
plausible mistake beside the action it spoils, and is used by no specification;
the list `mutants` of `PROJECT.json` says which property each one breaks.

## 3. The runs

| run | asks | bounds | states |
|---|---|---|---|
| `link` | the safety of a link, its refinement of `LinkService`, answers, recovery, end of threads | 3 status threads, 2 transceives per RPC | 91 thousand |
| `io_links` | what the loops over `run_one()` leave behind | 3 threads, on one link or spread over two | 280 thousand |
| `packets` | the agreement of master and slave | 14 transactions, up to 3 in a packet of 10 words, 2 exchanges, 4 registers | 170 thousand |
| `swt_any` | buffers, order, an answer, for any sequence, and what it leaves for a second RPC | all sequences of up to 4 of 15 commands, and those of 5 that overflow the buffer, packet of 10 words, FIFO of 8, buffer of 4 | 520 thousand |
| `swt_paired` | the meaning of `success`, and why it holds | reset first, each operation read at once, 2 RPCs | 59 thousand |
| `cru_text` | the position, the parser against the grammar, frames there and back | every text of 4 tokens, three lines, frames of 7 digits | 42 thousand |
| `server` | start, signals, what is left running | 2 links, 2 status threads each, 2 signals | 28 thousand |
| `link_toctou`, `swt_lost_failure`, `swt_batch`, `io_deadlock`, `cru_argument` | *violations* (section 5) | | |

**Properties of the link.** `FreshAnswer`: a reply that `transceive` accepts
answers the very request it sent. `RecoveryPending`: a link that is down has
somebody on the way to bring it up. `OnlyAFreshStatusRaises`: only the holder
of a status check, on a reply to its own request, makes the link available.
`ImplementsService`: the link is a `LinkService`; a timeout that does not take
the link down at once, for instance, is no step of it.
`RpcAnswered`, `LinkRecovers`, `StatusThreadsEnd`, `UseEnds` (every exchange and
every check ends, on a dead device too) under fairness. `IInv` is the
inductive invariant of section 4; wherever a run checks one, it has been checked
before it was proved. It contains the type invariant of its module.

**Properties of the translation.** `PacketNeverOverflows`: the size test of
`addTransaction` counts neither the address nor the second mask, so only the
padding of `isIPbusPacketFull` keeps a read-modify-write in its buffer.
`FifoWithinLimit`: the FIFO is not circular, and its indices stay in range
although frames are prepared, pushed and popped at different times.
`ExecutedInOrder`: over all packets of an RPC, failed ones included, operations
reach the device in order and at most once. `AndStaysBuffered`: no packet is
executed between the AND and the OR of a read-modify-write, so that
`m_cmdBuffer(1)` is that AND. `RpcReplied`.
`SuccessMeansExecuted` and `SuccessMatchesReference`: the promise of the
answer, for a client that begins with `sc_reset`, reads each operation's answer
at once and asks for a block while the packet has room. `PromiseInv`: why it is
kept (section 4); that the sequences of the run keep the discipline of the
theorems is the assumption `PairedIsDisciplined`, which TLC evaluates.

**Properties of the packets.** `SlaveInStep`, `MasterInStep`: each reader takes
for a header what was written as that very header. `EveryOfferIsTaken`: nothing that
`SwtLink` asks for is left out of the packet or throws; a block fills the reply to
its last word. `WithinBuffers`: request,
reply and what `processResponse` copies by the word count of an answer, of a
failed transaction too, stay within the packet buffer.
`SuccessMeansDone`: a success was carried out to the last transaction, in order,
on the registers as they were left, and each answer is its own.
`RightUpToFailure`: what was delivered before the failing transaction is right,
nothing behind it is touched, and if it has itself left words in its place the
slave had refused it: exactly what `SwtTranslator` allows a failing transceive
(`Filled(p)`, or `Spoilt(p)` when the device has gone past `p`).
`RefusedForAReason`: a reply that arrives is refused only if the slave refused a
transaction. `ExchangeEnds`.

**Properties of the `io_context`.** With one link: `QuietOutsideReceive` (no
asynchronous operation outlives the `receive()` that started it, and none of its
handlers is left to the next one), `RestartWakesAll` (no thread is inside `run_one()` when the stop is taken away)
and `ReceiveReturns`. With any number: `StoppedIsRestarted`.

**Properties of the text.** `IInv`: `m_position` is where a line begins, or behind
the last one, and one command stands for each line before it. `FollowsGrammar`: the commands are what the lines
say, each once and in order, and an exception comes exactly at the first line
that says nothing. `PrintedIsParsed`: a frame comes back as it was written, but
for the case of its letters and its first digit.

**Properties of the server.** `StopIsKept`: a SIGINT after `startServer()` began
ends the process. `StopIsFinal`: nothing sets `s_running` again after it, and
`main()` goes nowhere but to its end. `ServerStarts`: a dead device delays the start by one check,
unless that check itself never ends. `OneMoreCheckAtMost`: what terminate()
leaves running is at most one check of a thread that had decided on it.

**Why the bounds are enough.** *Link*: the threads interact through the mutex,
two flags and one pair of operations; two queued status threads beside the
one that checks show every interference on them, and two transceives show a late
reply of the first during the second. Slots bound how many status threads exist
at once: `SlotToSpare` delays an RPC that might need one more, it does not stop
a thread. The datagram in the network is bounded by the code itself (one per
type, `UniqueInv`). *Translation*: the constants shrink together. In `swt_any` a
packet is full after two or three transactions, so that requests of several
operations fail after any prefix, an operation is added behind others, and
`sc_reset` meets reads that are still pending; the FIFO and the buffer overflow,
and a block needs two packets; four commands reach every pair of branches around
a split. In the other `swt_*` runs, whose packets have 9 words, it is full after
one or two transactions, and sequences are longer. Two RPCs suffice for what is carried over, as the state
carried (FIFO, request, buffer) is that of one RPC's end.
*Packets*: single transactions of every type come before and after every other,
up to three in a packet and refused or not; a block has one part or two, of which
each may be refused; a second exchange meets the buffers of a longer first one. *Context*:
one thread in each loop of `receive()` on each side, and one more. *Text*: a
line has at most three parts, so four tokens hold every line and what breaks
it; two hexadecimal digits in an address show the order of nibbles and bytes.
*Server*: two links show their order, two slots the thread of the constructor
and one that an RPC starts.

**Fairness.** Weak fairness of each thread: the operating system schedules it.
Weak fairness of the arrival of a datagram, of the timer and of the device: the
clock runs, and a datagram that is neither lost nor too late arrives. Loss is
possible until the network heals; that it heals is the hypothesis of
`RpcAnswered` and `LinkRecovers`, never an assumption of fairness, and
`StatusThreadsEnd` does without it. Nothing is assumed of the mutex beyond its
availability: a thread may be overtaken at it. `RpcAnswered` has a second
hypothesis, `RacesAreOpen`: on a working device two status threads can keep each
other going, each taking the link down for its check before the other has seen
it up, and an RPC waits behind them; nothing in the code ends that but chance,
so no thread is taken to lose this race for ever. In `IoContext` threads run and
timers expire; a datagram may never come. In `IPbusTransactions` the slave and
`processResponse` run, and a slave that does not answer meets a timeout. In
`AlfServer` only `main()` is taken to run, and a check may last for ever. In `SwtTranslator`, the handler
runs (`WF_vars(Step)`); clients call when they like. No fairness is assumed of
`RpcStart`, `Terminate` or `SendRpc`.

**Deadlock** is checked in the runs of the link and the `io_context`. In the
`swt_*` runs clients stop after `MaxRpc` calls, in `packets` after
`MaxExchanges`, in `cru_text` the request ends and in `server` the process
does, so it is off there; `RpcReplied`, `ExchangeEnds` and `StopIsKept` say that
nothing is stuck.

## 4. The proofs

*For every number of status threads and of transceives* (`IPbusLinkProofs`,
assuming only that the threads and markers are distinct values and that
`MaxTransceive` is a natural number):

* `InvariantHolds`: `Spec => []IInv`;
* `TypeCorrect`, `FreshAnswerHolds`, `RecoveryPendingHolds`: its consequences;
* `OnlyAFreshStatusRaisesHolds`: the action property, from the same invariant.

The argument. None of the properties is inductive. `FreshAnswer` needs to know
which datagrams may still be about when a control request is sent
(`ControlInv`): while the link is available and the RPC is not receiving, none
of type control, since the answer to the last request has been consumed, or a
timeout has made the link unavailable, in which case `txLock` cannot have been
reached. But the flag is tested outside the mutex: an RPC past the test may
meet a link that was taken down. It can only have been taken down by a status
check, and that reopened the socket first, so what is about is of the new port
and of type status: `CheckInv`. At most one datagram of a type exists at a time
(`UniqueInv`), so putting a status reply aside once is enough (`AgainInv`). A
receive that ends with an error leaves the link available, but it took the place
of the only answer: no datagram of type control is then left (`BounceInv`).
`RecoveryPending` rests on `InProgressInv`: while the flag of a check in
progress is set there is a checking thread that will return to its loop and
look at `m_isAvailable` again. All of it rests on `MutexInv` (the mutex is held
exactly in the critical sections), `AsyncInv` (what the two handlers may
have done at each point of `receive()`) and `QuietInv` (outside it no operation is
outstanding). One lemma per action shows that it
keeps `IInv`, with a step per conjunct the action can disturb; `NextKeeps`
collects them.

`ImplementsServiceHolds`: `Spec => ImplementsService`, from `IInv`, of which
`DownInv` is needed here (from its beginning to its judgement a check keeps the
link down, which is why a check without an answer may conclude with the link
as it is). One lemma per group of actions shows which abstract step each
takes; most are stutters, since the mutex hides them.

*For every packet size of at least 6 words, every limit and every set of sequences*
(`SwtTranslatorProofs`; a smaller packet would count as full with nothing in it,
the program's has 368 words):

* `InvariantHolds`: `Spec => []IInv`, where `IInv` is the type invariant,
  `PacketInv` (request and reply fit the packet; between commands the reply is no
  longer than the request, and at a command four words are free) and `OrderInv`;
* `PacketsFit`, `FifoWithinLimitHolds`, `ExecutedInOrderHolds`,
  `AndStaysBufferedHolds`: its consequences;
* `BlockPacketsFit`: `readBlock`'s partition of a block makes packets that fit,
  with transaction sizes that fit their eight-bit field for packets of up to
  513 words.

The argument. That operations are executed in order says nothing of those that
wait in the packet, so `OrderInv` orders three groups: what was executed, what
waits in `request`, and `NextWord`, the next operation the sequence may ask for.
A transceive that fails half way executes a prefix of the second group, a
success all of it, and the second group is then empty or will never be sent:
either way the groups stay apart. An AND waits with the packet not full, which
is why the head of the loop cannot execute it alone. `FifoWithinLimit` lies in
the types, but the executor works off the whole buffer in one step: that each
of its commands keeps the FIFO's indices in range is carried along the fold by
induction. The library's induction theorems take an operator as parameter,
which the provers cannot instantiate; `Induction` states induction over a *set*
of numbers, proved from the well-foundedness of inclusion of finite sets, and
the fold is unrolled into a function on `0 .. n` to which it applies.

*For every such size, and every set of sequences that keep the discipline of
`SwtPromise`* (`SwtPromiseProofs`):

* `SuccessMeansExecutedHolds`: if every AND has its OR,
  `Spec /\ []BlocksHaveRoom => []SuccessMeansExecuted`;
* `SuccessMatchesReferenceHolds`, `PromiseInvHolds`: if the client also resets
  first and reads at once, the same for `SuccessMatchesReference` and
  `PromiseInv`;
* `PromisesWithoutBlocks`: for sequences without blocks the two promises hold of
  `Spec` alone.

The hypotheses are there because the program needs them. `BlocksHaveRoom` keeps
off the lost failure of finding 2, `ReadsAtOnce` the split of finding 3: those runs
violate the properties with sequences that break these hypotheses. Without
`AndsArePaired` a sequence may end in an AND, which is dropped (section 5).
`BlocksHaveRoom` is a condition on a behaviour and not on a sequence, as it
depends on how far the packet was filled; `swt_paired` keeps it, and so does a
client without blocks.

The argument. For the first promise it is enough that nothing is lost
(`AllInHand`): a transaction leaves the request only by a packet that succeeded,
in which it was executed, or by one that failed, after which the answer is a
failure, unless a block read overwrites it. The second compares two folds over
the sequence. `Reference` has every word at once; the executor runs
over the commands of a packet with frames that were prepared before and a size
it only emulates. `RefCommandIs` and `ReferenceUnread` say what the
reference leaves to read after each command: by the discipline, the answer of
that command and nothing else. `FilledComplete` says that a successful packet has
completed the frames of the waiting commands: the frames of the FIFO, the slots
of the transactions and the commands of the buffer are in the same order
(`FramesWait`, `SlotsOfFrames`, `BufferFollows`). `ExecutionTracks` then goes
through the buffer by induction: after each command the executor has the
reference's response, the emulated size is what that command leaves to read, and
the front is at its frame (`Tracks`), so a read pops that frame and no other. A
packet split is only a `Waiting` that ends: with nothing left to read the FIFO is
empty again, which is when the code reuses its memory, and with an answer left
the stage is `Holding`, where the next command must be its read. `Doomed` is
needed because `read_multiple` has no branch for that case (`L:146-149`): it is
deferred, finds an emulated size of 0, and the RPC is answered `failure`.

*For every set of transactions, size of packet and of memory*
(`IPbusTransactionsProofs`, assuming that a transaction has words, that a
read-modify-write has one and that a packet has at least 6 words):

* `InvariantHolds`: `Spec => []IInv`, with the types;
* `SlaveInStepHolds`, `MasterInStepHolds`, `EveryOfferIsTakenHolds`,
  `WithinBuffersHolds`, `SuccessMeansDoneHolds`, `RightUpToFailureHolds`, `RefusedForAReasonHolds`.

The argument. The position of a header is a sum over the transactions before
it, but no proof needs the sum: `RequestLaid` and `ReplyLaid` say of *every*
header in a buffer that behind it, past the words that belong to it, the next
header begins or the buffer ends. A reader at a header (`SlaveAtHeader`,
`MasterAtHeader`) that steps over as many words as the writer wrote is at the
next. `CarriedOut` and `RightUpToFailure` carry the registers and the answers
from one transaction to the next. `WithinBuffers` needs a budget besides
(`Counted`): `addTransaction` counted the reply at full length, and each
transaction already read used no more than its share, so what the answer to a
refused one makes the master copy still fits, although the reply is shorter. That
every offer is taken (`OfferFits`) has two reasons. Of single transactions the
reply is no longer than the request (`SinglesPadded`), so the padding, which is
tested on the request, covers both; of a block the request is three words when
the second part comes, and the payload was chosen so that the reply just fits.

*For every text, every number of digits and every `UintMax`* (`CruTextProofs`,
assuming that a text is a sequence of tokens):

* `InvariantHolds`: `Spec => []IInv`; `TypeCorrect`;
* `FollowsGrammarHolds`, `PrintedIsParsedHolds`.

The argument. The ends of lines are numbered by how many come before them, and
`PositionInv` says that `m_position` is behind the end whose number is that of
the commands returned; that the numbering has no gap and that the end found by
`getNextCmd` has the next number is shown with `Induction`'s lemmas. A line is then compared with the grammar case by case. `PrintedIsParsed` follows
the value of the first `k` digits through parsing and the number shifted by `k`
digits through printing.

*For every number of links and threads* (`IoContextProofs`):

* `TypeCorrect`, with `RoomInv` (an operation that waits still has room among the
  handlers), and `StoppedIsRestartedHolds`: the thread that stops the context is
  itself still in `receive()`, and a thread leaves only by `restart()`;
* `QuietHolds`, `RestartWakesAllHolds`, for one link: by `MutexInv` there is one
  thread in `receive()`, and by `ZeroInv` a 0 from `run_one()` means that no
  work is left. The number of links is a hypothesis (`OneLinkInUse`), because with two
  both fail.

*For every number of links, status threads and signals* (`AlfServerProofs`):
`TypeCorrect`, `OneMoreCheckHolds`, and `StopIsFinalHolds`, the safety half of
`StopIsKept`.

*Model-checked only*: liveness (`RpcAnswered`, `LinkRecovers`, `StatusThreadsEnd`,
`UseEnds`, `ReceiveReturns`, `RpcReplied`, `ExchangeEnds`, `StopIsKept`,
`ServerStarts`), outside the prover's reach.

## 5. Findings

1. `link_toctou`: `transceive()` refuses a request when the device "is not
   available" (`M:166`), but tests the flag before it takes the mutex. A status
   thread that holds the mutex may take the link down in between and the
   request is sent to a device just found dead. Harmless to the data
   (`FreshAnswer` holds), it costs a timeout.
2. `swt_lost_failure`: the result of the full packet at the head of the loop
   (`L:112`) is overwritten by the branch of the block read (`L:194`). The
   RPC goes on and answers `success` although operations of it were never executed.
3. `swt_batch`: several operations before one `read`. If the packet is split
   between them, the executor begins the second packet with an emulated FIFO
   size of 0. The read then pops only as many frames as were asked for since
   the split, and pops the oldest ones: words are missing from an answer
   `success`, and they stay in the FIFO for a later read.

4. `io_deadlock`: with two links, a thread in its drain loop may execute the
   last handler of the other link just after that link's thread has tested its
   status and before it is inside `run_one()` again (`M:66-72`). That thread
   then waits with its receive never cancelled, the work never ends, and
   neither `receive()` returns, both mutexes held. The `ReadMe` offers several
   links. With two links a stop that is seen late also leaves a timer handler to
   the next `receive()`, which takes it for its own timeout (`M:107-115` ignores
   the error code).
5. `cru_argument`: `,read_multiple` and a number above 2^32 - 1 are accepted and
   leave the count uninitialized, although the code refuses an invalid argument.

Observed without a run of its own: two status threads can go on for ever on a
working device (`RacesAreOpen`, section 3); an AND without its OR is an error
(`L:210`), but the branch of the AND leaves the loop's body by `continue`
(`L:173`), past that test, and nothing tests for it after the loop, so a sequence
that ends in an AND, or has two in a row, is answered `success` and acknowledged
while its read-modify-write is never sent; the first digit of a frame, the SWT
ID of the `ReadMe`, is not looked at and is 0 in every response
(`PrintedIsParsed` leaves it out); a SIGINT during `initLinks` is forgotten; every
exit destroys the `io_context` before the sockets and timers that use it.

## 6. What is not modelled

* DIM, boost::asio and pthread themselves: modelled from how the code uses them.
* A network that duplicates datagrams; other senders to the port.
* Of `IPbusSlave`: the configuration space and transactions with a bad header,
  which no code of the repository sends, and its answer to a status request
  (the device of `IPbusLink`). `Memory` is a range of registers. Transactions
  of no words, which `IPbusRequest` lets through and `SwtLink` asks for only in
  an empty block, which it does not send.
* Exceptions inside `receive()` (`M:78-87`), and any error of a receive but the
  one of `RequestBounces`.
* A read-modify-write without an output pointer, which `processResponse` would not
  step over (`M:285`): `SwtLink` always passes one.
* `IPbusRequest::isStatusRequest` and other questions that change no state.
* `AlfConfig` (options read once, before anything runs), `AlfInfo` (sends a file
  on request), logging: no state that changes.
* What happens to a thread, or to a socket, when what it uses is destroyed at
  the end of `main()`: undefined behaviour, listed under the hazards.
* Durations: a timeout is something that may happen; `setTimeout` changes nothing.

## 7. Plan

Done: all modules of section 2, and the theorems of section 4; every invariant
that a run checks is stated by a theorem. Left: a refinement between
`IPbusTransactions` and the transceives of `SwtTranslator` as TLA+ formulas; so far
`RightUpToFailureHolds` and `SuccessMeansDoneHolds` prove on the one side what the
other side assumes, and that the two say the same is an argument in words.
