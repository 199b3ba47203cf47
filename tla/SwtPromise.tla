----------------------------- MODULE SwtPromise -----------------------------
(***************************************************************************)
(* What the answer "success" of SwtTranslator promises, to which clients,  *)
(* and why: the discipline a client has to keep, and what then ties the    *)
(* deferred commands, the request, the FIFO and the response to the        *)
(* commands taken one by one.                                              *)
(***************************************************************************)
EXTENDS SwtTranslator

\* Every AND is followed by its OR.
AndsArePaired(s) ==
    \A k \in DOMAIN s : s[k].mode = "and" => k < Len(s) /\ s[k + 1].mode = "or"

\* A client resets first, and only then; it reads what an operation answers
\* with the next command, and asks for no empty block.
ReadsAtOnce(s) ==
    /\ \A k \in DOMAIN s : s[k].type = "reset" <=> k = 1
    /\ \A k \in DOMAIN s :
          /\ s[k].mode \in {"read", "sum", "or", "block"} =>
                k < Len(s) /\ s[k + 1].type \in {"read", "readcnt"}
          /\ s[k].mode = "block" => s[k].n > 0

\* No command asks for a block when the packet is full: the failure of that
\* packet would be forgotten.
BlocksHaveRoom == phase = "next" /\ pos <= Len(script) /\ Cmd.mode = "block" => ~Full

-----------------------------------------------------------------------------
(* Nothing is left out.                                                    *)

Going == phase \in {"next", "command", "block"} /\ ~failure

\* Command k has been taken and its operation asked for: an AND waits for its
\* OR, and a block for its first packet.
Due(k) ==
    /\ k < pos
    /\ k = pos - 1 => ~AndWaits /\ (phase = "block" => block.done > 0)

\* The device has executed the operation of command k, or it is in the request.
InHand(k) ==
    \/ \E i \in DOMAIN executed : executed[i][2] = k
    \/ \E t \in DOMAIN request : request[t].asked[2] = k

\* As long as the sequence goes on, nothing it has asked for is missing.  A
\* block is never read after a failure, which it would forget.
AllInHand ==
    /\ phase = "block" =>
          /\ ~failure /\ pos > 1
          /\ script[pos - 1].mode = "block" /\ block.of = script[pos - 1].n
    /\ phase = "command" /\ failure => Cmd.mode # "block"
    /\ phase \in {"next", "command"} => (expectOr <=> pos > 1 /\ script[pos - 1].mode = "and")
    /\ Going => \A k \in DeviceOps : Due(k) => InHand(k)

-----------------------------------------------------------------------------
(* The response is the reference's.                                        *)

\* Command k was not refused: only an OR that has its AND is taken.
Accepted(k) ==
    /\ script[k].type # "invalid"
    /\ script[k].mode = "or" => k > 1 /\ script[k - 1].mode = "and"

\* After command k there is nothing to read.
Settled(k) == k = 0 \/ script[k].mode \in {"none", "write", "unknown"}

\* The commands that have been executed, and those that wait in the buffer.
done == pos - 1 - Len(cmdBuffer)
Deferred == done + 1 .. pos - 1

\* Nothing has been done.
NotYet ==
    /\ pos = 1 /\ script # <<>> /\ ~execOnRead
    /\ cmdBuffer = <<>> /\ request = <<>> /\ reqSize = 1 /\ response = <<>>

\* The buffer holds the last commands; no block is among them.
BufferFollows ==
    /\ done >= 0
    /\ \A i \in DOMAIN cmdBuffer : cmdBuffer[i] = done + i /\ script[done + i].mode # "block"

\* Each frame of the FIFO was prepared by one of them, in their order.
Prepared(k) == script[k].mode \in {"read", "sum", "and"} /\ ~(AndWaits /\ k = pos - 1)
FramesWait ==
    /\ \A i \in DOMAIN buf : \E k \in Deferred : Prepared(k) /\ buf[i] = Frame(k, 1, NoValue)
    /\ \A k \in Deferred : Prepared(k) => \E i \in DOMAIN buf : buf[i].asked[2] = k
    /\ \A i, j \in DOMAIN buf : i < j => buf[i].asked[2] < buf[j].asked[2]

\* Each frame is the place of a transaction that asks for what it asks for.
SlotsOfFrames ==
    /\ \A i \in DOMAIN buf : \E t \in DOMAIN request : request[t].slot = i
    /\ \A t \in DOMAIN request : request[t].slot # 0 =>
          request[t].slot <= Len(buf) /\ request[t].asked = buf[request[t].slot].asked

\* Commands wait for their transactions, and have nothing to read from before.
Waiting ==
    /\ pos > 1 /\ ~execOnRead /\ front = 0
    /\ response = RefAfter[done].resp /\ Settled(done)
    /\ BufferFollows /\ FramesWait /\ SlotsOfFrames

\* The last command was executed, and its frames have not been read.
Holding ==
    /\ pos > 1 /\ script[pos - 1].mode \in {"read", "sum", "or", "block"}
    /\ cmdBuffer = <<>> /\ request = <<>> /\ reqSize = 1
    /\ response = RefAfter[pos - 1].resp
    /\ SubSeq(buf, front + 1, Len(buf)) = RefAfter[pos - 1].fifo

\* A read counts on an answer that was executed before it: the executor will
\* find nothing and throw.
Doomed == ~execOnRead /\ cmdBuffer # <<>> /\ script[cmdBuffer[1]].type \in {"read", "readcnt"}

\* A block is being read.
Reading ==
    /\ cmdBuffer = <<>> /\ request = <<>> /\ reqSize = 1 /\ front = 0
    /\ response = RefAfter[pos - 1].resp
    /\ block.done <= block.of /\ Len(buf) = block.done
    /\ \A j \in DOMAIN buf : buf[j] = Frame(pos - 1, j, Word(pos - 1, j))

\* As long as the sequence goes on, the response is the reference's after the
\* commands that have been executed, and the FIFO what the others need.
KeepsUp ==
    /\ Going => \A k \in 1 .. pos - 1 : Accepted(k)
    /\ Going /\ phase # "block" => NotYet \/ Waiting \/ Holding \/ Doomed
    /\ Going /\ phase = "block" => Reading

\* What makes both promises hold: the operations asked for are in hand, and the
\* response, the FIFO and the buffer are where the reference says, at every
\* step of a sequence that goes on, for clients that keep the discipline and
\* ask for no block when the packet is full.
PromiseInv == BlocksHaveRoom /\ AllInHand /\ KeepsUp

=============================================================================
