------------------------------ MODULE IPbusLink ------------------------------
(***************************************************************************)
(* One IPbus link of ALFIPbus: ipbus::IPbusMaster with the thread control  *)
(* of fit_swt::SwtLink.  The threads that share a link are                 *)
(*   Main     constructs the link: a status check, then a status thread;   *)
(*   Rpc      the DIM thread that runs SwtLink::rpcHandler;                *)
(*   s \in StatusThread   the detached threads of runStatusThread.         *)
(* They meet on two unlocked flags (m_isAvailable and                      *)
(* m_isStatusCheckInProgress), on m_linkMutex and on the pair of           *)
(* asynchronous operations, receive and deadline timer, of one io_context. *)
(*                                                                         *)
(* The packet ID of every request is 0, so nothing in a reply says which   *)
(* request it answers.  A datagram is therefore only its type, its         *)
(* direction and the ghost field "fresh": no request was sent after the    *)
(* one this datagram is, or answers.  The program never reads it.          *)
(***************************************************************************)
EXTENDS Naturals

CONSTANTS
    StatusThread,    \* slots for the threads runStatusThread detaches
    Main, Rpc,       \* the two threads that always exist
    NoThread,        \* linkMutex when nobody holds it
    NoData,          \* a receive that brought nothing (size 0), or an error
    MaxTransceive    \* bound: transceives of one RPC

ASSUME ThreadsDistinct ==
    /\ Main # Rpc
    /\ Main \notin StatusThread /\ Rpc \notin StatusThread
    /\ NoThread \notin StatusThread \cup {Main, Rpc}

Datagram == [type : {"status", "control"}, leg : {"request", "reply"},
             fresh : BOOLEAN]

ASSUME NoDataDistinct == NoData \notin Datagram
ASSUME MaxTransceiveNat == MaxTransceive \in Nat

VARIABLES
    isAvailable,     \* m_isAvailable
    checkInProgress, \* m_isStatusCheckInProgress
    terminate,       \* SwtLink::m_terminate
    linkMutex,       \* holder of m_linkMutex
    receiveStatus,   \* m_receiveStatus
    received,        \* m_receivedSize, m_error and the buffer
    recvOp,          \* async_receive_from: "idle", "armed", or its handler is "ready"
    recvData,        \* what a ready receive handler is called with
    timerOp,         \* async_wait of m_timer, likewise
    net,             \* datagrams between the socket's current port and the device
    again,           \* transceive is in its second receive
    left,            \* transceives the current RPC may still make
    pc,
    healed           \* the network and the device work from here on

linkVars == <<isAvailable, checkInProgress, terminate>>
recvVars == <<receiveStatus, received, recvOp, recvData, timerOp>>
rpcVars  == <<again, left>>
vars == <<linkVars, linkMutex, recvVars, net, rpcVars, pc, healed>>

Checker == StatusThread \cup {Main}      \* the threads that run checkStatus
Thread  == Checker \cup {Rpc}

\* Where a thread holds m_linkMutex.
InCheck    == {"chkReopen", "chkBegin", "chkSend", "chkEnd", "chkUnlock"}
InReceive  == {"run", "drain"}
Receiving  == InReceive \cup {"judge"}
InExchange == {"txSend", "txUnlock"}
Critical   == InCheck \cup Receiving \cup InExchange

PC == Critical \cup {"idle", "serving", "spawn", "loop", "chkLock",
                     "txTest", "txLock", "final"}

Goto(t, l) == pc' = [pc EXCEPT ![t] = l]

Acquire(t) == linkMutex = NoThread /\ linkMutex' = t
Release(t) == linkMutex' = NoThread

Requests == {d \in net : d.leg = "request"}
Replies  == {d \in net : d.leg = "reply"}

\* socket.send_to: everything sent before is no longer the latest request.
Send(type) ==
    net' = {[d EXCEPT !.fresh = FALSE] : d \in net}
             \cup {[type |-> type, leg |-> "request", fresh |-> TRUE]}

-----------------------------------------------------------------------------
(* receive(): both operations are started, run_one() is called while the   *)
(* status is Wait, the receive is cancelled, and the handlers that are     *)
(* left are drained before it returns.                                     *)

StartReceive ==
    /\ receiveStatus' = "Wait"
    /\ received' = NoData
    /\ recvOp' = "armed"
    /\ recvData' = NoData
    /\ timerOp' = "armed"

\* The thread is inside a run_one() call that may execute a handler.
Polling(t) == pc[t] = "drain" \/ (pc[t] = "run" /\ receiveStatus = "Wait")

HandleReceive(t) ==
    /\ Polling(t)
    /\ recvOp = "ready"
    /\ recvOp' = "idle"
    /\ recvData' = NoData
    /\ IF receiveStatus = "Wait"
         THEN /\ receiveStatus' = "Received"
              /\ received' = recvData
              /\ timerOp' = IF timerOp = "armed" THEN "ready" ELSE timerOp
         ELSE UNCHANGED <<receiveStatus, received, timerOp>>
    /\ UNCHANGED <<linkVars, linkMutex, net, rpcVars, pc, healed>>

\* Mutant: the timeout is reported but the link stays available.
HandleDeadlineKeepsLink(t) ==
    /\ Polling(t)
    /\ timerOp = "ready"
    /\ timerOp' = "idle"
    /\ receiveStatus' = IF receiveStatus = "Wait" THEN "Expired" ELSE receiveStatus
    /\ UNCHANGED <<linkVars, linkMutex, received, recvOp, recvData, net,
                   rpcVars, pc, healed>>

HandleDeadline(t) ==
    /\ Polling(t)
    /\ timerOp = "ready"
    /\ timerOp' = "idle"
    /\ IF receiveStatus = "Wait"
         THEN receiveStatus' = "Expired" /\ isAvailable' = FALSE
         ELSE UNCHANGED <<receiveStatus, isAvailable>>
    /\ UNCHANGED <<checkInProgress, terminate, linkMutex, received, recvOp,
                   recvData, net, rpcVars, pc, healed>>

\* Mutant: the receive is not cancelled.
CancelNothing(t) ==
    /\ pc[t] = "run"
    /\ receiveStatus # "Wait"
    /\ Goto(t, "drain")
    /\ UNCHANGED <<linkVars, linkMutex, recvVars, net, rpcVars, healed>>

\* The loop is left: m_socket.cancel() aborts a receive still armed.
CancelReceive(t) ==
    /\ pc[t] = "run"
    /\ receiveStatus # "Wait"
    /\ recvOp' = IF recvOp = "armed" THEN "ready" ELSE recvOp
    /\ Goto(t, "drain")
    /\ UNCHANGED <<linkVars, linkMutex, receiveStatus, received, recvData,
                   timerOp, net, rpcVars, healed>>

\* run_one() returns 0 when no operation is outstanding, and on a context that
\* one link has to itself only then: IoContext, where the loop is step by step.
RunOneReturnsZero == recvOp = "idle" /\ timerOp = "idle"

ReceiveReturn(t) ==
    /\ pc[t] = "drain"
    /\ RunOneReturnsZero
    /\ Goto(t, "judge")
    /\ UNCHANGED <<linkVars, linkMutex, recvVars, net, rpcVars, healed>>

ReceiveStep(t) ==
    HandleReceive(t) \/ HandleDeadline(t) \/ CancelReceive(t) \/ ReceiveReturn(t)

-----------------------------------------------------------------------------
(* checkStatus(), run by Main in the constructor and by status threads.    *)

CheckLock(t) ==
    /\ pc[t] = "chkLock"
    /\ Acquire(t)
    /\ Goto(t, "chkReopen")
    /\ UNCHANGED <<linkVars, recvVars, net, rpcVars, healed>>

\* Mutant: the socket is not reopened.
CheckReopenSamePort(t) ==
    /\ pc[t] = "chkReopen"
    /\ checkInProgress' = TRUE
    /\ Goto(t, "chkBegin")
    /\ UNCHANGED <<isAvailable, terminate, linkMutex, recvVars, net, rpcVars,
                   healed>>

\* The socket gets a new ephemeral port: what was sent to, or from, the old
\* one can no longer be received.
CheckReopen(t) ==
    /\ pc[t] = "chkReopen"
    /\ net' = {}
    /\ checkInProgress' = TRUE
    /\ Goto(t, "chkBegin")
    /\ UNCHANGED <<isAvailable, terminate, linkMutex, recvVars, rpcVars, healed>>

CheckBegin(t) ==
    /\ pc[t] = "chkBegin"
    /\ isAvailable' = FALSE
    /\ Goto(t, "chkSend")
    /\ UNCHANGED <<checkInProgress, terminate, linkMutex, recvVars, net,
                   rpcVars, healed>>

CheckSend(t) ==
    /\ pc[t] = "chkSend"
    /\ \/ /\ Send("status")
          /\ StartReceive
          /\ Goto(t, "run")
          /\ UNCHANGED isAvailable
       \/ /\ ~healed                              \* send_to throws
          /\ isAvailable' = FALSE
          /\ Goto(t, "chkEnd")
          /\ UNCHANGED <<net, recvVars>>
    /\ UNCHANGED <<checkInProgress, terminate, linkMutex, rpcVars, healed>>

Got(type) == receiveStatus = "Received" /\ received # NoData /\ received.type = type

CheckJudge(t) ==
    /\ t \in Checker
    /\ pc[t] = "judge"
    /\ isAvailable' = (Got("status") \/ isAvailable)
    /\ Goto(t, "chkEnd")
    /\ UNCHANGED <<checkInProgress, terminate, linkMutex, recvVars, net,
                   rpcVars, healed>>

CheckEnd(t) ==
    /\ pc[t] = "chkEnd"
    /\ checkInProgress' = FALSE
    /\ Goto(t, "chkUnlock")
    /\ UNCHANGED <<isAvailable, terminate, linkMutex, recvVars, net, rpcVars,
                   healed>>

\* Mutant: the status thread checks once instead of in a loop.
CheckUnlockOnce(t) ==
    /\ pc[t] = "chkUnlock"
    /\ Release(t)
    /\ Goto(t, IF t = Main THEN "spawn" ELSE "idle")
    /\ UNCHANGED <<linkVars, recvVars, net, rpcVars, healed>>

CheckUnlock(t) ==
    /\ pc[t] = "chkUnlock"
    /\ Release(t)
    /\ Goto(t, IF t = Main THEN "spawn" ELSE "loop")
    /\ UNCHANGED <<linkVars, recvVars, net, rpcVars, healed>>

CheckStep(t) ==
    \/ CheckLock(t) \/ CheckReopen(t) \/ CheckBegin(t) \/ CheckSend(t)
    \/ CheckJudge(t) \/ CheckEnd(t) \/ CheckUnlock(t)

-----------------------------------------------------------------------------
(* The status thread, and runStatusThread() that starts one.               *)

\* Mutants: the loop tests only one of its two conditions.
StatusLoopUntilTerminated(s) ==
    /\ pc[s] = "loop"
    /\ Goto(s, IF ~terminate THEN "chkLock" ELSE "idle")
    /\ UNCHANGED <<linkVars, linkMutex, recvVars, net, rpcVars, healed>>

StatusLoopUntilAvailable(s) ==
    /\ pc[s] = "loop"
    /\ Goto(s, IF ~isAvailable THEN "chkLock" ELSE "idle")
    /\ UNCHANGED <<linkVars, linkMutex, recvVars, net, rpcVars, healed>>

StatusLoop(s) ==
    /\ pc[s] = "loop"
    /\ Goto(s, IF ~isAvailable /\ ~terminate THEN "chkLock" ELSE "idle")
    /\ UNCHANGED <<linkVars, linkMutex, recvVars, net, rpcVars, healed>>

Afterwards(t) == IF t = Main THEN "serving" ELSE "idle"

RunStatusThread(t) ==
    /\ pc[t] = "spawn"
    /\ \/ /\ checkInProgress
          /\ Goto(t, Afterwards(t))
       \/ /\ ~checkInProgress
          /\ \E s \in StatusThread :
                /\ pc[s] = "idle"
                /\ pc' = [pc EXCEPT ![t] = Afterwards(t), ![s] = "loop"]
    /\ UNCHANGED <<linkVars, linkMutex, recvVars, net, rpcVars, healed>>

-----------------------------------------------------------------------------
(* rpcHandler().  What an RPC asks for is abstracted to the transceives it *)
(* makes: any number up to the bound, and after each one it may give up.   *)

\* Bound: there is a slot for each status thread this RPC and the
\* constructor may start.
SlotToSpare ==
    \E s \in StatusThread :
        /\ pc[s] = "idle"
        /\ \/ pc[Main] = "serving"
           \/ \E s2 \in StatusThread \ {s} : pc[s2] = "idle"

\* The next transceive, or the end of processRequest().
TransceiveAtMost(n) ==
    \E k \in 0 .. n :
        /\ left' = k
        /\ Goto(Rpc, IF k = 0 THEN "final" ELSE "txTest")

RpcStart ==
    /\ pc[Rpc] = "idle"
    /\ pc[Main] \in {"spawn", "serving"}       \* the DIM service is registered
    /\ SlotToSpare
    /\ IF isAvailable THEN TransceiveAtMost(MaxTransceive)
                      ELSE Goto(Rpc, "final") /\ UNCHANGED left
    /\ UNCHANGED <<linkVars, linkMutex, recvVars, net, again, healed>>

\* The flag is read before the mutex is taken.
TxTest ==
    /\ pc[Rpc] = "txTest"
    /\ IF isAvailable THEN Goto(Rpc, "txLock") /\ UNCHANGED left
                      ELSE TransceiveAtMost(left - 1)
    /\ UNCHANGED <<linkVars, linkMutex, recvVars, net, again, healed>>

\* Mutant: an empty request returns without releasing the mutex.
TxLockReturnsHolding ==
    /\ pc[Rpc] = "txLock"
    /\ Acquire(Rpc)
    /\ Goto(Rpc, "txSend") \/ Goto(Rpc, "final")
    /\ UNCHANGED <<linkVars, recvVars, net, rpcVars, healed>>

TxLock ==
    /\ pc[Rpc] = "txLock"
    /\ Acquire(Rpc)
    /\ \/ Goto(Rpc, "txSend")
       \/ Goto(Rpc, "txUnlock")                \* the request is empty
    /\ UNCHANGED <<linkVars, recvVars, net, rpcVars, healed>>

TxSend ==
    /\ pc[Rpc] = "txSend"
    /\ \/ /\ Send("control")
          /\ StartReceive
          /\ Goto(Rpc, "run")
       \/ /\ ~healed                           \* send_to throws or is short
          /\ Goto(Rpc, "txUnlock")
          /\ UNCHANGED <<net, recvVars>>
    /\ UNCHANGED <<linkVars, linkMutex, rpcVars, healed>>

\* A late status reply is put aside once and the control reply awaited.
TxJudge ==
    /\ pc[Rpc] = "judge"
    /\ \/ /\ Got("status") /\ ~again
          /\ again' = TRUE
          /\ StartReceive
          /\ Goto(Rpc, "run")
       \/ /\ ~Got("status") \/ again           \* timeout, refusal or result
          /\ again' = FALSE
          /\ Goto(Rpc, "txUnlock")
          /\ UNCHANGED recvVars
    /\ UNCHANGED <<linkVars, linkMutex, net, left, healed>>

TxUnlock ==
    /\ pc[Rpc] = "txUnlock"
    /\ Release(Rpc)
    /\ TransceiveAtMost(left - 1)
    /\ UNCHANGED <<linkVars, recvVars, net, again, healed>>

\* Mutant: no status thread is started after an RPC found the link down.
RpcFinalForgets ==
    /\ pc[Rpc] = "final"
    /\ Goto(Rpc, "idle")
    /\ UNCHANGED <<linkVars, linkMutex, recvVars, net, rpcVars, healed>>

RpcFinal ==
    /\ pc[Rpc] = "final"
    /\ Goto(Rpc, IF isAvailable THEN "idle" ELSE "spawn")
    /\ UNCHANGED <<linkVars, linkMutex, recvVars, net, rpcVars, healed>>

\* Every step of the handler once it has been called.
RpcStep ==
    \/ TxTest \/ TxLock \/ TxSend \/ ReceiveStep(Rpc) \/ TxJudge \/ TxUnlock
    \/ RpcFinal \/ RunStatusThread(Rpc)

-----------------------------------------------------------------------------
(* The environment: AlfIPbus::mainLoop, the clock, the network, the device.*)

Terminate ==
    /\ pc[Main] = "serving"
    /\ ~terminate                              \* mainLoop ends once
    /\ terminate' = TRUE
    /\ UNCHANGED <<isAvailable, checkInProgress, linkMutex, recvVars, net,
                   rpcVars, pc, healed>>

DatagramArrives ==
    /\ recvOp = "armed"
    /\ \E d \in Replies :
          /\ recvOp' = "ready"
          /\ recvData' = d
          /\ net' = net \ {d}
    /\ UNCHANGED <<linkVars, linkMutex, receiveStatus, received, timerOp,
                   rpcVars, pc, healed>>

\* Nobody takes a request and the receive ends with an error and no bytes, as
\* where the socket reports a port that is unreachable.
RequestBounces ==
    /\ ~healed
    /\ recvOp = "armed"
    /\ recvOp' = "ready"
    /\ \E d \in Requests : net' = net \ {d}
    /\ UNCHANGED <<linkVars, linkMutex, receiveStatus, received, recvData,
                   timerOp, rpcVars, pc, healed>>

\* Once healed, an answer to the latest request comes before the timeout.
TimerExpires ==
    /\ timerOp = "armed"
    /\ healed => recvOp = "armed" /\ \A d \in net : ~d.fresh
    /\ timerOp' = "ready"
    /\ UNCHANGED <<linkVars, linkMutex, receiveStatus, received, recvOp,
                   recvData, net, rpcVars, pc, healed>>

DeviceReplies ==
    /\ \E d \in Requests : net' = (net \ {d}) \cup {[d EXCEPT !.leg = "reply"]}
    /\ UNCHANGED <<linkVars, linkMutex, recvVars, rpcVars, pc, healed>>

Lose ==
    /\ ~healed
    /\ \E d \in net : net' = net \ {d}
    /\ UNCHANGED <<linkVars, linkMutex, recvVars, rpcVars, pc, healed>>

Heal ==
    /\ ~healed
    /\ healed' = TRUE
    /\ UNCHANGED <<linkVars, linkMutex, recvVars, net, rpcVars, pc>>

-----------------------------------------------------------------------------

Init ==
    /\ isAvailable = FALSE /\ checkInProgress = FALSE /\ terminate = FALSE
    /\ linkMutex = NoThread
    /\ receiveStatus \in {"Wait", "Expired", "Received"}     \* uninitialized
    /\ received = NoData
    /\ recvOp = "idle" /\ recvData = NoData /\ timerOp = "idle"
    /\ net = {}
    /\ again = FALSE /\ left = 0
    /\ pc = [t \in Thread |-> IF t = Main THEN "chkLock" ELSE "idle"]
    /\ healed = FALSE

MainStep == CheckStep(Main) \/ ReceiveStep(Main) \/ RunStatusThread(Main)

StatusStep(s) == CheckStep(s) \/ ReceiveStep(s) \/ StatusLoop(s)

Environment ==
    \/ Terminate \/ DatagramArrives \/ RequestBounces \/ TimerExpires
    \/ DeviceReplies \/ Lose \/ Heal

Next ==
    \/ MainStep
    \/ \E s \in StatusThread : StatusStep(s)
    \/ RpcStart
    \/ RpcStep
    \/ Environment

Spec == Init /\ [][Next]_vars

(* Every thread is scheduled, the clock runs, and the device and the       *)
(* network answer unless they lose the datagram.  Nothing is assumed about *)
(* when they heal, or about the mutex: a thread may be overtaken at it.    *)
FairSpec ==
    /\ Spec
    /\ WF_vars(MainStep)
    /\ \A s \in StatusThread : WF_vars(StatusStep(s))
    /\ WF_vars(RpcStep)
    /\ WF_vars(DatagramArrives) /\ WF_vars(TimerExpires) /\ WF_vars(DeviceReplies)

-----------------------------------------------------------------------------
(* Properties.                                                             *)

\* The values the variables may take.
TypeOK ==
    /\ isAvailable \in BOOLEAN /\ checkInProgress \in BOOLEAN
    /\ terminate \in BOOLEAN /\ healed \in BOOLEAN /\ again \in BOOLEAN
    /\ linkMutex \in Thread \cup {NoThread}
    /\ receiveStatus \in {"Wait", "Expired", "Received"}
    /\ recvOp \in {"idle", "armed", "ready"}
    /\ timerOp \in {"idle", "armed", "ready"}
    /\ received \in Datagram \cup {NoData}
    /\ recvData \in Datagram \cup {NoData}
    /\ net \in SUBSET Datagram
    /\ left \in Nat
    /\ pc \in [Thread -> PC]

\* transceive() takes as the answer to its request only a reply to that very
\* request: a reply to an earlier request that timed out can not reach the
\* port the link has by then, although the packets carry no identifier.
FreshAnswer ==
    pc[Rpc] = "judge" /\ Got("control") => received.fresh

\* A link that is down has somebody to bring it up again: the constructor, a
\* status thread, or an RPC that has yet to look at the flag (rpcHandler).
RecoveryPending ==
    ~isAvailable /\ ~terminate =>
        \/ pc[Main] # "serving"
        \/ \E s \in StatusThread : pc[s] # "idle"
        \/ pc[Rpc] # "idle"

\* Only a reply to the status request just sent makes a link available, and
\* only while its status check holds the mutex.
OnlyAFreshStatusRaises ==
    [][~isAvailable /\ isAvailable' =>
         /\ \E t \in Checker : linkMutex = t /\ pc[t] = "judge"
         /\ Got("status") /\ received.fresh]_vars

\* Two status threads can keep each other going, and an RPC at the mutex: one
\* takes the link down again before the other has seen it up.  Each race between
\* them is open, so a thread is taken not to lose all of them.
RacesAreOpen == \A s \in StatusThread : SF_vars(StatusLoop(s) /\ isAvailable)

\* Once the network and the device work, every RPC is answered: rpcHandler
\* neither starves behind the status threads nor waits on itself.
RpcAnswered ==
    RacesAreOpen => ((healed /\ pc[Rpc] # "idle") ~> (pc[Rpc] = "idle"))

\* Once the network and the device work, a link that is down comes up again,
\* however many status threads are queued, unless it is being terminated.
LinkRecovers == healed ~> (isAvailable \/ terminate)

\* After SwtLink::terminate() every status thread comes to an end, whether or
\* not the device ever answers, once clients have stopped calling.
StatusThreadsEnd ==
    <>[](terminate /\ pc[Rpc] = "idle")
        => <>[](\A s \in StatusThread : pc[s] = "idle")

\* What the refusal in transceive() says: a request goes to an available
\* device only ("device at ... is not available", IPbusMaster.cxx:166).
NoSendWhileUnavailable ==
    [][pc[Rpc] = "txSend" /\ pc'[Rpc] = "run" => isAvailable]_vars

-----------------------------------------------------------------------------
(* The link as the rest of the program relies on it: LinkService.          *)

UserKind(t) == IF t = Rpc THEN "exchange" ELSE "check"

\* What has come of the exchange or the check of thread t.
OutcomeOf(t) ==
    CASE pc[t] \in {"chkEnd", "chkUnlock", "txUnlock"} -> "done"
      [] pc[t] \in Receiving /\ receiveStatus = "Expired" -> "timeout"
      [] pc[t] \in Receiving /\ Got(IF t = Rpc THEN "control" ELSE "status") ->
           IF received.fresh THEN "own" ELSE "stale"
      [] OTHER -> "pending"

User == IF linkMutex = NoThread THEN "free" ELSE UserKind(linkMutex)
Outcome == IF linkMutex = NoThread THEN "done" ELSE OutcomeOf(linkMutex)

Service == INSTANCE LinkService WITH up <- isAvailable, user <- User, outcome <- Outcome

\* The mutex, the flags, the asynchronous operations and the network together
\* do what LinkService promises: exclusive exchanges and checks, each concluded
\* by its own reply or by a timeout that takes the link down at once, and a
\* link that goes up only by a check.
ImplementsService == Service!Spec

\* Every exchange and every check ends, on a dead device too.
UseEnds == Service!UseEnds

-----------------------------------------------------------------------------
(* The inductive invariant behind the safety properties, part by part.     *)

\* m_linkMutex is held exactly inside checkStatus() and transceive().
MutexInv == \A t \in Thread : pc[t] \in Critical <=> linkMutex = t

\* Which thread can be where.
PlaceInv ==
    /\ \A t \in Checker :
          pc[t] \notin {"txTest", "txLock", "txSend", "txUnlock", "final"}
    /\ \A s \in StatusThread : pc[s] \notin {"spawn", "serving"}
    /\ pc[Main] \notin {"idle", "loop"}
    /\ pc[Rpc] \notin InCheck \cup {"chkLock", "loop", "serving"}

\* What the two handlers have left behind at each stage of receive().
AsyncInv ==
    /\ recvOp # "ready" => recvData = NoData
    /\ \A t \in Thread : pc[t] \in {"drain", "judge"} => receiveStatus # "Wait"
    /\ pc[Rpc] \in Receiving /\ receiveStatus = "Expired" => ~isAvailable

\* No operation is outstanding unless a thread is inside receive().
QuietInv ==
    recvOp # "idle" \/ timerOp # "idle" => \E t \in Thread : pc[t] \in InReceive

\* From chkBegin to its judgement a check keeps the link down.
DownInv == \A t \in Checker : pc[t] \in Receiving \cup {"chkSend"} => ~isAvailable

\* The datagrams a thread inside receive() still may get, or has got.
Pending ==
    net \cup (IF recvData = NoData THEN {} ELSE {recvData})
        \cup (IF receiveStatus = "Received" THEN {received} \ {NoData} ELSE {})

\* One datagram of a type at a time, wherever it is.
UniqueInv ==
    /\ \A d, e \in net : d.type = e.type => d = e
    /\ recvData # NoData => \A d \in net : d.type # recvData.type
    /\ \A t \in Thread : pc[t] \in Receiving /\ Got("control")
          => \A d \in net : d.type # "control"
    /\ \A t \in Thread : pc[t] \in Receiving /\ Got("status")
          => \A d \in net : d.type # "status"

\* A control datagram is under way only during the exchange it belongs to, or
\* when the link is down and no exchange can begin on this port.
ControlInv ==
    /\ (\E d \in net : d.type = "control") =>
          /\ pc[Rpc] \notin {"txLock", "txSend"}
          /\ isAvailable => pc[Rpc] \in Receiving
    /\ pc[Rpc] \in Receiving => \A d \in Pending : d.type = "control" => d.fresh

\* From the new port on, a status check meets its own request's datagrams only.
CheckInv ==
    \A t \in Checker :
      /\ pc[t] \in {"chkBegin", "chkSend"} => net = {}
      /\ pc[t] \in Receiving => \A d \in Pending : d.type = "status" /\ d.fresh

\* A receive that fails, or has failed, leaves no control datagram behind on an
\* available link: either it was the one that came back, or it was a status
\* request, and with one of those about the link is down.
BounceInv ==
    /\ isAvailable => \A d \in net : d.type # "status"
    /\ \/ recvOp = "ready" /\ receiveStatus = "Wait" /\ recvData = NoData
       \/ receiveStatus = "Received" /\ received = NoData /\ \E t \in Thread : pc[t] \in Receiving
       => (isAvailable => \A d \in net : d.type # "control")

\* The second receive of transceive() meets no status reply again.
AgainInv ==
    again => pc[Rpc] \in Receiving /\ \A d \in Pending : d.type = "control"

\* m_isStatusCheckInProgress tells the truth when it is set.
InProgressInv ==
    checkInProgress => \E t \in Checker :
        pc[t] \in Receiving \cup {"chkBegin", "chkSend", "chkEnd"}

\* Everything the safety theorems rest on, in one inductive invariant.
IInv ==
    /\ TypeOK /\ MutexInv /\ PlaceInv /\ AsyncInv /\ QuietInv /\ DownInv
    /\ UniqueInv /\ BounceInv /\ ControlInv /\ CheckInv /\ AgainInv /\ InProgressInv
    /\ RecoveryPending

=============================================================================
