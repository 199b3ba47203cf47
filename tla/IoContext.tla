------------------------------ MODULE IoContext ------------------------------
(***************************************************************************)
(* The links of a server on the one io_context they share: the loops of    *)
(* IPbusMaster::receive over run_one(), and restart() at its end.          *)
(*                                                                         *)
(* run_one() executes whatever handler is ready, of any link.  It returns  *)
(* 0, and stops the context, when no operation is outstanding; a stopped   *)
(* context makes every run_one() return 0 until somebody restarts it.      *)
(* IPbusLink takes for granted that receive() leaves its drain loop when   *)
(* its own two operations are done: here that is a property, of one link.  *)
(***************************************************************************)
EXTENDS Naturals

CONSTANTS
    Link,
    Thread,          \* threads that call checkStatus() or transceive()
    NoThread,
    MaxReady         \* bound: handlers of one kind left over on a link

ASSUME NoThreadDistinct == NoThread \notin Thread
ASSUME MaxReadyNat == MaxReady \in Nat

Op == {"receive", "timer"}     \* async_receive_from and async_wait

VARIABLES
    linkOf,          \* the link each thread works on: rigid, from the configuration
    linkMutex,       \* m_linkMutex of each link
    receiveStatus,   \* m_receiveStatus of each link
    armed,           \* operations of a link that wait for their event
    ready,           \* how many handlers of each kind are queued
    stopped,         \* the io_context
    pc,              \* "out" of receive(), or in a loop of it around run_one()
    loop,            \* which loop: "run" or "drain"
    count            \* what run_one() returned

opVars == <<armed, ready>>
threadVars == <<pc, loop, count>>
vars == <<linkOf, linkMutex, receiveStatus, opVars, stopped, threadVars>>

None == [o \in Op |-> 0]
OutstandingWork(a, r) == \E l \in Link : a[l] # {} \/ r[l] # None

Goto(t, p) == pc' = [pc EXCEPT ![t] = p]

\* Mutant: the operation goes on waiting, as a periodic one would.
QueueAndWait(l, ops) ==
    /\ UNCHANGED armed
    /\ ready' = [ready EXCEPT ![l] = [o \in Op |-> @[o] + IF o \in ops \cap armed[l] THEN 1 ELSE 0]]

\* An operation's wait ends: its handler is queued.
Queue(l, ops) ==
    /\ armed' = [armed EXCEPT ![l] = @ \ ops]
    /\ ready' = [ready EXCEPT ![l] = [o \in Op |-> @[o] + IF o \in ops \cap armed[l] THEN 1 ELSE 0]]

-----------------------------------------------------------------------------
(* receive(), with the lock of its caller.                                 *)

Arm(t) ==
    LET l == linkOf[t]
    IN  /\ pc[t] = "out"
        /\ \A o \in Op : ready[l][o] < MaxReady             \* bound
        /\ receiveStatus' = [receiveStatus EXCEPT ![l] = "Wait"]
        /\ armed' = [armed EXCEPT ![l] = Op]
        /\ loop' = [loop EXCEPT ![t] = "run"]
        /\ Goto(t, "call")
        /\ UNCHANGED <<linkOf, ready, stopped, count>>

\* Mutant: the caller does not lock.
BeginUnlocked(t) == Arm(t) /\ UNCHANGED linkMutex

Begin(t) ==
    /\ linkMutex[linkOf[t]] = NoThread
    /\ linkMutex' = [linkMutex EXCEPT ![linkOf[t]] = t]
    /\ Arm(t)

RunAgain(t) ==
    /\ pc[t] = "returned"
    /\ loop[t] = "run"
    /\ receiveStatus[linkOf[t]] = "Wait"
    /\ Goto(t, "call")
    /\ UNCHANGED <<linkOf, linkMutex, receiveStatus, opVars, stopped, loop, count>>

\* Mutant: the socket's operations are not cancelled.
LeaveRunLoop(t) ==
    /\ pc[t] = "returned"
    /\ loop[t] = "run"
    /\ receiveStatus[linkOf[t]] # "Wait"
    /\ loop' = [loop EXCEPT ![t] = "drain"]
    /\ Goto(t, "call")
    /\ UNCHANGED <<linkOf, linkMutex, receiveStatus, opVars, stopped, count>>

\* Mutant: receive() returns without the drain loop.
CancelAndReturn(t) ==
    /\ pc[t] = "returned"
    /\ loop[t] = "run"
    /\ receiveStatus[linkOf[t]] # "Wait"
    /\ Queue(linkOf[t], {"receive"})
    /\ linkMutex' = [linkMutex EXCEPT ![linkOf[t]] = NoThread]
    /\ Goto(t, "out")
    /\ UNCHANGED <<linkOf, receiveStatus, stopped, loop, count>>

Cancel(t) ==
    /\ pc[t] = "returned"
    /\ loop[t] = "run"
    /\ receiveStatus[linkOf[t]] # "Wait"
    /\ Queue(linkOf[t], {"receive"})
    /\ loop' = [loop EXCEPT ![t] = "drain"]
    /\ Goto(t, "call")
    /\ UNCHANGED <<linkOf, linkMutex, receiveStatus, stopped, count>>

DrainAgain(t) ==
    /\ pc[t] = "returned"
    /\ loop[t] = "drain" /\ count[t] = 1
    /\ Goto(t, "call")
    /\ UNCHANGED <<linkOf, linkMutex, receiveStatus, opVars, stopped, loop, count>>

Leave(t) ==
    /\ Goto(t, "out")
    /\ linkMutex' = [linkMutex EXCEPT ![linkOf[t]] = NoThread]
    /\ UNCHANGED <<linkOf, receiveStatus, opVars, loop, count>>

\* Mutant: the context is left as it is.
ReturnStopped(t) ==
    /\ pc[t] = "returned" /\ loop[t] = "drain" /\ count[t] = 0
    /\ UNCHANGED stopped
    /\ Leave(t)

Restart(t) ==
    /\ pc[t] = "returned" /\ loop[t] = "drain" /\ count[t] = 0
    /\ stopped' = FALSE
    /\ Leave(t)

-----------------------------------------------------------------------------
(* run_one(), as boost::asio's scheduler does it.                          *)

Call(t) ==
    /\ pc[t] = "call"
    /\ IF OutstandingWork(armed, ready)
         THEN Goto(t, "inside") /\ UNCHANGED count
         ELSE Goto(t, "stop") /\ count' = [count EXCEPT ![t] = 0]
    /\ UNCHANGED <<linkOf, linkMutex, receiveStatus, opVars, stopped, loop>>

\* The thread finds the context stopped; if it has been restarted by the time
\* the thread looks, it goes on waiting.
ReturnZero(t) ==
    /\ pc[t] = "inside"
    /\ stopped
    /\ count' = [count EXCEPT ![t] = 0]
    /\ Goto(t, "returned")
    /\ UNCHANGED <<linkOf, linkMutex, receiveStatus, opVars, stopped, loop>>

\* The count of outstanding work goes down after the handler; a thread that
\* takes it to 0 stops the context in a step of its own.
Execute(t, l, o, cancelled) ==
    LET left == [ready EXCEPT ![l][o] = @ - 1]
        queued == cancelled \cap armed[l]
    IN  /\ pc[t] = "inside"
        /\ ~stopped
        /\ ready[l][o] > 0
        /\ armed' = [armed EXCEPT ![l] = @ \ cancelled]
        /\ ready' = [left EXCEPT ![l] = [p \in Op |-> @[p] + IF p \in queued THEN 1 ELSE 0]]
        /\ count' = [count EXCEPT ![t] = 1]
        /\ Goto(t, IF OutstandingWork(armed', ready') THEN "returned" ELSE "stop")
        /\ UNCHANGED <<linkOf, linkMutex, stopped, loop>>

\* handleReceive cancels the timer when it comes first.
HandleReceive(t, l) ==
    LET first == receiveStatus[l] = "Wait"
    IN  /\ Execute(t, l, "receive", IF first THEN {"timer"} ELSE {})
        /\ receiveStatus' = IF first THEN [receiveStatus EXCEPT ![l] = "Received"]
                                     ELSE receiveStatus

\* handleDeadline sets the timer to a point that never comes, which cancels
\* what waits for it.
HandleDeadline(t, l) ==
    /\ Execute(t, l, "timer", {"timer"})
    /\ receiveStatus' = IF receiveStatus[l] = "Wait" THEN [receiveStatus EXCEPT ![l] = "Expired"]
                                                     ELSE receiveStatus

Stop(t) ==
    /\ pc[t] = "stop"
    /\ stopped' = TRUE
    /\ Goto(t, "returned")
    /\ UNCHANGED <<linkOf, linkMutex, receiveStatus, opVars, loop, count>>

-----------------------------------------------------------------------------

\* A datagram arrives, the timer expires.
Happens(l, o) ==
    /\ o \in armed[l]
    /\ Queue(l, {o})
    /\ UNCHANGED <<linkOf, linkMutex, receiveStatus, stopped, threadVars>>

Init ==
    /\ linkOf \in [Thread -> Link]
    /\ linkMutex = [l \in Link |-> NoThread]
    /\ receiveStatus \in [Link -> {"Wait", "Received", "Expired"}]   \* uninitialized
    /\ armed = [l \in Link |-> {}] /\ ready = [l \in Link |-> None]
    /\ stopped = FALSE
    /\ pc = [t \in Thread |-> "out"] /\ loop = [t \in Thread |-> "run"]
    /\ count = [t \in Thread |-> 0]

ReceiveStep(t) ==
    \/ Call(t) \/ ReturnZero(t) \/ Stop(t)
    \/ \E l \in Link : HandleReceive(t, l) \/ HandleDeadline(t, l)
    \/ RunAgain(t) \/ Cancel(t) \/ DrainAgain(t) \/ Restart(t)

Next ==
    \/ \E t \in Thread : Begin(t) \/ ReceiveStep(t)
    \/ \E l \in Link, o \in Op : Happens(l, o)

Spec == Init /\ [][Next]_vars

\* Threads are scheduled and timers expire; a datagram may never come.
FairSpec ==
    /\ Spec
    /\ \A t \in Thread : WF_vars(ReceiveStep(t))
    /\ \A l \in Link : WF_vars(Happens(l, "timer"))

-----------------------------------------------------------------------------
(* Properties.                                                             *)

\* The values the variables may take.
TypeOK ==
    /\ linkOf \in [Thread -> Link]
    /\ linkMutex \in [Link -> Thread \cup {NoThread}]
    /\ receiveStatus \in [Link -> {"Wait", "Received", "Expired"}]
    /\ armed \in [Link -> SUBSET Op] /\ ready \in [Link -> [Op -> 0 .. MaxReady]]
    /\ stopped \in BOOLEAN
    /\ pc \in [Thread -> {"out", "call", "inside", "stop", "returned"}]
    /\ loop \in [Thread -> {"run", "drain"}] /\ count \in [Thread -> 0 .. 1]

\* What IPbusLink is about: all threads work on the same link.
OneLinkInUse == \A t, u \in Thread : linkOf[t] = linkOf[u]

\* One link: no operation outlives the receive() that started it.  While nobody
\* is in receive(), no handler is pending.
QuietOutsideReceive ==
    OneLinkInUse /\ (\A t \in Thread : pc[t] = "out") => ~OutstandingWork(armed, ready)

\* One link: restart() never takes the stop away from a thread that has yet to
\* see it.
RestartWakesAll ==
    [][OneLinkInUse /\ stopped /\ ~stopped' => \A t \in Thread : pc[t] # "inside"]_vars

\* One link: every receive() returns, by the reply or the timeout.
ReceiveReturns == \A t \in Thread : (OneLinkInUse /\ pc[t] # "out") ~> pc[t] = "out"

\* The context is never left stopped with nobody to restart it: the next
\* receive() would spin in its run loop, since no handler can run.
StoppedIsRestarted == stopped => \E t \in Thread : pc[t] # "out"

\* The links can be used together ("can be used multiple times", ReadMe.md:60):
\* of the threads in receive(), one returns again and again.
SomeReceiveReturns ==
    (\E t \in Thread : pc[t] # "out") ~> (\E t \in Thread : pc[t] = "out")

-----------------------------------------------------------------------------
(* The invariants behind the proofs.                                       *)

\* Whatever waits still has room among the handlers.
RoomInv == \A l \in Link : \A o \in armed[l] : ready[l][o] < MaxReady

\* A thread is in receive() exactly when it holds the mutex of its link.
MutexInv == \A t \in Thread : pc[t] # "out" <=> linkMutex[linkOf[t]] = t

\* One link: a stop, or a run_one() that returned 0, means what receive() takes
\* it to mean: nothing is outstanding.
Work == OutstandingWork(armed, ready)
ZeroInv ==
    /\ stopped => ~Work
    /\ \A t \in Thread :
          pc[t] = "stop" \/ (pc[t] = "returned" /\ count[t] = 0) => ~Work

\* Of any number of links, and of one.
IInv == TypeOK /\ RoomInv /\ StoppedIsRestarted
OneLinkInv == OneLinkInUse => MutexInv /\ ZeroInv /\ QuietOutsideReceive

=============================================================================
