--------------------------- MODULE IoContextProofs ---------------------------
(***************************************************************************)
(* What receive() rests on, for any number of threads: of any number of    *)
(* links, that a stopped context is restarted; of a single link, that      *)
(* nothing is outstanding when receive() returns.                          *)
(***************************************************************************)
EXTENDS IoContext, TLAPS

USE NoThreadDistinct, MaxReadyNat
    DEF Op, Goto, None, OutstandingWork, opVars, threadVars

\* Queueing handlers keeps the types, and takes nothing from what is outstanding.
LEMMA QueueKeeps ==
  ASSUME TypeOK, RoomInv, NEW l \in Link, NEW ops \in SUBSET Op, Queue(l, ops)
  PROVE  /\ armed' \in [Link -> SUBSET Op] /\ ready' \in [Link -> [Op -> 0 .. MaxReady]]
         /\ RoomInv'
         /\ Work' <=> Work
<1>1. armed' = [armed EXCEPT ![l] = armed[l] \ ops]
  BY DEF Queue
<1>2. ready' = [ready EXCEPT ![l] =
                  [o \in Op |-> ready[l][o] + IF o \in ops \cap armed[l] THEN 1 ELSE 0]]
  BY DEF Queue
<1>3. armed' \in [Link -> SUBSET Op]
  BY <1>1 DEF TypeOK
<1>4. ready' \in [Link -> [Op -> 0 .. MaxReady]]
  BY <1>2 DEF TypeOK, RoomInv
<1>5. RoomInv'
  BY <1>1, <1>2 DEF TypeOK, RoomInv
<1>6. Work' <=> Work
  <2>1. \A k \in Link \ {l} : armed'[k] = armed[k] /\ ready'[k] = ready[k]
    BY <1>1, <1>2 DEF TypeOK
  <2>2. armed'[l] # {} \/ ready'[l] # None <=> armed[l] # {} \/ ready[l] # None
    <3>1. armed'[l] = armed[l] \ ops
      BY <1>1 DEF TypeOK
    <3>2. \A o \in Op : ready'[l][o] = ready[l][o] + IF o \in ops \cap armed[l] THEN 1 ELSE 0
      BY <1>2 DEF TypeOK
    <3>3. ready[l] # None <=> \E o \in Op : ready[l][o] # 0
      BY DEF TypeOK
    <3>4. ready'[l] # None <=> \E o \in Op : ready'[l][o] # 0
      BY <1>4
    <3>5. QED
      BY <3>1, <3>2, <3>3, <3>4 DEF TypeOK
  <2>3. QED
    BY <2>1, <2>2 DEF Work
<1>7. QED
  BY <1>3, <1>4, <1>5, <1>6

\* The handler of an operation: types, the place it returns to, the stop.
LEMMA ExecuteKeeps ==
  ASSUME TypeOK, RoomInv, NEW t \in Thread, NEW l \in Link, NEW o \in Op,
         NEW cancelled \in SUBSET Op, Execute(t, l, o, cancelled)
  PROVE  /\ armed' \in [Link -> SUBSET Op] /\ ready' \in [Link -> [Op -> 0 .. MaxReady]]
         /\ RoomInv'
         /\ pc' \in [Thread -> {"out", "call", "inside", "stop", "returned"}]
         /\ count' = [count EXCEPT ![t] = 1]
         /\ pc[t] = "inside" /\ \A u \in Thread \ {t} : pc'[u] = pc[u]
         /\ pc'[t] \in {"returned", "stop"}
         /\ pc'[t] = "stop" => ~Work'
<1> DEFINE queued == cancelled \cap armed[l]
<1> DEFINE left == [ready EXCEPT ![l][o] = ready[l][o] - 1]
<1>1. ready[l][o] \in 1 .. MaxReady
  BY DEF Execute, TypeOK
<1>2. left \in [Link -> [Op -> 0 .. MaxReady]]
  BY <1>1 DEF TypeOK
<1>3. ready' = [left EXCEPT ![l] = [p \in Op |-> left[l][p] + IF p \in queued THEN 1 ELSE 0]]
  BY DEF Execute
<1>4. \A p \in Op : left[l][p] <= ready[l][p]
  BY <1>1 DEF TypeOK
<1>5. \A p \in queued : left[l][p] < MaxReady
  BY <1>1, <1>2, <1>4 DEF RoomInv, TypeOK
<1>6. ready' \in [Link -> [Op -> 0 .. MaxReady]]
  BY <1>2, <1>3, <1>5
<1>7. armed' = [armed EXCEPT ![l] = armed[l] \ cancelled]
  BY DEF Execute
<1>8. armed' \in [Link -> SUBSET Op]
  BY <1>7 DEF TypeOK
<1>9. RoomInv'
  <2>1. SUFFICES ASSUME NEW k \in Link, NEW p \in armed'[k]
                 PROVE  ready'[k][p] < MaxReady
    BY DEF RoomInv
  <2>2. p \in armed[k] /\ p \in Op /\ (k = l => p \notin queued)
    BY <1>7, <2>1 DEF TypeOK
  <2>3. ready'[k][p] = left[k][p] /\ left[k][p] <= ready[k][p]
    BY <1>1, <1>2, <1>3, <1>4, <2>2 DEF TypeOK
  <2>4. ready[k][p] < MaxReady
    BY <2>2 DEF RoomInv
  <2>5. QED
    BY <1>2, <2>2, <2>3, <2>4 DEF TypeOK
<1>10. pc' = [pc EXCEPT ![t] = IF OutstandingWork(armed', ready') THEN "returned" ELSE "stop"]
  BY DEF Execute
<1>11. pc'[t] = IF Work' THEN "returned" ELSE "stop"
  BY <1>10 DEF TypeOK, Work
<1>12. /\ count' = [count EXCEPT ![t] = 1]
       /\ pc[t] = "inside" /\ \A u \in Thread \ {t} : pc'[u] = pc[u]
  <2>1. count' = [count EXCEPT ![t] = 1] /\ pc[t] = "inside"
    BY DEF Execute
  <2>2. QED
    BY <1>10, <2>1 DEF TypeOK
<1>13. pc' \in [Thread -> {"out", "call", "inside", "stop", "returned"}]
  BY <1>10 DEF TypeOK
<1>14. QED
  BY <1>6, <1>8, <1>9, <1>11, <1>12, <1>13

\* No step moves a thread to another link.
LEMMA LinkOfRigid == Next => linkOf' = linkOf
BY DEF Next, ReceiveStep, Begin, Arm, Call, ReturnZero, Stop, HandleReceive, HandleDeadline,
       Execute, RunAgain, Cancel, DrainAgain, Restart, Leave, Happens

\* Handlers that a link has left over, and the room for more: of any number of
\* links.  A stopped context has a thread that will restart it.
LEMMA StepKeeps ==
  ASSUME IInv, Next
  PROVE  IInv'
<1> USE DEF IInv
<1>1. ASSUME NEW t \in Thread, Begin(t)
      PROVE  IInv'
  <2>1. linkOf[t] \in Link
    BY DEF TypeOK
  <2>2. TypeOK' /\ pc'[t] = "call"
    BY <1>1, <2>1 DEF Begin, Arm, TypeOK
  <2>3. RoomInv'
    BY <1>1, <2>1 DEF Begin, Arm, TypeOK, RoomInv
  <2>4. QED
    BY <2>2, <2>3 DEF StoppedIsRestarted
<1>2. ASSUME NEW t \in Thread, Call(t) \/ ReturnZero(t) \/ Stop(t)
      PROVE  IInv'
  <2>1. TypeOK' /\ pc'[t] # "out"
    <3>1. CASE Call(t)
      BY <3>1 DEF Call, TypeOK
    <3>2. CASE ReturnZero(t)
      BY <3>2 DEF ReturnZero, TypeOK
    <3>3. CASE Stop(t)
      BY <3>3 DEF Stop, TypeOK
    <3>4. QED
      BY <1>2, <3>1, <3>2, <3>3
  <2>2. QED
    BY <1>2, <2>1 DEF Call, ReturnZero, Stop, RoomInv, StoppedIsRestarted
<1>3. ASSUME NEW t \in Thread, NEW l \in Link, HandleReceive(t, l) \/ HandleDeadline(t, l)
      PROVE  IInv'
  <2>1. PICK o \in Op, cancelled \in SUBSET Op : Execute(t, l, o, cancelled)
    BY <1>3 DEF HandleReceive, HandleDeadline
  <2>2. receiveStatus' \in [Link -> {"Wait", "Received", "Expired"}]
    BY <1>3 DEF HandleReceive, HandleDeadline, TypeOK
  <2>3. /\ armed' \in [Link -> SUBSET Op] /\ ready' \in [Link -> [Op -> 0 .. MaxReady]]
        /\ RoomInv' /\ pc' \in [Thread -> {"out", "call", "inside", "stop", "returned"}]
        /\ count' = [count EXCEPT ![t] = 1] /\ pc'[t] # "out"
    BY <2>1, ExecuteKeeps
  <2>4. UNCHANGED <<linkOf, linkMutex, stopped, loop>>
    BY <2>1 DEF Execute
  <2>5. TypeOK'
    BY <2>2, <2>3, <2>4 DEF TypeOK
  <2>6. QED
    BY <2>3, <2>5 DEF StoppedIsRestarted
<1>4. ASSUME NEW t \in Thread, RunAgain(t) \/ DrainAgain(t)
      PROVE  IInv'
  <2>1. TypeOK' /\ pc'[t] # "out"
    BY <1>4 DEF RunAgain, DrainAgain, TypeOK
  <2>2. QED
    BY <1>4, <2>1 DEF RunAgain, DrainAgain, RoomInv, StoppedIsRestarted
<1>5. ASSUME NEW t \in Thread, Cancel(t)
      PROVE  IInv'
  <2>0. linkOf[t] \in Link
    BY DEF TypeOK
  <2>1. armed' \in [Link -> SUBSET Op] /\ ready' \in [Link -> [Op -> 0 .. MaxReady]] /\ RoomInv'
    BY <1>5, <2>0, QueueKeeps DEF Cancel
  <2>2. TypeOK' /\ pc'[t] # "out"
    BY <1>5, <2>1 DEF Cancel, TypeOK
  <2>3. QED
    BY <2>1, <2>2 DEF StoppedIsRestarted
<1>6. ASSUME NEW t \in Thread, Restart(t)
      PROVE  IInv'
  BY <1>6 DEF Restart, Leave, TypeOK, RoomInv, StoppedIsRestarted
<1>7. ASSUME NEW l \in Link, NEW o \in Op, Happens(l, o)
      PROVE  IInv'
  BY <1>7, QueueKeeps DEF Happens, TypeOK, StoppedIsRestarted
<1>8. QED
  BY <1>1, <1>2, <1>3, <1>4, <1>5, <1>6, <1>7 DEF Next, ReceiveStep

LEMMA InitHolds == Init => IInv
<1> SUFFICES ASSUME Init PROVE IInv
  OBVIOUS
<1>1. None \in [Op -> 0 .. MaxReady]
  OBVIOUS
<1>2. TypeOK
  <2>1. armed \in [Link -> SUBSET Op] /\ ready \in [Link -> [Op -> 0 .. MaxReady]]
    BY <1>1 DEF Init
  <2>2. linkMutex \in [Link -> Thread \cup {NoThread}] /\ count \in [Thread -> 0 .. 1]
    BY DEF Init
  <2>3. QED
    BY <2>1, <2>2 DEF Init, TypeOK
<1>3. RoomInv /\ StoppedIsRestarted
  BY DEF Init, RoomInv, StoppedIsRestarted
<1>4. QED
  BY <1>2, <1>3 DEF IInv

\* The invariant of any number of links.
THEOREM InvariantHolds == Spec => []IInv
<1>1. IInv /\ UNCHANGED vars => IInv'
  BY DEF IInv, vars, TypeOK, RoomInv, StoppedIsRestarted
<1>2. IInv /\ [Next]_vars => IInv'
  BY <1>1, StepKeeps
<1>3. QED
  BY InitHolds, <1>2, PTL DEF Spec

\* The variables keep to their types, and no link queues more handlers than
\* the bound, for any number of links and threads.
THEOREM TypeCorrect == Spec => []TypeOK
<1>1. IInv => TypeOK
  BY DEF IInv
<1>2. QED
  BY InvariantHolds, <1>1, PTL

\* However many links and threads share it, the context is never left stopped
\* with nobody to restart it.
THEOREM StoppedIsRestartedHolds == Spec => []StoppedIsRestarted
<1>1. IInv => StoppedIsRestarted
  BY DEF IInv
<1>2. QED
  BY InvariantHolds, <1>1, PTL

-----------------------------------------------------------------------------
(* One link: its mutex lets one thread at a time into run_one().           *)

LEMMA OneLinkStepKeeps ==
  ASSUME IInv, OneLinkInv, OneLinkInUse, Next
  PROVE  MutexInv' /\ ZeroInv' /\ QuietOutsideReceive'
<1>m. MutexInv /\ ZeroInv /\ QuietOutsideReceive
  BY DEF OneLinkInv
<1>r. linkOf' = linkOf /\ \A t \in Thread : linkOf[t] \in Link
  BY LinkOfRigid DEF IInv, TypeOK
<1> USE <1>m, <1>r DEF IInv, OneLinkInUse
<1>0. ASSUME NEW t \in Thread, pc[t] # "out"
      PROVE  \A u \in Thread \ {t} : pc[u] = "out"
  BY <1>0 DEF MutexInv
<1>1. ASSUME NEW t \in Thread, Begin(t)
      PROVE  MutexInv' /\ ZeroInv' /\ QuietOutsideReceive'
  <2>1. \A u \in Thread : pc[u] = "out"
    BY <1>1 DEF Begin, MutexInv
  <2>2. ~stopped
    BY <2>1 DEF StoppedIsRestarted
  <2>3. pc' = [pc EXCEPT ![t] = "call"] /\ linkMutex' = [linkMutex EXCEPT ![linkOf[t]] = t]
        /\ UNCHANGED <<stopped, count>>
    BY <1>1 DEF Begin, Arm
  <2>4. MutexInv'
    BY <2>1, <2>3 DEF MutexInv, TypeOK
  <2>5. ZeroInv'
    BY <2>1, <2>2, <2>3 DEF ZeroInv, TypeOK
  <2>6. QuietOutsideReceive'
    BY <2>3 DEF QuietOutsideReceive, TypeOK
  <2>7. QED
    BY <2>4, <2>5, <2>6
<1>2. ASSUME NEW t \in Thread, Call(t) \/ ReturnZero(t) \/ Stop(t)
      PROVE  MutexInv' /\ ZeroInv' /\ QuietOutsideReceive'
  <2>1. /\ pc[t] # "out" /\ pc'[t] # "out"
        /\ \A u \in Thread \ {t} : pc'[u] = pc[u]
        /\ UNCHANGED <<linkMutex, armed, ready>>
    BY <1>2 DEF Call, ReturnZero, Stop, TypeOK
  <2>2. MutexInv'
    BY <2>1 DEF MutexInv
  <2>3. ZeroInv'
    BY <1>0, <1>2, <2>1 DEF Call, ReturnZero, Stop, TypeOK, ZeroInv, Work
  <2>4. QuietOutsideReceive'
    BY <2>1 DEF QuietOutsideReceive
  <2>5. QED
    BY <2>2, <2>3, <2>4
<1>3. ASSUME NEW t \in Thread, NEW l \in Link, HandleReceive(t, l) \/ HandleDeadline(t, l)
      PROVE  MutexInv' /\ ZeroInv' /\ QuietOutsideReceive'
  <2>1. PICK o \in Op, cancelled \in SUBSET Op : Execute(t, l, o, cancelled)
    BY <1>3 DEF HandleReceive, HandleDeadline
  <2>2. /\ pc[t] = "inside" /\ \A u \in Thread \ {t} : pc'[u] = pc[u]
        /\ pc'[t] \in {"returned", "stop"} /\ count' = [count EXCEPT ![t] = 1]
        /\ pc'[t] = "stop" => ~Work'
    BY <2>1, ExecuteKeeps
  <2>3. UNCHANGED linkMutex /\ ~stopped'
    BY <2>1 DEF Execute
  <2>4. MutexInv'
    BY <2>2, <2>3 DEF MutexInv
  <2>5. ZeroInv'
    BY <1>0, <2>2, <2>3 DEF TypeOK, ZeroInv
  <2>6. QuietOutsideReceive'
    BY <2>2 DEF QuietOutsideReceive
  <2>7. QED
    BY <2>4, <2>5, <2>6
<1>4. ASSUME NEW t \in Thread, RunAgain(t) \/ DrainAgain(t)
      PROVE  MutexInv' /\ ZeroInv' /\ QuietOutsideReceive'
  <2>1. /\ pc[t] # "out" /\ pc'[t] = "call"
        /\ \A u \in Thread \ {t} : pc'[u] = pc[u]
        /\ UNCHANGED <<linkMutex, armed, ready, stopped, count>>
    BY <1>4 DEF RunAgain, DrainAgain, TypeOK
  <2>2. QED
    BY <2>1 DEF MutexInv, ZeroInv, Work, QuietOutsideReceive
<1>5. ASSUME NEW t \in Thread, Cancel(t)
      PROVE  MutexInv' /\ ZeroInv' /\ QuietOutsideReceive'
  <2>1. /\ pc[t] # "out" /\ pc'[t] = "call"
        /\ \A u \in Thread \ {t} : pc'[u] = pc[u]
        /\ UNCHANGED <<linkMutex, stopped, count>>
    BY <1>5 DEF Cancel, TypeOK
  <2>2. Work' <=> Work
    BY <1>5, QueueKeeps DEF Cancel
  <2>3. QED
    BY <2>1, <2>2 DEF MutexInv, ZeroInv, QuietOutsideReceive
<1>6. ASSUME NEW t \in Thread, Restart(t)
      PROVE  MutexInv' /\ ZeroInv' /\ QuietOutsideReceive'
  <2>1. ~Work
    BY <1>6 DEF Restart, ZeroInv
  <2>2. /\ ~stopped' /\ UNCHANGED <<armed, ready>>
        /\ pc[t] # "out" /\ pc' = [pc EXCEPT ![t] = "out"]
        /\ linkMutex' = [linkMutex EXCEPT ![linkOf[t]] = NoThread]
    BY <1>6 DEF Restart, Leave
  <2>3. \A u \in Thread : pc'[u] = "out"
    BY <1>0, <2>2 DEF TypeOK
  <2>4. MutexInv'
    BY <2>2, <2>3 DEF MutexInv, TypeOK
  <2>5. QED
    BY <2>1, <2>2, <2>3, <2>4 DEF ZeroInv, Work, QuietOutsideReceive
<1>7. ASSUME NEW l \in Link, NEW o \in Op, Happens(l, o)
      PROVE  MutexInv' /\ ZeroInv' /\ QuietOutsideReceive'
  <2>1. o \in armed[l] /\ Queue(l, {o})
        /\ UNCHANGED <<linkMutex, stopped, pc, count>>
    BY <1>7 DEF Happens
  <2>2. Work' <=> Work
    BY <2>1, QueueKeeps
  <2>3. QuietOutsideReceive'
    BY <2>1 DEF QuietOutsideReceive
  <2>4. QED
    BY <2>1, <2>2, <2>3 DEF MutexInv, ZeroInv
<1>8. QED
  BY <1>1, <1>2, <1>3, <1>4, <1>5, <1>6, <1>7 DEF Next, ReceiveStep

\* linkOf is rigid, so the case of one link is one of whole behaviours.
LEMMA OneLinkInvariant == Spec => [](IInv /\ OneLinkInv)
<1>1. Init => IInv /\ OneLinkInv
  BY InitHolds DEF Init, OneLinkInv, MutexInv, ZeroInv, QuietOutsideReceive
<1>2. IInv /\ OneLinkInv /\ UNCHANGED vars => (IInv /\ OneLinkInv)'
  BY DEF OneLinkInv, OneLinkInUse, IInv, vars, TypeOK, RoomInv, StoppedIsRestarted,
         MutexInv, ZeroInv, Work, QuietOutsideReceive
<1>3. IInv /\ OneLinkInv /\ Next => (IInv /\ OneLinkInv)'
  <2>1. Next => (OneLinkInUse' <=> OneLinkInUse)
    BY LinkOfRigid DEF OneLinkInUse
  <2>2. QED
    BY <2>1, StepKeeps, OneLinkStepKeeps DEF OneLinkInv
<1>4. IInv /\ OneLinkInv /\ [Next]_vars => (IInv /\ OneLinkInv)'
  BY <1>2, <1>3
<1>5. QED
  BY <1>1, <1>4, PTL DEF Spec

\* With one link no operation outlives its receive(), however many threads
\* take turns on it: what IPbusLink's receive() is built on.
THEOREM QuietHolds == Spec => []QuietOutsideReceive
<1>1. OneLinkInv => QuietOutsideReceive
  BY DEF OneLinkInv, QuietOutsideReceive
<1>2. QED
  BY OneLinkInvariant, <1>1, PTL

\* With one link restart() comes when no thread is inside run_one().
THEOREM RestartWakesAllHolds == Spec => RestartWakesAll
<1> DEFINE Step == OneLinkInUse /\ stopped /\ ~stopped' => \A t \in Thread : pc[t] # "inside"
<1>1. IInv /\ OneLinkInv /\ [Next]_vars => [Step]_vars
  <2> SUFFICES ASSUME OneLinkInv, Next, OneLinkInUse, stopped, ~stopped'
               PROVE  \A t \in Thread : pc[t] # "inside"
    OBVIOUS
  <2>1. PICK t \in Thread : Restart(t)
    BY DEF Next, ReceiveStep, Begin, Arm, Call, ReturnZero, Stop, HandleReceive,
           HandleDeadline, Execute, RunAgain, Cancel, DrainAgain, Happens
  <2>2. pc[t] = "returned"
    BY <2>1 DEF Restart
  <2>3. \A u \in Thread \ {t} : pc[u] = "out"
    BY <2>2 DEF OneLinkInv, OneLinkInUse, MutexInv
  <2>4. QED
    BY <2>2, <2>3
<1>2. QED
  BY OneLinkInvariant, <1>1, PTL DEF Spec, RestartWakesAll

=============================================================================
