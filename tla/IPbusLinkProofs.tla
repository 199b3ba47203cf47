--------------------------- MODULE IPbusLinkProofs ---------------------------
(***************************************************************************)
(* The safety of IPbusLink for any number of status threads and any bound: *)
(* IInv holds initially, every action keeps it (one lemma per action), and *)
(* the properties of the specification follow from it; so does that        *)
(* IPbusLink implements LinkService.                                       *)
(***************************************************************************)
EXTENDS IPbusLink, TLAPS

\* The names of places, groups of variables and one-line helpers.
USE ThreadsDistinct, NoDataDistinct, MaxTransceiveNat
    DEF Thread, Checker, PC, Critical, InCheck, InReceive, InExchange, Receiving,
        linkVars, recvVars, rpcVars, Goto, Acquire, Release, Got, Pending,
        RunOneReturnsZero

\* A send adds one fresh request and ages what is under way; if nothing of its
\* type was under way, there is still at most one datagram of each type.
LEMMA SentDatagrams ==
  ASSUME TypeOK, NEW type \in {"status", "control"}, Send(type)
  PROVE  /\ net' \in SUBSET Datagram
         /\ (/\ \A d \in net : d.type # type
             /\ \A d, e \in net : d.type = e.type => d = e)
              => \A d, e \in net' : d.type = e.type => d = e
<1> DEFINE new == [type |-> type, leg |-> "request", fresh |-> TRUE]
<1> DEFINE old == {[d EXCEPT !.fresh = FALSE] : d \in net}
<1>1. net' = old \cup {new}
  BY DEF Send
<1>2. \A d \in net : [d EXCEPT !.fresh = FALSE] \in Datagram
                       /\ [d EXCEPT !.fresh = FALSE].type = d.type
  BY DEF TypeOK, Datagram
<1>3. new \in Datagram /\ new.type = type
  BY DEF Datagram
<1>4. net' \in SUBSET Datagram
  BY <1>1, <1>2, <1>3
<1>5. ASSUME \A d \in net : d.type # type,
             \A d, e \in net : d.type = e.type => d = e,
             NEW d \in net', NEW e \in net', d.type = e.type
      PROVE  d = e
  <2>1. CASE d = new /\ e = new
    BY <2>1
  <2>2. CASE d \in old /\ e \in old
    <3>1. PICK d0 \in net : d = [d0 EXCEPT !.fresh = FALSE]
      BY <2>2
    <3>2. PICK e0 \in net : e = [e0 EXCEPT !.fresh = FALSE]
      BY <2>2
    <3>3. d0.type = e0.type
      BY <1>2, <1>5, <3>1, <3>2
    <3>4. QED
      BY <1>5, <3>1, <3>2, <3>3
  <2>3. ASSUME NEW f \in old PROVE f.type # type
    <3>1. PICK f0 \in net : f = [f0 EXCEPT !.fresh = FALSE]
      OBVIOUS
    <3>2. QED
      BY <1>2, <1>5, <3>1
  <2>4. QED
    BY <1>1, <1>3, <1>5, <2>1, <2>2, <2>3
<1>6. QED
  BY <1>4, <1>5

\* handleReceive: what is received was the only datagram of its type.
LEMMA HandleReceiveKeeps ==
  ASSUME IInv, NEW t \in Thread, HandleReceive(t)
  PROVE  IInv'
<1>1. TypeOK'
  BY DEF IInv, TypeOK, HandleReceive, Polling, Datagram
<1>2. (MutexInv /\ PlaceInv)'
  BY DEF IInv, TypeOK, MutexInv, PlaceInv, HandleReceive, Polling
<1>3. (AsyncInv /\ QuietInv)'
  BY DEF IInv, TypeOK, AsyncInv, QuietInv, HandleReceive, Polling
<1>4. (UniqueInv /\ CheckInv)'
  BY DEF IInv, TypeOK, UniqueInv, CheckInv, HandleReceive, Polling
<1>5. (ControlInv /\ AgainInv)'
  BY DEF IInv, TypeOK, ControlInv, AgainInv, HandleReceive, Polling
<1>6. (InProgressInv /\ RecoveryPending)'
  BY DEF IInv, TypeOK, InProgressInv, RecoveryPending, HandleReceive,
     Polling
<1>7. (DownInv /\ BounceInv)'
  BY DEF IInv, TypeOK, MutexInv, PlaceInv, DownInv, BounceInv, HandleReceive,
     Polling
<1>8. QED
  BY <1>1, <1>2, <1>3, <1>4, <1>5, <1>6, <1>7 DEF IInv

\* handleDeadline: a timeout always leaves the link unavailable.
LEMMA HandleDeadlineKeeps ==
  ASSUME IInv, NEW t \in Thread, HandleDeadline(t)
  PROVE  IInv'
<1>1. TypeOK'
  <2>1. pc' \in [Thread -> PC]
    BY DEF IInv, TypeOK, HandleDeadline
  <2>2. isAvailable' \in BOOLEAN /\ checkInProgress' \in BOOLEAN
    BY Zenon DEF IInv, TypeOK, HandleDeadline
  <2>3. QED
    BY <2>1, <2>2 DEF IInv, TypeOK, HandleDeadline, Datagram, Polling
<1>2. (MutexInv /\ PlaceInv)'
  BY DEF IInv, TypeOK, MutexInv, PlaceInv, HandleDeadline, Polling
<1>3. (AsyncInv /\ QuietInv)'
  BY DEF IInv, TypeOK, AsyncInv, QuietInv, HandleDeadline,
     Polling
<1>4. (UniqueInv /\ CheckInv)'
  BY DEF IInv, TypeOK, UniqueInv, CheckInv, HandleDeadline, Polling
<1>5. (ControlInv /\ AgainInv)'
  BY DEF IInv, TypeOK, ControlInv, AgainInv, HandleDeadline, Polling
<1>6. (InProgressInv /\ RecoveryPending)'
  BY DEF IInv, TypeOK, InProgressInv, RecoveryPending, HandleDeadline,
     Polling
<1>7. (DownInv /\ BounceInv)'
  BY DEF IInv, TypeOK, MutexInv, PlaceInv, DownInv, BounceInv, HandleDeadline,
     Polling
<1>8. QED
  BY <1>1, <1>2, <1>3, <1>4, <1>5, <1>6, <1>7 DEF IInv

\* The end of the polling loop: the status is decided.
LEMMA CancelReceiveKeeps ==
  ASSUME IInv, NEW t \in Thread, CancelReceive(t)
  PROVE  IInv'
<1>1. TypeOK'
  BY DEF IInv, TypeOK, CancelReceive, Datagram
<1>2. (MutexInv /\ PlaceInv)'
  BY DEF IInv, TypeOK, MutexInv, PlaceInv, CancelReceive
<1>3. (AsyncInv /\ QuietInv)'
  BY DEF IInv, TypeOK, AsyncInv, QuietInv, CancelReceive
<1>4. (UniqueInv /\ CheckInv)'
  BY DEF IInv, TypeOK, UniqueInv, CheckInv, CancelReceive
<1>5. (ControlInv /\ AgainInv)'
  BY DEF IInv, TypeOK, ControlInv, AgainInv, CancelReceive
<1>6. (InProgressInv /\ RecoveryPending)'
  BY DEF IInv, TypeOK, InProgressInv, RecoveryPending, CancelReceive
<1>7. (DownInv /\ BounceInv)'
  BY DEF IInv, TypeOK, MutexInv, PlaceInv, DownInv, BounceInv, CancelReceive
<1>8. QED
  BY <1>1, <1>2, <1>3, <1>4, <1>5, <1>6, <1>7 DEF IInv

\* The drained receive(): no operation is left.
LEMMA ReceiveReturnKeeps ==
  ASSUME IInv, NEW t \in Thread, ReceiveReturn(t)
  PROVE  IInv'
<1>1. TypeOK'
  BY DEF IInv, TypeOK, ReceiveReturn, Datagram
<1>2. (MutexInv /\ PlaceInv)'
  BY DEF IInv, TypeOK, MutexInv, PlaceInv, ReceiveReturn
<1>3. (AsyncInv /\ QuietInv)'
  BY DEF IInv, TypeOK, AsyncInv, QuietInv, ReceiveReturn
<1>4. (UniqueInv /\ CheckInv)'
  BY DEF IInv, TypeOK, UniqueInv, CheckInv, ReceiveReturn
<1>5. (ControlInv /\ AgainInv)'
  BY DEF IInv, TypeOK, ControlInv, AgainInv, ReceiveReturn
<1>6. (InProgressInv /\ RecoveryPending)'
  BY DEF IInv, TypeOK, InProgressInv, RecoveryPending, ReceiveReturn
<1>7. (DownInv /\ BounceInv)'
  BY DEF IInv, TypeOK, MutexInv, PlaceInv, DownInv, BounceInv, ReceiveReturn
<1>8. QED
  BY <1>1, <1>2, <1>3, <1>4, <1>5, <1>6, <1>7 DEF IInv

\* pthread_mutex_lock in checkStatus.
LEMMA CheckLockKeeps ==
  ASSUME IInv, NEW t \in Checker, CheckLock(t)
  PROVE  IInv'
<1>1. TypeOK'
  BY DEF IInv, TypeOK, CheckLock, Datagram
<1>2. (MutexInv /\ PlaceInv)'
  BY DEF IInv, TypeOK, MutexInv, PlaceInv, CheckLock
<1>3. (AsyncInv /\ QuietInv)'
  BY DEF IInv, TypeOK, AsyncInv, QuietInv, CheckLock
<1>4. (UniqueInv /\ CheckInv)'
  BY DEF IInv, TypeOK, UniqueInv, CheckInv, CheckLock
<1>5. (ControlInv /\ AgainInv)'
  BY DEF IInv, TypeOK, ControlInv, AgainInv, CheckLock
<1>6. (InProgressInv /\ RecoveryPending)'
  BY DEF IInv, TypeOK, InProgressInv, RecoveryPending, CheckLock
<1>7. (DownInv /\ BounceInv)'
  BY DEF IInv, TypeOK, MutexInv, PlaceInv, DownInv, BounceInv, CheckLock
<1>8. QED
  BY <1>1, <1>2, <1>3, <1>4, <1>5, <1>6, <1>7 DEF IInv

\* reopen(): nothing under way can be received any more.
LEMMA CheckReopenKeeps ==
  ASSUME IInv, NEW t \in Checker, CheckReopen(t)
  PROVE  IInv'
<1>1. TypeOK'
  BY DEF IInv, TypeOK, CheckReopen, Datagram
<1>2. (MutexInv /\ PlaceInv)'
  BY DEF IInv, TypeOK, MutexInv, PlaceInv, CheckReopen
<1>3. (AsyncInv /\ QuietInv)'
  BY DEF IInv, TypeOK, AsyncInv, QuietInv, CheckReopen
<1>4. (UniqueInv /\ CheckInv)'
  BY DEF IInv, TypeOK, UniqueInv, CheckInv, CheckReopen
<1>5. (ControlInv /\ AgainInv)'
  BY DEF IInv, TypeOK, ControlInv, AgainInv, CheckReopen
<1>6. (InProgressInv /\ RecoveryPending)'
  BY DEF IInv, TypeOK, InProgressInv, RecoveryPending, CheckReopen
<1>7. (DownInv /\ BounceInv)'
  BY DEF IInv, TypeOK, MutexInv, PlaceInv, DownInv, BounceInv, CheckReopen
<1>8. QED
  BY <1>1, <1>2, <1>3, <1>4, <1>5, <1>6, <1>7 DEF IInv

\* The flag goes down before the status request goes out.
LEMMA CheckBeginKeeps ==
  ASSUME IInv, NEW t \in Checker, CheckBegin(t)
  PROVE  IInv'
<1>1. TypeOK'
  <2>1. pc' \in [Thread -> PC]
    BY DEF IInv, TypeOK, CheckBegin
  <2>2. isAvailable' \in BOOLEAN /\ checkInProgress' \in BOOLEAN
    BY Zenon DEF IInv, TypeOK, CheckBegin
  <2>3. QED
    BY <2>1, <2>2 DEF IInv, TypeOK, CheckBegin, Datagram
<1>2. (MutexInv /\ PlaceInv)'
  BY DEF IInv, TypeOK, MutexInv, PlaceInv, CheckBegin
<1>3. (AsyncInv /\ QuietInv)'
  BY DEF IInv, TypeOK, AsyncInv, QuietInv, CheckBegin
<1>4. (UniqueInv /\ CheckInv)'
  BY DEF IInv, TypeOK, UniqueInv, CheckInv, CheckBegin
<1>5. (ControlInv /\ AgainInv)'
  BY DEF IInv, TypeOK, ControlInv, AgainInv, CheckBegin
<1>6. (InProgressInv /\ RecoveryPending)'
  BY DEF IInv, TypeOK, InProgressInv, RecoveryPending, CheckBegin
<1>7. (DownInv /\ BounceInv)'
  BY DEF IInv, TypeOK, MutexInv, PlaceInv, DownInv, BounceInv, CheckBegin
<1>8. QED
  BY <1>1, <1>2, <1>3, <1>4, <1>5, <1>6, <1>7 DEF IInv

\* The status request is alone on the new port.
LEMMA CheckSendKeeps ==
  ASSUME IInv, NEW t \in Checker, CheckSend(t)
  PROVE  IInv'
<1>1. TypeOK'
  <2>1. pc' \in [Thread -> PC]
    BY DEF IInv, TypeOK, CheckSend
  <2>2. net' \in SUBSET Datagram
    BY SentDatagrams DEF IInv, TypeOK, CheckSend
  <2>3. QED
    BY <2>1, <2>2 DEF IInv, TypeOK, CheckSend, StartReceive
<1>2. (MutexInv /\ PlaceInv)'
  BY DEF IInv, TypeOK, MutexInv, PlaceInv, CheckSend, Send, StartReceive
<1>3. QuietInv'
  BY DEF IInv, TypeOK, QuietInv, CheckSend, Send, StartReceive
<1>4. AsyncInv'
  BY DEF IInv, TypeOK, MutexInv, PlaceInv, AsyncInv, CheckSend, Send,
     StartReceive
<1>5. CheckInv'
  BY DEF IInv, TypeOK, MutexInv, PlaceInv, CheckInv, CheckSend, Send,
     StartReceive
<1>6. UniqueInv'
  <2>1. \A d \in net : d.type # "status"
    BY DEF IInv, CheckInv, CheckSend
  <2>2. \A d, e \in net' : d.type = e.type => d = e
    BY <2>1, SentDatagrams DEF IInv, UniqueInv, CheckSend
  <2>3. receiveStatus' = "Wait" \/ UNCHANGED <<net, recvVars>>
    BY DEF CheckSend, StartReceive
  <2>4. recvData' = NoData \/ UNCHANGED <<net, recvVars>>
    BY DEF CheckSend, StartReceive
  <2>5. \A u \in Thread : u # t => pc'[u] = pc[u]
    BY DEF IInv, TypeOK, CheckSend
  <2>6. pc'[t] \in Receiving => receiveStatus' = "Wait"
    BY DEF IInv, TypeOK, CheckSend, StartReceive
  <2>7. QED
    BY <2>2, <2>3, <2>4, <2>5, <2>6 DEF IInv, UniqueInv
<1>7. (ControlInv /\ AgainInv)'
  BY DEF IInv, TypeOK, MutexInv, PlaceInv, ControlInv, AgainInv, CheckSend,
     Send, StartReceive, Datagram
<1>8. (InProgressInv /\ RecoveryPending)'
  BY DEF IInv, TypeOK, InProgressInv, RecoveryPending, CheckSend, Send,
     StartReceive
<1>9. (DownInv /\ BounceInv)'
  BY DEF IInv, TypeOK, MutexInv, PlaceInv, DownInv, BounceInv, CheckSend,
     Send, StartReceive
<1>10. QED
  BY <1>1, <1>2, <1>3, <1>4, <1>5, <1>6, <1>7, <1>8, <1>9 DEF IInv

\* The flag goes up when no control datagram is under way.
LEMMA CheckJudgeKeeps ==
  ASSUME IInv, NEW t \in Checker, CheckJudge(t)
  PROVE  IInv'
<1>1. TypeOK'
  BY DEF IInv, TypeOK, CheckJudge, Datagram
<1>2. (MutexInv /\ PlaceInv)'
  BY DEF IInv, TypeOK, MutexInv, PlaceInv, CheckJudge
<1>3. (AsyncInv /\ QuietInv)'
  BY DEF IInv, TypeOK, AsyncInv, QuietInv, CheckJudge
<1>4. (UniqueInv /\ CheckInv)'
  BY DEF IInv, TypeOK, UniqueInv, CheckInv, CheckJudge
<1>5. AgainInv'
  BY DEF IInv, TypeOK, AgainInv, CheckJudge
<1>6. ControlInv'
  BY DEF IInv, TypeOK, MutexInv, PlaceInv, AsyncInv, QuietInv,
     UniqueInv, ControlInv, CheckInv, CheckJudge
<1>7. (InProgressInv /\ RecoveryPending)'
  BY DEF IInv, TypeOK, InProgressInv, RecoveryPending, CheckJudge
<1>8. (DownInv /\ BounceInv)'
  <2>1. DownInv'
    BY DEF IInv, TypeOK, MutexInv, DownInv, CheckJudge
  <2>2. recvOp = "idle"
    BY DEF IInv, TypeOK, MutexInv, QuietInv, CheckJudge
  <2>3. isAvailable' => \A d \in net : d.type # "status"
    BY DEF IInv, DownInv, UniqueInv, CheckJudge
  <2>4. \A d \in net : d.type # "control"
    BY DEF IInv, CheckInv, CheckJudge
  <2>5. QED
    BY <2>1, <2>2, <2>3, <2>4 DEF BounceInv, CheckJudge
<1>9. QED
  BY <1>1, <1>2, <1>3, <1>4, <1>5, <1>6, <1>7, <1>8 DEF IInv

\* m_isStatusCheckInProgress goes down before the mutex is released.
LEMMA CheckEndKeeps ==
  ASSUME IInv, NEW t \in Checker, CheckEnd(t)
  PROVE  IInv'
<1>1. TypeOK'
  <2>1. pc' \in [Thread -> PC]
    BY DEF IInv, TypeOK, CheckEnd
  <2>2. isAvailable' \in BOOLEAN /\ checkInProgress' \in BOOLEAN
    BY Zenon DEF IInv, TypeOK, CheckEnd
  <2>3. QED
    BY <2>1, <2>2 DEF IInv, TypeOK, CheckEnd, Datagram
<1>2. (MutexInv /\ PlaceInv)'
  BY DEF IInv, TypeOK, MutexInv, PlaceInv, CheckEnd
<1>3. (AsyncInv /\ QuietInv)'
  BY DEF IInv, TypeOK, AsyncInv, QuietInv, CheckEnd
<1>4. (UniqueInv /\ CheckInv)'
  BY DEF IInv, TypeOK, UniqueInv, CheckInv, CheckEnd
<1>5. (ControlInv /\ AgainInv)'
  BY DEF IInv, TypeOK, ControlInv, AgainInv, CheckEnd
<1>6. (InProgressInv /\ RecoveryPending)'
  BY DEF IInv, TypeOK, InProgressInv, RecoveryPending, CheckEnd
<1>7. (DownInv /\ BounceInv)'
  BY DEF IInv, TypeOK, MutexInv, PlaceInv, DownInv, BounceInv, CheckEnd
<1>8. QED
  BY <1>1, <1>2, <1>3, <1>4, <1>5, <1>6, <1>7 DEF IInv

\* RETURN_AND_RELEASE of checkStatus.
LEMMA CheckUnlockKeeps ==
  ASSUME IInv, NEW t \in Checker, CheckUnlock(t)
  PROVE  IInv'
<1>1. TypeOK'
  BY DEF IInv, TypeOK, CheckUnlock, Datagram
<1>2. (MutexInv /\ PlaceInv)'
  BY DEF IInv, TypeOK, MutexInv, PlaceInv, CheckUnlock
<1>3. (AsyncInv /\ QuietInv)'
  BY DEF IInv, TypeOK, AsyncInv, QuietInv, CheckUnlock
<1>4. (UniqueInv /\ CheckInv)'
  BY DEF IInv, TypeOK, UniqueInv, CheckInv, CheckUnlock
<1>5. (ControlInv /\ AgainInv)'
  BY DEF IInv, TypeOK, ControlInv, AgainInv, CheckUnlock
<1>6. (InProgressInv /\ RecoveryPending)'
  BY DEF IInv, TypeOK, InProgressInv, RecoveryPending, CheckUnlock
<1>7. (DownInv /\ BounceInv)'
  BY DEF IInv, TypeOK, MutexInv, PlaceInv, DownInv, BounceInv, CheckUnlock
<1>8. QED
  BY <1>1, <1>2, <1>3, <1>4, <1>5, <1>6, <1>7 DEF IInv

\* A status thread ends only when the link is up or terminated.
LEMMA StatusLoopKeeps ==
  ASSUME IInv, NEW s \in StatusThread, StatusLoop(s)
  PROVE  IInv'
<1>1. TypeOK'
  BY DEF IInv, TypeOK, StatusLoop, Datagram
<1>2. (MutexInv /\ PlaceInv)'
  BY DEF IInv, TypeOK, MutexInv, PlaceInv, StatusLoop
<1>3. (AsyncInv /\ QuietInv)'
  BY DEF IInv, TypeOK, AsyncInv, QuietInv, StatusLoop
<1>4. (UniqueInv /\ CheckInv)'
  BY DEF IInv, TypeOK, UniqueInv, CheckInv, StatusLoop
<1>5. (ControlInv /\ AgainInv)'
  BY DEF IInv, TypeOK, ControlInv, AgainInv, StatusLoop
<1>6. (InProgressInv /\ RecoveryPending)'
  BY DEF IInv, TypeOK, InProgressInv, RecoveryPending, StatusLoop
<1>7. (DownInv /\ BounceInv)'
  BY DEF IInv, TypeOK, MutexInv, PlaceInv, DownInv, BounceInv, StatusLoop
<1>8. QED
  BY <1>1, <1>2, <1>3, <1>4, <1>5, <1>6, <1>7 DEF IInv

\* runStatusThread: a check in progress is somebody at work already.
LEMMA RunStatusThreadKeeps ==
  ASSUME IInv, NEW t \in {Main, Rpc}, RunStatusThread(t)
  PROVE  IInv'
<1>1. TypeOK'
  BY DEF IInv, TypeOK, RunStatusThread, Afterwards, Datagram
<1>2. (MutexInv /\ PlaceInv)'
  BY DEF IInv, TypeOK, MutexInv, PlaceInv, RunStatusThread, Afterwards
<1>3. (AsyncInv /\ QuietInv)'
  BY DEF IInv, TypeOK, AsyncInv, QuietInv, RunStatusThread,
     Afterwards
<1>4. (UniqueInv /\ CheckInv)'
  BY DEF IInv, TypeOK, UniqueInv, CheckInv, RunStatusThread, Afterwards
<1>5. (ControlInv /\ AgainInv)'
  BY DEF IInv, TypeOK, ControlInv, AgainInv, RunStatusThread, Afterwards
<1>6. InProgressInv'
  BY DEF IInv, TypeOK, InProgressInv, RunStatusThread, Afterwards
<1>7. RecoveryPending'
  BY DEF IInv, TypeOK, MutexInv, PlaceInv, AsyncInv, QuietInv,
     UniqueInv, ControlInv, CheckInv, AgainInv, InProgressInv,
     RecoveryPending, RunStatusThread, Afterwards
<1>8. (DownInv /\ BounceInv)'
  BY DEF IInv, TypeOK, MutexInv, PlaceInv, DownInv, BounceInv,
     RunStatusThread, Afterwards
<1>9. QED
  BY <1>1, <1>2, <1>3, <1>4, <1>5, <1>6, <1>7, <1>8 DEF IInv

\* The entry of rpcHandler.
LEMMA RpcStartKeeps ==
  ASSUME IInv, RpcStart
  PROVE  IInv'
<1>1. TypeOK'
  BY DEF IInv, TypeOK, RpcStart, TransceiveAtMost, Datagram
<1>2. (MutexInv /\ PlaceInv)'
  BY DEF IInv, TypeOK, MutexInv, PlaceInv, RpcStart, TransceiveAtMost
<1>3. (AsyncInv /\ QuietInv)'
  BY DEF IInv, TypeOK, AsyncInv, QuietInv, RpcStart,
     TransceiveAtMost
<1>4. (UniqueInv /\ CheckInv)'
  BY DEF IInv, TypeOK, UniqueInv, CheckInv, RpcStart, TransceiveAtMost
<1>5. (ControlInv /\ AgainInv)'
  BY DEF IInv, TypeOK, ControlInv, AgainInv, RpcStart, TransceiveAtMost
<1>6. (InProgressInv /\ RecoveryPending)'
  BY DEF IInv, TypeOK, InProgressInv, RecoveryPending, RpcStart,
     TransceiveAtMost
<1>7. (DownInv /\ BounceInv)'
  BY DEF IInv, TypeOK, MutexInv, PlaceInv, DownInv, BounceInv, RpcStart,
     TransceiveAtMost
<1>8. QED
  BY <1>1, <1>2, <1>3, <1>4, <1>5, <1>6, <1>7 DEF IInv

\* transceive: an available link has no control datagram under way.
LEMMA TxTestKeeps ==
  ASSUME IInv, TxTest
  PROVE  IInv'
<1>1. TypeOK'
  BY DEF IInv, TypeOK, TxTest, TransceiveAtMost, Datagram
<1>2. (MutexInv /\ PlaceInv)'
  BY DEF IInv, TypeOK, MutexInv, PlaceInv, TxTest, TransceiveAtMost
<1>3. (AsyncInv /\ QuietInv)'
  BY DEF IInv, TypeOK, AsyncInv, QuietInv, TxTest,
     TransceiveAtMost
<1>4. (UniqueInv /\ CheckInv)'
  BY DEF IInv, TypeOK, UniqueInv, CheckInv, TxTest, TransceiveAtMost
<1>5. (ControlInv /\ AgainInv)'
  BY DEF IInv, TypeOK, ControlInv, AgainInv, TxTest, TransceiveAtMost
<1>6. (InProgressInv /\ RecoveryPending)'
  BY DEF IInv, TypeOK, InProgressInv, RecoveryPending, TxTest,
     TransceiveAtMost
<1>7. (DownInv /\ BounceInv)'
  BY DEF IInv, TypeOK, MutexInv, PlaceInv, DownInv, BounceInv, TxTest,
     TransceiveAtMost
<1>8. QED
  BY <1>1, <1>2, <1>3, <1>4, <1>5, <1>6, <1>7 DEF IInv

\* pthread_mutex_lock in transceive.
LEMMA TxLockKeeps ==
  ASSUME IInv, TxLock
  PROVE  IInv'
<1>1. TypeOK'
  BY DEF IInv, TypeOK, TxLock, Datagram
<1>2. (MutexInv /\ PlaceInv)'
  BY DEF IInv, TypeOK, MutexInv, PlaceInv, TxLock
<1>3. (AsyncInv /\ QuietInv)'
  BY DEF IInv, TypeOK, AsyncInv, QuietInv, TxLock
<1>4. (UniqueInv /\ CheckInv)'
  BY DEF IInv, TypeOK, UniqueInv, CheckInv, TxLock
<1>5. (ControlInv /\ AgainInv)'
  BY DEF IInv, TypeOK, ControlInv, AgainInv, TxLock
<1>6. (InProgressInv /\ RecoveryPending)'
  BY DEF IInv, TypeOK, InProgressInv, RecoveryPending, TxLock
<1>7. (DownInv /\ BounceInv)'
  BY DEF IInv, TypeOK, MutexInv, PlaceInv, DownInv, BounceInv, TxLock
<1>8. QED
  BY <1>1, <1>2, <1>3, <1>4, <1>5, <1>6, <1>7 DEF IInv

\* The control request is the only control datagram under way.
LEMMA TxSendKeeps ==
  ASSUME IInv, TxSend
  PROVE  IInv'
<1>1. TypeOK'
  <2>1. pc' \in [Thread -> PC]
    BY DEF IInv, TypeOK, TxSend
  <2>2. net' \in SUBSET Datagram
    BY SentDatagrams DEF IInv, TypeOK, TxSend
  <2>3. QED
    BY <2>1, <2>2 DEF IInv, TypeOK, TxSend, StartReceive
<1>2. (MutexInv /\ PlaceInv)'
  BY DEF IInv, TypeOK, MutexInv, PlaceInv, TxSend, Send, StartReceive
<1>3. QuietInv'
  BY DEF IInv, TypeOK, QuietInv, TxSend, Send, StartReceive
<1>4. AsyncInv'
  BY DEF IInv, TypeOK, MutexInv, PlaceInv, AsyncInv, TxSend, Send,
     StartReceive
<1>5. CheckInv'
  BY DEF IInv, TypeOK, MutexInv, PlaceInv, CheckInv, TxSend, Send,
     StartReceive
<1>6. UniqueInv'
  <2>1. \A d \in net : d.type # "control"
    BY DEF IInv, ControlInv, TypeOK, Datagram, TxSend
  <2>2. \A d, e \in net' : d.type = e.type => d = e
    BY <2>1, SentDatagrams DEF IInv, UniqueInv, TxSend
  <2>3. receiveStatus' = "Wait" \/ UNCHANGED <<net, recvVars>>
    BY DEF TxSend, StartReceive
  <2>4. recvData' = NoData \/ UNCHANGED <<net, recvVars>>
    BY DEF TxSend, StartReceive
  <2>5. \A u \in Thread : u # Rpc => pc'[u] = pc[u]
    BY DEF IInv, TypeOK, TxSend
  <2>6. pc'[Rpc] \in Receiving => receiveStatus' = "Wait"
    BY DEF IInv, TypeOK, TxSend, StartReceive
  <2>7. QED
    BY <2>2, <2>3, <2>4, <2>5, <2>6 DEF IInv, UniqueInv
<1>7. (ControlInv /\ AgainInv)'
  BY DEF IInv, TypeOK, ControlInv, AgainInv, TxSend, Send, StartReceive,
     Datagram
<1>8. (InProgressInv /\ RecoveryPending)'
  BY DEF IInv, TypeOK, InProgressInv, RecoveryPending, TxSend, Send,
     StartReceive
<1>9. (DownInv /\ BounceInv)'
  <2>1. DownInv'
    BY DEF IInv, TypeOK, PlaceInv, DownInv, TxSend
  <2>2. isAvailable' => \A d \in net' : d.type # "status"
    <3>1. \A d \in net : [d EXCEPT !.fresh = FALSE].type = d.type
      BY DEF IInv, TypeOK, Datagram
    <3>2. isAvailable => \A d \in net : d.type # "status"
      BY DEF IInv, BounceInv
    <3>3. isAvailable' = isAvailable
      BY DEF TxSend
    <3>4. ASSUME NEW d \in net'
          PROVE  d \in net \/ d.type = "control" \/ \E e \in net : d.type = e.type
      <4>1. CASE net' = net
        BY <4>1
      <4>2. CASE Send("control")
        <5>1. d \in {[x EXCEPT !.fresh = FALSE] : x \in net} \/ d.type = "control"
          BY <4>2 DEF Send
        <5>2. ASSUME NEW x \in net, d = [x EXCEPT !.fresh = FALSE] PROVE d.type = x.type
          BY <3>1, <5>2
        <5>3. QED
          BY <5>1, <5>2
      <4>3. QED
        BY <4>1, <4>2 DEF TxSend
    <3>5. QED
      BY <3>2, <3>3, <3>4
  <2>3. CASE pc'[Rpc] = "run"
    BY <2>1, <2>2, <2>3 DEF IInv, TypeOK, BounceInv, TxSend, StartReceive
  <2>4. CASE pc'[Rpc] = "txUnlock"
    BY <2>1, <2>2, <2>4 DEF IInv, TypeOK, BounceInv, TxSend
  <2>5. QED
    BY <2>3, <2>4 DEF IInv, TypeOK, TxSend
<1>10. QED
  BY <1>1, <1>2, <1>3, <1>4, <1>5, <1>6, <1>7, <1>8, <1>9 DEF IInv

\* Either way out of the exchange leaves no control datagram, or a link down.
LEMMA TxJudgeKeeps ==
  ASSUME IInv, TxJudge
  PROVE  IInv'
<1>1. TypeOK'
  <2>1. pc' \in [Thread -> PC]
    BY DEF IInv, TypeOK, TxJudge
  <2>2. QED
    BY <2>1 DEF IInv, TypeOK, TxJudge, StartReceive
<1>2. (MutexInv /\ PlaceInv)'
  BY DEF IInv, TypeOK, MutexInv, PlaceInv, TxJudge, StartReceive
<1>3. QuietInv'
  BY DEF IInv, TypeOK, QuietInv, TxJudge, StartReceive
<1>4. AsyncInv'
  BY DEF IInv, TypeOK, MutexInv, PlaceInv, AsyncInv, TxJudge, StartReceive
<1>5. (UniqueInv /\ CheckInv)'
  BY DEF IInv, TypeOK, UniqueInv, CheckInv, TxJudge, StartReceive
<1>6. (ControlInv /\ AgainInv)'
  BY DEF IInv, TypeOK, MutexInv, PlaceInv, AsyncInv, QuietInv,
     UniqueInv, BounceInv, ControlInv, AgainInv, TxJudge, StartReceive,
     Datagram
<1>7. (InProgressInv /\ RecoveryPending)'
  BY DEF IInv, TypeOK, InProgressInv, RecoveryPending, TxJudge, StartReceive
<1>8. (DownInv /\ BounceInv)'
  BY DEF IInv, TypeOK, MutexInv, PlaceInv, DownInv, BounceInv, TxJudge,
     StartReceive
<1>9. QED
  BY <1>1, <1>2, <1>3, <1>4, <1>5, <1>6, <1>7, <1>8 DEF IInv

\* RETURN_AND_RELEASE of transceive.
LEMMA TxUnlockKeeps ==
  ASSUME IInv, TxUnlock
  PROVE  IInv'
<1>1. TypeOK'
  BY DEF IInv, TypeOK, TxUnlock, TransceiveAtMost, Datagram
<1>2. (MutexInv /\ PlaceInv)'
  BY DEF IInv, TypeOK, MutexInv, PlaceInv, TxUnlock, TransceiveAtMost
<1>3. (AsyncInv /\ QuietInv)'
  BY DEF IInv, TypeOK, AsyncInv, QuietInv, TxUnlock,
     TransceiveAtMost
<1>4. (UniqueInv /\ CheckInv)'
  BY DEF IInv, TypeOK, UniqueInv, CheckInv, TxUnlock, TransceiveAtMost
<1>5. (ControlInv /\ AgainInv)'
  BY DEF IInv, TypeOK, ControlInv, AgainInv, TxUnlock, TransceiveAtMost
<1>6. (InProgressInv /\ RecoveryPending)'
  BY DEF IInv, TypeOK, InProgressInv, RecoveryPending, TxUnlock,
     TransceiveAtMost
<1>7. (DownInv /\ BounceInv)'
  BY DEF IInv, TypeOK, MutexInv, PlaceInv, DownInv, BounceInv, TxUnlock,
     TransceiveAtMost
<1>8. QED
  BY <1>1, <1>2, <1>3, <1>4, <1>5, <1>6, <1>7 DEF IInv

\* The end of rpcHandler: it returns only if the link is up.
LEMMA RpcFinalKeeps ==
  ASSUME IInv, RpcFinal
  PROVE  IInv'
<1>1. TypeOK'
  BY DEF IInv, TypeOK, RpcFinal, Datagram
<1>2. (MutexInv /\ PlaceInv)'
  BY DEF IInv, TypeOK, MutexInv, PlaceInv, RpcFinal
<1>3. (AsyncInv /\ QuietInv)'
  BY DEF IInv, TypeOK, AsyncInv, QuietInv, RpcFinal
<1>4. (UniqueInv /\ CheckInv)'
  BY DEF IInv, TypeOK, UniqueInv, CheckInv, RpcFinal
<1>5. (ControlInv /\ AgainInv)'
  BY DEF IInv, TypeOK, ControlInv, AgainInv, RpcFinal
<1>6. (InProgressInv /\ RecoveryPending)'
  BY DEF IInv, TypeOK, InProgressInv, RecoveryPending, RpcFinal
<1>7. (DownInv /\ BounceInv)'
  BY DEF IInv, TypeOK, MutexInv, PlaceInv, DownInv, BounceInv, RpcFinal
<1>8. QED
  BY <1>1, <1>2, <1>3, <1>4, <1>5, <1>6, <1>7 DEF IInv

\* SwtLink::terminate.
LEMMA TerminateKeeps ==
  ASSUME IInv, Terminate
  PROVE  IInv'
<1>1. TypeOK'
  BY DEF IInv, TypeOK, Terminate, Datagram
<1>2. (MutexInv /\ PlaceInv)'
  BY DEF IInv, TypeOK, MutexInv, PlaceInv, Terminate
<1>3. (AsyncInv /\ QuietInv)'
  BY DEF IInv, TypeOK, AsyncInv, QuietInv, Terminate
<1>4. (UniqueInv /\ CheckInv)'
  BY DEF IInv, TypeOK, UniqueInv, CheckInv, Terminate
<1>5. (ControlInv /\ AgainInv)'
  BY DEF IInv, TypeOK, ControlInv, AgainInv, Terminate
<1>6. (InProgressInv /\ RecoveryPending)'
  BY DEF IInv, TypeOK, InProgressInv, RecoveryPending, Terminate
<1>7. (DownInv /\ BounceInv)'
  BY DEF IInv, TypeOK, MutexInv, PlaceInv, DownInv, BounceInv, Terminate
<1>8. QED
  BY <1>1, <1>2, <1>3, <1>4, <1>5, <1>6, <1>7 DEF IInv

\* A reply comes in: it leaves the network.
LEMMA DatagramArrivesKeeps ==
  ASSUME IInv, DatagramArrives
  PROVE  IInv'
<1>1. TypeOK'
  BY DEF IInv, TypeOK, DatagramArrives, Replies, Datagram
<1>2. (MutexInv /\ PlaceInv)'
  BY DEF IInv, TypeOK, MutexInv, PlaceInv, DatagramArrives, Replies
<1>3. (AsyncInv /\ QuietInv)'
  BY DEF IInv, TypeOK, AsyncInv, QuietInv, DatagramArrives,
     Replies
<1>4. (UniqueInv /\ CheckInv)'
  BY DEF IInv, TypeOK, UniqueInv, CheckInv, DatagramArrives, Replies
<1>5. (ControlInv /\ AgainInv)'
  BY DEF IInv, TypeOK, ControlInv, AgainInv, DatagramArrives, Replies
<1>6. (InProgressInv /\ RecoveryPending)'
  BY DEF IInv, TypeOK, InProgressInv, RecoveryPending, DatagramArrives,
     Replies
<1>7. (DownInv /\ BounceInv)'
  BY DEF IInv, TypeOK, MutexInv, PlaceInv, DownInv, BounceInv,
     DatagramArrives, Replies
<1>8. QED
  BY <1>1, <1>2, <1>3, <1>4, <1>5, <1>6, <1>7 DEF IInv

\* A request comes back: it was the control request, or the link is down.
LEMMA RequestBouncesKeeps ==
  ASSUME IInv, RequestBounces
  PROVE  IInv'
<1>1. TypeOK'
  BY DEF IInv, TypeOK, RequestBounces, Requests, Datagram
<1>2. (MutexInv /\ PlaceInv)'
  BY DEF IInv, TypeOK, MutexInv, PlaceInv, RequestBounces, Requests
<1>3. (AsyncInv /\ QuietInv)'
  BY DEF IInv, TypeOK, AsyncInv, QuietInv, RequestBounces, Requests
<1>4. (UniqueInv /\ CheckInv)'
  BY DEF IInv, TypeOK, UniqueInv, CheckInv, RequestBounces, Requests
<1>5. (ControlInv /\ AgainInv)'
  BY DEF IInv, TypeOK, ControlInv, AgainInv, RequestBounces, Requests
<1>6. (InProgressInv /\ RecoveryPending)'
  BY DEF IInv, TypeOK, InProgressInv, RecoveryPending, RequestBounces,
     Requests
<1>7. (DownInv /\ BounceInv)'
  BY DEF IInv, TypeOK, MutexInv, PlaceInv, DownInv, BounceInv, UniqueInv,
     RequestBounces, Requests, Datagram
<1>8. QED
  BY <1>1, <1>2, <1>3, <1>4, <1>5, <1>6, <1>7 DEF IInv

\* The deadline passes.
LEMMA TimerExpiresKeeps ==
  ASSUME IInv, TimerExpires
  PROVE  IInv'
<1>1. TypeOK'
  BY DEF IInv, TypeOK, TimerExpires, Datagram
<1>2. (MutexInv /\ PlaceInv)'
  BY DEF IInv, TypeOK, MutexInv, PlaceInv, TimerExpires
<1>3. (AsyncInv /\ QuietInv)'
  BY DEF IInv, TypeOK, AsyncInv, QuietInv, TimerExpires
<1>4. (UniqueInv /\ CheckInv)'
  BY DEF IInv, TypeOK, UniqueInv, CheckInv, TimerExpires
<1>5. (ControlInv /\ AgainInv)'
  BY DEF IInv, TypeOK, ControlInv, AgainInv, TimerExpires
<1>6. (InProgressInv /\ RecoveryPending)'
  BY DEF IInv, TypeOK, InProgressInv, RecoveryPending, TimerExpires
<1>7. (DownInv /\ BounceInv)'
  BY DEF IInv, TypeOK, MutexInv, PlaceInv, DownInv, BounceInv, TimerExpires
<1>8. QED
  BY <1>1, <1>2, <1>3, <1>4, <1>5, <1>6, <1>7 DEF IInv

\* The device answers: the reply is as fresh as the request.
LEMMA DeviceRepliesKeeps ==
  ASSUME IInv, DeviceReplies
  PROVE  IInv'
<1>1. TypeOK'
  BY DEF IInv, TypeOK, DeviceReplies, Requests, Datagram
<1>2. (MutexInv /\ PlaceInv)'
  BY DEF IInv, TypeOK, MutexInv, PlaceInv, DeviceReplies, Requests
<1>3. (AsyncInv /\ QuietInv)'
  BY DEF IInv, TypeOK, AsyncInv, QuietInv, DeviceReplies,
     Requests
<1>4. (UniqueInv /\ CheckInv)'
  BY DEF IInv, TypeOK, UniqueInv, CheckInv, DeviceReplies, Requests,
     Datagram
<1>5. (ControlInv /\ AgainInv)'
  BY DEF IInv, TypeOK, ControlInv, AgainInv, DeviceReplies, Requests,
     Datagram
<1>6. (InProgressInv /\ RecoveryPending)'
  BY DEF IInv, TypeOK, InProgressInv, RecoveryPending, DeviceReplies,
     Requests
<1>7. (DownInv /\ BounceInv)'
  BY DEF IInv, TypeOK, MutexInv, PlaceInv, DownInv, BounceInv, DeviceReplies,
     Requests, Datagram
<1>8. QED
  BY <1>1, <1>2, <1>3, <1>4, <1>5, <1>6, <1>7 DEF IInv

\* The network loses a datagram.
LEMMA LoseKeeps ==
  ASSUME IInv, Lose
  PROVE  IInv'
<1>1. TypeOK'
  BY DEF IInv, TypeOK, Lose, Datagram
<1>2. (MutexInv /\ PlaceInv)'
  BY DEF IInv, TypeOK, MutexInv, PlaceInv, Lose
<1>3. (AsyncInv /\ QuietInv)'
  BY DEF IInv, TypeOK, AsyncInv, QuietInv, Lose
<1>4. (UniqueInv /\ CheckInv)'
  BY DEF IInv, TypeOK, UniqueInv, CheckInv, Lose
<1>5. (ControlInv /\ AgainInv)'
  BY DEF IInv, TypeOK, ControlInv, AgainInv, Lose
<1>6. (InProgressInv /\ RecoveryPending)'
  BY DEF IInv, TypeOK, InProgressInv, RecoveryPending, Lose
<1>7. (DownInv /\ BounceInv)'
  BY DEF IInv, TypeOK, MutexInv, PlaceInv, DownInv, BounceInv, Lose
<1>8. QED
  BY <1>1, <1>2, <1>3, <1>4, <1>5, <1>6, <1>7 DEF IInv

\* The network and the device work from here on.
LEMMA HealKeeps ==
  ASSUME IInv, Heal
  PROVE  IInv'
<1>1. TypeOK'
  BY DEF IInv, TypeOK, Heal, Datagram
<1>2. (MutexInv /\ PlaceInv)'
  BY DEF IInv, TypeOK, MutexInv, PlaceInv, Heal
<1>3. (AsyncInv /\ QuietInv)'
  BY DEF IInv, TypeOK, AsyncInv, QuietInv, Heal
<1>4. (UniqueInv /\ CheckInv)'
  BY DEF IInv, TypeOK, UniqueInv, CheckInv, Heal
<1>5. (ControlInv /\ AgainInv)'
  BY DEF IInv, TypeOK, ControlInv, AgainInv, Heal
<1>6. (InProgressInv /\ RecoveryPending)'
  BY DEF IInv, TypeOK, InProgressInv, RecoveryPending, Heal
<1>7. (DownInv /\ BounceInv)'
  BY DEF IInv, TypeOK, MutexInv, PlaceInv, DownInv, BounceInv, Heal
<1>8. QED
  BY <1>1, <1>2, <1>3, <1>4, <1>5, <1>6, <1>7 DEF IInv

\* The invariant holds when the constructor begins.
LEMMA InitIInv == Init => IInv
<1> SUFFICES ASSUME Init PROVE IInv
  OBVIOUS
<1>1. \A t \in Thread : pc[t] = IF t = Main THEN "chkLock" ELSE "idle"
  BY DEF Init
<1>2. TypeOK
  BY DEF Init, TypeOK
<1>3. MutexInv /\ PlaceInv /\ RecoveryPending
  BY <1>1 DEF Init, MutexInv, PlaceInv, RecoveryPending
<1>4. AsyncInv /\ QuietInv /\ UniqueInv
  BY <1>1 DEF Init, AsyncInv, QuietInv, UniqueInv
<1>5. ControlInv /\ CheckInv /\ AgainInv /\ InProgressInv
  BY <1>1 DEF Init, ControlInv, CheckInv, AgainInv, InProgressInv
<1>6. DownInv /\ BounceInv
  BY <1>1 DEF Init, DownInv, BounceInv
<1>7. QED
  BY <1>2, <1>3, <1>4, <1>5, <1>6 DEF IInv

\* A step that changes nothing keeps it.
LEMMA StutterKeeps == IInv /\ UNCHANGED vars => IInv'
BY DEF IInv, vars, TypeOK, MutexInv, PlaceInv, AsyncInv, QuietInv,
       DownInv, UniqueInv, BounceInv, ControlInv, CheckInv, AgainInv, InProgressInv, RecoveryPending

\* Every step of the specification is a step of one of the lemmas.
LEMMA NextKeeps == IInv /\ [Next]_vars => IInv'
<1> SUFFICES ASSUME IInv, [Next]_vars PROVE IInv'
  OBVIOUS
<1>1. ASSUME NEW t \in Thread, ReceiveStep(t) PROVE IInv'
  BY <1>1, HandleReceiveKeeps, HandleDeadlineKeeps, CancelReceiveKeeps,
     ReceiveReturnKeeps DEF ReceiveStep
<1>2. ASSUME NEW t \in Checker, CheckStep(t) PROVE IInv'
  BY <1>2, CheckLockKeeps, CheckReopenKeeps, CheckBeginKeeps, CheckSendKeeps,
     CheckJudgeKeeps, CheckEndKeeps, CheckUnlockKeeps DEF CheckStep
<1>3. CASE MainStep
  BY <1>1, <1>2, <1>3, RunStatusThreadKeeps DEF MainStep
<1>4. ASSUME NEW s \in StatusThread, StatusStep(s) PROVE IInv'
  BY <1>1, <1>2, <1>4, StatusLoopKeeps DEF StatusStep
<1>5. CASE RpcStart
  BY <1>5, RpcStartKeeps
<1>6. CASE RpcStep
  BY <1>1, <1>6, TxTestKeeps, TxLockKeeps, TxSendKeeps, TxJudgeKeeps,
     TxUnlockKeeps, RpcFinalKeeps, RunStatusThreadKeeps DEF RpcStep
<1>7. CASE Environment
  BY <1>7, TerminateKeeps, DatagramArrivesKeeps, RequestBouncesKeeps,
     TimerExpiresKeeps, DeviceRepliesKeeps, LoseKeeps, HealKeeps DEF Environment
<1>8. CASE UNCHANGED vars
  BY <1>8, StutterKeeps
<1>9. QED
  BY <1>3, <1>4, <1>5, <1>6, <1>7, <1>8 DEF Next

\* The invariant holds in every reachable state, whatever the constants.
THEOREM InvariantHolds == Spec => []IInv
BY InitIInv, NextKeeps, PTL DEF Spec

\* The variables keep to their types.
THEOREM TypeCorrect == Spec => []TypeOK
<1>1. IInv => TypeOK
  BY DEF IInv
<1>2. QED
  BY InvariantHolds, <1>1, PTL

\* A control reply judged by transceive() answers the request it just sent.
THEOREM FreshAnswerHolds == Spec => []FreshAnswer
<1>1. IInv => FreshAnswer
  BY DEF IInv, ControlInv, FreshAnswer
<1>2. QED
  BY InvariantHolds, <1>1, PTL

\* A link that is down always has somebody to bring it up.
THEOREM RecoveryPendingHolds == Spec => []RecoveryPending
<1>1. IInv => RecoveryPending
  BY DEF IInv
<1>2. QED
  BY InvariantHolds, <1>1, PTL

\* Only CheckJudge raises the flag, and only on a fresh status reply.
THEOREM OnlyAFreshStatusRaisesHolds == Spec => OnlyAFreshStatusRaises
<1> DEFINE Step ==
      ~isAvailable /\ isAvailable' =>
        /\ \E t \in Checker : linkMutex = t /\ pc[t] = "judge"
        /\ Got("status") /\ received.fresh
<1>1. IInv /\ [Next]_vars => [Step]_vars
  <2> SUFFICES ASSUME IInv, Next, ~isAvailable, isAvailable'
               PROVE  /\ \E t \in Checker : linkMutex = t /\ pc[t] = "judge"
                      /\ Got("status") /\ received.fresh
    OBVIOUS
  <2>1. PICK t \in Checker : CheckJudge(t)
    BY DEF Next, MainStep, StatusStep, RpcStep, Environment, ReceiveStep, CheckStep,
       HandleReceive, HandleDeadline, CancelReceive, ReceiveReturn, CheckLock,
       CheckReopen, CheckBegin, CheckSend, CheckEnd, CheckUnlock, StatusLoop,
       RunStatusThread, RpcStart, TxTest, TxLock, TxSend, TxJudge, TxUnlock,
       RpcFinal, Terminate, DatagramArrives, RequestBounces, TimerExpires, DeviceReplies, Lose, Heal
  <2>2. pc[t] = "judge" /\ Got("status")
    BY <2>1 DEF CheckJudge
  <2>3. linkMutex = t
    BY <2>2 DEF IInv, MutexInv
  <2>4. received.fresh
    BY <2>2 DEF IInv, CheckInv
  <2>5. QED
    BY <2>2, <2>3, <2>4
<1>2. QED
  BY InvariantHolds, <1>1, PTL DEF Spec, OnlyAFreshStatusRaises

-----------------------------------------------------------------------------
(* IPbusLink implements LinkService: every step of it is a step of the     *)
(* service or changes nothing there.                                       *)

-----------------------------------------------------------------------------
(* The service as a thread inside the mutex sees it.                       *)

LEMMA UserInside ==
  ASSUME IInv, NEW t \in Thread, pc[t] \in Critical
  PROVE  linkMutex = t /\ User = UserKind(t) /\ Outcome = OutcomeOf(t)
BY DEF IInv, MutexInv, User, Outcome

\* A thread that stays inside, without touching the flag, and whose outcome
\* stays the same, changes nothing.
LEMMA InsideStutters ==
  ASSUME IInv, IInv', NEW t \in Thread, pc[t] \in Critical, pc'[t] \in Critical,
         UNCHANGED isAvailable, OutcomeOf(t)' = OutcomeOf(t)
  PROVE  UNCHANGED Service!vars
<1>1. linkMutex = t /\ User = UserKind(t) /\ Outcome = OutcomeOf(t)
  BY UserInside
<1>2. linkMutex' = t /\ User' = UserKind(t) /\ Outcome' = OutcomeOf(t)'
  BY DEF IInv, MutexInv, User, Outcome, UserKind
<1>3. QED
  BY <1>1, <1>2 DEF Service!vars

\* Nobody enters or leaves the mutex, and nobody inside it moves.
LEMMA OutsideStutters ==
  ASSUME IInv, UNCHANGED <<isAvailable, linkMutex, receiveStatus, received>>,
         \A t \in Thread : pc[t] \in Critical => pc'[t] = pc[t]
  PROVE  UNCHANGED Service!vars
<1>1. linkMutex # NoThread => pc[linkMutex] \in Critical /\ linkMutex \in Thread
  BY DEF IInv, TypeOK, MutexInv
<1>2. linkMutex # NoThread => pc'[linkMutex] = pc[linkMutex]
  BY <1>1
<1>3. User' = User /\ Outcome' = Outcome
  BY <1>2 DEF User, UserKind, Outcome, OutcomeOf
<1>4. QED
  BY <1>3 DEF Service!vars

\* A thread that takes the mutex begins, one that leaves it ends.
LEMMA LockBegins ==
  ASSUME IInv, NEW t \in Thread, linkMutex = NoThread, linkMutex' = t,
         UNCHANGED isAvailable,
         OutcomeOf(t)' = "pending" \/ (t = Rpc /\ OutcomeOf(t)' = "done")
  PROVE  Service!Begin(UserKind(t))
BY DEF Service!Begin, User, UserKind, Outcome

LEMMA UnlockEnds ==
  ASSUME IInv, NEW t \in Thread, pc[t] \in {"chkUnlock", "txUnlock"}, linkMutex' = NoThread,
         UNCHANGED isAvailable
  PROVE  Service!End
<1>1. User = UserKind(t) /\ Outcome = "done"
  BY UserInside DEF OutcomeOf
<1>2. User' = "free" /\ Outcome' = "done"
  BY DEF User, Outcome
<1>3. QED
  BY <1>1, <1>2 DEF Service!End, UserKind

-----------------------------------------------------------------------------
(* The steps.                                                              *)

LEMMA ReceiveServes ==
  ASSUME IInv, IInv', NEW t \in Thread, ReceiveStep(t)
  PROVE  Service!Next \/ UNCHANGED Service!vars
<1>1. pc[t] \in InReceive /\ pc'[t] \in Receiving
  BY DEF IInv, TypeOK, ReceiveStep, HandleReceive, HandleDeadline, CancelReceive,
         ReceiveReturn, Polling
<1>2. /\ User = UserKind(t) /\ Outcome = OutcomeOf(t)
      /\ User' = UserKind(t) /\ Outcome' = OutcomeOf(t)'
  BY <1>1, UserInside DEF IInv, MutexInv, User, Outcome, UserKind
<1>3. CASE HandleReceive(t) /\ receiveStatus = "Wait"
  <2>1. /\ OutcomeOf(t) = "pending" /\ receiveStatus' = "Received"
        /\ UNCHANGED <<pc, isAvailable>>
    BY <1>1, <1>3 DEF HandleReceive, OutcomeOf
  <2>2. OutcomeOf(t)' \in {"own", "pending"}
    <3>1. CASE t = Rpc
      BY <1>1, <2>1, <3>1 DEF IInv, ControlInv, OutcomeOf
    <3>2. CASE t \in Checker
      BY <1>1, <2>1, <3>2 DEF IInv, CheckInv, OutcomeOf
    <3>3. QED
      BY <3>1, <3>2
  <2>3. CASE OutcomeOf(t)' = "own"
    BY <1>2, <2>1, <2>3 DEF Service!Next, Service!Answer, UserKind
  <2>4. CASE OutcomeOf(t)' = "pending"
    BY <1>2, <2>1, <2>4 DEF Service!vars
  <2>5. QED
    BY <2>2, <2>3, <2>4
<1>4. CASE HandleDeadline(t) /\ receiveStatus = "Wait"
  <2>1. OutcomeOf(t) = "pending" /\ OutcomeOf(t)' = "timeout" /\ isAvailable' = FALSE
    BY <1>1, <1>4 DEF HandleDeadline, OutcomeOf
  <2>2. QED
    BY <1>2, <2>1 DEF Service!Next, Service!Expire, UserKind
<1>5. CASE \/ HandleReceive(t) /\ receiveStatus # "Wait"
           \/ HandleDeadline(t) /\ receiveStatus # "Wait"
           \/ CancelReceive(t) \/ ReceiveReturn(t)
  <2>1. UNCHANGED <<isAvailable, receiveStatus, received>>
    BY <1>5 DEF HandleReceive, HandleDeadline, CancelReceive, ReceiveReturn
  <2>2. OutcomeOf(t)' = OutcomeOf(t)
    BY <1>1, <2>1 DEF OutcomeOf
  <2>3. QED
    BY <1>2, <2>1, <2>2 DEF Service!vars
<1>6. QED
  BY <1>3, <1>4, <1>5 DEF ReceiveStep

LEMMA CheckServes ==
  ASSUME IInv, IInv', NEW t \in Checker, CheckStep(t)
  PROVE  Service!Next \/ UNCHANGED Service!vars
<1>1. ASSUME pc[t] \in Critical
      PROVE  User = "check" /\ Outcome = OutcomeOf(t)
  BY <1>1, UserInside DEF UserKind
<1>2. ASSUME pc'[t] \in Critical
      PROVE  User' = "check" /\ Outcome' = OutcomeOf(t)'
  BY <1>2 DEF IInv, MutexInv, User, Outcome, UserKind
<1>3. CASE CheckLock(t)
  <2>1. OutcomeOf(t)' = "pending"
    BY <1>3 DEF CheckLock, OutcomeOf, IInv, TypeOK
  <2>2. Service!Begin(UserKind(t))
    BY <1>3, <2>1, LockBegins DEF CheckLock
  <2>3. QED
    BY <2>2 DEF Service!Next, UserKind
<1>4. CASE CheckReopen(t)
  <2>1. pc[t] = "chkReopen" /\ pc'[t] = "chkBegin" /\ UNCHANGED isAvailable
    BY <1>4 DEF CheckReopen, IInv, TypeOK
  <2>2. OutcomeOf(t) = "pending" /\ OutcomeOf(t)' = "pending"
    BY <2>1 DEF OutcomeOf
  <2>3. QED
    BY <1>1, <1>2, <2>1, <2>2 DEF Service!vars
<1>5. CASE CheckBegin(t)
  <2>1. pc[t] = "chkBegin" /\ pc'[t] = "chkSend" /\ isAvailable' = FALSE
    BY <1>5 DEF CheckBegin, IInv, TypeOK
  <2>2. OutcomeOf(t) = "pending" /\ OutcomeOf(t)' = "pending"
    BY <2>1 DEF OutcomeOf
  <2>3. QED
    BY <1>1, <1>2, <2>1, <2>2 DEF Service!Next, Service!TakeDown
<1>6. CASE CheckSend(t)
  <2>1. pc[t] = "chkSend" /\ OutcomeOf(t) = "pending" /\ ~isAvailable
    BY <1>6 DEF CheckSend, OutcomeOf, IInv, DownInv
  <2>2. CASE pc'[t] = "run"
    <3>1. receiveStatus' = "Wait" /\ isAvailable' = isAvailable
      BY <1>6, <2>2 DEF CheckSend, StartReceive, IInv, TypeOK
    <3>2. OutcomeOf(t)' = "pending"
      BY <2>2, <3>1 DEF OutcomeOf
    <3>3. QED
      BY <1>1, <1>2, <2>1, <2>2, <3>1, <3>2 DEF Service!vars
  <2>3. CASE pc'[t] = "chkEnd"
    <3>1. isAvailable' = isAvailable
      BY <1>6, <2>1, <2>3 DEF CheckSend, IInv, TypeOK
    <3>2. OutcomeOf(t)' = "done"
      BY <2>3 DEF OutcomeOf
    <3>3. QED
      BY <1>1, <1>2, <2>1, <2>3, <3>1, <3>2 DEF Service!Next, Service!Conclude
  <2>4. QED
    BY <1>6, <2>2, <2>3 DEF CheckSend, IInv, TypeOK
<1>7. CASE CheckJudge(t)
  <2>1. pc[t] = "judge" /\ pc'[t] = "chkEnd" /\ OutcomeOf(t)' = "done" /\ ~isAvailable
    BY <1>7 DEF CheckJudge, OutcomeOf, IInv, TypeOK, DownInv
  <2>2. CASE Got("status")
    <3>1. OutcomeOf(t) = "own"
      BY <2>1, <2>2 DEF IInv, CheckInv, OutcomeOf
    <3>2. isAvailable' = TRUE
      BY <1>7, <2>2 DEF CheckJudge
    <3>3. QED
      BY <1>1, <1>2, <2>1, <3>1, <3>2 DEF Service!Next, Service!Raise
  <2>3. CASE ~Got("status")
    <3>1. OutcomeOf(t) \in {"timeout", "pending"}
      BY <2>1, <2>3 DEF OutcomeOf
    <3>2. isAvailable' = isAvailable
      BY <1>7, <2>1, <2>3 DEF CheckJudge, IInv, TypeOK
    <3>3. QED
      BY <1>1, <1>2, <2>1, <3>1, <3>2 DEF Service!Next, Service!Conclude
  <2>4. QED
    BY <2>2, <2>3
<1>8. CASE CheckEnd(t)
  <2>1. pc[t] = "chkEnd" /\ pc'[t] = "chkUnlock" /\ UNCHANGED isAvailable
    BY <1>8 DEF CheckEnd, IInv, TypeOK
  <2>2. OutcomeOf(t) = "done" /\ OutcomeOf(t)' = "done"
    BY <2>1 DEF OutcomeOf
  <2>3. QED
    BY <1>1, <1>2, <2>1, <2>2 DEF Service!vars
<1>9. CASE CheckUnlock(t)
  BY <1>9, UnlockEnds DEF CheckUnlock, Service!Next
<1>10. QED
  BY <1>3, <1>4, <1>5, <1>6, <1>7, <1>8, <1>9 DEF CheckStep

LEMMA ExchangeServes ==
  ASSUME IInv, IInv', TxLock \/ TxSend \/ TxJudge \/ TxUnlock
  PROVE  Service!Next \/ UNCHANGED Service!vars
<1>1. ASSUME pc[Rpc] \in Critical
      PROVE  User = "exchange" /\ Outcome = OutcomeOf(Rpc)
  BY <1>1, UserInside DEF UserKind
<1>2. ASSUME pc'[Rpc] \in Critical
      PROVE  User' = "exchange" /\ Outcome' = OutcomeOf(Rpc)'
  BY <1>2 DEF IInv, MutexInv, User, Outcome, UserKind
<1>3. CASE TxLock
  <2>1. OutcomeOf(Rpc)' \in {"pending", "done"}
    BY <1>3 DEF TxLock, OutcomeOf, IInv, TypeOK
  <2>2. Service!Begin(UserKind(Rpc))
    BY <1>3, <2>1, LockBegins DEF TxLock
  <2>3. QED
    BY <2>2 DEF Service!Next, UserKind
<1>4. CASE TxSend
  <2>1. pc[Rpc] = "txSend" /\ OutcomeOf(Rpc) = "pending" /\ UNCHANGED isAvailable
    BY <1>4 DEF TxSend, OutcomeOf
  <2>2. CASE pc'[Rpc] = "run"
    <3>1. OutcomeOf(Rpc)' = "pending"
      BY <1>4, <2>2 DEF TxSend, StartReceive, OutcomeOf, IInv, TypeOK
    <3>2. QED
      BY <1>1, <1>2, <2>1, <2>2, <3>1 DEF Service!vars
  <2>3. CASE pc'[Rpc] = "txUnlock"
    <3>1. OutcomeOf(Rpc)' = "done"
      BY <2>3 DEF OutcomeOf
    <3>2. QED
      BY <1>1, <1>2, <2>1, <2>3, <3>1 DEF Service!Next, Service!Conclude
  <2>4. QED
    BY <1>4, <2>2, <2>3 DEF TxSend, IInv, TypeOK
<1>5. CASE TxJudge
  <2>1. pc[Rpc] = "judge" /\ UNCHANGED isAvailable
    BY <1>5 DEF TxJudge
  <2>2. CASE pc'[Rpc] = "run"
    <3>1. Got("status") /\ receiveStatus' = "Wait"
      BY <1>5, <2>2 DEF TxJudge, StartReceive, IInv, TypeOK
    <3>2. OutcomeOf(Rpc) = "pending" /\ OutcomeOf(Rpc)' = "pending"
      BY <2>1, <2>2, <3>1 DEF OutcomeOf
    <3>3. QED
      BY <1>1, <1>2, <2>1, <2>2, <3>2 DEF Service!vars
  <2>3. CASE pc'[Rpc] = "txUnlock"
    <3>1. OutcomeOf(Rpc) # "done" /\ OutcomeOf(Rpc)' = "done"
      BY <2>1, <2>3 DEF OutcomeOf
    <3>2. QED
      BY <1>1, <1>2, <2>1, <2>3, <3>1 DEF Service!Next, Service!Conclude
  <2>4. QED
    BY <1>5, <2>2, <2>3 DEF TxJudge, IInv, TypeOK
<1>6. CASE TxUnlock
  BY <1>6, UnlockEnds DEF TxUnlock, Service!Next
<1>7. QED
  BY <1>3, <1>4, <1>5, <1>6

\* What happens outside the mutex is nothing to the service.
LEMMA OthersServe ==
  ASSUME IInv,
         \/ \E t \in {Main, Rpc} : RunStatusThread(t)
         \/ \E s \in StatusThread : StatusLoop(s)
         \/ RpcStart \/ TxTest \/ RpcFinal \/ Environment
  PROVE  UNCHANGED Service!vars
<1>1. UNCHANGED <<isAvailable, linkMutex, receiveStatus, received>>
  BY DEF RunStatusThread, StatusLoop, RpcStart, TxTest, RpcFinal, Environment, Terminate,
         DatagramArrives, RequestBounces, TimerExpires, DeviceReplies, Lose, Heal
<1>2. ASSUME NEW t \in Thread, pc[t] \in Critical PROVE pc'[t] = pc[t]
  BY <1>2 DEF IInv, TypeOK, RunStatusThread, StatusLoop, RpcStart, TransceiveAtMost, TxTest,
         RpcFinal, Environment, Terminate, DatagramArrives, RequestBounces, TimerExpires, DeviceReplies, Lose,
         Heal
<1>3. QED
  BY <1>1, <1>2, OutsideStutters

LEMMA InitServes == Init => Service!Init
BY DEF Init, Service!Init, User, Outcome

LEMMA NextServes ==
  ASSUME IInv, IInv', [Next]_vars
  PROVE  [Service!Next]_(Service!vars)
<1>1. CASE UNCHANGED vars
  <2>1. UNCHANGED <<isAvailable, linkMutex, receiveStatus, received, pc>>
    BY <1>1 DEF vars
  <2>2. QED
    BY <2>1, OutsideStutters
<1>2. CASE Next
  BY <1>2, ReceiveServes, CheckServes, ExchangeServes, OthersServe
     DEF Next, MainStep, StatusStep, RpcStep
<1>3. QED
  BY <1>1, <1>2

\* A link is what its users rely on, whatever the number of status threads:
\* exchanges and checks exclude each other, each is concluded by its own reply,
\* by a timeout that takes the link down, or without an answer, and only a check
\* with its own reply takes the link up.
THEOREM ImplementsServiceHolds == Spec => ImplementsService
<1>1. IInv /\ IInv' /\ [Next]_vars => [Service!Next]_(Service!vars)
  BY NextServes
<1>2. QED
  BY <1>1, InvariantHolds, InitServes, PTL DEF Spec, ImplementsService, Service!Spec

=============================================================================
