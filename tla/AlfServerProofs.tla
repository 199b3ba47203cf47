--------------------------- MODULE AlfServerProofs ---------------------------
(***************************************************************************)
(* Proofs about AlfServer: its types, what terminate() leaves running, and *)
(* that a SIGINT is not undone, for every number of links, of status       *)
(* threads and of signals.                                                 *)
(***************************************************************************)
EXTENDS AlfServer, TLAPS

\* main() is in a constructor only while there is a link to construct.
ConstructsALink == main \in {"check", "spawn"} => next \in Link

IInv == TypeOK /\ ConstructsALink /\ OneMoreCheckAtMost

\* The state after the constructor of AlfIPbus satisfies the invariant.
LEMMA InitInv == Init => IInv
<1> SUFFICES ASSUME Init PROVE IInv
  OBVIOUS
<1>1. \A l \in Link : /\ terminated[l] = FALSE /\ checkBy[l] = NoThread
                      /\ \A s \in StatusThread : thread[l][s] = "none"
  BY Zenon DEF Init
<1>2. main = "construct" /\ next \in 1 .. NumLinks + 1 /\ signals \in 0 .. MaxSignals
  BY NumbersAreNat, SMT DEF Init
<1>3. /\ running \in BOOLEAN /\ told \in BOOLEAN /\ serving \subseteq Link
      /\ available \in [Link -> BOOLEAN] /\ terminated \in [Link -> BOOLEAN]
      /\ checkBy \in [Link -> StatusThread \cup {Main, NoThread}]
      /\ thread \in [Link -> [StatusThread -> {"none", "loop", "lock", "check"}]]
      /\ decided \in [Link -> SUBSET StatusThread]
  BY Zenon DEF Init
<1>4. TypeOK
  BY <1>1, <1>2, <1>3, ThreadsDistinct, SMT DEF TypeOK
<1>5. ConstructsALink /\ OneMoreCheckAtMost
  BY <1>1, Zenon DEF Init, ConstructsALink, OneMoreCheckAtMost
<1> QED BY <1>4, <1>5 DEF IInv

\* The steps of main() in a constructor.
LEMMA ConstructKeeps ==
  ASSUME IInv, ConstructBegins \/ ConstructChecked
  PROVE  IInv'
<1> USE NumbersAreNat, ThreadsDistinct
      DEF IInv, TypeOK, ConstructsALink, OneMoreCheckAtMost, Link, MainAt, ghostVars
<1>1. CASE ConstructBegins
  BY <1>1, SMT DEF ConstructBegins, BeginCheck
<1>2. CASE ConstructChecked
  BY <1>2, SMT DEF ConstructChecked, EndCheck
<1> QED BY <1>1, <1>2

\* A thread that is started is at the test of its loop.
LEMMA StartKeeps ==
  ASSUME IInv, NEW l \in Link, RunStatusThread(l),
         UNCHANGED <<available, checkBy, signals, terminated, ghostVars>>,
         ConstructsALink', main' \in {"construct", main}, running' = running,
         next' \in 1 .. NumLinks + 1, serving' \subseteq Link
  PROVE  IInv'
<1> USE NumbersAreNat, ThreadsDistinct
      DEF IInv, TypeOK, OneMoreCheckAtMost, Link, ghostVars
<1>1. CASE UNCHANGED thread
  BY <1>1, SMT
<1>2. ASSUME NEW s \in StatusThread, thread[l][s] = "none",
             thread' = [thread EXCEPT ![l][s] = "loop"]
      PROVE  IInv'
  BY <1>2, SMT
<1> QED BY <1>1, <1>2 DEF RunStatusThread

LEMMA ConstructEndsKeeps ==
  ASSUME IInv, ConstructEnds
  PROVE  IInv'
<1>1. next \in Link /\ next' \in 1 .. NumLinks + 1 /\ main' = "construct"
  BY NumbersAreNat, SMT DEF IInv, ConstructsALink, ConstructEnds, MainAt, Link
<1> QED
  BY <1>1, StartKeeps DEF ConstructEnds, ConstructsALink, IInv, TypeOK

\* The steps of startServer() and mainLoop().
LEMMA ServeKeeps ==
  ASSUME IInv, StartServer \/ DimStart \/ MainLoopEnds \/ Return \/ Stop
  PROVE  IInv'
<1> USE NumbersAreNat
      DEF IInv, TypeOK, ConstructsALink, OneMoreCheckAtMost, Link, MainAt, ghostVars, linkVars
<1>1. CASE StartServer
  BY <1>1, SMT DEF StartServer
<1>2. CASE DimStart
  BY <1>2, SMT DEF DimStart
<1>3. CASE MainLoopEnds
  BY <1>3, SMT DEF MainLoopEnds
<1>4. CASE Return
  <2>1. running' \in BOOLEAN
    BY <1>4, Zenon DEF Return
  <2> QED BY <1>4, <2>1, SMT DEF Return
<1>5. CASE Stop
  <2>1. running' \in BOOLEAN /\ told' \in BOOLEAN
    BY <1>5, Zenon DEF Stop
  <2>2. signals' \in 0 .. MaxSignals
    BY <1>5, SMT DEF Stop
  <2> QED BY <1>5, <2>1, <2>2, Zenon DEF Stop
<1> QED BY <1>1, <1>2, <1>3, <1>4, <1>5

LEMMA TerminateKeeps ==
  ASSUME IInv, Terminate
  PROVE  IInv'
<1> USE NumbersAreNat DEF IInv, Terminate, Link, linkVars
<1>1. TypeOK' /\ ConstructsALink'
  BY SMT DEF TypeOK, ConstructsALink
<1>2. OneMoreCheckAtMost'
  BY SMT DEF TypeOK, OneMoreCheckAtMost
<1> QED BY <1>1, <1>2

\* The steps of a status thread: only a thread of a link that was not
\* terminated decides on a check, and one that ends is taken off the list.
LEMMA StatusKeeps ==
  ASSUME IInv, NEW l \in Link, NEW s \in StatusThread,
         StatusLoop(l, s) \/ StatusCheckBegins(l, s) \/ StatusCheckEnds(l, s)
  PROVE  IInv'
<1> USE ThreadsDistinct
      DEF IInv, TypeOK, ConstructsALink, OneMoreCheckAtMost, At, serverVars, ghostVars
<1>1. CASE StatusLoop(l, s)
  BY <1>1, SMT DEF StatusLoop
<1>2. CASE StatusCheckBegins(l, s)
  BY <1>2, SMT DEF StatusCheckBegins, BeginCheck
<1>3. CASE StatusCheckEnds(l, s)
  BY <1>3, SMT DEF StatusCheckEnds, EndCheck
<1> QED BY <1>1, <1>2, <1>3

LEMMA RpcKeeps ==
  ASSUME IInv, NEW l \in Link, RpcBegins(l) \/ RpcTimesOut(l) \/ RpcEnds(l)
  PROVE  IInv'
<1> USE DEF serverVars, ghostVars
<1>1. CASE RpcBegins(l)
  <2>1. serving' \subseteq Link
    BY <1>1, SMT DEF RpcBegins, IInv, TypeOK
  <2> QED
    BY <1>1, <2>1, Zenon DEF RpcBegins, IInv, TypeOK, ConstructsALink, OneMoreCheckAtMost
<1>2. CASE RpcTimesOut(l)
  <2>1. available' \in [Link -> BOOLEAN]
    BY <1>2, SMT DEF RpcTimesOut, IInv, TypeOK
  <2> QED
    BY <1>2, <2>1, Zenon DEF RpcTimesOut, IInv, TypeOK, ConstructsALink, OneMoreCheckAtMost
<1>3. CASE RpcEnds(l)
  <2>1. CASE available[l]
    BY <1>3, <2>1, SMT DEF RpcEnds, IInv, TypeOK, ConstructsALink, OneMoreCheckAtMost
  <2>2. CASE ~available[l]
    <3>1. RunStatusThread(l)
      BY <1>3, <2>2 DEF RpcEnds
    <3>2. /\ UNCHANGED <<available, checkBy, signals, terminated, ghostVars>>
          /\ ConstructsALink' /\ main' = main /\ running' = running
          /\ next' \in 1 .. NumLinks + 1 /\ serving' \subseteq Link
      BY <1>3 DEF RpcEnds, IInv, TypeOK, ConstructsALink, ghostVars
    <3> QED BY <3>1, <3>2, StartKeeps
  <2> QED BY <2>1, <2>2
<1> QED BY <1>1, <1>2, <1>3

LEMMA NextKeeps == IInv /\ [Next]_vars => IInv'
<1> SUFFICES ASSUME IInv, [Next]_vars PROVE IInv'
  OBVIOUS
<1>1. CASE MainStep
  BY <1>1, ConstructKeeps, ConstructEndsKeeps, ServeKeeps, TerminateKeeps DEF MainStep
<1>2. CASE ConstructChecked
  BY <1>2, ConstructKeeps
<1>3. CASE Stop
  BY <1>3, ServeKeeps
<1>4. CASE \E l \in Link : LinkStep(l)
  BY <1>4, StatusKeeps, RpcKeeps DEF LinkStep
<1>5. CASE UNCHANGED vars
  BY <1>5 DEF vars, serverVars, linkVars, ghostVars, IInv, TypeOK, ConstructsALink,
              OneMoreCheckAtMost
<1> QED BY <1>1, <1>2, <1>3, <1>4, <1>5 DEF Next

LEMMA InvariantHolds == Spec => []IInv
  BY InitInv, NextKeeps, PTL DEF Spec

\* The variables have their types, and a status thread is in a check exactly
\* when it holds m_linkMutex.
THEOREM TypeCorrect == Spec => []TypeOK
  BY InvariantHolds, PTL DEF IInv

\* After terminate() no status thread decides on another check.
THEOREM OneMoreCheckHolds == Spec => []OneMoreCheckAtMost
  BY InvariantHolds, PTL DEF IInv

\* startServer() sets s_running once, before a SIGINT counts; after one that does,
\* no step of main() sets it again or goes back.
LEMMA StopIsFinalKept == StopIsFinal /\ [Next]_vars => StopIsFinal'
<1> SUFFICES ASSUME StopIsFinal, [Next]_vars PROVE StopIsFinal'
  OBVIOUS
<1> USE DEF StopIsFinal, MainAt, serverVars, ghostVars
<1>1. CASE ConstructBegins \/ ConstructEnds \/ ConstructChecked \/ StartServer
  BY <1>1, Zenon DEF ConstructBegins, ConstructEnds, ConstructChecked, StartServer
<1>2. CASE DimStart \/ MainLoopEnds \/ Terminate \/ Return
  BY <1>2, Zenon DEF DimStart, MainLoopEnds, Terminate, Return
<1>3. CASE Stop
  BY <1>3, Zenon DEF Stop, Alive
<1>4. ASSUME NEW l \in Link, LinkStep(l) PROVE StopIsFinal'
  <2>1. UNCHANGED <<main, running, told>>
    BY <1>4 DEF LinkStep, RpcBegins, RpcTimesOut, RpcEnds, StatusLoop, StatusCheckBegins,
                StatusCheckEnds
  <2> QED BY <2>1
<1>5. CASE UNCHANGED vars
  BY <1>5 DEF vars
<1> QED BY <1>1, <1>2, <1>3, <1>4, <1>5 DEF Next, MainStep

\* A SIGINT that counts is final: s_running is not set again and main() is on
\* its way to the end.  (That it arrives there is StopIsKept, under fairness.)
THEOREM StopIsFinalHolds == Spec => []StopIsFinal
<1>1. Init => StopIsFinal
  BY Zenon DEF Init, StopIsFinal
<1> QED BY <1>1, StopIsFinalKept, PTL DEF Spec

==============================================================================
