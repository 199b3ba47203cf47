------------------------------ MODULE AlfServer ------------------------------
(***************************************************************************)
(* The life of the server: main() constructs the links one by one, starts  *)
(* the DIM server, waits for SIGINT, tells the links to terminate and      *)
(* returns, which ends the process with all its detached threads.          *)
(*                                                                         *)
(* Of a link only what the others see of it is kept: its flags, the check  *)
(* that holds its mutex, its status threads and the RPC being served.      *)
(* IPbusLink has the steps of a check and of an RPC, IoContext shows when  *)
(* a check may never end; nothing here assumes that one does.              *)
(***************************************************************************)
EXTENDS Naturals

CONSTANTS
    NumLinks,      \* the links of the configuration
    StatusThread,  \* bound: slots for the status threads of each link
    Main,          \* main(), as the thread that checks a link
    NoThread,
    MaxSignals     \* bound: SIGINTs received

ASSUME NumbersAreNat == NumLinks \in Nat /\ MaxSignals \in Nat
ASSUME ThreadsDistinct == Main # NoThread /\ {Main, NoThread} \cap StatusThread = {}

Link == 1 .. NumLinks

VARIABLES
    main,          \* where main() is
    next,          \* the link it constructs or terminates next
    running,       \* AlfIPbus::s_running
    signals,       \* SIGINTs received
    available,     \* m_isAvailable of each link
    terminated,    \* m_terminate
    checkBy,       \* who is in checkStatus(), with m_linkMutex
    thread,        \* where the status threads are
    serving,       \* links with an RPC in rpcHandler()
    told,          \* ghost: a SIGINT came when startServer() had begun
    decided        \* ghost: threads that had decided on a check when they were terminated

serverVars == <<main, next, running>>
linkVars == <<available, checkBy, thread, serving>>
ghostVars == <<told, decided>>
vars == <<serverVars, signals, linkVars, terminated, ghostVars>>

Alive == main # "over"

-----------------------------------------------------------------------------
(* checkStatus() and runStatusThread(), whoever runs them.                 *)

\* Mutant: the mutex is not taken.
BeginCheckUnlocked(l, t) ==
    /\ checkBy' = [checkBy EXCEPT ![l] = t]
    /\ available' = [available EXCEPT ![l] = FALSE]

BeginCheck(l, t) ==
    /\ checkBy[l] = NoThread
    /\ checkBy' = [checkBy EXCEPT ![l] = t]
    /\ available' = [available EXCEPT ![l] = FALSE]

\* The device has answered, or it has not.
EndCheck(l, t) ==
    /\ checkBy[l] = t
    /\ checkBy' = [checkBy EXCEPT ![l] = NoThread]
    /\ \E ok \in BOOLEAN : available' = [available EXCEPT ![l] = ok]

\* No thread is started while a check is in progress.
RunStatusThread(l) ==
    \/ checkBy[l] # NoThread /\ UNCHANGED thread
    \/ /\ checkBy[l] = NoThread
       /\ \E s \in StatusThread :
             thread[l][s] = "none" /\ thread' = [thread EXCEPT ![l][s] = "loop"]

At(l, s, here, there) ==
    /\ Alive
    /\ thread[l][s] = here
    /\ thread' = [thread EXCEPT ![l][s] = there]

\* Mutant: the loop does not look at m_terminate.
LoopWhileUnavailable(l, s) ==
    /\ At(l, s, "loop", IF available[l] THEN "none" ELSE "lock")
    /\ UNCHANGED <<serverVars, signals, available, checkBy, serving, terminated, ghostVars>>

StatusLoop(l, s) ==
    /\ At(l, s, "loop", IF available[l] \/ terminated[l] THEN "none" ELSE "lock")
    /\ UNCHANGED <<serverVars, signals, available, checkBy, serving, terminated, ghostVars>>

StatusCheckBegins(l, s) ==
    /\ At(l, s, "lock", "check")
    /\ BeginCheck(l, s)
    /\ UNCHANGED <<serverVars, signals, serving, terminated, ghostVars>>

StatusCheckEnds(l, s) ==
    /\ At(l, s, "check", "loop")
    /\ EndCheck(l, s)
    /\ decided' = [decided EXCEPT ![l] = @ \ {s}]
    /\ UNCHANGED <<serverVars, signals, serving, terminated, told>>

-----------------------------------------------------------------------------
(* An RPC, once the DIM server has been started.                           *)

RpcBegins(l) ==
    /\ main \in {"loop", "terminate"}
    /\ l \notin serving
    /\ serving' = serving \cup {l}
    /\ UNCHANGED <<serverVars, signals, available, checkBy, thread, terminated, ghostVars>>

\* A transceive of the RPC, which holds the mutex, times out.
RpcTimesOut(l) ==
    /\ Alive
    /\ l \in serving
    /\ available[l] /\ checkBy[l] = NoThread
    /\ available' = [available EXCEPT ![l] = FALSE]
    /\ UNCHANGED <<serverVars, signals, checkBy, thread, serving, terminated, ghostVars>>

\* Whether the server is being stopped does not matter.
RpcEnds(l) ==
    /\ Alive
    /\ l \in serving
    /\ serving' = serving \ {l}
    /\ IF available[l] THEN UNCHANGED thread ELSE RunStatusThread(l)
    /\ UNCHANGED <<serverVars, signals, available, checkBy, terminated, ghostVars>>

-----------------------------------------------------------------------------
(* main(): initLinks(), startServer() and mainLoop().                      *)

MainAt(here, there) == main = here /\ main' = there

\* The constructor of the link: IPbusMaster checks the device once ...
ConstructBegins ==
    /\ next \in Link
    /\ MainAt("construct", "check")
    /\ BeginCheck(next, Main)
    /\ UNCHANGED <<next, running, signals, thread, serving, terminated, ghostVars>>

\* Mutant: the constructor waits for the device.
CheckUntilAvailable ==
    /\ main = "check"
    /\ EndCheck(next, Main)
    /\ main' = IF available'[next] THEN "spawn" ELSE "construct"
    /\ UNCHANGED <<next, running, signals, thread, serving, terminated, ghostVars>>

ConstructChecked ==
    /\ MainAt("check", "spawn")
    /\ EndCheck(next, Main)
    /\ UNCHANGED <<next, running, signals, thread, serving, terminated, ghostVars>>

\* ... and SwtLink starts a thread that goes on.
ConstructEnds ==
    /\ MainAt("spawn", "construct")
    /\ RunStatusThread(next)
    /\ next' = next + 1
    /\ UNCHANGED <<running, signals, available, checkBy, serving, terminated, ghostVars>>

StartServer ==
    /\ next = NumLinks + 1
    /\ MainAt("construct", "dimStart")
    /\ running' = TRUE
    /\ UNCHANGED <<next, signals, linkVars, terminated, ghostVars>>

\* Mutant: s_running is set when the DIM server has been started.
DimStartThenRunning ==
    /\ MainAt("dimStart", "loop")
    /\ running' = TRUE
    /\ UNCHANGED <<next, signals, linkVars, terminated, ghostVars>>

DimStart ==
    /\ MainAt("dimStart", "loop")
    /\ UNCHANGED <<next, running, signals, linkVars, terminated, ghostVars>>

MainLoopEnds ==
    /\ ~running
    /\ MainAt("loop", "terminate")
    /\ next' = 1
    /\ UNCHANGED <<running, signals, linkVars, terminated, ghostVars>>

Terminate ==
    /\ main = "terminate"
    /\ next \in Link
    /\ next' = next + 1
    /\ terminated' = [terminated EXCEPT ![next] = TRUE]
    /\ decided' = [decided EXCEPT ![next] = {s \in StatusThread : thread[next][s] \in {"lock", "check"}}]
    /\ UNCHANGED <<main, running, signals, linkVars, told>>

\* ~AlfIPbus(), and the end of the process.
Return ==
    /\ next = NumLinks + 1
    /\ MainAt("terminate", "over")
    /\ running' = FALSE
    /\ UNCHANGED <<next, signals, linkVars, terminated, ghostVars>>

\* SIGINT: AlfIPbus::stop().
Stop ==
    /\ Alive
    /\ signals < MaxSignals
    /\ signals' = signals + 1
    /\ running' = FALSE
    /\ told' = (told \/ main \in {"dimStart", "loop", "terminate"})
    /\ UNCHANGED <<main, next, linkVars, terminated, decided>>

-----------------------------------------------------------------------------

Init ==
    /\ main = "construct" /\ next = 1 /\ running = FALSE /\ signals = 0
    /\ available = [l \in Link |-> FALSE]
    /\ terminated = [l \in Link |-> FALSE]
    /\ checkBy = [l \in Link |-> NoThread]
    /\ thread = [l \in Link |-> [s \in StatusThread |-> "none"]]
    /\ serving = {}
    /\ told = FALSE /\ decided = [l \in Link |-> {}]

\* The steps of main() that wait for nobody.
MainStep ==
    \/ ConstructBegins \/ ConstructEnds \/ StartServer \/ DimStart
    \/ MainLoopEnds \/ Terminate \/ Return

LinkStep(l) ==
    \/ RpcBegins(l) \/ RpcTimesOut(l) \/ RpcEnds(l)
    \/ \E s \in StatusThread :
          StatusLoop(l, s) \/ StatusCheckBegins(l, s) \/ StatusCheckEnds(l, s)

Next == MainStep \/ ConstructChecked \/ Stop \/ \E l \in Link : LinkStep(l)

Spec == Init /\ [][Next]_vars

\* Only main() is promised to run; a check, its own included, may take for ever.
FairSpec == Spec /\ WF_vars(MainStep)

-----------------------------------------------------------------------------
(* Properties.                                                             *)

\* The values the variables may take; a thread is in a check exactly when it
\* holds the mutex of its link.
TypeOK ==
    /\ main \in {"construct", "check", "spawn", "dimStart", "loop", "terminate", "over"}
    /\ next \in 1 .. NumLinks + 1
    /\ running \in BOOLEAN /\ told \in BOOLEAN /\ signals \in 0 .. MaxSignals
    /\ available \in [Link -> BOOLEAN] /\ terminated \in [Link -> BOOLEAN]
    /\ checkBy \in [Link -> StatusThread \cup {Main, NoThread}]
    /\ thread \in [Link -> [StatusThread -> {"none", "loop", "lock", "check"}]]
    /\ \A l \in Link, s \in StatusThread : thread[l][s] = "check" <=> checkBy[l] = s
    /\ serving \subseteq Link /\ decided \in [Link -> SUBSET StatusThread]

\* A SIGINT that comes once startServer() has set s_running ends the server,
\* whatever checks and RPCs are under way.  (One that comes before, while the
\* links are being constructed, is forgotten by startServer().)
StopIsKept == told ~> main = "over"

\* Such a SIGINT is final: nothing sets s_running again, whatever is still on its
\* way through startServer(), and main() goes nowhere but to its end.
StopIsFinal == told => ~running /\ main \in {"dimStart", "loop", "terminate", "over"}

\* A device that does not answer delays the start of the server by one check:
\* main() reaches its loop, or waits for ever in a single check.
ServerStarts == <>(main = "loop") \/ <>[](main = "check")

\* After terminate() no status thread decides on another check, neither one
\* that was there nor one that an RPC still starts: a check that begins or goes
\* on after it had been decided on before, and each thread has one at most.
OneMoreCheckAtMost ==
    \A l \in Link : terminated[l] =>
        {s \in StatusThread : thread[l][s] \in {"lock", "check"}} \subseteq decided[l]

=============================================================================
