----------------------------- MODULE LinkService -----------------------------
(***************************************************************************)
(* What an IPbus link promises its users, without threads, operations or   *)
(* datagrams.  One user at a time makes an exchange (transceive) or checks *)
(* the status of the device (checkStatus).  Either gets the reply to its   *)
(* own request, or times out, which takes the link down, or gives up; and  *)
(* only a check that got its reply takes the link up.  IPbusLink           *)
(* implements this; SwtTranslator's transceives assume it.                 *)
(***************************************************************************)

VARIABLES
    up,        \* the link is available
    user,      \* what it is used for
    outcome    \* of that use

vars == <<up, user, outcome>>

Init == up = FALSE /\ user = "free" /\ outcome = "done"

\* An exchange without transactions is done at once.
Begin(u) ==
    /\ user = "free"
    /\ user' = u
    /\ outcome' = "pending" \/ (u = "exchange" /\ outcome' = "done")
    /\ UNCHANGED up

\* A check begins by taking the link down.
TakeDown ==
    /\ user = "check" /\ outcome = "pending"
    /\ up' = FALSE
    /\ UNCHANGED <<user, outcome>>

Answer ==
    /\ user # "free" /\ outcome = "pending"
    /\ outcome' = "own"
    /\ UNCHANGED <<up, user>>

Expire ==
    /\ user # "free" /\ outcome = "pending"
    /\ outcome' = "timeout"
    /\ up' = FALSE
    /\ UNCHANGED user

Raise ==
    /\ user = "check" /\ outcome = "own"
    /\ up' = TRUE
    /\ outcome' = "done"
    /\ UNCHANGED user

\* A check without its reply leaves the link down; an exchange, however it
\* went, leaves it as it is.
Conclude ==
    /\ user = "exchange" \/ (user = "check" /\ outcome # "own" /\ ~up)
    /\ outcome # "done"
    /\ outcome' = "done"
    /\ UNCHANGED <<up, user>>

End ==
    /\ user # "free" /\ outcome = "done"
    /\ user' = "free"
    /\ UNCHANGED <<up, outcome>>

Next ==
    \/ \E u \in {"exchange", "check"} : Begin(u)
    \/ TakeDown \/ Answer \/ Expire \/ Raise \/ Conclude \/ End

Spec == Init /\ [][Next]_vars

UseEnds == user # "free" ~> user = "free"

=============================================================================
