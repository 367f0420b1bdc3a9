------------------------------ MODULE SendOnce ------------------------------
(***************************************************************************)
(* What a table of messages promises to the people who read it: for every  *)
(* key (a channel and a version of a request, or an operator request as a  *)
(* whole) the provider gets the message at most once, "sent" says that it  *)
(* did, "failed" says that it did not and may be tried again, "uncertain"  *)
(* says nothing and is never tried again by itself.                        *)
(***************************************************************************)
CONSTANT Keys

VARIABLES
    state,      \* state[k]: what the table says of k
    delivered   \* delivered[k]: whether the message of k reached the provider

vars == <<state, delivered>>

States == {"none", "sending", "failed", "sent", "uncertain"}

TypeOK ==
    /\ state \in [Keys -> States]
    /\ delivered \in [Keys -> BOOLEAN]

Init ==
    /\ state = [k \in Keys |-> "none"]
    /\ delivered = [k \in Keys |-> FALSE]

\* A message is attempted the first time, or again after a known failure,
\* and never when it may already be with the provider.
Begin(k) ==
    /\ state[k] \in {"none", "failed"}
    /\ ~delivered[k]
    /\ state' = [state EXCEPT ![k] = "sending"]
    /\ UNCHANGED delivered

\* The provider takes the message, at once or after the sender gave up.
Deliver(k) ==
    /\ state[k] \in {"sending", "uncertain"}
    /\ ~delivered[k]
    /\ delivered' = [delivered EXCEPT ![k] = TRUE]
    /\ UNCHANGED state

SettleSent(k) ==
    /\ state[k] \in {"sending", "uncertain"}
    /\ delivered[k]
    /\ state' = [state EXCEPT ![k] = "sent"]
    /\ UNCHANGED delivered

SettleFailed(k) ==
    /\ state[k] \in {"sending", "uncertain"}
    /\ ~delivered[k]
    /\ state' = [state EXCEPT ![k] = "failed"]
    /\ UNCHANGED delivered

\* Doubt may replace anything that was written of an attempt.
SettleUncertain(k) ==
    /\ state[k] # "none"
    /\ state' = [state EXCEPT ![k] = "uncertain"]
    /\ UNCHANGED delivered

Next ==
    \E k \in Keys :
        \/ Begin(k)
        \/ Deliver(k)
        \/ SettleSent(k)
        \/ SettleFailed(k)
        \/ SettleUncertain(k)

Spec == Init /\ [][Next]_vars
=============================================================================
