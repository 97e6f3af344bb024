------------------------------ MODULE EventStream ------------------------------
(***************************************************************************)
(* What the tiered cache relies on when it receives invalidations            *)
(* (tiered/invalidation.go:164): a subscription delivers what is due, in any  *)
(* order, the same thing perhaps more than once, and nothing else.  It loses  *)
(* something only if it is broken, and then the receiver is told so by an     *)
(* error: nothing is forgotten in silence.                                   *)
(***************************************************************************)
EXTENDS FiniteSets

CONSTANT Event      \* what can be due: an invalidation of a key, a flush

VARIABLES
    open,           \* Subscribe has returned, and Receive no error yet
    broken,         \* an error is to come: something was lost, or the receiver stops
    due             \* what was announced and has not been delivered

streamVars == <<open, broken, due>>

StreamInit == open = FALSE /\ broken = FALSE /\ due = {}

(* What was announced while Subscribe was under way may be due at once.     *)
Open ==
    /\ ~open /\ open' = TRUE
    /\ broken' \in BOOLEAN /\ due' \in SUBSET Event

Announce(e) ==
    /\ open
    /\ due' = due \cup {e}
    /\ UNCHANGED <<open, broken>>

(* An event stays due after its delivery if it was announced again. *)
Deliver(e) ==
    /\ open /\ e \in due
    /\ due' \in {due, due \ {e}}
    /\ UNCHANGED <<open, broken>>

Break ==
    /\ open /\ broken' = TRUE
    /\ due' \in SUBSET due
    /\ UNCHANGED open

(* Receive returns an error: only when there is a reason. *)
Fail ==
    /\ open /\ broken
    /\ open' = FALSE /\ broken' = FALSE /\ due' = {}

StreamNext ==
    \/ Open \/ Break \/ Fail
    \/ \E e \in Event : Announce(e) \/ Deliver(e)

StreamSpec == StreamInit /\ [][StreamNext]_streamVars
================================================================================
