------------------------------ MODULE Delivery ------------------------------
(***************************************************************************)
(* What a network output promises its caller: a Write that reports success *)
(* has handed its whole payload to the network, in one piece; none is      *)
(* handed over more often than there are attempts, or after the Write has  *)
(* returned; and of what is handed over once, the remote side gets one copy*)
(* or none.  Where it confirms what it gets, success means that it has one;*)
(* elsewhere all may be lost.  A Write that reports an error may have been *)
(* delivered.                                                              *)
(***************************************************************************)
EXTENDS Naturals

CONSTANTS
    Calls,      \* calls of Write
    Attempts    \* how often a call may send its payload

VARIABLES
    confirms,   \* the remote side answers that it has the payload
    handed,     \* times the whole payload of a call was handed over
    copies,     \* copies of it that get through to the remote side
    answer      \* what the call returned: "none" before it does, "ok", "failed"

deliveryVars == <<confirms, handed, copies, answer>>

DeliveryInit ==
    /\ confirms \in BOOLEAN
    /\ handed = [c \in Calls |-> 0]
    /\ copies = [c \in Calls |-> 0]
    /\ answer = [c \in Calls |-> "none"]

\* The payload is handed over, and gets through or not; the call goes on, or returns.
HandOver(c) ==
    /\ answer[c] = "none" /\ handed[c] < Attempts
    /\ handed' = [handed EXCEPT ![c] = @ + 1]
    /\ \E through \in BOOLEAN, a \in {"none", "ok", "failed"} :
           /\ confirms /\ a = "ok" => through
           /\ copies' = IF through THEN [copies EXCEPT ![c] = @ + 1] ELSE copies
           /\ answer' = [answer EXCEPT ![c] = a]
    /\ UNCHANGED confirms

\* The call gives up.
GiveUp(c) ==
    /\ answer[c] = "none"
    /\ answer' = [answer EXCEPT ![c] = "failed"]
    /\ UNCHANGED <<confirms, handed, copies>>

DeliveryNext == \E c \in Calls : HandOver(c) \/ GiveUp(c)

DeliverySpec == DeliveryInit /\ [][DeliveryNext]_deliveryVars

=============================================================================
