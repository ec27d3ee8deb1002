-------------------------------- MODULE Outbox --------------------------------
(***************************************************************************)
(* What the delivery of connection events promises: an outbox of rows,     *)
(* numbered in the order they are written, that are sent and leave it in   *)
(* that order, each only after the server has taken it.                    *)
(*                                                                         *)
(* Rows on their way may get lost, arrive twice or late.  A row is given   *)
(* up undelivered only while the client does not send.  Until the client's *)
(* machine loses power, an id never means two rows; from then on the       *)
(* server may take one row for another of the same id.                     *)
(***************************************************************************)
EXTENDS Integers

VARIABLES
    outbox,             \* rows written and not yet confirmed
    travelling,         \* rows that may still reach the server
    delivered,          \* rows the server has ever taken
    sending,            \* the client sends
    trusted             \* its machine has not lost power

vars == <<outbox, travelling, delivered, sending, trusted>>

Ids(R) == {r.id : r \in R}

(* New rows are numbered after those that wait, and as none before.        *)
Write ==
    /\ outbox \subseteq outbox'
    /\ \A r \in outbox' \ outbox : \A s \in outbox : s.id < r.id
    /\ trusted => \A r \in outbox' \ outbox : r.id \notin Ids(travelling \cup delivered)
    /\ UNCHANGED <<travelling, delivered, sending, trusted>>

(* Rows of the outbox are sent, or what was sent gets lost.                *)
Send ==
    /\ travelling' \subseteq travelling \cup outbox
    /\ UNCHANGED <<outbox, delivered, sending, trusted>>

Deliver ==
    /\ delivered \subseteq delivered'
    /\ delivered' \subseteq delivered \cup travelling
    /\ travelling' \subseteq travelling
    /\ UNCHANGED <<outbox, sending, trusted>>

(* The first rows leave, which the server has taken.                       *)
Confirm ==
    /\ outbox' \subseteq outbox
    /\ travelling' \subseteq travelling
    /\ \A r \in outbox \ outbox' :
         /\ r.id \in Ids(delivered)
         /\ trusted => r \in delivered
         /\ \A s \in outbox' : r.id < s.id
    /\ UNCHANGED <<delivered, sending, trusted>>

(* Rows that grow too old leave unsent.                                    *)
Expire ==
    /\ ~sending
    /\ outbox' \subseteq outbox
    /\ UNCHANGED <<travelling, delivered, sending, trusted>>

(* The client is started again, and told anew whether to send.             *)
Restart ==
    /\ sending' \in BOOLEAN
    /\ travelling' \subseteq travelling
    /\ UNCHANGED <<outbox, delivered, trusted>>

(* Its machine loses power: the outbox is what it was at some time before. *)
PowerLoss ==
    /\ trusted' = FALSE
    /\ sending' \in BOOLEAN
    /\ travelling' \subseteq travelling
    /\ UNCHANGED delivered

Init ==
    /\ outbox = {} /\ travelling = {} /\ delivered = {}
    /\ sending \in BOOLEAN
    /\ trusted = TRUE

Next == Write \/ Send \/ Deliver \/ Confirm \/ Expire \/ Restart \/ PowerLoss

Spec == Init /\ [][Next]_vars
=============================================================================
