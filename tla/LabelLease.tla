----------------------------- MODULE LabelLease -----------------------------
(***************************************************************************)
(* What the transaction label pool promises the AVRCP controller: a label  *)
(* is leased to one outstanding request at a time, and passes from one     *)
(* request to the next only by being given back first.  A step may give    *)
(* back and lease several labels at once, as one BTIF handler does when it *)
(* settles the answered request and sends the next command, or when        *)
(* handle_rc_disconnect clears the whole pool.                             *)
(***************************************************************************)
EXTENDS FiniteSets

CONSTANTS
    Labels,    \* the transaction labels
    Requests,  \* identities of requests
    NoOwner    \* holder of a label that is free

ASSUME NoOwner \notin Requests

VARIABLE holder   \* holder[l]: the request label l is leased to

Holders == {holder[l] : l \in Labels} \ {NoOwner}

Init == holder = [l \in Labels |-> NoOwner]

(* Every label keeps its holder, is given back, or -- if it was free --  *)
(* is leased to a request that held no label before the step; no request  *)
(* holds two labels after it.                                             *)
Step ==
    /\ holder' \in [Labels -> Requests \cup {NoOwner}]
    /\ \A l \in Labels :
         \/ holder'[l] = holder[l]
         \/ holder'[l] = NoOwner
         \/ holder[l] = NoOwner /\ holder'[l] \notin Holders
    /\ \A l, m \in Labels :
         l # m /\ holder'[l] # NoOwner => holder'[l] # holder'[m]

Spec == Init /\ [][Step]_holder

=============================================================================
