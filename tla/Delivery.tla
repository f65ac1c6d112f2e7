------------------------------ MODULE Delivery ------------------------------
(***************************************************************************)
(* What trau promises of one ticket, whatever phase, crash or outage its   *)
(* runs go through: its work is built, the latest build lands, and only    *)
(* then is the ticket delivered, for good.  Pipeline implements it.        *)
(***************************************************************************)
EXTENDS Integers

VARIABLES
  status,  \* "open", "working", "parked", "given up" or "delivered"
  current, \* the latest build, 0 before the first
  landed   \* the builds that are on the base

deliveryVars == <<status, current, landed>>

Idle == {"open", "parked", "given up"}

\* A run takes the ticket up.
Work == status \in Idle /\ status' = "working" /\ UNCHANGED <<current, landed>>

\* Work that landed is never built again.
Construct ==
  /\ status = "working" /\ current \notin landed
  /\ current' = current + 1
  /\ UNCHANGED <<status, landed>>

\* A build lands through the run, or by the operator's hand while none runs.
Land ==
  /\ status # "delivered"
  /\ landed' = landed \cup {current}
  /\ UNCHANGED <<status, current>>

Deliver ==
  /\ status = "working" /\ current \in landed
  /\ status' = "delivered"
  /\ UNCHANGED <<current, landed>>

\* The run ends, or dies, short of delivery.
Yield == status = "working" /\ status' \in Idle /\ UNCHANGED <<current, landed>>

\* The operator starts the ticket over, or moves it along.
Regress == status \in Idle /\ status' \in Idle /\ UNCHANGED <<current, landed>>

DeliveryInit == status = "open" /\ current = 0 /\ landed = {}

DeliveryNext == Work \/ Construct \/ Land \/ Deliver \/ Yield \/ Regress

DeliverySpec == DeliveryInit /\ [][DeliveryNext]_deliveryVars

(* A delivered ticket's latest build is on the base. *)
DeliveredLanded == status = "delivered" => current \in landed
=============================================================================
