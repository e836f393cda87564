-------------------------- MODULE MCPrepaidOrders --------------------------
(***************************************************************************)
(* Instances of PrepaidOrders for TLC.  The identities are model values,   *)
(* the requests that a run serves are one of the sets below.               *)
(***************************************************************************)
EXTENDS PrepaidOrders, TLC

CONSTANTS o1, o2, u1

OneUser == [o \in Orders |-> u1]

ByGateway == [o \in Orders |-> "payment_gateway"]
ByLink == [o \in Orders |-> "pay_by_link"]

OneAmount == {2}
TwoAmounts == {1, 2}

PaymentRequests == {"initiate", "status", "staff_success", "sync", "invoice", "books_payment",
                    "confirm", "edit", "profile"}
RefundRequests == {"initiate", "staff_success", "cancel", "restage", "sweep", "crash"}
AccountRequests == {"initiate", "cancel", "invoice"}
SweepRequests == {"initiate", "cancel", "sweep", "crash"}

Identities ==
  Permutations(Workers) \cup Permutations(Charges) \cup Permutations(Refs)
  \cup Permutations(Orders)
=============================================================================
