------------------------------- MODULE Geidea -------------------------------
(***************************************************************************)
(* The Geidea payment gateway, as the program uses it (external).  A       *)
(* session or a payment link lets the customer pay one amount under one    *)
(* merchant reference; a captured charge is found again by its merchant    *)
(* reference and can be refunded once in full.                             *)
(***************************************************************************)
EXTENDS Integers

CONSTANTS Charges,  \* the charges the customers may make (bound)
          Refs,     \* merchantReferenceId values (uuid4; bound)
          None

VARIABLES
  sessions,  \* SUBSET [ref, amount]: hosted sessions and payment links
  charges    \* [Charges -> [state, ref, amount]]

geideaVars == <<sessions, charges>>

Charge(amounts) ==
  [state: {"none", "paid", "refunded"}, ref: Refs \cup {None},
   amount: amounts \cup {0}]

NoCharge == [state |-> "none", ref |-> None, amount |-> 0]

GeideaInit ==
  /\ sessions = {}
  /\ charges = [c \in Charges |-> NoCharge]

\* Create Session API / eInvoice API.
OpenSession(r, amount) ==
  sessions' = sessions \cup {[ref |-> r, amount |-> amount]}

\* DELETE of the eInvoice: the link of r can no longer be paid.
CloseLink(r) == sessions' = {s \in sessions : s.ref # r}

\* The customer completes the hosted payment page.
Capture(c, s) ==
  /\ charges[c].state = "none"
  /\ s \in sessions
  /\ charges' = [charges EXCEPT
                   ![c] = [state |-> "paid", ref |-> s.ref, amount |-> s.amount]]
  /\ sessions' = sessions \ {s}

\* What GET .../orders?MerchantReferenceId=r lists as Success / Paid.
PaidCharges(r) == {c \in Charges : charges[c].state = "paid" /\ charges[c].ref = r}

\* Refund API: Geidea refuses to give a charge back twice.
Refundable(c) == c \in Charges /\ charges[c].state = "paid"

GiveBack(c) == charges' = [charges EXCEPT ![c].state = "refunded"]
=============================================================================
