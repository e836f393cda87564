----------------------------- MODULE MCDelivery -----------------------------
(***************************************************************************)
(* Instances of Delivery for TLC.                                          *)
(***************************************************************************)
EXTENDS Delivery, TLC

BothMethods == {Cash, Card}

\* Staff work in Books under either method; mark-cod-paid and the cancellation are
\* called for the cash order, the stages are moved by hand for the card order.
EndpointsOf == [method \in {Cash, Card} |->
  IF method = Cash THEN {"invoice", "books", "cash", "mark", "cancel", "retry"}
  ELSE {"patch", "books", "card", "verify"}]

Identities == Permutations(Workers)
=============================================================================
