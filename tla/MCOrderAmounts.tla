--------------------------- MODULE MCOrderAmounts ---------------------------
(***************************************************************************)
(* Instances of OrderAmounts for TLC.                                      *)
(***************************************************************************)
EXTENDS OrderAmounts

CONSTANTS l1, l2

TwoPriceLists == {[l \in Lines |-> IF l = l1 THEN 999 ELSE 1051],
                  [l \in Lines |-> IF l = l1 THEN 333 ELSE 5]}

AllOrOne == {{l1}, {l1, l2}}

Offer(type, percent, value, cap) ==
  [NoCoupon EXCEPT !.type = type, !.percent = percent, !.value = value, !.cap = cap]

Offers ==
  {NoCoupon, Offer("transaction", TRUE, 15, 0), Offer("transaction", FALSE, 400, 0),
   Offer("item", TRUE, 33, 300), Offer("free_shipping", FALSE, 0, 0),
   [NoCoupon EXCEPT !.type = "buyxgety", !.percent = TRUE, !.value = 50,
                    !.get = 701, !.count = 1]}

OneFee == {2000}
TwoCredits == {0, 757}

City == [known |-> TRUE, fee |-> 1500, surcharge |-> 500, threshold |-> 2500]
Elsewhere == [known |-> FALSE, fee |-> 0, surcharge |-> 0, threshold |-> 0]
TwoZones == {City, Elsewhere}
=============================================================================
