----------------------------- MODULE MCCheckout -----------------------------
(***************************************************************************)
(* Instances of Checkout for TLC.                                          *)
(***************************************************************************)
EXTENDS Checkout, TLC

CONSTANTS u1, u2

TwoUsers == {u1, u2}

ThreeDirhams == [p \in Products |-> 300]

\* A discount of one dirham that applies by itself.
AutomaticOffer(max, maxPerUser) ==
  [NoCoupon EXCEPT !.type = "transaction", !.value = 100]
    @@ [auto |-> TRUE, max |-> max, maxPerUser |-> maxPerUser, minimum |-> 300, expires |-> 1]

OncePerCustomer == AutomaticOffer(0, 1)
OnceOnly == AutomaticOffer(1, 0)

CustomerRequests == {"add", "patch", "remove", "reorder", "checkout", "issue", "purge", "cancel"}
OfferRequests == {"add", "checkout", "poll"}

\* One customer and everything that touches the cart, the points and the offer; two
\* customers who compete for an offer that is polled.
SomeScenes ==
  {[requests |-> CustomerRequests, users |-> {u1}, offer |-> OncePerCustomer, points |-> 1,
    wishes |-> {1}, orders |-> 2, qty |-> 2],
   [requests |-> OfferRequests, users |-> {u1, u2}, offer |-> OnceOnly, points |-> 0,
    wishes |-> {}, orders |-> 3, qty |-> 1]}

Identities == Permutations(Users) \cup Permutations(Workers)
=============================================================================
