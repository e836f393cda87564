---------------------------- MODULE OrderAmounts ----------------------------
(***************************************************************************)
(* The money of one order from the summary the customer sees to the        *)
(* refunds of its returns: the summary and the checkout compute the total  *)
(* by separate code, and every return is refunded by a formula that takes  *)
(* the order's amounts apart again.                                        *)
(***************************************************************************)
EXTENDS Integers, FiniteSets, Functions, Pricing

CONSTANTS Lines,     \* lines of the cart
          Gift,      \* the line a buyxgety coupon adds to the order
          PriceLists, \* [Lines -> fils], the price lists to try
          Matches,   \* sets of lines the coupon may name
          Coupons,   \* offers, and NoCoupon
          Credits,   \* amounts of loyalty coupons, 0 for none
          Zones,     \* delivery zones
          Fees,      \* shipping fees staff may set
          MaxQty     \* bound on the units of a line

ASSUME GiftAssumption == Gift \notin Lines

\* An empty cart is refused; prices, fees and discounts are not negative.
ASSUME CartAssumption ==
  /\ IsFiniteSet(Lines) /\ Lines # {} /\ MaxQty \in Nat
  /\ PriceLists \subseteq [Lines -> Nat] /\ Matches \subseteq SUBSET Lines

ASSUME ChargesAssumption ==
  /\ VatPercent \in 0..100 /\ DefaultFee \in Nat
  /\ Credits \subseteq Nat /\ Fees \subseteq Nat
  /\ Zones \subseteq [known: BOOLEAN, fee: Nat, surcharge: Nat, threshold: Nat]
  /\ Coupons \subseteq [type: CouponTypes, percent: BOOLEAN, value: Nat, cap: Nat,
                        get: Nat, count: Nat]

VARIABLES
  cart,      \* lines with price, qty and matched
  request,   \* [coupon, credit, zone, cash]: what the customer chose
  quoted,    \* the total of the order summary, -1 before it
  order,     \* the amounts of the order row and its usage log
  returned,  \* units returned per line of the order
  refunds,   \* [total, lines]: refunded so far, and the number of refunded lines
  repriced   \* staff changed the shipping fee

vars == <<cart, request, quoted, order, returned, refunds, repriced>>

\* As long as there is none; an order may well amount to nothing.
NoOrder == [subtotal |-> 0, shipping |-> 0, loyalty |-> 0, coupon |-> 0,
            type |-> "none", vat |-> 0, total |-> -1]

Placed == order # NoOrder

FilledCart(prices, qty, matched) ==
  [l \in Lines |-> [price |-> prices[l], qty |-> qty[l], matched |-> l \in matched]]

Init ==
  /\ \E prices \in PriceLists, qty \in [Lines -> 1..MaxQty], matched \in Matches :
       cart = FilledCart(prices, qty, matched)
  /\ request \in [coupon: Coupons, credit: Credits, zone: Zones, cash: BOOLEAN]
  /\ request.coupon.type = "item" => MatchedTotal(cart) > 0
  /\ quoted = -1
  /\ order = NoOrder
  /\ returned = [l \in Lines \cup {Gift} |-> 0]
  /\ refunds = [total |-> 0, lines |-> 0]
  /\ repriced = FALSE

\* OrderSummaryAPIView.post
Summarize ==
  /\ ~Placed /\ quoted = -1
  /\ quoted' = QuotedTotal(cart, request.coupon, request.credit, request.zone, request.cash)
  /\ UNCHANGED <<cart, request, order, returned, refunds, repriced>>

\* CheckoutAPIView.post
PlaceOrder ==
  /\ quoted # -1 /\ ~Placed
  /\ order' = OrderAmounts(cart, request.coupon, request.credit, request.zone, request.cash)
  /\ UNCHANGED <<cart, request, quoted, returned, refunds, repriced>>

\* The order items: the lines of the cart, and the article of a buyxgety coupon.
Ordered(l) ==
  CASE l \in Lines -> [total |-> LineTotal(cart[l]), qty |-> cart[l].qty]
    [] l = Gift /\ request.coupon.type = "buyxgety" ->
         [total |-> GiftNet(request.coupon), qty |-> request.coupon.count]
    [] OTHER -> [total |-> 0, qty |-> 0]

Left(l) == Ordered(l).qty - returned[l]

\* return_refund_amount of a return of qty[l] units of each line.
RefundOf(qty) ==
  SumFunctionOnSet(
    [l \in DOMAIN qty |-> LineRefund(order, Ordered(l).total, Ordered(l).qty, qty[l])],
    {l \in DOMAIN qty : qty[l] > 0})

\* A return within the returnable quantities is refunded in full.
Return ==
  /\ Placed
  /\ \E qty \in [Lines \cup {Gift} -> 0..MaxQty] :
       /\ \A l \in DOMAIN qty : qty[l] <= Left(l)
       /\ \E l \in DOMAIN qty : qty[l] > 0
       /\ returned' = [l \in DOMAIN qty |-> returned[l] + qty[l]]
       /\ refunds' = [total |-> refunds.total + RefundOf(qty),
                      lines |-> refunds.lines + Cardinality({l \in DOMAIN qty : qty[l] > 0})]
  /\ UNCHANGED <<cart, request, quoted, order, repriced>>

\* OrderDetailAPIView.patch of shipping_amount: the total is computed anew, from the
\* loyalty discount without the one of the offer.
EditShipping(fee) ==
  /\ Placed /\ refunds.lines = 0
  /\ LET totals == CheckoutTotals("none", order.subtotal, fee, order.loyalty, 0, 0)
     IN order' = [order EXCEPT !.shipping = fee, !.vat = totals.vat, !.total = totals.total]
  /\ repriced' = TRUE
  /\ UNCHANGED <<cart, request, quoted, returned, refunds>>

\* The order items, as the payload for Zoho Books reads them.
OrderItems ==
  LET matched(l) == l \in Lines /\ cart[l].matched
      gross(l) == IF l \in Lines THEN LineTotal(cart[l])
                  ELSE request.coupon.get * request.coupon.count
  IN [l \in {i \in Lines \cup {Gift} : Ordered(i).qty > 0} |->
        [gross |-> gross(l), net |-> Ordered(l).total, matched |-> matched(l)]]

Next == Summarize \/ PlaceOrder \/ Return \/ \E fee \in Fees : EditShipping(fee)

Spec == Init /\ [][Next]_vars

-----------------------------------------------------------------------------
\* Rounding: a refund of a line is off by at most Slack fils.  Three roundings of half
\* a fil, of which the first is rounded once more with its VAT.
Slack == 2

\* The articles cost something, the discount fits them and none of it went into a
\* gift or the shipping: the orders whose amounts the refund formula can take apart.
\* Staff did not reprice it, which would forget the offer.
Divisible == /\ order.subtotal > 0
             /\ repriced => order.coupon = 0
             /\ order.type \notin {"buyxgety", "free_shipping"}
             /\ order.coupon + order.loyalty <= order.subtotal

\* The summary and the checkout agree on the total of an order with no offer,
\* an offer on the whole order, or an item offer without a loyalty coupon.
QuoteIsCharged ==
  Placed /\ ~repriced
         /\ (\/ request.coupon.type \in {"none", "transaction"}
             \/ request.coupon.type = "item" /\ request.credit = 0)
    => quoted = order.total

\* However an order is returned, in however many returns, the refunds do not
\* exceed what was paid by more than the rounding of each refunded line.
RefundsWithinPaid ==
  Placed /\ Divisible => refunds.total <= order.total + Slack * refunds.lines

\* An order that was returned completely is refunded completely.
FullReturnRefundsAll ==
  Placed /\ Divisible /\ (\A l \in Lines : Left(l) = 0)
    => refunds.total >= order.total - Slack * refunds.lines

\* The first row takes what the even shares leave over.  Where they took too much
\* already, the code drops that row's discount, which would be negative.
NoneDropped ==
  order.type # "buyxgety" => \A r \in DOMAIN OrderItems : RowDiscount(order, OrderItems, r) >= 0

\* "distribute them at the line-item level": the rows Zoho Books gets add up to the
\* amount of the order before VAT, for every kind of offer, alone or together with a
\* loyalty coupon.
BooksNetsOrder ==
  Placed /\ NoneDropped /\ (repriced => order.type = "none")
         /\ (\/ order.coupon + order.loyalty <= order.subtotal
             \/ order.type \in {"buyxgety", "free_shipping"})
    => BooksNet(order, OrderItems) = order.total - order.vat
=============================================================================
