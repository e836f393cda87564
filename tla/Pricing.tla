------------------------------ MODULE Pricing ------------------------------
(***************************************************************************)
(* The arithmetic of an order: shipping fee, coupon discount, VAT, total   *)
(* at checkout, the total shown before it, and the refund of a returned    *)
(* line.  Every amount is a number of fils (AED 0.01), rounded where the   *)
(* code calls quantize.                                                    *)
(*                                                                         *)
(* A cart is a function from its lines to records                          *)
(*   [price, qty, matched]   matched: the line is one the coupon names     *)
(* A coupon is a record [type, percent, value, cap, get, count]            *)
(*   percent  discount_type is "percentage", else value is in fils         *)
(*   cap      max_discount_amount, 0 when there is none                    *)
(*   get, count  unit price and number of the article a buyxgety gives     *)
(***************************************************************************)
LOCAL INSTANCE Integers
LOCAL INSTANCE FiniteSetsExt
LOCAL INSTANCE Functions

CONSTANTS VatPercent,  \* settings.DEFAULT_VAT_PERCENT
          DefaultFee   \* settings.DEFAULT_SHIPPING_AMOUNT

AtLeast(a, b) == IF a < b THEN b ELSE a
AtMost(a, b) == IF a < b THEN a ELSE b

\* n/d to the next integer: ROUND_HALF_EVEN, what quantize does by default.
HalfEven(n, d) ==
  LET q == n \div d  r == n % d
  IN IF 2 * r > d \/ (2 * r = d /\ q % 2 = 1) THEN q + 1 ELSE q

\* n/d to the next integer: ROUND_HALF_UP, for n \in Nat.
HalfUp(n, d) == (2 * n + d) \div (2 * d)

CouponTypes == {"none", "transaction", "item", "free_shipping", "buyxgety"}

NoCoupon == [type |-> "none", percent |-> FALSE, value |-> 0, cap |-> 0,
             get |-> 0, count |-> 0]

LineTotal(line) == line.price * line.qty

LineTotals(cart) == [l \in DOMAIN cart |-> LineTotal(cart[l])]

Subtotal(cart) == SumFunctionOnSet(LineTotals(cart), DOMAIN cart)

MatchedTotal(cart) ==
  SumFunctionOnSet(LineTotals(cart), {l \in DOMAIN cart : cart[l].matched})

(***************************************************************************)
(* A delivery zone is [known, fee, surcharge, threshold]; a city of no     *)
(* zone pays the default fee.                                              *)
(***************************************************************************)
DeliveryFee(zone, subtotal) ==
  IF ~zone.known THEN DefaultFee
  ELSE IF subtotal >= zone.threshold THEN 0 ELSE zone.fee

CodSurcharge(zone, cash) ==
  IF ~cash THEN 0
  ELSE IF zone.known THEN zone.surcharge
  ELSE IF DefaultFee > 0 THEN 1000 ELSE 0

ShippingFee(zone, subtotal, cash) ==
  DeliveryFee(zone, subtotal) + CodSurcharge(zone, cash)

\* A percentage of base, limited by the cap of the coupon.
Percentage(coupon, base) ==
  LET discount == HalfEven(base * coupon.value, 100)
  IN IF coupon.cap > 0 THEN AtMost(discount, coupon.cap) ELSE discount

CouponDiscount(coupon, cart, shipping) ==
  LET base == IF coupon.type = "transaction" THEN Subtotal(cart) ELSE MatchedTotal(cart)
  IN CASE coupon.type = "none" -> 0
       [] coupon.type = "free_shipping" -> shipping
       [] OTHER -> IF coupon.percent THEN Percentage(coupon, base) ELSE coupon.value

Vat(taxable) == HalfEven(taxable * VatPercent, 100)

\* Wrong: the shipping is taxed.
ShippingTaxed(type, subtotal, shipping, loyalty, discount, gift) ==
  LET taxable == AtLeast(subtotal - loyalty - discount, 0) + gift + shipping
  IN [vat |-> Vat(taxable), total |-> taxable + Vat(taxable)]

(***************************************************************************)
(* _checkout_totals: gift is the net price of the article a buyxgety       *)
(* coupon adds, which is 0 until that article is on the order.             *)
(***************************************************************************)
CheckoutTotals(type, subtotal, shipping, loyalty, discount, gift) ==
  LET taken == IF type \in {"free_shipping", "buyxgety"} THEN loyalty
               ELSE loyalty + discount
      taxable == AtLeast(subtotal - taken, 0) + gift
      charged == IF type = "free_shipping" THEN 0 ELSE shipping
  IN [vat |-> Vat(taxable), total |-> taxable + Vat(taxable) + charged]

\* The article of a buyxgety coupon: what is taken off, and what is left.
GiftDiscount(coupon) == HalfEven(coupon.get * coupon.count * coupon.value, 100)
GiftNet(coupon) == coupon.get * coupon.count - GiftDiscount(coupon)

\* What a loyalty coupon worth that amount can take off.
LoyaltyCap(subtotal, discount) == AtLeast(subtotal - discount, 0)

\* The amounts CheckoutAPIView.post writes into the order and the usage log.
OrderAmounts(cart, coupon, amount, zone, cash) ==
  LET subtotal == Subtotal(cart)
      shipping == ShippingFee(zone, subtotal, cash)
      found == CouponDiscount(coupon, cart, shipping)
      loyalty == AtMost(amount, LoyaltyCap(subtotal, found))
      bxgy == coupon.type = "buyxgety"
      discount == IF bxgy THEN GiftDiscount(coupon) ELSE found
      totals == CheckoutTotals(coupon.type, subtotal, shipping, loyalty, discount,
                               IF bxgy THEN GiftNet(coupon) ELSE 0)
  IN [subtotal |-> subtotal, shipping |-> shipping, loyalty |-> loyalty,
      coupon |-> discount, type |-> coupon.type,
      vat |-> totals.vat, total |-> totals.total]

(***************************************************************************)
(* OrderSummaryAPIView.post: the total shown before the order is placed,   *)
(* by formulas of its own.                                                 *)
(***************************************************************************)
\* An item coupon and a loyalty coupon: the loyalty amount is split evenly
\* over the lines, the whole discount is taken off every matched line.
ItemTaxable(cart, discount, amount) ==
  LET share == HalfEven(amount, Cardinality(DOMAIN cart))
      left(l) == AtLeast(LineTotal(cart[l]) - share, 0)
  IN MapThenSumSet(LAMBDA l : IF cart[l].matched THEN AtLeast(left(l) - discount, 0)
                              ELSE left(l), DOMAIN cart)

QuotedTaxable(cart, coupon, amount, discount) ==
  LET subtotal == Subtotal(cart)
  IN CASE coupon.type = "buyxgety" ->
            AtLeast(subtotal - amount, 0)
              + AtLeast(coupon.get * coupon.count - discount, 0)
       [] coupon.type = "item" /\ amount > 0 /\ discount > 0 ->
            ItemTaxable(cart, discount, amount)
       [] coupon.type \in {"none", "free_shipping"} -> AtLeast(subtotal - amount, 0)
       [] OTHER -> AtLeast(subtotal - discount - amount, 0)

QuotedTotal(cart, coupon, amount, zone, cash) ==
  LET subtotal == Subtotal(cart)
      shipping == ShippingFee(zone, subtotal, cash)
      discount == IF coupon.type = "buyxgety"
                  THEN Percentage(coupon, coupon.get * coupon.count)
                  ELSE CouponDiscount(coupon, cart, shipping)
      taxable == QuotedTaxable(cart, coupon, amount, discount)
      charged == IF coupon.type = "free_shipping" THEN CodSurcharge(zone, cash)
                 ELSE shipping
  IN taxable + Vat(taxable) + charged

\* Wrong: a coupon is not taken off.
LoyaltyOnly(order) == order.loyalty

\* Wrong: the shipping is kept.
RefundWithoutShipping(order, line, ordered, qty) ==
  LET gross == HalfUp(line * qty, ordered)
  IN AtLeast(gross - HalfUp(order.loyalty * gross, order.subtotal), 0)

(***************************************************************************)
(* return_line_refund_amount: qty units of a line, of ordered units whose  *)
(* line_total is line.                                                     *)
(***************************************************************************)
ProductDiscount(order) ==
  IF order.type = "buyxgety" THEN order.loyalty ELSE order.loyalty + order.coupon

LineRefund(order, line, ordered, qty) ==
  LET gross == HalfUp(line * qty, ordered)
      share(amount, part, whole) ==
        IF whole > 0 THEN HalfUp(amount * part, whole) ELSE 0
      discount == share(ProductDiscount(order), gross, order.subtotal)
      product == AtLeast(gross - discount, 0)
      taxable == AtLeast(order.subtotal - ProductDiscount(order), 0)
  IN product + share(order.vat, product, taxable)
             + share(order.shipping, gross, order.subtotal)

\* Wrong: what the even shares leave over is lost.
SharesOnly(amount, rows) == [r \in rows |-> HalfEven(amount, Cardinality(rows))]

(***************************************************************************)
(* The payload of the sales order and the invoice in Zoho Books: a row for *)
(* each item with a discount of its own, and one for the shipping.  items  *)
(* is [gross, net, matched] of each item, net what the order item says.    *)
(***************************************************************************)
\* Even shares, rounded; the first row takes what they leave over.
Split(amount, rows) ==
  LET share == HalfEven(amount, Cardinality(rows))
      first == CHOOSE r \in rows : TRUE
  IN [r \in rows |-> IF r = first THEN amount - share * (Cardinality(rows) - 1) ELSE share]

ShareOf(r, amount, rows) == IF r \in rows THEN Split(amount, rows)[r] ELSE 0

RowDiscount(order, items, r) ==
  LET rows == DOMAIN items
      given == {i \in rows : items[i].net < items[i].gross}
      matched == {i \in rows : items[i].matched}
  IN CASE order.type = "buyxgety" ->
            (items[r].gross - items[r].net) + ShareOf(r, order.loyalty, rows \ given)
       [] order.type = "free_shipping" -> ShareOf(r, order.loyalty, rows)
       [] order.type = "item" ->
            ShareOf(r, order.loyalty, rows) + ShareOf(r, order.coupon, matched)
       [] OTHER -> ShareOf(r, order.loyalty + order.coupon, rows)

\* A discount that is not positive is left out, but for a buyxgety coupon.
RowNet(order, items, r) ==
  LET discount == RowDiscount(order, items, r)
  IN items[r].gross - IF order.type = "buyxgety" THEN discount ELSE AtLeast(discount, 0)

\* The amount of the document before VAT.
BooksNet(order, items) ==
  SumFunction([r \in DOMAIN items |-> RowNet(order, items, r)])
    + (IF order.type = "free_shipping" THEN 0 ELSE order.shipping)
=============================================================================
