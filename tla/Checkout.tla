------------------------------ MODULE Checkout ------------------------------
(***************************************************************************)
(* From the cart to the order: the cart of a store, the checkout, loyalty  *)
(* points and the coupons issued for them, one offer of Zoho Commerce with *)
(* its redemption counters, the job that polls that offer, and the part of *)
(* a cancellation that gives points back.                                  *)
(*                                                                         *)
(* The checkout reads the cart while it validates the request, then opens  *)
(* a transaction that holds the lock of the user row: CheckoutLock is what *)
(* it reads and decides under that lock, CheckoutCommit what it writes.    *)
(* The writes of a transaction are seen when it commits.  Amounts are      *)
(* fils, points are whole.                                                 *)
(***************************************************************************)
EXTENDS Integers, Sequences, FiniteSets, Functions, Pricing

CONSTANTS
  Users, Products,
  Price,           \* [Products -> fils]
  Shipping,        \* the shipping fee of every order
  Workers,         \* request threads
  Poller,          \* the thread of manage.py poll_zoho_coupons
  None,
  EarnStep,        \* aed_per_point_earned
  PointValue,      \* point_value_aed, in fils
  MinRedeem,       \* min_points_to_redeem
  Block,           \* coupon_points_block
  BlockCredit,     \* coupon_credit_aed, in fils
  Lifetime,        \* coupon_expiry_days
  Scenes,          \* [requests, users, offer, points, wishes, orders, qty]
  MaxLines, MaxIssued, MaxRows, MaxTime  \* bounds

ASSUME ThreadAssumption == Poller \notin Workers /\ None \notin Workers \cup {Poller}
ASSUME UsersAssumption == IsFiniteSet(Users)
ASSUME AmountsAssumption ==
  Price \in [Products -> Nat] /\ Shipping \in Nat /\ VatPercent \in Nat
ASSUME LoyaltyAssumption ==
  /\ EarnStep \in Nat \ {0} /\ Block \in Nat \ {0} /\ PointValue \in Nat \ {0}
  /\ BlockCredit \in Nat /\ Lifetime \in Nat
ASSUME SceneAssumption ==
  \A s \in Scenes :
    /\ s.users \subseteq Users /\ s.points \in Nat /\ s.wishes \subseteq Nat
    /\ s.orders \in Nat /\ s.qty \in Nat
    /\ s.offer.value \in Nat /\ s.offer.cap \in Nat
    /\ s.offer.max \in Nat /\ s.offer.maxPerUser \in Nat
ASSUME BoundsAssumption ==
  MaxLines \in Nat /\ MaxIssued \in Nat /\ MaxRows \in Nat \ {0} /\ MaxTime \in Nat

VARIABLES
  scene,    \* one of Scenes
  cart,     \* [Users -> set of lines]
  lineIds,  \* line ids given so far
  wallet,   \* [Users -> points_balance]
  orders,   \* the orders, in the order of their commits
  issued,   \* loyalty coupons that exist
  codes,    \* loyalty coupons issued so far
  offer,    \* the local row of the offer
  rows,     \* offer rows created so far
  usage,    \* CouponUsageLog
  zoho,     \* the offer is active in Zoho Commerce
  lock,     \* [Users -> the thread whose transaction holds the user row]
  job,      \* [Threads -> the local state of the request being served]
  now,      \* days
  history   \* what the rows forget: points spent on coupons, points forgiven,
            \* whether a poll overwrote or removed the offer's counters

vars == <<scene, cart, lineIds, wallet, orders, issued, codes, offer, rows, usage, zoho,
          lock, job, now, history>>

cartVars == <<cart, lineIds>>
loyaltyVars == <<wallet, issued, codes>>
offerVars == <<offer, rows, usage, zoho>>

Requests == scene.requests     \* the endpoints that are called
Offer == scene.offer           \* what Zoho says of the offer: type, value, rule, limits
StartPoints == scene.points    \* points in every wallet at the start
Wishes == scene.wishes         \* points a customer asks to redeem
MaxOrders == scene.orders      \* bound: orders that are placed
MaxQty == scene.qty            \* bound: units of a line

Threads == Workers \cup {Poller}

Line == [id: 1..MaxLines, product: Products, qty: Nat \ {0}]

OrderRow == [user: Users, lines: SUBSET Line, total: Nat, redeemed: Nat,
             awarded: Nat, code: 0..MaxIssued, offer: BOOLEAN, open: BOOLEAN,
             seen: Nat]

IssuedCoupon == [id: 1..MaxIssued, user: Users, points: Nat, amount: Nat, expires: Nat]

\* An offer row; pk 0 when there is none.
OfferRow == [pk: 0..MaxRows, count: Nat]
NoRow == [pk |-> 0, count |-> 0]

Steps == {"idle", "patch", "lock", "commit", "poll_row", "poll_save", "poll_end"}

JobState ==
  [pc: Steps, user: Users \cup {None}, lines: SUBSET Line, points: Nat,
   code: 0..MaxIssued, named: BOOLEAN, row: OfferRow, redeemed: Nat, loyalty: Nat,
   discount: Nat, live: BOOLEAN, seen: Nat]

Idle == [pc |-> "idle", user |-> None, lines |-> {}, points |-> 0, code |-> 0,
         named |-> FALSE, row |-> NoRow, redeemed |-> 0, loyalty |-> 0, discount |-> 0,
         live |-> FALSE, seen |-> 0]

Init ==
  /\ scene \in Scenes
  /\ cart = [u \in Users |-> {}] /\ lineIds = 0
  /\ wallet = [u \in Users |-> StartPoints]
  /\ orders = <<>>
  /\ issued = {} /\ codes = 0
  /\ offer = [pk |-> 1, count |-> 0] /\ rows = 1 /\ usage = {} /\ zoho = TRUE
  /\ lock = [u \in Users |-> None]
  /\ job = [t \in Threads |-> Idle]
  /\ now = 0
  /\ history = [bought |-> [u \in Users |-> 0], forgiven |-> [u \in Users |-> 0],
                overwritten |-> FALSE, removed |-> FALSE]

Accept(w, pc) == pc \in Requests /\ job[w].pc = "idle"
Finish(w) == job' = [job EXCEPT ![w] = Idle]

-----------------------------------------------------------------------------
(***************************************************************************)
(* The cart.                                                               *)
(***************************************************************************)

\* get_or_create the line of a product, adding to its quantity.
Merged(lines, p, qty) ==
  LET old == {l \in lines : l.product = p}
  IN IF old = {} THEN lines \cup {[id |-> lineIds + 1, product |-> p, qty |-> qty]}
     ELSE {IF l \in old THEN [l EXCEPT !.qty = @ + qty] ELSE l : l \in lines}

\* Bounds: a line has at most MaxQty units, MaxLines lines are made.
MergeFits(lines, p, qty) ==
  IF \E l \in lines : l.product = p
  THEN \A l \in lines : l.product = p => l.qty + qty <= MaxQty
  ELSE lineIds < MaxLines

Merge(u, lines, p, qty) ==
  /\ MergeFits(lines, p, qty)
  /\ cart' = [cart EXCEPT ![u] = Merged(lines, p, qty)]
  /\ lineIds' = lineIds + IF \E l \in lines : l.product = p THEN 0 ELSE 1

AddToCart(u, p) ==
  /\ "add" \in Requests
  /\ Merge(u, cart[u], p, 1)
  /\ UNCHANGED <<loyaltyVars, orders, offerVars, lock, job, scene, now, history>>

\* PATCH of a line reads it without a lock ...
PatchRead(w, u) ==
  /\ Accept(w, "patch")
  /\ \E l \in cart[u] :
       job' = [job EXCEPT ![w] = [Idle EXCEPT !.pc = "patch", !.user = u, !.lines = {l}]]
  /\ UNCHANGED <<cartVars, loyaltyVars, orders, offerVars, lock, scene, now, history>>

\* ... and saves the new quantity if the row is still there (increment, or
\* decrement not below one).
PatchSave(w) ==
  /\ job[w].pc = "patch"
  /\ LET u == job[w].user
         old == CHOOSE l \in job[w].lines : TRUE
     IN \E qty \in {old.qty + 1, AtLeast(old.qty - 1, 1)} :
          /\ qty <= MaxQty
          /\ cart' = [cart EXCEPT ![u] =
                        {IF l.id = old.id THEN [l EXCEPT !.qty = qty] ELSE l : l \in @}]
  /\ Finish(w)
  /\ UNCHANGED <<lineIds, loyaltyVars, orders, offerVars, lock, scene, now, history>>

RemoveLine(u) ==
  /\ "remove" \in Requests
  /\ \E l \in cart[u] : cart' = [cart EXCEPT ![u] = @ \ {l}]
  /\ UNCHANGED <<lineIds, loyaltyVars, orders, offerVars, lock, job, scene, now, history>>

ClearCart(u) ==
  /\ "remove" \in Requests
  /\ cart[u] # {}
  /\ cart' = [cart EXCEPT ![u] = {}]
  /\ UNCHANGED <<lineIds, loyaltyVars, orders, offerVars, lock, job, scene, now, history>>

\* The lines of an order of one product return to the cart, in mode merge or replace.
Reorder(i) ==
  /\ "reorder" \in Requests
  /\ LET u == orders[i].user
     IN \E l \in orders[i].lines, kept \in {cart[u], {}} :
          /\ orders[i].lines = {l}
          /\ Merge(u, kept, l.product, l.qty)
  /\ UNCHANGED <<loyaltyVars, orders, offerVars, lock, job, scene, now, history>>

-----------------------------------------------------------------------------
(***************************************************************************)
(* The offer as the checkout reads it.                                     *)
(***************************************************************************)
OfferExpired == now >= Offer.expires

CartOf(lines) ==
  [l \in lines |-> [price |-> Price[l.product], qty |-> l.qty, matched |-> TRUE]]

\* Wrong: one redemption too many.
AlmostExhausted == Offer.max > 0 /\ offer.count > Offer.max

Exhausted == Offer.max > 0 /\ offer.count >= Offer.max

\* Wrong: earlier redemptions of the customer are not looked for.
ForgottenUses(u) == {}

UsedBy(u) == {x \in usage : x.user = u /\ x.pk = offer.pk}

\* coupon_is_applicable for the row read now.
Applicable(u, lines) ==
  /\ offer.pk # 0
  /\ ~OfferExpired
  /\ ~Exhausted
  /\ Offer.maxPerUser > 0 => Cardinality(UsedBy(u)) < Offer.maxPerUser
  /\ Subtotal(CartOf(lines)) >= Offer.minimum

\* get_applicable_coupons_for_store looks at the cart as it is now.
AutoApplied(u, lines) ==
  Offer.auto /\ Applicable(u, cart[u]) /\ Applicable(u, lines)

DropUsageLinks == {[x EXCEPT !.pk = 0] : x \in usage}

\* Deleting an offer row sets the foreign key of its usage logs to NULL.
RemoveOffer ==
  /\ offer' = NoRow
  /\ usage' = DropUsageLinks
  /\ history' = [history EXCEPT !.removed = @ \/ offer.pk # 0]

\* cleanup_expired_coupons, on every checkout without an offer code.
CleanupExpired ==
  IF OfferExpired THEN RemoveOffer ELSE UNCHANGED <<offer, usage, history>>

-----------------------------------------------------------------------------
(***************************************************************************)
(* The checkout.                                                           *)
(***************************************************************************)

\* CheckoutSerializer: the cart must not be empty; a loyalty coupon or points.
CheckoutRead(w, u) ==
  /\ Accept(w, "checkout")
  /\ Len(orders) < MaxOrders
  /\ cart[u] # {}
  /\ \E points \in Wishes \cup {0}, code \in 0..codes, named \in BOOLEAN :
       /\ points = 0 \/ code = 0
       /\ job' = [job EXCEPT ![w] =
                    [Idle EXCEPT !.pc = "lock", !.user = u, !.lines = cart[u],
                                 !.points = points, !.code = code, !.named = named,
                                 !.seen = Len(orders)]]
  /\ UNCHANGED <<cartVars, loyaltyVars, orders, offerVars, lock, scene, now, history>>

\* max_points_redeemable_for_total
RedeemablePoints(cap) == cap \div PointValue

\* An unused coupon of this user with this code.
CouponRows(u, code) == {c \in issued : c.user = u /\ c.id = code}

(***************************************************************************)
(* The loyalty part, by coupon or by points: the admitted outcomes are     *)
(* [redeemed, loyalty]; none when the request is refused.                  *)
(***************************************************************************)
LoyaltyOutcomes(u, code, points, cap) ==
  IF code # 0
  THEN {[redeemed |-> 0, loyalty |-> AtMost(c.amount, cap)] :
          c \in {x \in CouponRows(u, code) : x.expires >= now}}
  ELSE IF points = 0 THEN {[redeemed |-> 0, loyalty |-> 0]}
  ELSE LET taken == AtMost(AtMost(points, wallet[u]), RedeemablePoints(cap))
       IN IF wallet[u] < MinRedeem \/ taken = 0 THEN {}
          ELSE {[redeemed |-> taken, loyalty |-> AtMost(taken * PointValue, cap)]}

\* The transaction up to the first row it creates: the user row is locked, the
\* offer is read without a lock, points are taken from the locked row.
CheckoutLock(w) ==
  LET u == job[w].user  lines == job[w].lines
      applies == IF job[w].named THEN Applicable(u, lines) ELSE AutoApplied(u, lines)
      discount == IF applies THEN CouponDiscount(Offer, CartOf(lines), Shipping) ELSE 0
      cap == LoyaltyCap(Subtotal(CartOf(lines)), discount)
  IN /\ job[w].pc = "lock"
     /\ lock[u] = None
     /\ job[w].named => applies
     /\ \E out \in LoyaltyOutcomes(u, job[w].code, job[w].points, cap) :
          job' = [job EXCEPT ![w].pc = "commit", ![w].redeemed = out.redeemed,
                             ![w].loyalty = out.loyalty, ![w].discount = discount,
                             ![w].row = IF applies THEN offer ELSE NoRow]
     /\ lock' = [lock EXCEPT ![u] = w]
     /\ IF job[w].named THEN UNCHANGED <<offer, usage, history>> ELSE CleanupExpired
     /\ UNCHANGED <<cartVars, loyaltyVars, orders, rows, zoho, scene, now>>

\* 'Coupon not found', 'no longer available', 'Invalid or already used loyalty
\* coupon code', 'You need at least ...': the transaction ends with a 400.
CheckoutRefused(w) ==
  LET u == job[w].user  lines == job[w].lines
      applies == IF job[w].named THEN Applicable(u, lines) ELSE AutoApplied(u, lines)
      discount == IF applies THEN CouponDiscount(Offer, CartOf(lines), Shipping) ELSE 0
      cap == LoyaltyCap(Subtotal(CartOf(lines)), discount)
  IN /\ job[w].pc = "lock"
     /\ lock[u] = None
     /\ \/ job[w].named /\ ~applies
        \/ LoyaltyOutcomes(u, job[w].code, job[w].points, cap) = {}
     /\ Finish(w)
     /\ IF job[w].named THEN UNCHANGED <<offer, usage, history>> ELSE CleanupExpired
     /\ UNCHANGED <<cartVars, loyaltyVars, orders, rows, zoho, lock, scene, now>>

\* points_earned_for_purchase
PointsEarned(total) == (total \div 100) \div EarnStep

\* increment_coupon_usage; when the row is gone its exception is swallowed.
CountUsage(u, row, order) ==
  IF row.pk = 0 \/ row.pk # offer.pk THEN UNCHANGED <<offer, usage>>
  ELSE /\ offer' = [offer EXCEPT !.count = @ + 1]
       /\ usage' = usage \cup {[pk |-> offer.pk, user |-> u, order |-> order]}

\* Wrong: the lines stay in the cart.
Untouched(u, lines) == cart[u]

\* The lines that were read are deleted, one added meanwhile stays.
Remaining(u, lines) == {l \in cart[u] : \A k \in lines : k.id # l.id}

\* The order, its items, the end of the cart lines, the counters, the points.
CheckoutCommit(w) ==
  LET j == job[w]  u == j.user
      totals == CheckoutTotals(IF j.row.pk # 0 THEN Offer.type ELSE "none",
                               Subtotal(CartOf(j.lines)), Shipping, j.loyalty, j.discount, 0)
      awarded == PointsEarned(totals.total)
  IN /\ j.pc = "commit"
     /\ Len(orders) < MaxOrders
     /\ orders' = Append(orders,
          [user |-> u, lines |-> j.lines, total |-> totals.total, redeemed |-> j.redeemed,
           awarded |-> awarded, code |-> j.code, offer |-> j.row.pk # 0, open |-> TRUE,
           seen |-> j.seen])
     /\ cart' = [cart EXCEPT ![u] = Remaining(u, j.lines)]
     /\ CountUsage(u, j.row, Len(orders) + 1)
     /\ issued' = issued \ CouponRows(u, j.code)
     /\ wallet' = [wallet EXCEPT ![u] = @ - j.redeemed + awarded]
     /\ lock' = [lock EXCEPT ![u] = None]
     /\ Finish(w)
     /\ UNCHANGED <<lineIds, codes, rows, zoho, scene, now, history>>

\* An exception or the death of the process: the transaction is rolled back.
CheckoutDies(w) ==
  /\ job[w].pc = "commit"
  /\ lock' = [lock EXCEPT ![job[w].user] = None]
  /\ Finish(w)
  /\ UNCHANGED <<cartVars, loyaltyVars, orders, offerVars, scene, now, history>>

-----------------------------------------------------------------------------
(***************************************************************************)
(* Loyalty coupons and the points of a cancelled order.                    *)
(***************************************************************************)

\* validate_points_for_coupon
Exchangeable(points) ==
  points >= AtLeast(MinRedeem, Block) /\ points % Block = 0

IssueCoupon(u) ==
  /\ "issue" \in Requests
  /\ lock[u] = None
  /\ codes < MaxIssued
  /\ \E points \in 1..wallet[u] :
       /\ Exchangeable(points)
       /\ wallet' = [wallet EXCEPT ![u] = @ - points]
       /\ issued' = issued \cup
            {[id |-> codes + 1, user |-> u, points |-> points,
              amount |-> BlockCredit * (points \div Block), expires |-> now + Lifetime]}
       /\ history' = [history EXCEPT !.bought[u] = @ + points]
  /\ codes' = codes + 1
  /\ UNCHANGED <<cartVars, orders, offerVars, lock, job, scene, now>>

\* purge_stale_loyalty_coupons, when the customer lists the coupons; a row that
\* a checkout has locked makes the DELETE wait.
PurgeCoupons(u) ==
  LET stale == {c \in issued : c.user = u /\ c.expires <= now}
  IN /\ "purge" \in Requests
     /\ stale # {}
     /\ \A w \in Workers : job[w].pc = "commit" => \A c \in stale : c.id # job[w].code
     /\ issued' = issued \ stale
     /\ UNCHANGED <<cartVars, wallet, codes, orders, offerVars, lock, job, scene, now, history>>

\* Wrong: the redeemed points are given back, the awarded ones kept.
RestoredOnly(balance, o) == balance + o.redeemed

\* _restore_loyalty_on_cancel: redeemed points return, awarded points are taken
\* back down to an empty wallet.  The used loyalty coupon does not come back.
Restored(balance, o) == AtLeast(balance + o.redeemed - o.awarded, 0)

\* Wrong: a cancelled order is cancelled again.
AnyOrder(o) == TRUE

\* Read again under the lock of the row.
Cancellable(o) == o.open

CancelOrder(i) ==
  LET o == orders[i]  u == orders[i].user
  IN /\ "cancel" \in Requests
     /\ Cancellable(o)
     /\ lock[u] = None
     /\ orders' = [orders EXCEPT ![i].open = FALSE]
     /\ wallet' = [wallet EXCEPT ![u] = Restored(@, o)]
     /\ history' = [history EXCEPT
          !.forgiven[u] = @ + Restored(wallet[u], o) - (wallet[u] + o.redeemed - o.awarded)]
     /\ UNCHANGED <<cartVars, issued, codes, offerVars, lock, job, scene, now>>

-----------------------------------------------------------------------------
(***************************************************************************)
(* The poll of Zoho's coupons.                                             *)
(***************************************************************************)

\* Staff switch the offer off and on in Zoho Commerce.
EditZoho ==
  /\ "poll" \in Requests
  /\ zoho' = ~zoho
  /\ UNCHANGED <<cartVars, loyaltyVars, orders, offer, rows, usage, lock, job, scene, now, history>>

\* The list of coupons and the detail of this one are fetched.  A detail that
\* cannot be fetched leaves the id out of live_ids.
PollFetch ==
  /\ Accept(Poller, "poll")
  /\ \E fetched \in BOOLEAN :
       job' = [job EXCEPT ![Poller] =
                 [Idle EXCEPT !.pc = IF fetched THEN "poll_row" ELSE "poll_end",
                              !.live = fetched, !.named = zoho]]
  /\ UNCHANGED <<cartVars, loyaltyVars, orders, offerVars, lock, scene, now, history>>

\* sync_coupon_from_payload: an inactive offer is deleted ...
PollInactive ==
  /\ job[Poller].pc = "poll_row"
  /\ ~job[Poller].named
  /\ RemoveOffer
  /\ job' = [job EXCEPT ![Poller].pc = "poll_end"]
  /\ UNCHANGED <<cartVars, loyaltyVars, orders, rows, zoho, lock, scene, now>>

\* ... an active one is read, or created, ...
PollRow ==
  /\ job[Poller].pc = "poll_row"
  /\ job[Poller].named
  /\ IF offer.pk # 0 THEN UNCHANGED <<offer, rows>>
     ELSE /\ rows < MaxRows
          /\ rows' = rows + 1
          /\ offer' = [pk |-> rows + 1, count |-> 0]
  /\ job' = [job EXCEPT ![Poller].pc = "poll_save", ![Poller].row = offer']
  /\ UNCHANGED <<cartVars, loyaltyVars, orders, usage, zoho, lock, scene, now, history>>

\* ... and saved with every column it had when it was read.
PollSave ==
  /\ job[Poller].pc = "poll_save"
  /\ offer' = job[Poller].row
  /\ history' = [history EXCEPT !.overwritten = @ \/ offer # job[Poller].row]
  /\ job' = [job EXCEPT ![Poller].pc = "poll_end"]
  /\ UNCHANGED <<cartVars, loyaltyVars, orders, rows, usage, zoho, lock, scene, now>>

\* Expired offers and those not seen in this poll are deleted.
PollEnd ==
  /\ job[Poller].pc = "poll_end"
  /\ IF OfferExpired \/ ~job[Poller].live THEN RemoveOffer
     ELSE UNCHANGED <<offer, usage, history>>
  /\ Finish(Poller)
  /\ UNCHANGED <<cartVars, loyaltyVars, orders, rows, zoho, lock, scene, now>>

Tick ==
  /\ now < MaxTime
  /\ now' = now + 1
  /\ UNCHANGED <<scene, cartVars, loyaltyVars, orders, offerVars, lock, job, history>>

Poll == PollFetch \/ PollInactive \/ PollRow \/ PollSave \/ PollEnd

Next ==
  \/ \E u \in scene.users :
       \/ \E p \in Products : AddToCart(u, p)
       \/ RemoveLine(u) \/ ClearCart(u) \/ IssueCoupon(u) \/ PurgeCoupons(u)
       \/ \E w \in Workers : PatchRead(w, u) \/ CheckoutRead(w, u)
  \/ \E w \in Workers :
       \/ PatchSave(w) \/ CheckoutLock(w) \/ CheckoutRefused(w)
       \/ CheckoutCommit(w) \/ CheckoutDies(w)
  \/ \E i \in DOMAIN orders : Reorder(i) \/ CancelOrder(i)
  \/ EditZoho \/ Poll \/ Tick

Spec == Init /\ [][Next]_vars

-----------------------------------------------------------------------------
TypeOK ==
  /\ scene \in Scenes
  /\ cart \in [Users -> SUBSET Line] /\ lineIds \in 0..MaxLines
  /\ wallet \in [Users -> Nat]
  /\ orders \in Seq(OrderRow) /\ Len(orders) <= MaxOrders
  /\ issued \subseteq IssuedCoupon /\ codes \in 0..MaxIssued
  /\ offer \in OfferRow /\ rows \in 0..MaxRows
  /\ usage \subseteq [pk: 0..MaxRows, user: Users, order: Nat \ {0}]
  /\ zoho \in BOOLEAN
  /\ lock \in [Users -> Workers \cup {None}]
  /\ job \in [Threads -> JobState]
  /\ now \in Nat
  /\ history \in [bought: [Users -> Nat], forgiven: [Users -> Nat],
                 overwritten: BOOLEAN, removed: BOOLEAN]

OrdersOf(u) == {i \in DOMAIN orders : orders[i].user = u}
Redeemed == [i \in DOMAIN orders |-> orders[i].redeemed]
Gained == [i \in DOMAIN orders |-> orders[i].awarded - orders[i].redeemed]

\* The points of a customer are those they started with and those of their open
\* orders, less what they spent on coupons, and what a cancellation could not
\* take back: no interleaving of checkouts, exchanges and cancellations loses or
\* makes points.
PointsExplained ==
  \A u \in Users :
    wallet[u] = StartPoints - history.bought[u] + history.forgiven[u]
      + SumFunctionOnSet(Gained, {i \in OrdersOf(u) : orders[i].open})

\* Points are forgiven only to a customer who spent them: never more than the
\* customer redeemed or exchanged.
ForgivenWereSpent ==
  \A u \in Users : history.forgiven[u] <=
    history.bought[u]
      + SumFunctionOnSet(Redeemed, OrdersOf(u))

\* A loyalty coupon pays for one order, and is gone once it did; and while the poll
\* removed no row, no customer redeems an offer more often than its limit per user,
\* however many of their checkouts run at once.
CouponLimits ==
  /\ \A i \in DOMAIN orders : orders[i].code # 0 =>
       /\ \A k \in DOMAIN orders : orders[k].code = orders[i].code => k = i
       /\ \A c \in issued : c.id # orders[i].code
  /\ Offer.maxPerUser > 0 /\ ~history.removed =>
       \A u \in Users : Cardinality({x \in usage : x.user = u}) <= Offer.maxPerUser

\* The counter of an offer never exceeds its redemptions: nobody is refused an offer that
\* has some left.  The limit is read before it is counted, so concurrent checkouts of
\* several customers may exceed it, by at most one redemption for each of the others.
RedemptionsCounted ==
  /\ offer.count <= Cardinality(usage)
  /\ Offer.max > 0 /\ ~history.removed /\ ~history.overwritten =>
       Cardinality(usage) < Offer.max + Cardinality(Users)

\* Two orders contain the same cart line only if both requests had read the cart
\* before the first of them committed: a repeated submit is harmless once the first
\* one was answered.
LineOrderedAgainOnlyIfOverlapping ==
  \A i, k \in DOMAIN orders :
    i < k /\ (\E l \in orders[i].lines, m \in orders[k].lines : l.id = m.id)
      => orders[k].seen < i
=============================================================================
