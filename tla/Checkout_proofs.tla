--------------------------- MODULE Checkout_proofs ---------------------------
(***************************************************************************)
(* Theorems about Checkout, for every value of its constants: its types,   *)
(* the points of a customer, the limits of coupons and offers, and which   *)
(* orders may contain the same line of a cart.                             *)
(***************************************************************************)
EXTENDS Checkout, Sums, TLAPS

(***************************************************************************)
(* The invariant.                                                          *)
(***************************************************************************)
\* A request is made by a customer; what it takes from the cart is finite.
RequestOK(j) ==
  /\ j.pc \in {"patch", "lock", "commit"} => j.user \in Users
  /\ j.pc = "patch" => j.lines # {}
  /\ IsFiniteSet(j.lines)

Requested == \A w \in Workers : RequestOK(job[w])

CartsFinite == \A u \in Users : IsFiniteSet(cart[u])

\* The transaction of a checkout holds the row of its customer, and with it the
\* points it is about to take.
Held ==
  \A w \in Workers : job[w].pc = "commit" =>
    /\ lock[job[w].user] = w
    /\ job[w].redeemed <= wallet[job[w].user]

\* Line ids tell where a line is: in one cart, and in a cart or an order.
Ids(lines) == {l.id : l \in lines}
Buying(w) == job[w].pc \in {"lock", "commit"}

Numbered ==
  /\ \A u \in Users : Ids(cart[u]) \subseteq 1..lineIds
  /\ \A w \in Workers : Ids(job[w].lines) \subseteq 1..lineIds
  /\ \A w \in Workers : Buying(w) => job[w].seen <= Len(orders)
  /\ \A i \in DOMAIN orders : Ids(orders[i].lines) \subseteq 1..lineIds

Apart ==
  /\ \A u, v \in Users : u # v => Ids(cart[u]) \cap Ids(cart[v]) = {}
  /\ \A w \in Workers, v \in Users :
       Buying(w) /\ v # job[w].user => Ids(job[w].lines) \cap Ids(cart[v]) = {}
  /\ \A i \in DOMAIN orders, u \in Users : Ids(orders[i].lines) \cap Ids(cart[u]) = {}
  /\ \A w \in Workers, i \in DOMAIN orders :
       Buying(w) /\ i <= job[w].seen => Ids(orders[i].lines) \cap Ids(job[w].lines) = {}
  /\ \A i, k \in DOMAIN orders :
       i < k /\ Ids(orders[i].lines) \cap Ids(orders[k].lines) # {} => orders[k].seen < i

\* A code is one coupon, which is there while a checkout that uses it runs and
\* not once it is on an order.
Coded ==
  /\ \A c, d \in issued : c.id = d.id => c = d
  /\ \A c \in issued : c.id <= codes
  /\ \A w \in Workers : job[w].code <= codes
  /\ \A w \in Workers : job[w].pc = "commit" /\ job[w].code # 0 =>
       \E c \in issued : c.user = job[w].user /\ c.id = job[w].code
  /\ \A i \in DOMAIN orders : orders[i].code <= codes
  /\ \A i \in DOMAIN orders : orders[i].code # 0 =>
       /\ \A k \in DOMAIN orders : orders[k].code = orders[i].code => k = i
       /\ \A c \in issued : c.id # orders[i].code

\* Each redemption is of an order of its own, and none is counted twice.
Logged ==
  /\ IsFiniteSet(usage)
  /\ \A x \in usage : x.order <= Len(orders)
  /\ \A x, y \in usage : x.order = y.order => x = y
  /\ offer.count <= Cardinality(usage)
  /\ job[Poller].row.count <= Cardinality(usage)

\* Until its row is removed an offer is the one of the start ...
Remains ==
  ~history.removed =>
    /\ offer.pk = 1
    /\ \A x \in usage : x.pk = 1
    /\ job[Poller].pc = "poll_save" => job[Poller].row.pk = 1
    /\ \A w \in Workers : job[w].pc = "commit" => job[w].row.pk \in {0, 1}

\* ... which a customer redeems within the limit per user, ...
Redeems(w) == job[w].pc = "commit" /\ job[w].row.pk # 0
UsesOf(u) == {x \in usage : x.user = u}

WithinLimit ==
  ~history.removed /\ Offer.maxPerUser > 0 =>
    /\ \A u \in Users : Cardinality(UsesOf(u)) <= Offer.maxPerUser
    /\ \A w \in Workers :
         Redeems(w) => Cardinality(UsesOf(job[w].user)) < Offer.maxPerUser

\* ... and until a poll overwrites it its counter is exact: redemptions beyond the
\* limit were admitted before the last one within it was counted.
Redeemers == {u \in Users : \E w \in Workers : job[w].user = u /\ Redeems(w)}

Counted ==
  ~history.removed /\ ~history.overwritten =>
    /\ offer.count = Cardinality(usage)
    /\ Offer.max > 0 =>
         Cardinality(usage) + Cardinality(Redeemers) < Offer.max + Cardinality(Users)

(***************************************************************************)
(* Amounts.                                                                *)
(***************************************************************************)
LEMMA AtLeastTyped ==
  ASSUME NEW a \in Int, NEW b \in Nat
  PROVE  AtLeast(a, b) \in Nat /\ AtLeast(a, b) >= a /\ AtLeast(a, b) >= b
  BY DEF AtLeast

LEMMA AtMostTyped ==
  ASSUME NEW a \in Nat, NEW b \in Nat
  PROVE  AtMost(a, b) \in Nat /\ AtMost(a, b) <= a /\ AtMost(a, b) <= b
  BY DEF AtMost

LEMMA QuotientTyped ==
  ASSUME NEW n \in Nat, NEW d \in Nat \ {0}
  PROVE  n \div d \in Nat
  OBVIOUS

LEMMA HalfEvenTyped ==
  ASSUME NEW n \in Nat
  PROVE  HalfEven(n, 100) \in Nat
  BY QuotientTyped DEF HalfEven

\* A set of lines costs what its lines do.
LEMMA SubtotalTyped ==
  ASSUME NEW lines \in SUBSET Line, IsFiniteSet(lines)
  PROVE  Subtotal(CartOf(lines)) \in Nat /\ MatchedTotal(CartOf(lines)) \in Nat
<1> DEFINE matched == {l \in lines : CartOf(lines)[l].matched}
<1>1. DOMAIN CartOf(lines) = lines
  BY DEF CartOf
<1>2. \A l \in lines : LineTotals(CartOf(lines))[l] \in Nat
  <2> SUFFICES ASSUME NEW l \in lines PROVE LineTotals(CartOf(lines))[l] \in Nat
    OBVIOUS
  <2>1. LineTotals(CartOf(lines))[l] = Price[l.product] * l.qty
    BY DEF LineTotals, CartOf, LineTotal
  <2>2. Price[l.product] \in Nat /\ l.qty \in Nat
    BY AmountsAssumption DEF Line
  <2>3. QED
    BY <2>1, <2>2
<1>3. matched \subseteq lines /\ IsFiniteSet(matched)
  BY FS_Subset
<1>4. /\ SumFunctionOnSet(LineTotals(CartOf(lines)), lines) \in Nat
      /\ SumFunctionOnSet(LineTotals(CartOf(lines)), matched) \in Nat
  <2> HIDE DEF matched
  <2> QED
    BY <1>2, <1>3, SumNotNegative
<1>5. QED
  BY <1>1, <1>4 DEF Subtotal, MatchedTotal

LEMMA OfferTyped ==
  ASSUME scene \in Scenes
  PROVE  /\ Offer.value \in Nat /\ Offer.cap \in Nat
         /\ Offer.max \in Nat /\ Offer.maxPerUser \in Nat
         /\ StartPoints \in Nat /\ MaxOrders \in Nat /\ MaxQty \in Nat
         /\ Wishes \subseteq Nat /\ scene.users \subseteq Users
  BY SceneAssumption DEF Offer, StartPoints, MaxOrders, MaxQty, Wishes

LEMMA DiscountTyped ==
  ASSUME scene \in Scenes, NEW lines \in SUBSET Line, IsFiniteSet(lines)
  PROVE  CouponDiscount(Offer, CartOf(lines), Shipping) \in Nat
<1> DEFINE base == IF Offer.type = "transaction" THEN Subtotal(CartOf(lines))
                   ELSE MatchedTotal(CartOf(lines))
<1>1. base \in Nat
  BY SubtotalTyped
<1>2. Offer.value \in Nat /\ Offer.cap \in Nat
  BY OfferTyped
<1> HIDE DEF base
<1>3. base * Offer.value \in Nat
  BY <1>1, <1>2
<1>4. Percentage(Offer, base) \in Nat
  BY <1>2, <1>3, HalfEvenTyped, AtMostTyped DEF Percentage
<1>5. CouponDiscount(Offer, CartOf(lines), Shipping) =
        CASE Offer.type = "none" -> 0
          [] Offer.type = "free_shipping" -> Shipping
          [] OTHER -> IF Offer.percent THEN Percentage(Offer, base) ELSE Offer.value
  BY DEF CouponDiscount, base
<1>6. CASE Offer.type = "none"
  BY <1>5, <1>6
<1>7. CASE Offer.type = "free_shipping"
  BY <1>5, <1>7, AmountsAssumption
<1>8. CASE Offer.type # "none" /\ Offer.type # "free_shipping"
  BY <1>2, <1>4, <1>5, <1>8
<1>9. QED
  BY <1>6, <1>7, <1>8

LEMMA TotalsTyped ==
  ASSUME NEW type, NEW subtotal \in Nat, NEW loyalty \in Nat, NEW discount \in Nat
  PROVE  CheckoutTotals(type, subtotal, Shipping, loyalty, discount, 0).total \in Nat
<1> DEFINE taken == IF type \in {"free_shipping", "buyxgety"} THEN loyalty
                    ELSE loyalty + discount
           taxable == AtLeast(subtotal - taken, 0) + 0
           charged == IF type = "free_shipping" THEN 0 ELSE Shipping
<1>1. taken \in Nat /\ charged \in Nat
  BY AmountsAssumption
<1>2. taxable \in Nat
  <2> HIDE DEF taken
  <2>1. AtLeast(subtotal - taken, 0) \in Nat
    BY <1>1, AtLeastTyped
  <2>2. QED
    BY <2>1
<1>3. CheckoutTotals(type, subtotal, Shipping, loyalty, discount, 0).total
        = taxable + Vat(taxable) + charged
  BY DEF CheckoutTotals
<1> HIDE DEF taken, taxable, charged
<1>4. taxable * VatPercent \in Nat
  BY <1>2, AmountsAssumption
<1>5. Vat(taxable) \in Nat
  BY <1>4, HalfEvenTyped DEF Vat
<1>6. QED
  BY <1>1, <1>2, <1>3, <1>5

LEMMA EarnedTyped ==
  ASSUME NEW total \in Nat
  PROVE  PointsEarned(total) \in Nat
<1>1. total \div 100 \in Nat
  BY QuotientTyped
<1>2. QED
  BY <1>1, QuotientTyped, LoyaltyAssumption DEF PointsEarned

\* Points and loyalty coupons take off what the order can bear, and of the wallet
\* no more than it holds.
LEMMA OutcomeTyped ==
  ASSUME issued \subseteq IssuedCoupon, NEW u \in Users, wallet[u] \in Nat,
         NEW code, NEW points \in Nat, NEW cap \in Nat,
         NEW out \in LoyaltyOutcomes(u, code, points, cap)
  PROVE  /\ out.redeemed \in Nat /\ out.loyalty \in Nat
         /\ out.redeemed <= wallet[u]
         /\ code # 0 => CouponRows(u, code) # {}
<1>1. CASE code # 0
  <2>1. PICK c \in CouponRows(u, code) :
          out = [redeemed |-> 0, loyalty |-> AtMost(c.amount, cap)]
    BY <1>1 DEF LoyaltyOutcomes
  <2>2. c.amount \in Nat
    BY DEF CouponRows, IssuedCoupon
  <2>3. AtMost(c.amount, cap) \in Nat
    BY <2>2, AtMostTyped
  <2>4. out.redeemed = 0 /\ out.loyalty = AtMost(c.amount, cap)
    BY <2>1
  <2>5. QED
    BY <2>3, <2>4
<1>2. CASE code = 0 /\ points = 0
  BY <1>2 DEF LoyaltyOutcomes
<1>3. CASE code = 0 /\ points # 0
  <2> DEFINE taken == AtMost(AtMost(points, wallet[u]), RedeemablePoints(cap))
  <2>1. out = [redeemed |-> taken, loyalty |-> AtMost(taken * PointValue, cap)]
    BY <1>3 DEF LoyaltyOutcomes
  <2>2. RedeemablePoints(cap) \in Nat
    BY QuotientTyped, LoyaltyAssumption DEF RedeemablePoints
  <2>3. AtMost(points, wallet[u]) \in Nat /\ AtMost(points, wallet[u]) <= wallet[u]
    BY AtMostTyped
  <2>4. taken \in Nat /\ taken <= AtMost(points, wallet[u])
    BY <2>2, <2>3, AtMostTyped
  <2> HIDE DEF taken
  <2>5. AtMost(taken * PointValue, cap) \in Nat
    <3>1. taken * PointValue \in Nat
      BY <2>4, LoyaltyAssumption
    <3>2. QED
      BY <3>1, AtMostTyped
  <2>6. out.redeemed = taken /\ out.loyalty = AtMost(taken * PointValue, cap)
    BY <2>1
  <2>7. QED
    BY <1>3, <2>3, <2>4, <2>5, <2>6
<1>4. QED
  BY <1>1, <1>2, <1>3

(***************************************************************************)
(* Sets.                                                                   *)
(***************************************************************************)
\* The values of a function on a finite set: no more than the set has elements, and
\* as many when no value occurs twice.
LEMMA ImageFinite ==
  ASSUME NEW f, NEW S, IsFiniteSet(S)
  PROVE  /\ IsFiniteSet({f[x] : x \in S})
         /\ Cardinality({f[x] : x \in S}) <= Cardinality(S)
         /\ (\A x, y \in S : f[x] = f[y] => x = y)
              => Cardinality({f[x] : x \in S}) = Cardinality(S)
<1> DEFINE T == {f[x] : x \in S}
           g == [x \in S |-> f[x]]
<1>1. g \in Surjection(S, T)
  BY DEF Surjection
<1>2. (\A x, y \in S : f[x] = f[y] => x = y) => g \in Injection(S, T)
  BY DEF Injection, IsInjective
<1> HIDE DEF g, T
<1>3. /\ IsFiniteSet(T) /\ Cardinality(T) <= Cardinality(S)
      /\ Cardinality(T) = Cardinality(S) <=> g \in Injection(S, T)
  BY <1>1, FS_Surjection
<1>4. QED
  BY <1>2, <1>3 DEF T

(***************************************************************************)
(* The types.  A thread moves alone, and what it moves to is a request.    *)
(***************************************************************************)
LEMMA ThreadsApart == Workers \subseteq Threads /\ Poller \in Threads \ Workers
  BY ThreadAssumption DEF Threads

LEMMA IdleTyped == Idle \in JobState /\ RequestOK(Idle) /\ Idle.pc = "idle"
<1>1. NoRow \in OfferRow
  BY BoundsAssumption DEF NoRow, OfferRow
<1>2. IsFiniteSet({})
  BY FS_EmptySet
<1>3. QED
  BY <1>1, <1>2, BoundsAssumption DEF Idle, JobState, Steps, RequestOK

Moves(t, j) == job' = [job EXCEPT ![t] = j]

LEMMA MoveTyped ==
  ASSUME TypeOK, Requested, NEW t \in Threads, NEW j \in JobState,
         t = Poller \/ RequestOK(j), Moves(t, j)
  PROVE  job' \in [Threads -> JobState] /\ Requested'
<1>1. job' \in [Threads -> JobState] /\ \A v \in Threads : v # t => job'[v] = job[v]
  BY DEF TypeOK, Moves
<1>2. job'[t] = j
  BY DEF TypeOK, Moves
<1>3. ASSUME NEW w \in Workers
      PROVE  RequestOK(job'[w])
  BY <1>1, <1>2, ThreadsApart DEF Requested
<1>4. QED
  BY <1>1, <1>3 DEF Requested, RequestOK

LEMMA FinishTyped ==
  ASSUME TypeOK, Requested, NEW t \in Threads, Finish(t)
  PROVE  job' \in [Threads -> JobState] /\ Requested'
  BY IdleTyped, MoveTyped DEF Finish, Moves

\* A transaction keeps what it holds while nobody else takes the lock or the
\* points of its customer.
Keeps(w) ==
  /\ job'[w] = job[w]
  /\ lock'[job[w].user] = lock[job[w].user]
  /\ wallet'[job[w].user] >= wallet[job[w].user]

LEMMA HeldKept ==
  ASSUME TypeOK, Requested, Held, wallet' \in [Users -> Nat],
         \A w \in Workers : job'[w].pc = "commit" => Keeps(w)
  PROVE  Held'
<1> SUFFICES ASSUME NEW w \in Workers, job'[w].pc = "commit"
             PROVE  /\ lock'[job'[w].user] = w
                    /\ job'[w].redeemed <= wallet'[job'[w].user]
  BY DEF Held
<1>1. Keeps(w)
  OBVIOUS
<1>2. /\ job[w].pc = "commit" /\ job[w].user \in Users
      /\ job[w].redeemed \in Nat /\ wallet[job[w].user] \in Nat
  BY <1>1, ThreadsApart DEF Keeps, Requested, RequestOK, TypeOK, JobState
<1>3. wallet'[job[w].user] \in Nat
  BY <1>2
<1>4. QED
  BY <1>1, <1>2, <1>3 DEF Keeps, Held

LEMMA NobodyHolds ==
  ASSUME Held, NEW u, lock[u] = None, NEW w \in Workers, job[w].pc = "commit"
  PROVE  job[w].user # u
  BY ThreadAssumption DEF Held

\* A cart gets a line, or more of one it has.
LEMMA MergeTyped ==
  ASSUME TypeOK, CartsFinite, NEW u \in Users, NEW lines \in SUBSET Line,
         IsFiniteSet(lines), NEW p \in Products, NEW qty \in Nat \ {0},
         Merge(u, lines, p, qty)
  PROVE  /\ cart' \in [Users -> SUBSET Line] /\ CartsFinite'
         /\ lineIds' \in 0..MaxLines
<1> DEFINE old == {l \in lines : l.product = p}
           more(l) == IF l \in old THEN [l EXCEPT !.qty = @ + qty] ELSE l
           new == [id |-> lineIds + 1, product |-> p, qty |-> qty]
<1>1. cart' = [cart EXCEPT ![u] = Merged(lines, p, qty)]
  BY DEF Merge
<1>2. CASE old = {}
  <2>1. lineIds < MaxLines /\ lineIds' = lineIds + 1
    BY <1>2 DEF Merge, MergeFits
  <2>2. lineIds + 1 \in 1..MaxLines /\ lineIds' \in 0..MaxLines
    BY <2>1, BoundsAssumption DEF TypeOK
  <2>3. new \in Line
    BY <2>2 DEF Line
  <2>4. Merged(lines, p, qty) = lines \cup {new}
    BY <1>2 DEF Merged
  <2> HIDE DEF new
  <2>5. Merged(lines, p, qty) \in SUBSET Line /\ IsFiniteSet(Merged(lines, p, qty))
    BY <2>3, <2>4, FS_AddElement
  <2>6. QED
    BY <1>1, <2>2, <2>5 DEF TypeOK, CartsFinite
<1>3. CASE old # {}
  <2>1. lineIds' = lineIds
    BY <1>3 DEF Merge, TypeOK
  <2>2. Merged(lines, p, qty) = {more(l) : l \in lines}
    BY <1>3 DEF Merged
  <2>3. \A l \in lines : more(l) \in Line
    BY DEF Line
  <2> HIDE DEF more
  <2>4. Merged(lines, p, qty) \in SUBSET Line
    BY <2>2, <2>3
  <2>5. IsFiniteSet({more(l) : l \in lines})
    <3> DEFINE f == [l \in lines |-> more(l)]
    <3>1. {more(l) : l \in lines} = {f[l] : l \in lines}
      OBVIOUS
    <3> HIDE DEF f
    <3>2. QED
      BY <3>1, ImageFinite
  <2>6. QED
    BY <1>1, <2>1, <2>2, <2>4, <2>5 DEF TypeOK, CartsFinite
<1>4. QED
  BY <1>2, <1>3

(***************************************************************************)
(* The cart.                                                               *)
(***************************************************************************)
Typed == TypeOK /\ Requested /\ CartsFinite /\ Held

CartActs ==
  \/ \E u \in scene.users :
       \/ \E p \in Products : AddToCart(u, p)
       \/ RemoveLine(u) \/ ClearCart(u)
       \/ \E w \in Workers : PatchRead(w, u)
  \/ \E w \in Workers : PatchSave(w)
  \/ \E i \in DOMAIN orders : Reorder(i)

\* A step that leaves the requests, the rows and the points alone, and the cart in order.
LEMMA CartOnly ==
  ASSUME Typed, cart' \in [Users -> SUBSET Line], lineIds' \in 0..MaxLines, CartsFinite',
         UNCHANGED <<loyaltyVars, orders, offerVars, lock, scene, now, history>>,
         job' \in [Threads -> JobState], Requested',
         \A w \in Workers : job'[w].pc = "commit" => job'[w] = job[w]
  PROVE  Typed'
<1>1. TypeOK'
  BY DEF Typed, TypeOK, loyaltyVars, offerVars, MaxOrders
<1>2. \A w \in Workers : job'[w].pc = "commit" => Keeps(w)
  <2> SUFFICES ASSUME NEW w \in Workers, job'[w].pc = "commit" PROVE Keeps(w)
    OBVIOUS
  <2>1. job[w].user \in Users /\ wallet[job[w].user] \in Nat
    BY DEF Typed, TypeOK, Requested, RequestOK
  <2>2. QED
    BY <2>1 DEF Keeps, loyaltyVars
<1>3. Held'
  BY <1>2, HeldKept DEF Typed, TypeOK, loyaltyVars
<1>4. QED
  BY <1>1, <1>3 DEF Typed

LEMMA SameRequests ==
  ASSUME Typed, UNCHANGED job
  PROVE  /\ job' \in [Threads -> JobState] /\ Requested'
         /\ \A w \in Workers : job'[w] = job[w]
  BY DEF Typed, TypeOK, Requested

LEMMA SameCarts ==
  ASSUME Typed, UNCHANGED cart
  PROVE  cart' \in [Users -> SUBSET Line] /\ CartsFinite'
  BY DEF Typed, TypeOK, CartsFinite

Patched(lines, id, qty) ==
  {IF l.id = id THEN [l EXCEPT !.qty = qty] ELSE l : l \in lines}

LEMMA PatchedIds ==
  ASSUME NEW lines \in SUBSET Line, NEW id, NEW qty
  PROVE  Ids(Patched(lines, id, qty)) = Ids(lines)
<1> DEFINE f == [l \in lines |-> IF l.id = id THEN [l EXCEPT !.qty = qty] ELSE l]
<1>1. Patched(lines, id, qty) = {f[l] : l \in lines}
  BY DEF Patched
<1>2. \A l \in lines : f[l].id = l.id
  BY DEF Line
<1> HIDE DEF f
<1>3. QED
  BY <1>1, <1>2 DEF Ids

LEMMA PatchedTyped ==
  ASSUME NEW lines \in SUBSET Line, IsFiniteSet(lines), NEW id, NEW qty \in Nat \ {0}
  PROVE  Patched(lines, id, qty) \subseteq Line /\ IsFiniteSet(Patched(lines, id, qty))
<1> DEFINE f == [l \in lines |-> IF l.id = id THEN [l EXCEPT !.qty = qty] ELSE l]
<1>1. Patched(lines, id, qty) = {f[l] : l \in lines}
  BY DEF Patched
<1>2. \A l \in lines : f[l] \in Line
  BY DEF Line
<1> HIDE DEF f
<1>3. IsFiniteSet({f[l] : l \in lines})
  BY ImageFinite
<1>4. QED
  BY <1>1, <1>2, <1>3

LEMMA CartTyped ==
  ASSUME Typed, CartActs
  PROVE  Typed'
<1>s. scene.users \subseteq Users
  BY OfferTyped DEF Typed, TypeOK
<1>1. ASSUME NEW u \in scene.users, NEW p \in Products, AddToCart(u, p)
      PROVE  Typed'
  <2>1. cart[u] \in SUBSET Line /\ IsFiniteSet(cart[u]) /\ u \in Users
    BY <1>s DEF Typed, TypeOK, CartsFinite
  <2>2. Merge(u, cart[u], p, 1) /\ UNCHANGED job
    BY <1>1 DEF AddToCart
  <2>3. /\ cart' \in [Users -> SUBSET Line] /\ CartsFinite' /\ lineIds' \in 0..MaxLines
    BY <2>1, <2>2, MergeTyped DEF Typed
  <2>4. QED
    BY <1>1, <2>2, <2>3, SameRequests, CartOnly DEF AddToCart
<1>2. ASSUME NEW u \in scene.users, RemoveLine(u) \/ ClearCart(u)
      PROVE  Typed'
  <2>1. PICK rest \in SUBSET cart[u] : cart' = [cart EXCEPT ![u] = rest]
    BY <1>2 DEF RemoveLine, ClearCart
  <2>2. u \in Users /\ IsFiniteSet(rest) /\ rest \subseteq Line
    BY <1>s, FS_Subset DEF Typed, TypeOK, CartsFinite
  <2>3. cart' \in [Users -> SUBSET Line] /\ CartsFinite'
    BY <2>1, <2>2 DEF Typed, TypeOK, CartsFinite
  <2>4. lineIds' \in 0..MaxLines
    BY <1>2 DEF RemoveLine, ClearCart, Typed, TypeOK
  <2>5. QED
    BY <1>2, <2>3, <2>4, SameRequests, CartOnly DEF RemoveLine, ClearCart
<1>3. ASSUME NEW u \in scene.users, NEW w \in Workers, PatchRead(w, u)
      PROVE  Typed'
  <2>1. PICK l \in cart[u] :
          Moves(w, [Idle EXCEPT !.pc = "patch", !.user = u, !.lines = {l}])
    BY <1>3 DEF PatchRead, Moves
  <2> DEFINE j == [Idle EXCEPT !.pc = "patch", !.user = u, !.lines = {l}]
  <2>2. l \in Line /\ u \in Users
    BY <1>s DEF Typed, TypeOK
  <2>3. /\ j \in JobState /\ j.pc = "patch" /\ j.user = u /\ j.lines = {l}
    BY <2>2, IdleTyped DEF Idle, JobState, Steps
  <2>4. RequestOK(j)
    BY <2>2, <2>3, FS_Singleton DEF RequestOK
  <2>5. Moves(w, j)
    BY <2>1
  <2> HIDE DEF j
  <2>6. job' \in [Threads -> JobState] /\ Requested'
    BY <2>3, <2>4, <2>5, MoveTyped, ThreadsApart DEF Typed
  <2>7. \A v \in Workers : job'[v].pc = "commit" => job'[v] = job[v]
    BY <2>3, <2>5, ThreadsApart DEF Moves, Typed, TypeOK
  <2>8. UNCHANGED <<cart, lineIds>>
    BY <1>3 DEF PatchRead, cartVars
  <2>9. QED
    BY <1>3, <2>6, <2>7, <2>8, SameCarts, CartOnly DEF PatchRead, Typed, TypeOK
<1>4. ASSUME NEW w \in Workers, PatchSave(w)
      PROVE  Typed'
  <2> DEFINE u == job[w].user
             old == CHOOSE l \in job[w].lines : TRUE
  <2>1. u \in Users /\ old \in job[w].lines
    BY <1>4 DEF PatchSave, Typed, Requested, RequestOK
  <2>2. old \in Line
    BY <2>1, ThreadsApart DEF Typed, TypeOK, JobState
  <2>3. PICK qty \in {old.qty + 1, AtLeast(old.qty - 1, 1)} :
          cart' = [cart EXCEPT ![u] =
                     {IF l.id = old.id THEN [l EXCEPT !.qty = qty] ELSE l : l \in @}]
    BY <1>4 DEF PatchSave
  <2>4. qty \in Nat \ {0}
    <3>1. old.qty \in Nat \ {0}
      BY <2>2 DEF Line
    <3>2. \A n \in Nat \ {0} : n + 1 \in Nat \ {0} /\ AtLeast(n - 1, 1) \in Nat \ {0}
      BY DEF AtLeast
    <3>3. QED
      BY <3>1, <3>2
  <2> HIDE DEF u, old
  <2> DEFINE new == Patched(cart[u], old.id, qty)
  <2>5. cart' = [cart EXCEPT ![u] = new]
    BY <2>1, <2>3 DEF Patched, Typed, TypeOK
  <2>7. new \subseteq Line /\ IsFiniteSet(new)
    BY <2>1, <2>4, PatchedTyped DEF Typed, TypeOK, CartsFinite
  <2> HIDE DEF new
  <2>8. cart' \in [Users -> SUBSET Line] /\ CartsFinite'
    BY <2>1, <2>5, <2>7 DEF Typed, TypeOK, CartsFinite
  <2>9. job' \in [Threads -> JobState] /\ Requested'
    BY <1>4, FinishTyped, ThreadsApart DEF PatchSave, Typed
  <2>10. \A v \in Workers : job'[v].pc = "commit" => job'[v] = job[v]
    BY <1>4, IdleTyped, ThreadsApart DEF PatchSave, Finish, Typed, TypeOK
  <2>11. QED
    BY <1>4, <2>8, <2>9, <2>10, CartOnly DEF PatchSave, Typed, TypeOK
<1>5. ASSUME NEW i \in DOMAIN orders, Reorder(i)
      PROVE  Typed'
  <2> DEFINE u == orders[i].user
  <2>1. orders[i] \in OrderRow
    BY DEF Typed, TypeOK
  <2>2. PICK l \in orders[i].lines, kept \in {cart[u], {}} : Merge(u, kept, l.product, l.qty)
    BY <1>5 DEF Reorder
  <2>3. u \in Users /\ l.product \in Products /\ l.qty \in Nat \ {0}
    BY <2>1 DEF OrderRow, Line
  <2>4. kept \in SUBSET Line /\ IsFiniteSet(kept)
    BY <2>3, FS_EmptySet DEF Typed, TypeOK, CartsFinite
  <2> HIDE DEF u
  <2>5. /\ cart' \in [Users -> SUBSET Line] /\ CartsFinite' /\ lineIds' \in 0..MaxLines
    BY <2>2, <2>3, <2>4, MergeTyped DEF Typed
  <2>6. QED
    BY <1>5, <2>5, SameRequests, CartOnly DEF Reorder
<1>6. QED
  BY <1>1, <1>2, <1>3, <1>4, <1>5 DEF CartActs

(***************************************************************************)
(* The offer and the poll.                                                 *)
(***************************************************************************)
OfferOK ==
  /\ offer \in OfferRow /\ rows \in 0..MaxRows
  /\ usage \subseteq [pk: 0..MaxRows, user: Users, order: Nat \ {0}]
  /\ history \in [bought: [Users -> Nat], forgiven: [Users -> Nat],
                 overwritten: BOOLEAN, removed: BOOLEAN]

LEMMA RemoveTyped ==
  ASSUME OfferOK, RemoveOffer, UNCHANGED rows
  PROVE  OfferOK'
<1>1. offer' \in OfferRow
  BY IdleTyped DEF RemoveOffer, Idle, JobState
<1>2. \A x \in usage : [x EXCEPT !.pk = 0] \in [pk: 0..MaxRows, user: Users, order: Nat \ {0}]
  BY BoundsAssumption DEF OfferOK
<1>3. usage' \subseteq [pk: 0..MaxRows, user: Users, order: Nat \ {0}]
  BY <1>2 DEF RemoveOffer, DropUsageLinks
<1>4. history' \in [bought: [Users -> Nat], forgiven: [Users -> Nat],
                   overwritten: BOOLEAN, removed: BOOLEAN]
  BY DEF RemoveOffer, OfferOK
<1>5. QED
  BY <1>1, <1>3, <1>4 DEF OfferOK

LEMMA CleanupTyped ==
  ASSUME OfferOK, CleanupExpired \/ UNCHANGED <<offer, usage, history>>, UNCHANGED rows
  PROVE  OfferOK'
  BY RemoveTyped DEF CleanupExpired, OfferOK

\* A step that touches the offer and the requests only.
LEMMA OfferOnly ==
  ASSUME Typed, OfferOK', zoho' \in BOOLEAN, now' \in Nat,
         UNCHANGED <<cartVars, loyaltyVars, orders, lock, scene>>,
         job' \in [Threads -> JobState], Requested',
         \A w \in Workers : job'[w].pc = "commit" => job'[w] = job[w]
  PROVE  Typed'
<1>1. TypeOK' /\ CartsFinite'
  BY DEF Typed, TypeOK, cartVars, loyaltyVars, OfferOK, MaxOrders, CartsFinite
<1>2. \A w \in Workers : job'[w].pc = "commit" => Keeps(w)
  <2> SUFFICES ASSUME NEW w \in Workers, job'[w].pc = "commit" PROVE Keeps(w)
    OBVIOUS
  <2>1. job[w].user \in Users /\ wallet[job[w].user] \in Nat
    BY DEF Typed, TypeOK, Requested, RequestOK
  <2>2. QED
    BY <2>1 DEF Keeps, loyaltyVars
<1>3. Held'
  BY <1>2, HeldKept DEF Typed, TypeOK, loyaltyVars
<1>4. QED
  BY <1>1, <1>3 DEF Typed

LEMMA TypedOffer == Typed => OfferOK
  BY DEF Typed, TypeOK, OfferOK

LEMMA PollerMoves ==
  ASSUME Typed, NEW j \in JobState, Moves(Poller, j)
  PROVE  /\ job' \in [Threads -> JobState] /\ Requested'
         /\ \A w \in Workers : job'[w] = job[w]
  BY ThreadsApart, MoveTyped DEF Typed, TypeOK, Moves

LEMMA PollTyped ==
  ASSUME Typed, EditZoho \/ Poll \/ Tick
  PROVE  Typed'
<1>t. Typed /\ OfferOK
  BY TypedOffer
<1>1. CASE EditZoho
  <2>1. OfferOK' /\ zoho' \in BOOLEAN /\ now' \in Nat
    BY <1>1, <1>t DEF EditZoho, OfferOK, Typed, TypeOK
  <2>2. QED
    BY <1>1, <1>t, <2>1, SameRequests, OfferOnly DEF EditZoho
<1>2. CASE Tick
  <2>1. OfferOK' /\ zoho' \in BOOLEAN /\ now' \in Nat
    BY <1>2, <1>t DEF Tick, OfferOK, Typed, TypeOK, offerVars
  <2>2. QED
    BY <1>2, <1>t, <2>1, SameRequests, OfferOnly DEF Tick
<1>3. CASE PollFetch
  <2>1. PICK fetched \in BOOLEAN :
          Moves(Poller, [Idle EXCEPT !.pc = IF fetched THEN "poll_row" ELSE "poll_end",
                                     !.live = fetched, !.named = zoho])
    BY <1>3 DEF PollFetch, Moves
  <2> DEFINE j == [Idle EXCEPT !.pc = IF fetched THEN "poll_row" ELSE "poll_end",
                               !.live = fetched, !.named = zoho]
  <2>2. j \in JobState
    BY IdleTyped DEF JobState, Steps, Typed, TypeOK
  <2> HIDE DEF j
  <2>3. /\ job' \in [Threads -> JobState] /\ Requested'
        /\ \A w \in Workers : job'[w] = job[w]
    BY <2>1, <2>2, PollerMoves DEF j
  <2>4. OfferOK' /\ zoho' \in BOOLEAN /\ now' \in Nat
    BY <1>3, <1>t DEF PollFetch, OfferOK, Typed, TypeOK, offerVars
  <2>5. QED
    BY <1>3, <2>3, <2>4, OfferOnly DEF PollFetch
<1>j. job[Poller] \in JobState /\ job[Poller].row \in OfferRow
  BY ThreadsApart DEF Typed, TypeOK, JobState
<1>4. CASE PollInactive
  <2>1. [job[Poller] EXCEPT !.pc = "poll_end"] \in JobState
    BY <1>j DEF JobState, Steps
  <2>2. Moves(Poller, [job[Poller] EXCEPT !.pc = "poll_end"])
    BY <1>4 DEF PollInactive, Moves
  <2>3. /\ job' \in [Threads -> JobState] /\ Requested'
        /\ \A w \in Workers : job'[w] = job[w]
    BY <2>1, <2>2, PollerMoves
  <2>4. OfferOK'
    BY <1>4, <1>t, RemoveTyped DEF PollInactive
  <2>5. QED
    BY <1>4, <2>3, <2>4, OfferOnly DEF PollInactive, Typed, TypeOK
<1>5. CASE PollRow
  <2>1. OfferOK'
    <3>1. CASE offer.pk # 0
      BY <1>5, <1>t, <3>1 DEF PollRow, OfferOK
    <3>2. CASE offer.pk = 0
      BY <1>5, <1>t, <3>2, BoundsAssumption DEF PollRow, OfferOK, OfferRow
    <3>3. QED
      BY <3>1, <3>2
  <2>2. offer' \in OfferRow
    BY <2>1 DEF OfferOK
  <2> DEFINE j == [job[Poller] EXCEPT !.pc = "poll_save", !.row = offer']
  <2>3. j \in JobState
    BY <1>j, <2>2 DEF JobState, Steps
  <2>4. Moves(Poller, j)
    BY <1>5, <1>t DEF PollRow, Moves
  <2> HIDE DEF j
  <2>5. /\ job' \in [Threads -> JobState] /\ Requested'
        /\ \A w \in Workers : job'[w] = job[w]
    BY <2>3, <2>4, PollerMoves
  <2>6. QED
    BY <1>5, <2>1, <2>5, OfferOnly DEF PollRow, Typed, TypeOK
<1>6. CASE PollSave
  <2>1. [job[Poller] EXCEPT !.pc = "poll_end"] \in JobState
    BY <1>j DEF JobState, Steps
  <2>2. Moves(Poller, [job[Poller] EXCEPT !.pc = "poll_end"])
    BY <1>6 DEF PollSave, Moves
  <2>3. /\ job' \in [Threads -> JobState] /\ Requested'
        /\ \A w \in Workers : job'[w] = job[w]
    BY <2>1, <2>2, PollerMoves
  <2>4. OfferOK'
    BY <1>6, <1>t, <1>j DEF PollSave, OfferOK
  <2>5. QED
    BY <1>6, <2>3, <2>4, OfferOnly DEF PollSave, Typed, TypeOK
<1>7. CASE PollEnd
  <2>1. Moves(Poller, Idle)
    BY <1>7 DEF PollEnd, Finish, Moves
  <2>2. /\ job' \in [Threads -> JobState] /\ Requested'
        /\ \A w \in Workers : job'[w] = job[w]
    BY <2>1, PollerMoves, IdleTyped
  <2>3. RemoveOffer \/ UNCHANGED <<offer, usage, history>>
    BY <1>7 DEF PollEnd
  <2>4. UNCHANGED rows
    BY <1>7 DEF PollEnd
  <2>5. OfferOK'
    BY <1>t, <2>3, <2>4, RemoveTyped DEF OfferOK
  <2>6. QED
    BY <1>7, <2>2, <2>5, OfferOnly DEF PollEnd, Typed, TypeOK
<1>8. QED
  BY <1>1, <1>2, <1>3, <1>4, <1>5, <1>6, <1>7 DEF Poll

(***************************************************************************)
(* The checkout.                                                           *)
(***************************************************************************)
\* What the checkout of w works with.
Applies(w) == IF job[w].named THEN Applicable(job[w].user, job[w].lines)
              ELSE AutoApplied(job[w].user, job[w].lines)
Discount(w) ==
  IF Applies(w) THEN CouponDiscount(Offer, CartOf(job[w].lines), Shipping) ELSE 0
Cap(w) == LoyaltyCap(Subtotal(CartOf(job[w].lines)), Discount(w))

LEMMA CheckoutAmounts ==
  ASSUME Typed, NEW w \in Workers, job[w].pc \in {"lock", "commit"}
  PROVE  /\ job[w] \in JobState /\ job[w].user \in Users
         /\ job[w].lines \in SUBSET Line /\ IsFiniteSet(job[w].lines)
         /\ Subtotal(CartOf(job[w].lines)) \in Nat
         /\ Discount(w) \in Nat /\ Cap(w) \in Nat
<1>1. /\ job[w] \in JobState /\ job[w].user \in Users
      /\ job[w].lines \in SUBSET Line /\ IsFiniteSet(job[w].lines)
  BY ThreadsApart DEF Typed, TypeOK, JobState, Requested, RequestOK
<1>2. Subtotal(CartOf(job[w].lines)) \in Nat
  BY <1>1, SubtotalTyped
<1>3. Discount(w) \in Nat
  BY <1>1, DiscountTyped DEF Discount, Typed, TypeOK
<1>4. Cap(w) \in Nat
  <2>1. Subtotal(CartOf(job[w].lines)) - Discount(w) \in Int
    BY <1>2, <1>3
  <2>2. QED
    BY <2>1, AtLeastTyped DEF Cap, LoyaltyCap
<1>5. QED
  BY <1>1, <1>2, <1>3, <1>4

LEMMA ReadTyped ==
  ASSUME Typed, NEW u \in scene.users, NEW w \in Workers, CheckoutRead(w, u)
  PROVE  Typed'
<1>1. PICK points \in Wishes \cup {0}, code \in 0..codes, named \in BOOLEAN :
        Moves(w, [Idle EXCEPT !.pc = "lock", !.user = u, !.lines = cart[u],
                              !.points = points, !.code = code, !.named = named,
                              !.seen = Len(orders)])
  BY DEF CheckoutRead, Moves
<1> DEFINE j == [Idle EXCEPT !.pc = "lock", !.user = u, !.lines = cart[u],
                             !.points = points, !.code = code, !.named = named,
                             !.seen = Len(orders)]
<1>2. u \in Users /\ points \in Nat /\ code \in 0..MaxIssued /\ Len(orders) \in Nat
  BY OfferTyped, BoundsAssumption DEF Typed, TypeOK
<1>3. cart[u] \in SUBSET Line /\ IsFiniteSet(cart[u])
  BY <1>2 DEF Typed, TypeOK, CartsFinite
<1>4. j \in JobState /\ j.pc = "lock" /\ j.user = u /\ j.lines = cart[u]
  BY <1>2, <1>3, IdleTyped DEF Idle, JobState, Steps
<1>5. RequestOK(j)
  BY <1>2, <1>3, <1>4 DEF RequestOK
<1> HIDE DEF j
<1>6. job' \in [Threads -> JobState] /\ Requested'
  BY <1>1, <1>4, <1>5, MoveTyped, ThreadsApart DEF Typed, j
<1>7. \A v \in Workers : job'[v].pc = "commit" => job'[v] = job[v]
  BY <1>1, <1>4, ThreadsApart DEF Moves, Typed, TypeOK, j
<1>8. UNCHANGED <<cart, lineIds>>
  BY DEF CheckoutRead, cartVars
<1>9. QED
  BY <1>6, <1>7, <1>8, SameCarts, CartOnly DEF CheckoutRead, Typed, TypeOK

LEMMA RefusedTyped ==
  ASSUME Typed, NEW w \in Workers, CheckoutRefused(w)
  PROVE  Typed'
<1>1. /\ Finish(w)
      /\ CleanupExpired \/ UNCHANGED <<offer, usage, history>>
      /\ UNCHANGED <<cartVars, loyaltyVars, orders, rows, zoho, lock, scene, now>>
  BY DEF CheckoutRefused
<1>2. OfferOK'
  BY <1>1, TypedOffer, CleanupTyped
<1>3. job' \in [Threads -> JobState] /\ Requested'
  BY <1>1, FinishTyped, ThreadsApart DEF Typed
<1>4. \A v \in Workers : job'[v].pc = "commit" => job'[v] = job[v]
  BY <1>1, IdleTyped, ThreadsApart DEF Finish, Typed, TypeOK
<1>5. QED
  BY <1>1, <1>2, <1>3, <1>4, OfferOnly DEF Typed, TypeOK

\* What the lock takes: the offer as it is read, and points the wallet has.
Taking(w, out) ==
  [job[w] EXCEPT !.pc = "commit", !.redeemed = out.redeemed, !.loyalty = out.loyalty,
                 !.discount = Discount(w), !.row = IF Applies(w) THEN offer ELSE NoRow]

LEMMA LockTakes ==
  ASSUME Typed, NEW w \in Workers, CheckoutLock(w)
  PROVE  \E out \in LoyaltyOutcomes(job[w].user, job[w].code, job[w].points, Cap(w)) :
           Moves(w, Taking(w, out))
<1>1. PICK out \in LoyaltyOutcomes(job[w].user, job[w].code, job[w].points, Cap(w)) :
        job' = [job EXCEPT ![w].pc = "commit", ![w].redeemed = out.redeemed,
                           ![w].loyalty = out.loyalty, ![w].discount = Discount(w),
                           ![w].row = IF Applies(w) THEN offer ELSE NoRow]
  BY DEF CheckoutLock, Applies, Discount, Cap
<1> DEFINE row == IF Applies(w) THEN offer ELSE NoRow
           d == Discount(w)
<1> HIDE DEF row, d
<1>2. job' = [job EXCEPT ![w].pc = "commit", ![w].redeemed = out.redeemed,
                         ![w].loyalty = out.loyalty, ![w].discount = d, ![w].row = row]
  BY <1>1 DEF row, d
<1>3. Moves(w, [job[w] EXCEPT !.pc = "commit", !.redeemed = out.redeemed,
                              !.loyalty = out.loyalty, !.discount = d, !.row = row])
  BY <1>2, ThreadsApart DEF Moves, Typed, TypeOK
<1>4. QED
  BY <1>3 DEF row, d, Taking

\* Its fields.
LEMMA TakingTyped ==
  ASSUME Typed, NEW w \in Workers, job[w].pc = "lock",
         NEW out \in LoyaltyOutcomes(job[w].user, job[w].code, job[w].points, Cap(w))
  PROVE  LET j == Taking(w, out)
         IN /\ j \in JobState /\ RequestOK(j) /\ j.pc = "commit"
            /\ j.user = job[w].user /\ j.lines = job[w].lines /\ j.seen = job[w].seen
            /\ j.code = job[w].code /\ j.redeemed <= wallet[j.user]
            /\ j.row = IF Applies(w) THEN offer ELSE NoRow
            /\ j.code # 0 => CouponRows(j.user, j.code) # {}
<1> DEFINE j == Taking(w, out)
           row == IF Applies(w) THEN offer ELSE NoRow
<1>1. /\ job[w] \in JobState /\ job[w].user \in Users
      /\ job[w].lines \in SUBSET Line /\ IsFiniteSet(job[w].lines)
      /\ Discount(w) \in Nat /\ Cap(w) \in Nat
  BY CheckoutAmounts
<1>2. wallet[job[w].user] \in Nat /\ issued \subseteq IssuedCoupon /\ job[w].points \in Nat
  BY <1>1 DEF Typed, TypeOK, JobState
<1>3. /\ out.redeemed \in Nat /\ out.loyalty \in Nat /\ out.redeemed <= wallet[job[w].user]
      /\ job[w].code # 0 => CouponRows(job[w].user, job[w].code) # {}
  BY <1>1, <1>2, OutcomeTyped
<1>4. row \in OfferRow
  BY IdleTyped DEF Typed, TypeOK, Idle, JobState
<1> HIDE DEF row
<1>5. j = [job[w] EXCEPT !.pc = "commit", !.redeemed = out.redeemed,
                         !.loyalty = out.loyalty, !.discount = Discount(w), !.row = row]
  BY DEF Taking, row
<1> HIDE DEF j
<1>6. /\ j \in JobState /\ j.pc = "commit"
      /\ j.user = job[w].user /\ j.lines = job[w].lines /\ j.seen = job[w].seen
      /\ j.code = job[w].code /\ j.redeemed = out.redeemed /\ j.row = row
  BY <1>1, <1>3, <1>4, <1>5 DEF JobState, Steps
<1>7. RequestOK(j)
  BY <1>1, <1>6 DEF RequestOK
<1>8. QED
  BY <1>3, <1>6, <1>7 DEF j, row

LEMMA LockTyped ==
  ASSUME Typed, NEW w \in Workers, CheckoutLock(w)
  PROVE  Typed'
<1>0. job[w].pc = "lock" /\ lock[job[w].user] = None
  BY DEF CheckoutLock
<1>1. PICK out \in LoyaltyOutcomes(job[w].user, job[w].code, job[w].points, Cap(w)) :
        Moves(w, Taking(w, out))
  BY LockTakes
<1> DEFINE j == Taking(w, out)
<1>2. /\ j \in JobState /\ RequestOK(j) /\ j.pc = "commit"
      /\ j.user = job[w].user /\ j.redeemed <= wallet[j.user]
  BY <1>0, TakingTyped
<1> HIDE DEF j
<1>3. Moves(w, j)
  BY <1>1 DEF j
<1>4. job' \in [Threads -> JobState] /\ Requested'
  BY <1>2, <1>3, MoveTyped, ThreadsApart DEF Typed
<1>5. job'[w] = j /\ \A v \in Workers : v # w => job'[v] = job[v]
  BY <1>3, ThreadsApart DEF Moves, Typed, TypeOK
<1>6. OfferOK'
  <2>1. CleanupExpired \/ UNCHANGED <<offer, usage, history>>
    BY DEF CheckoutLock
  <2>2. UNCHANGED rows
    BY DEF CheckoutLock
  <2>3. QED
    BY <2>1, <2>2, TypedOffer, CleanupTyped
<1>7. job[w].user \in Users
  BY <1>0, CheckoutAmounts
<1>8. lock' = [lock EXCEPT ![job[w].user] = w]
  BY DEF CheckoutLock
<1>9. TypeOK' /\ CartsFinite'
  <2>1. UNCHANGED <<cartVars, loyaltyVars, orders, zoho, scene, now>>
    BY DEF CheckoutLock
  <2>2. lock' \in [Users -> Workers \cup {None}]
    BY <1>8 DEF Typed, TypeOK
  <2>3. QED
    BY <1>4, <1>6, <2>1, <2>2
       DEF Typed, TypeOK, cartVars, loyaltyVars, OfferOK, MaxOrders, CartsFinite
<1>10. Held'
  <2> SUFFICES ASSUME NEW v \in Workers, job'[v].pc = "commit"
               PROVE  /\ lock'[job'[v].user] = v
                      /\ job'[v].redeemed <= wallet'[job'[v].user]
    BY DEF Held
  <2>1. UNCHANGED wallet
    BY DEF CheckoutLock, loyaltyVars
  <2>2. CASE v = w
    BY <1>2, <1>5, <1>7, <1>8, <2>1, <2>2 DEF Typed, TypeOK
  <2>3. CASE v # w
    <3>1. job'[v] = job[v] /\ job[v].pc = "commit"
      BY <1>5, <2>3
    <3>2. job[v].user # job[w].user
      BY <1>0, <3>1, NobodyHolds DEF Typed
    <3>3. job[v].user \in Users
      BY <3>1, CheckoutAmounts
    <3>4. QED
      BY <1>8, <2>1, <3>1, <3>2, <3>3 DEF Typed, TypeOK, Held
  <2>4. QED
    BY <2>2, <2>3
<1>11. QED
  BY <1>4, <1>9, <1>10 DEF Typed

\* The order a commit writes.
Totals(w) ==
  CheckoutTotals(IF job[w].row.pk # 0 THEN Offer.type ELSE "none",
                 Subtotal(CartOf(job[w].lines)), Shipping, job[w].loyalty, job[w].discount, 0)
Awarded(w) == PointsEarned(Totals(w).total)
Placed(w) ==
  [user |-> job[w].user, lines |-> job[w].lines, total |-> Totals(w).total,
   redeemed |-> job[w].redeemed, awarded |-> Awarded(w), code |-> job[w].code,
   offer |-> job[w].row.pk # 0, open |-> TRUE, seen |-> job[w].seen]

LEMMA Commits ==
  ASSUME NEW w \in Workers, CheckoutCommit(w)
  PROVE  /\ job[w].pc = "commit" /\ Len(orders) < MaxOrders
         /\ orders' = Append(orders, Placed(w))
         /\ cart' = [cart EXCEPT ![job[w].user] = Remaining(job[w].user, job[w].lines)]
         /\ CountUsage(job[w].user, job[w].row, Len(orders) + 1)
         /\ issued' = issued \ CouponRows(job[w].user, job[w].code)
         /\ wallet' = [wallet EXCEPT ![job[w].user] = @ - job[w].redeemed + Awarded(w)]
         /\ lock' = [lock EXCEPT ![job[w].user] = None]
         /\ Finish(w)
         /\ UNCHANGED <<lineIds, codes, rows, zoho, scene, now, history>>
  BY DEF CheckoutCommit, Totals, Awarded, Placed

LEMMA PlacedTyped ==
  ASSUME Typed, NEW w \in Workers, job[w].pc = "commit"
  PROVE  Placed(w) \in OrderRow /\ Awarded(w) \in Nat
<1>1. /\ job[w] \in JobState /\ job[w].user \in Users
      /\ Subtotal(CartOf(job[w].lines)) \in Nat
  BY CheckoutAmounts
<1>2. job[w].loyalty \in Nat /\ job[w].discount \in Nat
  BY <1>1 DEF JobState
<1>3. Totals(w).total \in Nat
  BY <1>1, <1>2, TotalsTyped DEF Totals
<1>4. Awarded(w) \in Nat
  BY <1>3, EarnedTyped DEF Awarded
<1>5. QED
  BY <1>1, <1>3, <1>4 DEF Placed, OrderRow, JobState

LEMMA CountTyped ==
  ASSUME OfferOK, NEW u \in Users, NEW row, NEW n \in Nat \ {0}, CountUsage(u, row, n),
         UNCHANGED <<rows, history>>
  PROVE  OfferOK'
<1>1. CASE row.pk = 0 \/ row.pk # offer.pk
  BY <1>1 DEF CountUsage, OfferOK
<1>2. CASE ~(row.pk = 0 \/ row.pk # offer.pk)
  <2>1. offer' = [offer EXCEPT !.count = @ + 1]
    BY <1>2 DEF CountUsage
  <2>2. usage' = usage \cup {[pk |-> offer.pk, user |-> u, order |-> n]}
    BY <1>2 DEF CountUsage
  <2>3. offer' \in OfferRow /\ offer.pk \in 0..MaxRows
    BY <2>1 DEF OfferOK, OfferRow
  <2>4. QED
    BY <2>2, <2>3 DEF OfferOK
<1>3. QED
  BY <1>1, <1>2

LEMMA CommitTyped ==
  ASSUME Typed, NEW w \in Workers, CheckoutCommit(w)
  PROVE  Typed'
<1> DEFINE u == job[w].user
<1>1. /\ job[w].pc = "commit" /\ Len(orders) < MaxOrders
      /\ orders' = Append(orders, Placed(w))
      /\ cart' = [cart EXCEPT ![u] = Remaining(u, job[w].lines)]
      /\ CountUsage(u, job[w].row, Len(orders) + 1)
      /\ issued' = issued \ CouponRows(u, job[w].code)
      /\ wallet' = [wallet EXCEPT ![u] = @ - job[w].redeemed + Awarded(w)]
      /\ lock' = [lock EXCEPT ![u] = None]
      /\ Finish(w)
      /\ UNCHANGED <<lineIds, codes, rows, zoho, scene, now, history>>
  BY Commits
<1>2. u \in Users /\ job[w].redeemed \in Nat
  BY <1>1, CheckoutAmounts DEF JobState
<1>3. Placed(w) \in OrderRow /\ Awarded(w) \in Nat
  BY <1>1, PlacedTyped
<1>4. lock[u] = w /\ job[w].redeemed <= wallet[u]
  BY <1>1 DEF Typed, Held
<1> HIDE DEF u
<1>5. wallet' \in [Users -> Nat]
  <2>1. wallet[u] - job[w].redeemed + Awarded(w) \in Nat
    BY <1>2, <1>3, <1>4 DEF Typed, TypeOK
  <2>2. QED
    BY <1>1, <2>1 DEF Typed, TypeOK
<1>6. cart' \in [Users -> SUBSET Line] /\ CartsFinite'
  <2>1. Remaining(u, job[w].lines) \subseteq cart[u]
    BY DEF Remaining
  <2>2. /\ Remaining(u, job[w].lines) \subseteq Line
        /\ IsFiniteSet(Remaining(u, job[w].lines))
    BY <1>2, <2>1, FS_Subset DEF Typed, TypeOK, CartsFinite
  <2>3. QED
    BY <1>1, <1>2, <2>2 DEF Typed, TypeOK, CartsFinite
<1>7. OfferOK'
  <2>1. Len(orders) + 1 \in Nat \ {0}
    BY DEF Typed, TypeOK
  <2>2. QED
    BY <1>1, <1>2, <2>1, TypedOffer, CountTyped
<1>8. orders' \in Seq(OrderRow) /\ Len(orders') <= MaxOrders
  <2>1. Len(orders) \in Nat /\ MaxOrders \in Nat /\ orders \in Seq(OrderRow)
    BY OfferTyped DEF Typed, TypeOK
  <2>2. QED
    BY <1>1, <1>3, <2>1
<1>9. job' \in [Threads -> JobState] /\ Requested'
  BY <1>1, FinishTyped, ThreadsApart DEF Typed
<1>10. lock' \in [Users -> Workers \cup {None}] /\ issued' \subseteq IssuedCoupon
  BY <1>1 DEF Typed, TypeOK
<1>11. TypeOK'
  BY <1>1, <1>5, <1>6, <1>7, <1>8, <1>9, <1>10 DEF Typed, TypeOK, OfferOK, MaxOrders
<1>12. \A v \in Workers : job'[v].pc = "commit" => Keeps(v)
  <2> SUFFICES ASSUME NEW v \in Workers, job'[v].pc = "commit" PROVE Keeps(v)
    OBVIOUS
  <2>1. v # w /\ job'[v] = job[v]
    BY <1>1, IdleTyped, ThreadsApart DEF Finish, Typed, TypeOK
  <2>2. lock[job[v].user] = v /\ job[v].user \in Users
    BY <2>1, CheckoutAmounts DEF Typed, Held
  <2>3. job[v].user # u
    BY <1>4, <2>1, <2>2
  <2>4. lock'[job[v].user] = lock[job[v].user] /\ wallet'[job[v].user] = wallet[job[v].user]
    BY <1>1, <2>2, <2>3 DEF Typed, TypeOK
  <2>5. wallet[job[v].user] \in Nat
    BY <2>2 DEF Typed, TypeOK
  <2>6. QED
    BY <2>1, <2>4, <2>5 DEF Keeps
<1>13. QED
  BY <1>5, <1>6, <1>9, <1>11, <1>12, HeldKept DEF Typed

LEMMA DiesTyped ==
  ASSUME Typed, NEW w \in Workers, CheckoutDies(w)
  PROVE  Typed'
<1>1. job[w].pc = "commit" /\ lock' = [lock EXCEPT ![job[w].user] = None] /\ Finish(w)
  BY DEF CheckoutDies
<1>2. job[w].user \in Users /\ lock[job[w].user] = w
  BY <1>1, CheckoutAmounts DEF Typed, Held
<1>3. job' \in [Threads -> JobState] /\ Requested'
  BY <1>1, FinishTyped, ThreadsApart DEF Typed
<1>4. UNCHANGED <<cartVars, loyaltyVars, orders, offerVars, scene, now, history>>
  BY DEF CheckoutDies
<1>5. TypeOK' /\ CartsFinite'
  BY <1>1, <1>3, <1>4
     DEF Typed, TypeOK, cartVars, loyaltyVars, offerVars, MaxOrders, CartsFinite
<1>6. \A v \in Workers : job'[v].pc = "commit" => Keeps(v)
  <2> SUFFICES ASSUME NEW v \in Workers, job'[v].pc = "commit" PROVE Keeps(v)
    OBVIOUS
  <2>1. v # w /\ job'[v] = job[v]
    BY <1>1, IdleTyped, ThreadsApart DEF Finish, Typed, TypeOK
  <2>2. lock[job[v].user] = v /\ job[v].user \in Users
    BY <2>1, CheckoutAmounts DEF Typed, Held
  <2>3. lock'[job[v].user] = lock[job[v].user]
    BY <1>1, <1>2, <2>1, <2>2 DEF Typed, TypeOK
  <2>4. wallet[job[v].user] \in Nat /\ UNCHANGED wallet
    BY <1>4, <2>2 DEF Typed, TypeOK, loyaltyVars
  <2>5. QED
    BY <2>1, <2>3, <2>4 DEF Keeps
<1>7. QED
  BY <1>3, <1>4, <1>5, <1>6, HeldKept DEF Typed, TypeOK, loyaltyVars

(***************************************************************************)
(* Points and coupons.                                                     *)
(***************************************************************************)
\* A counter of points in the history grows.
HistoryOK(h) == h \in [bought: [Users -> Nat], forgiven: [Users -> Nat],
                       overwritten: BOOLEAN, removed: BOOLEAN]

LEMMA HistoryTyped ==
  ASSUME Typed, NEW u \in Users, NEW n \in Nat
  PROVE  /\ HistoryOK([history EXCEPT !.bought[u] = @ + n])
         /\ HistoryOK([history EXCEPT !.forgiven[u] = @ + n])
<1>1. /\ history.bought \in [Users -> Nat] /\ history.forgiven \in [Users -> Nat]
      /\ history.overwritten \in BOOLEAN /\ history.removed \in BOOLEAN
      /\ history = [bought |-> history.bought, forgiven |-> history.forgiven,
                    overwritten |-> history.overwritten, removed |-> history.removed]
  BY DEF Typed, TypeOK
<1>2. /\ [history.bought EXCEPT ![u] = @ + n] \in [Users -> Nat]
      /\ [history.forgiven EXCEPT ![u] = @ + n] \in [Users -> Nat]
  BY <1>1
<1>3. /\ [history EXCEPT !.bought[u] = @ + n]
           = [history EXCEPT !.bought = [history.bought EXCEPT ![u] = @ + n]]
      /\ [history EXCEPT !.forgiven[u] = @ + n]
           = [history EXCEPT !.forgiven = [history.forgiven EXCEPT ![u] = @ + n]]
  BY <1>1
<1>4. QED
  BY <1>1, <1>2, <1>3 DEF HistoryOK

\* The points of a customer whose row nobody holds change.
LEMMA PointsOnly ==
  ASSUME Typed, NEW u \in Users, lock[u] = None, NEW n \in Nat,
         wallet' = [wallet EXCEPT ![u] = n], issued' \subseteq IssuedCoupon,
         codes' \in 0..MaxIssued, orders' \in Seq(OrderRow), Len(orders') = Len(orders),
         HistoryOK(history'),
         UNCHANGED <<cartVars, offerVars, lock, job, scene, now>>
  PROVE  Typed'
<1>1. wallet' \in [Users -> Nat]
  BY DEF Typed, TypeOK
<1>2. TypeOK' /\ CartsFinite' /\ Requested'
  BY <1>1
     DEF Typed, TypeOK, cartVars, offerVars, MaxOrders, CartsFinite, Requested, HistoryOK
<1>3. \A v \in Workers : job'[v].pc = "commit" => Keeps(v)
  <2> SUFFICES ASSUME NEW v \in Workers, job'[v].pc = "commit" PROVE Keeps(v)
    OBVIOUS
  <2>1. job[v].user # u /\ job[v].user \in Users
    BY NobodyHolds, CheckoutAmounts DEF Typed
  <2>2. wallet'[job[v].user] = wallet[job[v].user] /\ wallet[job[v].user] \in Nat
    BY <2>1 DEF Typed, TypeOK
  <2>3. QED
    BY <2>2 DEF Keeps
<1>4. QED
  BY <1>1, <1>2, <1>3, HeldKept DEF Typed

LEMMA OrderTyped ==
  ASSUME Typed, NEW i \in DOMAIN orders
  PROVE  /\ orders[i] \in OrderRow /\ orders[i].user \in Users
         /\ orders[i].redeemed \in Nat /\ orders[i].awarded \in Nat
         /\ i \in 1..Len(orders) /\ Len(orders) \in Nat
<1>1. orders \in Seq(OrderRow)
  BY DEF Typed, TypeOK
<1>2. orders[i] \in OrderRow /\ i \in 1..Len(orders) /\ Len(orders) \in Nat
  BY <1>1
<1>3. QED
  BY <1>2 DEF OrderRow

LEMMA IssueTyped ==
  ASSUME Typed, NEW u \in scene.users, IssueCoupon(u)
  PROVE  Typed'
<1>1. PICK points \in 1..wallet[u] :
        /\ wallet' = [wallet EXCEPT ![u] = @ - points]
        /\ issued' = issued \cup
             {[id |-> codes + 1, user |-> u, points |-> points,
               amount |-> BlockCredit * (points \div Block), expires |-> now + Lifetime]}
        /\ history' = [history EXCEPT !.bought[u] = @ + points]
  BY DEF IssueCoupon
<1>2. u \in Users /\ wallet[u] \in Nat /\ codes + 1 \in 1..MaxIssued /\ now \in Nat
  <2>1. codes < MaxIssued
    BY DEF IssueCoupon
  <2>2. codes \in 0..MaxIssued /\ scene \in Scenes /\ now \in Nat
        /\ wallet \in [Users -> Nat]
    BY DEF Typed, TypeOK
  <2>3. u \in Users
    BY <2>2, OfferTyped
  <2>4. QED
    BY <2>1, <2>2, <2>3, BoundsAssumption
<1>3. points \in Nat /\ wallet[u] - points \in Nat
  BY <1>2
<1>4. BlockCredit * (points \div Block) \in Nat
  <2>1. points \div Block \in Nat
    BY <1>3, QuotientTyped, LoyaltyAssumption
  <2>2. QED
    BY <2>1, LoyaltyAssumption
<1>5. issued' \subseteq IssuedCoupon
  <2>1. now + Lifetime \in Nat
    BY <1>2, LoyaltyAssumption
  <2>2. [id |-> codes + 1, user |-> u, points |-> points,
         amount |-> BlockCredit * (points \div Block), expires |-> now + Lifetime]
          \in IssuedCoupon
    BY <1>2, <1>3, <1>4, <2>1 DEF IssuedCoupon
  <2>3. QED
    BY <1>1, <2>2 DEF Typed, TypeOK
<1>6. HistoryOK(history')
  BY <1>1, <1>2, <1>3, HistoryTyped
<1>7. QED
  <2>1. wallet' = [wallet EXCEPT ![u] = wallet[u] - points]
    BY <1>1, <1>2 DEF Typed, TypeOK
  <2>2. /\ lock[u] = None /\ codes' = codes + 1
        /\ UNCHANGED <<cartVars, orders, offerVars, lock, job, scene, now>>
    BY DEF IssueCoupon
  <2>3. codes' \in 0..MaxIssued /\ orders' \in Seq(OrderRow) /\ Len(orders') = Len(orders)
    BY <1>2, <2>2, BoundsAssumption DEF Typed, TypeOK
  <2>4. QED
    BY <1>2, <1>3, <1>5, <1>6, <2>1, <2>2, <2>3, PointsOnly

LEMMA PurgeTyped ==
  ASSUME Typed, NEW u \in scene.users, PurgeCoupons(u)
  PROVE  Typed'
<1>1. issued' \subseteq issued
  BY DEF PurgeCoupons
<1>2. UNCHANGED <<cartVars, wallet, codes, orders, offerVars, lock, job, scene, now, history>>
  BY DEF PurgeCoupons
<1>3. QED
  BY <1>1, <1>2 DEF Typed, TypeOK, cartVars, offerVars, MaxOrders, CartsFinite, Requested, Held

LEMMA CancelTyped ==
  ASSUME Typed, NEW i \in DOMAIN orders, CancelOrder(i)
  PROVE  Typed'
<1> DEFINE o == orders[i]
           u == orders[i].user
           n == Restored(wallet[u], o)
           lost == n - (wallet[u] + o.redeemed - o.awarded)
<1>1. /\ lock[u] = None
      /\ orders' = [orders EXCEPT ![i].open = FALSE]
      /\ wallet' = [wallet EXCEPT ![u] = Restored(@, o)]
      /\ history' = [history EXCEPT !.forgiven[u] = @ + lost]
      /\ UNCHANGED <<cartVars, issued, codes, offerVars, lock, job, scene, now>>
  <2>1. history' = [history EXCEPT !.forgiven[u] =
                      @ + Restored(wallet[u], o) - (wallet[u] + o.redeemed - o.awarded)]
    BY DEF CancelOrder
  <2>2. o \in OrderRow /\ u \in Users
    BY OrderTyped
  <2>3. wallet[u] + o.redeemed - o.awarded \in Int
    BY <2>2 DEF Typed, TypeOK, OrderRow
  <2>4. n \in Nat
    BY <2>3, AtLeastTyped DEF Restored
  <2>5. history.forgiven[u] \in Nat
    BY <2>2 DEF Typed, TypeOK
  <2>6. history.forgiven[u] + n - (wallet[u] + o.redeemed - o.awarded)
          = history.forgiven[u] + lost
    BY <2>3, <2>4, <2>5
  <2> HIDE DEF lost
  <2>7. history' = [history EXCEPT !.forgiven[u] = @ + lost]
    BY <2>1, <2>6
  <2>8. QED
    BY <2>7 DEF CancelOrder
<1>2. o \in OrderRow /\ u \in Users
  BY OrderTyped
<1>3. n \in Nat /\ lost \in Nat
  <2>1. wallet[u] + o.redeemed - o.awarded \in Int
    BY <1>2 DEF Typed, TypeOK, OrderRow
  <2>2. n \in Nat /\ n >= wallet[u] + o.redeemed - o.awarded
    BY <2>1, AtLeastTyped DEF Restored
  <2>3. QED
    BY <2>1, <2>2
<1>4. orders' \in Seq(OrderRow) /\ Len(orders') = Len(orders)
  <2>1. [orders[i] EXCEPT !.open = FALSE] \in OrderRow
    BY <1>2 DEF OrderRow
  <2>2. orders' = [orders EXCEPT ![i] = [orders[i] EXCEPT !.open = FALSE]]
    BY <1>1 DEF Typed, TypeOK
  <2>3. orders \in Seq(OrderRow)
    BY DEF Typed, TypeOK
  <2>4. QED
    BY <2>1, <2>2, <2>3
<1>5. wallet' = [wallet EXCEPT ![u] = n]
  BY <1>1, <1>2 DEF Typed, TypeOK
<1> HIDE DEF lost, n, u, o
<1>6. HistoryOK(history')
  BY <1>1, <1>2, <1>3, HistoryTyped
<1>7. issued' \subseteq IssuedCoupon /\ codes' \in 0..MaxIssued
  BY <1>1 DEF Typed, TypeOK
<1>8. QED
  BY <1>1, <1>2, <1>3, <1>4, <1>5, <1>6, <1>7, PointsOnly

(***************************************************************************)
(* Every variable keeps its type: no interleaving of checkouts, exchanges  *)
(* and cancellations makes a wallet negative, and the transaction of a     *)
(* checkout holds the row of its customer until it ends.                   *)
(***************************************************************************)
THEOREM CheckoutTyped == Spec => []Typed
<1>1. Init => Typed
  <2> SUFFICES ASSUME Init PROVE Typed
    OBVIOUS
  <2>1. StartPoints \in Nat /\ MaxOrders \in Nat /\ scene \in Scenes
    BY OfferTyped DEF Init
  <2>2. TypeOK
    BY <2>1, IdleTyped, BoundsAssumption
       DEF Init, TypeOK, OfferRow
  <2>3. Requested /\ CartsFinite /\ Held
    BY IdleTyped, ThreadsApart, FS_EmptySet DEF Init, Requested, CartsFinite, Held
  <2>4. QED
    BY <2>2, <2>3 DEF Typed
<1>2. Typed /\ [Next]_vars => Typed'
  <2> SUFFICES ASSUME Typed, [Next]_vars PROVE Typed'
    OBVIOUS
  <2>1. CASE UNCHANGED vars
    BY <2>1, SameRequests, SameCarts, CartOnly
       DEF vars, cartVars, loyaltyVars, offerVars, Typed, TypeOK
  <2>2. CASE Next
    BY <2>2, CartTyped, ReadTyped, LockTyped, RefusedTyped, CommitTyped, DiesTyped,
       IssueTyped, PurgeTyped, CancelTyped, PollTyped DEF Next, CartActs
  <2>3. QED
    BY <2>1, <2>2
<1>3. QED
  BY <1>1, <1>2, PTL DEF Spec

(***************************************************************************)
(* Where the lines of the carts, of the requests and of the orders of the  *)
(* next state come from.                                                   *)
(***************************************************************************)
LineInv == Numbered /\ Apart

\* The carts lose lines, or one gets a line with the next id.
CartFrom ==
  \/ /\ lineIds' = lineIds
     /\ \A u \in Users : Ids(cart'[u]) \subseteq Ids(cart[u])
  \/ /\ lineIds' = lineIds + 1
     /\ \E v \in Users :
          /\ Ids(cart'[v]) \subseteq Ids(cart[v]) \cup {lineIds + 1}
          /\ \A u \in Users \ {v} : Ids(cart'[u]) \subseteq Ids(cart[u])

OrdersKept ==
  /\ DOMAIN orders' = DOMAIN orders /\ Len(orders') = Len(orders)
  /\ \A i \in DOMAIN orders :
       orders'[i].lines = orders[i].lines /\ orders'[i].seen = orders[i].seen

\* A request goes on with what it read.
GoesOn(w) ==
  /\ job'[w].lines = job[w].lines /\ job'[w].user = job[w].user
  /\ job'[w].seen = job[w].seen
  /\ job'[w].pc \in {"lock", "commit"} => Buying(w)

\* A checkout takes what it finds in the cart; an edit, one line of it.
Takes(w) ==
  /\ job'[w].user \in Users /\ job'[w].seen = Len(orders)
  /\ job'[w].lines \subseteq cart[job'[w].user]
  /\ UNCHANGED cartVars

Edits(w) ==
  /\ job'[w].pc = "patch" /\ job'[w].user \in Users
  /\ job'[w].lines \subseteq cart[job'[w].user]

RequestsKept == \A w \in Workers : GoesOn(w) \/ job'[w] = Idle \/ Takes(w) \/ Edits(w)

LEMMA IdsSubset == \A S, T : S \subseteq T => Ids(S) \subseteq Ids(T)
  BY DEF Ids

LEMMA NoIds == Ids({}) = {}
  BY DEF Ids

\* While no order is placed ...
LEMMA LinesApart ==
  ASSUME Typed, LineInv, CartFrom, OrdersKept, RequestsKept
  PROVE  LineInv'
<1>0. lineIds \in Nat /\ Len(orders) \in Nat
  BY DEF Typed, TypeOK
<1>i. Idle.pc = "idle" /\ Ids(Idle.lines) = {}
  BY NoIds DEF Idle
<1>1. ASSUME NEW w \in Workers, Takes(w)
      PROVE  /\ job'[w].user \in Users /\ job'[w].seen = Len(orders)
             /\ Ids(job'[w].lines) \subseteq Ids(cart[job'[w].user])
             /\ cart' = cart /\ lineIds' = lineIds
  BY <1>1, IdsSubset DEF Takes, cartVars
<1>n. \A A \in SUBSET (1..lineIds) :
        /\ lineIds + 1 \notin A /\ A \subseteq 1..(lineIds + 1)
        /\ A \cup {lineIds + 1} \subseteq 1..(lineIds + 1)
  BY <1>0
<1>2. Numbered'
  <2>1. ASSUME NEW u \in Users
        PROVE  Ids(cart'[u]) \subseteq 1..lineIds'
    <3>1. Ids(cart[u]) \in SUBSET (1..lineIds)
      BY DEF LineInv, Numbered
    <3>2. \/ lineIds' = lineIds /\ Ids(cart'[u]) \subseteq Ids(cart[u])
          \/ lineIds' = lineIds + 1 /\ Ids(cart'[u]) \subseteq Ids(cart[u]) \cup {lineIds + 1}
      BY DEF CartFrom
    <3>3. Ids(cart[u]) \cup {lineIds + 1} \subseteq 1..(lineIds + 1)
      BY <1>n, <3>1
    <3>4. QED
      BY <3>1, <3>2, <3>3
  <2>2. ASSUME NEW w \in Workers
        PROVE  Ids(job'[w].lines) \subseteq 1..lineIds'
    <3>1. CASE GoesOn(w)
      BY <1>0, <3>1 DEF GoesOn, CartFrom, LineInv, Numbered
    <3>2. CASE Takes(w)
      BY <1>0, <1>1, <3>2 DEF LineInv, Numbered
    <3>3. CASE Edits(w)
      <4>1. Ids(job'[w].lines) \subseteq 1..lineIds
        BY <3>3, IdsSubset DEF Edits, LineInv, Numbered
      <4>2. QED
        BY <1>0, <4>1 DEF CartFrom
    <3>4. QED
      BY <1>i, <3>1, <3>2, <3>3 DEF RequestsKept
  <2>3. ASSUME NEW w \in Workers, job'[w].pc \in {"lock", "commit"}
        PROVE  job'[w].seen <= Len(orders')
    BY <1>0, <1>i, <2>3 DEF RequestsKept, GoesOn, Takes, Edits, OrdersKept, LineInv, Numbered, Buying
  <2>4. ASSUME NEW i \in DOMAIN orders'
        PROVE  Ids(orders'[i].lines) \subseteq 1..lineIds'
    BY <1>0, <2>4 DEF OrdersKept, CartFrom, LineInv, Numbered
  <2>5. QED
    BY <2>1, <2>2, <2>3, <2>4 DEF Numbered, Buying
<1>3. ASSUME NEW u \in Users
      PROVE  Ids(cart'[u]) \subseteq Ids(cart[u]) \cup {lineIds + 1}
  BY <1>3 DEF CartFrom
<1>4. ASSUME NEW u \in Users, NEW v \in Users, u # v
      PROVE  Ids(cart'[u]) \cap Ids(cart'[v]) = {}
  <2>1. /\ Ids(cart[u]) \cap Ids(cart[v]) = {}
        /\ Ids(cart[u]) \in SUBSET (1..lineIds) /\ Ids(cart[v]) \in SUBSET (1..lineIds)
    BY <1>4 DEF LineInv, Apart, Numbered
  <2>4. lineIds + 1 \notin Ids(cart[u]) /\ lineIds + 1 \notin Ids(cart[v])
    BY <1>n, <2>1
  <2>2. Ids(cart'[u]) \subseteq Ids(cart[u]) \/ Ids(cart'[v]) \subseteq Ids(cart[v])
    BY <1>4 DEF CartFrom
  <2>5. QED
    BY <1>3, <2>1, <2>2, <2>4
<1>5. ASSUME NEW w \in Workers, NEW v \in Users, job'[w].pc \in {"lock", "commit"},
             v # job'[w].user
      PROVE  Ids(job'[w].lines) \cap Ids(cart'[v]) = {}
  <2>1. CASE GoesOn(w)
    <3>0. Ids(job[w].lines) \in SUBSET (1..lineIds)
      BY DEF LineInv, Numbered
    <3>1. Ids(job[w].lines) \cap Ids(cart[v]) = {} /\ lineIds + 1 \notin Ids(job[w].lines)
      BY <1>n, <1>5, <2>1, <3>0 DEF GoesOn, LineInv, Apart
    <3>2. job'[w].lines = job[w].lines
      BY <2>1 DEF GoesOn
    <3>3. QED
      BY <1>3, <3>1, <3>2
  <2>2. CASE Takes(w)
    <3>1. Ids(cart[job'[w].user]) \cap Ids(cart[v]) = {}
      BY <1>1, <1>5, <2>2 DEF LineInv, Apart
    <3>2. QED
      BY <1>1, <2>2, <3>1
  <2>3. QED
    BY <1>5, <1>i, <2>1, <2>2 DEF RequestsKept, Edits
<1>6. ASSUME NEW i \in DOMAIN orders', NEW u \in Users
      PROVE  Ids(orders'[i].lines) \cap Ids(cart'[u]) = {}
  <2>1. i \in DOMAIN orders /\ orders'[i].lines = orders[i].lines
    BY <1>6 DEF OrdersKept
  <2>2. /\ Ids(orders[i].lines) \cap Ids(cart[u]) = {}
        /\ Ids(orders[i].lines) \in SUBSET (1..lineIds)
    BY <2>1 DEF LineInv, Apart, Numbered
  <2>3. lineIds + 1 \notin Ids(orders[i].lines)
    BY <1>n, <2>2
  <2>4. QED
    BY <1>3, <2>1, <2>2, <2>3
<1>7. ASSUME NEW w \in Workers, NEW i \in DOMAIN orders',
             job'[w].pc \in {"lock", "commit"}, i <= job'[w].seen
      PROVE  Ids(orders'[i].lines) \cap Ids(job'[w].lines) = {}
  <2>1. i \in DOMAIN orders /\ orders'[i].lines = orders[i].lines
    BY <1>7 DEF OrdersKept
  <2>2. CASE GoesOn(w)
    BY <1>7, <2>1, <2>2 DEF GoesOn, LineInv, Apart
  <2>3. CASE Takes(w)
    <3>1. Ids(orders[i].lines) \cap Ids(cart[job'[w].user]) = {}
      BY <1>1, <2>1, <2>3 DEF LineInv, Apart
    <3>2. QED
      BY <1>1, <2>1, <2>3, <3>1
  <2>4. QED
    BY <1>7, <1>i, <2>2, <2>3 DEF RequestsKept, Edits
<1>8. ASSUME NEW i \in DOMAIN orders', NEW k \in DOMAIN orders', i < k,
             Ids(orders'[i].lines) \cap Ids(orders'[k].lines) # {}
      PROVE  orders'[k].seen < i
  BY <1>8 DEF OrdersKept, LineInv, Apart
<1>9. QED
  BY <1>2, <1>4, <1>5, <1>6, <1>7, <1>8 DEF LineInv, Apart, Buying

\* ... and when one is: its lines leave the cart.
LEMMA CommitApart ==
  ASSUME Typed, LineInv, NEW w \in Workers, CheckoutCommit(w)
  PROVE  LineInv'
<1> DEFINE n == Len(orders)
           u == job[w].user
<1>1. /\ job[w].pc = "commit" /\ orders' = Append(orders, Placed(w))
      /\ cart' = [cart EXCEPT ![u] = Remaining(u, job[w].lines)]
      /\ job' = [job EXCEPT ![w] = Idle] /\ lineIds' = lineIds
  BY Commits DEF Finish
<1>2. u \in Users /\ n \in Nat /\ orders \in Seq(OrderRow)
  BY <1>1, CheckoutAmounts DEF Typed, TypeOK
<1>3. /\ Placed(w).lines = job[w].lines /\ Placed(w).seen = job[w].seen
      /\ job[w].seen \in Nat
  BY <1>1, CheckoutAmounts DEF Placed, JobState
<1>4. /\ n \in Nat /\ DOMAIN orders = 1..n /\ DOMAIN orders' = 1..(n + 1)
      /\ Len(orders') = n + 1 /\ orders'[n + 1] = Placed(w)
      /\ \A i \in 1..n : orders'[i] = orders[i]
  BY <1>1, <1>2
<1> HIDE DEF u, n
<1>5. /\ Ids(cart'[u]) \subseteq Ids(cart[u]) /\ Ids(cart'[u]) \cap Ids(job[w].lines) = {}
      /\ \A v \in Users \ {u} : cart'[v] = cart[v]
  <2>1. cart'[u] = Remaining(u, job[w].lines) /\ \A v \in Users \ {u} : cart'[v] = cart[v]
    BY <1>1, <1>2 DEF Typed, TypeOK
  <2>2. QED
    BY <2>1 DEF Remaining, Ids
<1>6. \A v \in Users : Ids(cart'[v]) \subseteq Ids(cart[v])
  BY <1>2, <1>5
<1>7. /\ Ids(job'[w].lines) = {} /\ job'[w].pc = "idle"
      /\ \A v \in Workers \ {w} : job'[v] = job[v]
  BY <1>1, NoIds, ThreadsApart DEF Idle, Typed, TypeOK
<1>8. \A v \in Users : Ids(job[w].lines) \cap Ids(cart'[v]) = {}
  <2>1. \A v \in Users \ {u} : Ids(job[w].lines) \cap Ids(cart[v]) = {}
    BY <1>1 DEF LineInv, Apart, Buying, u
  <2>2. QED
    BY <1>5, <2>1
<1>9. Numbered'
  <2>1. ASSUME NEW v \in Workers, job'[v].pc \in {"lock", "commit"}
        PROVE  job'[v].seen <= Len(orders')
    <3>1. job'[v] = job[v] /\ job[v].seen <= n
      BY <1>7, <2>1 DEF LineInv, Numbered, Buying, n
    <3>2. job[v].seen \in Nat
      BY ThreadsApart DEF Typed, TypeOK, JobState
    <3>3. QED
      BY <1>4, <3>1, <3>2
  <2>2. ASSUME NEW i \in DOMAIN orders'
        PROVE  Ids(orders'[i].lines) \subseteq 1..lineIds'
    BY <1>1, <1>3, <1>4, <2>2 DEF LineInv, Numbered
  <2>3. ASSUME NEW v \in Workers
        PROVE  Ids(job'[v].lines) \subseteq 1..lineIds'
    BY <1>1, <1>7 DEF LineInv, Numbered
  <2>4. ASSUME NEW v \in Users
        PROVE  Ids(cart'[v]) \subseteq 1..lineIds'
    BY <1>1, <1>6 DEF LineInv, Numbered
  <2>5. QED
    BY <2>1, <2>2, <2>3, <2>4 DEF Numbered, Buying
<1>10. ASSUME NEW a \in Users, NEW b \in Users, a # b
       PROVE  Ids(cart'[a]) \cap Ids(cart'[b]) = {}
  <2>1. Ids(cart[a]) \cap Ids(cart[b]) = {}
    BY <1>10 DEF LineInv, Apart
  <2>2. QED
    BY <1>6, <2>1
<1>11. ASSUME NEW v \in Workers, NEW b \in Users, job'[v].pc \in {"lock", "commit"},
              b # job'[v].user
       PROVE  Ids(job'[v].lines) \cap Ids(cart'[b]) = {}
  <2>1. job'[v] = job[v] /\ Ids(job[v].lines) \cap Ids(cart[b]) = {}
    BY <1>7, <1>11 DEF LineInv, Apart, Buying
  <2>2. QED
    BY <1>6, <2>1
<1>12. ASSUME NEW i \in DOMAIN orders', NEW b \in Users
       PROVE  Ids(orders'[i].lines) \cap Ids(cart'[b]) = {}
  <2>1. CASE i = n + 1
    BY <1>3, <1>4, <1>8, <2>1
  <2>2. CASE i \in 1..n
    <3>1. Ids(orders[i].lines) \cap Ids(cart[b]) = {}
      BY <1>4, <2>2 DEF LineInv, Apart
    <3>2. QED
      BY <1>4, <1>6, <2>2, <3>1
  <2>3. QED
    BY <1>4, <2>1, <2>2
<1>13. ASSUME NEW v \in Workers, NEW i \in DOMAIN orders',
              job'[v].pc \in {"lock", "commit"}, i <= job'[v].seen
       PROVE  Ids(orders'[i].lines) \cap Ids(job'[v].lines) = {}
  <2>1. job'[v] = job[v] /\ job[v].seen <= n /\ Buying(v)
    BY <1>7, <1>13 DEF LineInv, Numbered, Buying, n
  <2>2. job[v].seen \in Nat
    BY ThreadsApart DEF Typed, TypeOK, JobState
  <2>3. i \in 1..n
    BY <1>4, <1>13, <2>1, <2>2
  <2>4. Ids(orders[i].lines) \cap Ids(job[v].lines) = {}
    BY <1>4, <1>13, <2>1, <2>3 DEF LineInv, Apart
  <2>5. QED
    BY <1>4, <2>1, <2>3, <2>4
<1>14. ASSUME NEW i \in DOMAIN orders', NEW k \in DOMAIN orders', i < k,
              Ids(orders'[i].lines) \cap Ids(orders'[k].lines) # {}
       PROVE  orders'[k].seen < i
  <2>1. i \in 1..n /\ orders'[i] = orders[i]
    BY <1>4, <1>14
  <2>2. CASE k = n + 1
    <3>1. ~(i <= job[w].seen)
      BY <1>1, <1>3, <1>4, <1>14, <2>1, <2>2 DEF LineInv, Apart, Buying
    <3>2. QED
      BY <1>3, <1>4, <2>1, <2>2, <3>1
  <2>3. CASE k \in 1..n
    BY <1>4, <1>14, <2>1, <2>3 DEF LineInv, Apart
  <2>4. QED
    BY <1>4, <2>2, <2>3
<1>15. QED
  BY <1>9, <1>10, <1>11, <1>12, <1>13, <1>14 DEF LineInv, Apart, Buying

\* Every other step is of the first kind.
LEMMA RequestsGoOn == (\A w \in Workers : job'[w] = job[w]) => RequestsKept
  BY DEF RequestsKept, GoesOn, Buying

LEMMA CartAsBefore ==
  ASSUME UNCHANGED cartVars
  PROVE  CartFrom
  BY DEF CartFrom, cartVars

LEMMA OrdersAsBefore == UNCHANGED orders => OrdersKept
  BY DEF OrdersKept

LEMMA FinishGoesOn ==
  ASSUME Typed, NEW t \in Threads, Finish(t)
  PROVE  RequestsKept
  BY DEF Finish, RequestsKept, GoesOn, Buying, Typed, TypeOK

\* The line of a product in a cart grows, or there is a new one.
LEMMA MergeFrom ==
  ASSUME Typed, NEW u \in Users, NEW lines, lines = cart[u] \/ lines = {},
         NEW p, NEW qty, Merge(u, lines, p, qty)
  PROVE  CartFrom
<1> DEFINE old == {l \in lines : l.product = p}
           more(l) == IF l \in old THEN [l EXCEPT !.qty = @ + qty] ELSE l
<1>0. lineIds \in Nat /\ lines \subseteq Line /\ lines \subseteq cart[u]
  BY DEF Typed, TypeOK
<1>1. /\ cart'[u] = Merged(lines, p, qty)
      /\ \A v \in Users \ {u} : cart'[v] = cart[v]
  BY DEF Merge, Typed, TypeOK
<1>2. CASE old = {}
  <2>1. Merged(lines, p, qty)
          = lines \cup {[id |-> lineIds + 1, product |-> p, qty |-> qty]}
    BY <1>2 DEF Merged
  <2>2. Ids(Merged(lines, p, qty)) \subseteq Ids(cart[u]) \cup {lineIds + 1}
    BY <1>0, <2>1 DEF Ids
  <2>3. lineIds' = lineIds + 1
    BY <1>2 DEF Merge
  <2>4. QED
    BY <1>1, <2>2, <2>3 DEF CartFrom
<1>3. CASE old # {}
  <2>1. Merged(lines, p, qty) = {more(l) : l \in lines}
    BY <1>3 DEF Merged
  <2>2. \A l \in lines : more(l).id = l.id
    BY <1>0 DEF Line
  <2> HIDE DEF more
  <2>3. Ids(Merged(lines, p, qty)) \subseteq Ids(cart[u])
    BY <1>0, <2>1, <2>2 DEF Ids
  <2>4. lineIds' = lineIds
    BY <1>0, <1>3 DEF Merge
  <2>5. QED
    BY <1>1, <2>3, <2>4 DEF CartFrom
<1>4. QED
  BY <1>2, <1>3

LEMMA CartActsApart ==
  ASSUME Typed, LineInv, CartActs
  PROVE  LineInv'
<1>s. scene.users \subseteq Users
  BY OfferTyped DEF Typed, TypeOK
<1>1. ASSUME NEW u \in scene.users, NEW p \in Products, AddToCart(u, p)
      PROVE  LineInv'
  <2>1. CartFrom
    BY <1>1, <1>s, MergeFrom DEF AddToCart
  <2>2. QED
    BY <1>1, <2>1, LinesApart, OrdersAsBefore, RequestsGoOn DEF AddToCart
<1>2. ASSUME NEW u \in scene.users, RemoveLine(u) \/ ClearCart(u)
      PROVE  LineInv'
  <2>1. PICK rest \in SUBSET cart[u] : cart' = [cart EXCEPT ![u] = rest]
    BY <1>2 DEF RemoveLine, ClearCart
  <2>2. \A v \in Users : cart'[v] \subseteq cart[v]
    BY <1>s, <2>1 DEF Typed, TypeOK
  <2>3. CartFrom
    BY <1>2, <2>2, IdsSubset DEF CartFrom, RemoveLine, ClearCart
  <2>4. QED
    BY <1>2, <2>3, LinesApart, OrdersAsBefore, RequestsGoOn DEF RemoveLine, ClearCart
<1>3. ASSUME NEW u \in scene.users, NEW w \in Workers, PatchRead(w, u)
      PROVE  LineInv'
  <2>1. PICK l \in cart[u] :
          job' = [job EXCEPT ![w] = [Idle EXCEPT !.pc = "patch", !.user = u, !.lines = {l}]]
    BY <1>3 DEF PatchRead
  <2> DEFINE j == [Idle EXCEPT !.pc = "patch", !.user = u, !.lines = {l}]
  <2>2. j.pc = "patch" /\ j.lines = {l} /\ j.user = u
    BY DEF Idle
  <2> HIDE DEF j
  <2>3. job'[w] = j /\ \A v \in Workers \ {w} : job'[v] = job[v]
    BY <2>1, ThreadsApart DEF j, Typed, TypeOK
  <2>4. Edits(w)
    BY <2>2, <2>3, <1>s DEF Edits
  <2>5. RequestsKept
    BY <2>3, <2>4 DEF RequestsKept, GoesOn, Buying
  <2>6. QED
    BY <1>3, <2>5, LinesApart, OrdersAsBefore, CartAsBefore DEF PatchRead
<1>4. ASSUME NEW w \in Workers, PatchSave(w)
      PROVE  LineInv'
  <2> DEFINE u == job[w].user
             old == CHOOSE l \in job[w].lines : TRUE
  <2>1. u \in Users
    BY <1>4 DEF PatchSave, Typed, Requested, RequestOK
  <2>2. PICK qty \in {old.qty + 1, AtLeast(old.qty - 1, 1)} :
          cart' = [cart EXCEPT ![u] =
                     {IF l.id = old.id THEN [l EXCEPT !.qty = qty] ELSE l : l \in @}]
    BY <1>4 DEF PatchSave
  <2> HIDE DEF u, old
  <2>3. cart' = [cart EXCEPT ![u] = Patched(cart[u], old.id, qty)]
    BY <2>1, <2>2 DEF Patched, Typed, TypeOK
  <2>4. Ids(Patched(cart[u], old.id, qty)) = Ids(cart[u])
    <3>1. cart[u] \in SUBSET Line
      BY <2>1 DEF Typed, TypeOK
    <3>2. QED
      BY <3>1, PatchedIds
  <2>5. lineIds' = lineIds
    BY <1>4 DEF PatchSave
  <2>6. CartFrom
    BY <2>1, <2>3, <2>4, <2>5 DEF CartFrom, Typed, TypeOK
  <2>7. QED
    BY <1>4, <2>6, LinesApart, OrdersAsBefore, FinishGoesOn, ThreadsApart DEF PatchSave
<1>5. ASSUME NEW i \in DOMAIN orders, Reorder(i)
      PROVE  LineInv'
  <2>1. CartFrom
    BY <1>5, MergeFrom, OrderTyped DEF Reorder
  <2>2. QED
    BY <1>5, <2>1, LinesApart, OrdersAsBefore, RequestsGoOn DEF Reorder
<1>6. QED
  BY <1>1, <1>2, <1>3, <1>4, <1>5 DEF CartActs

LEMMA ReadApart ==
  ASSUME Typed, LineInv, NEW u \in scene.users, NEW w \in Workers, CheckoutRead(w, u)
  PROVE  LineInv'
<1>1. PICK points \in Wishes \cup {0}, code \in 0..codes, named \in BOOLEAN :
        job' = [job EXCEPT ![w] =
                  [Idle EXCEPT !.pc = "lock", !.user = u, !.lines = cart[u],
                               !.points = points, !.code = code, !.named = named,
                               !.seen = Len(orders)]]
  BY DEF CheckoutRead
<1> DEFINE j == [Idle EXCEPT !.pc = "lock", !.user = u, !.lines = cart[u],
                             !.points = points, !.code = code, !.named = named,
                             !.seen = Len(orders)]
<1>2. j.lines = cart[u] /\ j.user = u /\ j.seen = Len(orders)
  BY DEF Idle
<1> HIDE DEF j
<1>3. job'[w] = j /\ \A v \in Workers \ {w} : job'[v] = job[v]
  BY <1>1, ThreadsApart DEF j, Typed, TypeOK
<1>4. u \in Users /\ UNCHANGED cartVars /\ UNCHANGED orders
  BY OfferTyped DEF CheckoutRead, Typed, TypeOK
<1>5. RequestsKept
  BY <1>2, <1>3, <1>4 DEF RequestsKept, GoesOn, Buying, Takes
<1>6. QED
  BY <1>4, <1>5, LinesApart, OrdersAsBefore, CartAsBefore

LEMMA LockApart ==
  ASSUME Typed, LineInv, NEW w \in Workers, CheckoutLock(w)
  PROVE  LineInv'
<1>0. job[w].pc = "lock" /\ UNCHANGED <<cartVars, orders>>
  BY DEF CheckoutLock
<1>1. PICK out \in LoyaltyOutcomes(job[w].user, job[w].code, job[w].points, Cap(w)) :
        Moves(w, Taking(w, out))
  BY LockTakes
<1> DEFINE j == Taking(w, out)
<1>2. j.user = job[w].user /\ j.lines = job[w].lines /\ j.seen = job[w].seen
  BY <1>0, TakingTyped
<1> HIDE DEF j
<1>3. job'[w] = j /\ \A v \in Workers \ {w} : job'[v] = job[v]
  BY <1>1, ThreadsApart DEF j, Moves, Typed, TypeOK
<1>4. RequestsKept
  BY <1>0, <1>2, <1>3 DEF RequestsKept, GoesOn, Buying
<1>5. QED
  BY <1>0, <1>4, LinesApart, OrdersAsBefore, CartAsBefore

LEMMA CancelApart ==
  ASSUME Typed, LineInv, NEW i \in DOMAIN orders, CancelOrder(i)
  PROVE  LineInv'
<1>1. orders' = [orders EXCEPT ![i].open = FALSE] /\ UNCHANGED <<cartVars, job>>
  BY DEF CancelOrder
<1>2. orders \in Seq(OrderRow)
  BY DEF Typed, TypeOK
<1>3. OrdersKept
  <2>1. orders' = [orders EXCEPT ![i] = [orders[i] EXCEPT !.open = FALSE]]
    BY <1>1, <1>2
  <2>2. [orders[i] EXCEPT !.open = FALSE] \in OrderRow
    BY OrderTyped DEF OrderRow
  <2>3. /\ [orders[i] EXCEPT !.open = FALSE].lines = orders[i].lines
        /\ [orders[i] EXCEPT !.open = FALSE].seen = orders[i].seen
    BY OrderTyped DEF OrderRow
  <2>4. QED
    BY <1>2, <2>1, <2>2, <2>3 DEF OrdersKept
<1>4. QED
  BY <1>1, <1>3, LinesApart, RequestsGoOn, CartAsBefore

LEMMA PollApart ==
  ASSUME Typed, EditZoho \/ Poll \/ Tick
  PROVE  UNCHANGED <<cartVars, orders>> /\ \A w \in Workers : job'[w] = job[w]
<1>1. CASE EditZoho \/ Tick
  BY <1>1 DEF EditZoho, Tick
<1>2. CASE PollFetch \/ PollEnd
  BY <1>2, ThreadsApart DEF PollFetch, PollEnd, Finish, Typed, TypeOK
<1>3. CASE PollInactive \/ PollSave
  BY <1>3, ThreadsApart DEF PollInactive, PollSave, Typed, TypeOK
<1>4. CASE PollRow
  BY <1>4, ThreadsApart DEF PollRow, Typed, TypeOK
<1>5. QED
  BY <1>1, <1>2, <1>3, <1>4 DEF Poll

LEMMA LineInvKept == Typed /\ LineInv /\ [Next]_vars => LineInv'
<1> SUFFICES ASSUME Typed, LineInv, [Next]_vars PROVE LineInv'
  OBVIOUS
<1>1. ASSUME UNCHANGED <<cartVars, orders>>, \A w \in Workers : job'[w] = job[w]
      PROVE  LineInv'
  BY <1>1, LinesApart, OrdersAsBefore, RequestsGoOn, CartAsBefore
<1>2. ASSUME NEW w \in Workers, CheckoutRefused(w) \/ CheckoutDies(w)
      PROVE  LineInv'
  BY <1>2, LinesApart, OrdersAsBefore, FinishGoesOn, CartAsBefore, ThreadsApart
     DEF CheckoutRefused, CheckoutDies
<1>3. ASSUME NEW u \in scene.users, IssueCoupon(u) \/ PurgeCoupons(u)
      PROVE  LineInv'
  BY <1>1, <1>3 DEF IssueCoupon, PurgeCoupons
<1>4. CASE UNCHANGED vars
  BY <1>1, <1>4 DEF vars, cartVars
<1>5. CASE EditZoho \/ Poll \/ Tick
  BY <1>1, <1>5, PollApart
<1>6. CASE Next
  BY <1>2, <1>3, <1>5, <1>6, CartActsApart, ReadApart, LockApart, CommitApart,
     CancelApart DEF Next, CartActs
<1>7. QED
  BY <1>4, <1>6

\* Two orders share a line of a cart only if the later one read the cart before the
\* earlier one was placed, for any number of users, carts and requests.
THEOREM LinesAreOrderedOnce == Spec => []LineOrderedAgainOnlyIfOverlapping
<1>1. Init => LineInv
  <2>1. Idle.pc = "idle" /\ Idle.lines = {}
    BY DEF Idle
  <2> SUFFICES ASSUME Init PROVE LineInv
    OBVIOUS
  <2>2. /\ \A u \in Users : Ids(cart[u]) = {}
        /\ \A w \in Workers : Ids(job[w].lines) = {} /\ ~Buying(w)
        /\ DOMAIN orders = {}
    <3>1. \A u \in Users : cart[u] = {}
      BY DEF Init
    <3>2. \A w \in Workers : job[w] = Idle
      BY ThreadsApart DEF Init
    <3>3. orders = <<>>
      BY DEF Init
    <3>4. QED
      <4>1. DOMAIN orders = {}
        BY <3>3
      <4>2. \A u \in Users : Ids(cart[u]) = {}
        BY <3>1, NoIds
      <4>3. \A w \in Workers : Ids(job[w].lines) = {} /\ ~Buying(w)
        BY <2>1, <3>2, NoIds DEF Buying
      <4>4. QED
        BY <4>1, <4>2, <4>3
  <2>3. QED
    BY <2>2 DEF LineInv, Numbered, Apart
<1>2. LineInv => LineOrderedAgainOnlyIfOverlapping
  BY DEF LineInv, Apart, Ids, LineOrderedAgainOnlyIfOverlapping
<1>3. QED
  BY <1>1, <1>2, LineInvKept, CheckoutTyped, PTL DEF Spec

(***************************************************************************)
(* The points of the orders D of customer u.                               *)
(***************************************************************************)
Gains(D) == [i \in DOMAIN D |-> D[i].awarded - D[i].redeemed]
Spends(D) == [i \in DOMAIN D |-> D[i].redeemed]
Of(D, u) == {i \in DOMAIN D : D[i].user = u}
OpenOf(D, u) == {i \in DOMAIN D : D[i].user = u /\ D[i].open}

Gain(D, u) == SumFunctionOnSet(Gains(D), OpenOf(D, u))
Spent(D, u) == SumFunctionOnSet(Spends(D), Of(D, u))

LEMMA RowsFinite ==
  ASSUME NEW D \in Seq(OrderRow), NEW u
  PROVE  /\ IsFiniteSet(DOMAIN D) /\ IsFiniteSet(Of(D, u)) /\ IsFiniteSet(OpenOf(D, u))
         /\ OpenOf(D, u) \subseteq Of(D, u) /\ Of(D, u) \subseteq DOMAIN D
         /\ \A i \in DOMAIN D : /\ Gains(D)[i] = D[i].awarded - D[i].redeemed
                                /\ Gains(D)[i] \in Int
                                /\ Spends(D)[i] = D[i].redeemed /\ Spends(D)[i] \in Nat
                                /\ D[i] \in OrderRow
<1>1. Len(D) \in Nat /\ DOMAIN D = 1..Len(D) /\ \A i \in DOMAIN D : D[i] \in OrderRow
  OBVIOUS
<1>2. IsFiniteSet(DOMAIN D)
  BY <1>1, FS_Interval
<1>3. OpenOf(D, u) \subseteq Of(D, u) /\ Of(D, u) \subseteq DOMAIN D
  BY DEF OpenOf, Of
<1>4. IsFiniteSet(Of(D, u)) /\ IsFiniteSet(OpenOf(D, u))
  BY <1>2, <1>3, FS_Subset
<1>5. \A i \in DOMAIN D : D[i].awarded \in Nat /\ D[i].redeemed \in Nat
  BY <1>1 DEF OrderRow
<1>6. QED
  BY <1>1, <1>2, <1>3, <1>4, <1>5 DEF Gains, Spends

\* What the open orders took away, all orders did.
LEMMA GainTyped ==
  ASSUME NEW D \in Seq(OrderRow), NEW u
  PROVE  Gain(D, u) \in Int /\ Spent(D, u) \in Nat /\ Gain(D, u) + Spent(D, u) >= 0
<1> DEFINE S == OpenOf(D, u)
           T == Of(D, u)
<1>1. /\ IsFiniteSet(S) /\ IsFiniteSet(T) /\ S \subseteq T
      /\ \A i \in T : /\ Gains(D)[i] \in Int /\ Spends(D)[i] \in Nat
                      /\ D[i].awarded \in Nat
                      /\ Gains(D)[i] = D[i].awarded - Spends(D)[i]
  BY RowsFinite DEF OrderRow
<1> HIDE DEF S, T
<1>2. /\ SumFunctionOnSet(Gains(D), S) \in Int
      /\ SumFunctionOnSet(Spends(D), S) \in Nat /\ SumFunctionOnSet(Spends(D), T) \in Nat
  <2>1. \A i \in S : Gains(D)[i] \in Int /\ Spends(D)[i] \in Nat
    BY <1>1
  <2>2. \A i \in T : Spends(D)[i] \in Nat
    BY <1>1
  <2>3. QED
    BY <1>1, <2>1, <2>2, SumTyped, SumNotNegative
<1>3. SumFunctionOnSet(Gains(D), S) + SumFunctionOnSet(Spends(D), S) >= 0
  <2>1. \A i \in S : /\ Gains(D)[i] \in Int /\ Spends(D)[i] \in Int
                     /\ Gains(D)[i] + Spends(D)[i] >= 0
    BY <1>1
  <2>2. QED
    BY <1>1, <2>1, SumsTogether
<1>4. SumFunctionOnSet(Spends(D), S) <= SumFunctionOnSet(Spends(D), T)
  BY <1>1, SumPart
<1>5. QED
  BY <1>2, <1>3, <1>4 DEF Gain, Spent, S, T

LEMMA GainAppend ==
  ASSUME NEW D \in Seq(OrderRow), NEW o \in OrderRow, NEW u
  PROVE  /\ Gain(Append(D, o), u)
              = Gain(D, u) + IF o.user = u /\ o.open THEN o.awarded - o.redeemed ELSE 0
         /\ Spent(Append(D, o), u) = Spent(D, u) + IF o.user = u THEN o.redeemed ELSE 0
<1> DEFINE E == Append(D, o)
           k == Len(D) + 1
<1>1. /\ E \in Seq(OrderRow) /\ Len(D) \in Nat /\ k \notin DOMAIN D
      /\ DOMAIN E = DOMAIN D \cup {k} /\ E[k] = o /\ \A i \in DOMAIN D : E[i] = D[i]
  OBVIOUS
<1> HIDE DEF E, k
<1>2. /\ OpenOf(E, u) = OpenOf(D, u) \cup (IF o.user = u /\ o.open THEN {k} ELSE {})
      /\ Of(E, u) = Of(D, u) \cup (IF o.user = u THEN {k} ELSE {})
      /\ OpenOf(D, u) \subseteq DOMAIN D /\ Of(D, u) \subseteq DOMAIN D
  BY <1>1 DEF OpenOf, Of
<1>3. /\ IsFiniteSet(OpenOf(E, u)) /\ IsFiniteSet(Of(E, u))
      /\ IsFiniteSet(OpenOf(D, u)) /\ IsFiniteSet(Of(D, u))
      /\ \A i \in DOMAIN E : Gains(E)[i] \in Int /\ Spends(E)[i] \in Int
      /\ Gains(E)[k] = o.awarded - o.redeemed /\ Spends(E)[k] = o.redeemed
      /\ \A i \in DOMAIN D : Gains(E)[i] = Gains(D)[i] /\ Spends(E)[i] = Spends(D)[i]
  <2>1. /\ IsFiniteSet(OpenOf(E, u)) /\ IsFiniteSet(Of(E, u))
        /\ IsFiniteSet(OpenOf(D, u)) /\ IsFiniteSet(Of(D, u))
        /\ \A i \in DOMAIN E : Gains(E)[i] \in Int /\ Spends(E)[i] \in Nat
    BY <1>1, RowsFinite
  <2>2. /\ Gains(E)[k] = o.awarded - o.redeemed /\ Spends(E)[k] = o.redeemed
        /\ \A i \in DOMAIN D : Gains(E)[i] = Gains(D)[i] /\ Spends(E)[i] = Spends(D)[i]
    BY <1>1 DEF Gains, Spends
  <2>3. QED
    BY <2>1, <2>2
<1>4. /\ SumFunctionOnSet(Gains(E), OpenOf(D, u)) = Gain(D, u)
      /\ SumFunctionOnSet(Spends(E), Of(D, u)) = Spent(D, u)
  <2>1. /\ \A i \in OpenOf(D, u) : Gains(E)[i] = Gains(D)[i]
        /\ \A i \in Of(D, u) : Spends(E)[i] = Spends(D)[i]
    BY <1>2, <1>3
  <2>2. QED
    BY <1>3, <2>1, SumSame DEF Gain, Spent
<1>5. Gain(D, u) \in Int /\ Spent(D, u) \in Nat
  BY GainTyped
<1>6. Gain(E, u)
        = Gain(D, u) + IF o.user = u /\ o.open THEN o.awarded - o.redeemed ELSE 0
  <2>1. CASE o.user = u /\ o.open
    <3>1. k \in OpenOf(E, u) /\ OpenOf(E, u) \ {k} = OpenOf(D, u)
          /\ OpenOf(E, u) \subseteq DOMAIN E
      BY <1>1, <1>2, <2>1
    <3>2. SumFunctionOnSet(Gains(E), OpenOf(E, u))
            = Gains(E)[k] + SumFunctionOnSet(Gains(E), OpenOf(E, u) \ {k})
      BY <1>3, <3>1, SumSplit
    <3>3. QED
      <4>1. Gain(E, u) = Gains(E)[k] + SumFunctionOnSet(Gains(E), OpenOf(D, u))
        BY <3>1, <3>2 DEF Gain
      <4>2. o.awarded - o.redeemed \in Int
        BY DEF OrderRow
      <4>3. QED
        BY <1>3, <1>4, <1>5, <2>1, <4>1, <4>2
  <2>2. CASE ~(o.user = u /\ o.open)
    <3>1. OpenOf(E, u) = OpenOf(D, u)
      BY <1>2, <2>2
    <3>2. Gain(E, u) = Gain(D, u)
      BY <1>4, <3>1 DEF Gain
    <3>3. QED
      BY <1>5, <2>2, <3>2
  <2>3. QED
    BY <2>1, <2>2
<1>7. Spent(E, u) = Spent(D, u) + IF o.user = u THEN o.redeemed ELSE 0
  <2>1. CASE o.user = u
    <3>1. k \in Of(E, u) /\ Of(E, u) \ {k} = Of(D, u) /\ Of(E, u) \subseteq DOMAIN E
      BY <1>1, <1>2, <2>1
    <3>2. SumFunctionOnSet(Spends(E), Of(E, u))
            = Spends(E)[k] + SumFunctionOnSet(Spends(E), Of(E, u) \ {k})
      BY <1>3, <3>1, SumSplit
    <3>3. QED
      <4>1. Spent(E, u) = Spends(E)[k] + SumFunctionOnSet(Spends(E), Of(D, u))
        BY <3>1, <3>2 DEF Spent
      <4>2. o.redeemed \in Nat
        BY DEF OrderRow
      <4>3. QED
        BY <1>3, <1>4, <1>5, <2>1, <4>1, <4>2
  <2>2. CASE o.user # u
    <3>1. Of(E, u) = Of(D, u)
      BY <1>2, <2>2
    <3>2. Spent(E, u) = Spent(D, u)
      BY <1>4, <3>1 DEF Spent
    <3>3. QED
      BY <1>5, <2>2, <3>2
  <2>3. QED
    BY <2>1, <2>2
<1>8. QED
  BY <1>6, <1>7 DEF E

LEMMA GainClose ==
  ASSUME NEW D \in Seq(OrderRow), NEW i \in DOMAIN D, D[i].open, NEW u
  PROVE  LET E == [D EXCEPT ![i].open = FALSE]
         IN /\ Gain(E, u) = Gain(D, u) - IF D[i].user = u THEN D[i].awarded - D[i].redeemed
                                                          ELSE 0
            /\ Spent(E, u) = Spent(D, u)
<1> DEFINE E == [D EXCEPT ![i].open = FALSE]
<1>1. D[i] \in OrderRow
  OBVIOUS
<1>2. /\ [D[i] EXCEPT !.open = FALSE] \in OrderRow
      /\ E = [D EXCEPT ![i] = [D[i] EXCEPT !.open = FALSE]]
  BY <1>1 DEF OrderRow
<1>3. /\ E \in Seq(OrderRow) /\ DOMAIN E = DOMAIN D
      /\ E[i] = [D[i] EXCEPT !.open = FALSE] /\ \A k \in DOMAIN D : k # i => E[k] = D[k]
  BY <1>2
<1>4. /\ \A k \in DOMAIN D : /\ E[k].user = D[k].user /\ E[k].awarded = D[k].awarded
                             /\ E[k].redeemed = D[k].redeemed
                             /\ k # i => E[k].open = D[k].open
      /\ E[i].open = FALSE
  <2>1. /\ E[i].user = D[i].user /\ E[i].awarded = D[i].awarded
        /\ E[i].redeemed = D[i].redeemed /\ E[i].open = FALSE
    BY <1>1, <1>3 DEF OrderRow
  <2> HIDE DEF E
  <2>2. QED
    BY <1>3, <2>1
<1> HIDE DEF E
<1>5. /\ OpenOf(E, u) = OpenOf(D, u) \ {i} /\ Of(E, u) = Of(D, u)
      /\ i \in OpenOf(D, u) <=> D[i].user = u
      /\ Gains(E) = Gains(D) /\ Spends(E) = Spends(D)
  BY <1>3, <1>4 DEF OpenOf, Of, Gains, Spends
<1>6. /\ IsFiniteSet(OpenOf(D, u)) /\ OpenOf(D, u) \subseteq DOMAIN D
      /\ \A k \in DOMAIN D : Gains(D)[k] \in Int
      /\ Gains(D)[i] = D[i].awarded - D[i].redeemed
  BY RowsFinite
<1>7. Gain(D, u) \in Int /\ Gain(E, u) \in Int
  BY <1>3, GainTyped
<1>8. CASE D[i].user = u
  <2>1. SumFunctionOnSet(Gains(D), OpenOf(D, u))
          = Gains(D)[i] + SumFunctionOnSet(Gains(D), OpenOf(D, u) \ {i})
    BY <1>5, <1>6, <1>8, SumSplit
  <2>2. Gain(E, u) = SumFunctionOnSet(Gains(D), OpenOf(D, u) \ {i})
    BY <1>5 DEF Gain
  <2>3. Gain(D, u) = Gains(D)[i] + Gain(E, u) /\ Gains(D)[i] \in Int
    BY <1>6, <2>1, <2>2 DEF Gain
  <2>4. Gain(E, u) = Gain(D, u) - (D[i].awarded - D[i].redeemed)
    BY <1>6, <1>7, <2>3
  <2>5. Spent(E, u) = Spent(D, u)
    BY <1>5 DEF Spent
  <2>6. QED
    BY <1>8, <2>4, <2>5 DEF E
<1>9. CASE D[i].user # u
  <2>1. OpenOf(E, u) = OpenOf(D, u)
    BY <1>5, <1>9
  <2>2. Gain(E, u) = Gain(D, u) /\ Spent(E, u) = Spent(D, u)
    BY <1>5, <2>1 DEF Gain, Spent
  <2>3. QED
    BY <1>7, <1>9, <2>2 DEF E
<1>10. QED
  BY <1>8, <1>9

(***************************************************************************)
(* The points of a customer: explained, and forgiven only when spent.      *)
(***************************************************************************)
\* A balance and what it is made of.
Explained(a, s, b, f, g) == a = s - b + f + g

\* x is taken from a balance and y added: so is it from what explains the balance.
LEMMA BalanceMoves ==
  ASSUME NEW a \in Int, NEW s \in Int, NEW b \in Int, NEW f \in Int, NEW g \in Int,
         NEW x \in Int, NEW y \in Int, Explained(a, s, b, f, g)
  PROVE  Explained(a - x + y, s, b, f, g + (y - x))
  BY DEF Explained

\* What a cancellation leaves, n instead of a + x - y, is forgiven.
LEMMA BalanceReturns ==
  ASSUME NEW a \in Int, NEW s \in Int, NEW b \in Int, NEW f \in Int, NEW g \in Int,
         NEW x \in Int, NEW y \in Int, NEW n \in Int, Explained(a, s, b, f, g)
  PROVE  Explained(n, s, b, f + n - (a + x - y), g - (y - x))
  BY DEF Explained

\* An empty balance forgave at most what was spent: sp bounds what the rest takes.
LEMMA EmptyBalance ==
  ASSUME NEW s \in Nat, NEW b \in Int, NEW f \in Int, NEW g \in Int, NEW sp \in Int,
         0 = s - b + f + g, g + sp >= 0
  PROVE  f <= b + sp
  OBVIOUS

PointsOf(u) ==
  wallet[u] = StartPoints - history.bought[u] + history.forgiven[u] + Gain(orders, u)

ForgivenOf(u) == history.forgiven[u] <= history.bought[u] + Spent(orders, u)

PointsInv == \A u \in Users : PointsOf(u) /\ ForgivenOf(u)

LEMMA PointsMeant ==
  /\ PointsExplained <=> \A u \in Users : PointsOf(u)
  /\ ForgivenWereSpent <=> \A u \in Users : ForgivenOf(u)
<1>1. \A u : {i \in OrdersOf(u) : orders[i].open} = OpenOf(orders, u)
  BY DEF OrdersOf, OpenOf
<1>2. \A u : OrdersOf(u) = Of(orders, u)
  BY DEF OrdersOf, Of
<1>3. Gained = Gains(orders) /\ Redeemed = Spends(orders)
  BY DEF Gained, Redeemed, Gains, Spends
<1>4. QED
  BY <1>1, <1>2, <1>3 DEF PointsExplained, ForgivenWereSpent, PointsOf, ForgivenOf, Gain, Spent

\* The steps that leave the points alone.
LEMMA PointsKept ==
  ASSUME PointsInv, UNCHANGED <<wallet, orders, scene>>,
         history'.bought = history.bought, history'.forgiven = history.forgiven
  PROVE  PointsInv'
  BY DEF PointsInv, PointsOf, ForgivenOf, StartPoints

LEMMA RemoveKeepsPoints ==
  ASSUME Typed, RemoveOffer \/ UNCHANGED <<offer, usage, history>>
  PROVE  history'.bought = history.bought /\ history'.forgiven = history.forgiven
  BY DEF RemoveOffer, Typed, TypeOK

LEMMA PollKeepsPoints ==
  ASSUME Typed, EditZoho \/ Poll \/ Tick
  PROVE  /\ UNCHANGED <<wallet, orders, scene>>
         /\ history'.bought = history.bought /\ history'.forgiven = history.forgiven
<1>1. CASE EditZoho \/ Tick
  BY <1>1 DEF EditZoho, Tick, loyaltyVars
<1>2. CASE PollFetch \/ PollRow
  BY <1>2 DEF PollFetch, PollRow, loyaltyVars
<1>3. CASE PollInactive \/ PollEnd
  BY <1>3, RemoveKeepsPoints DEF PollInactive, PollEnd, loyaltyVars
<1>4. CASE PollSave
  BY <1>4 DEF PollSave, loyaltyVars, Typed, TypeOK
<1>5. QED
  BY <1>1, <1>2, <1>3, <1>4 DEF Poll

LEMMA CheckoutKeepsPoints ==
  ASSUME Typed, NEW w \in Workers, CheckoutLock(w) \/ CheckoutRefused(w)
  PROVE  /\ UNCHANGED <<wallet, orders, scene>>
         /\ history'.bought = history.bought /\ history'.forgiven = history.forgiven
<1>1. RemoveOffer \/ UNCHANGED <<offer, usage, history>>
  <2>1. CASE CheckoutLock(w)
    BY <2>1 DEF CheckoutLock, CleanupExpired
  <2>2. CASE CheckoutRefused(w)
    BY <2>2 DEF CheckoutRefused, CleanupExpired
  <2>3. QED
    BY <2>1, <2>2
<1>2. UNCHANGED <<wallet, orders, scene>>
  <2>1. CASE CheckoutLock(w)
    BY <2>1 DEF CheckoutLock, loyaltyVars
  <2>2. CASE CheckoutRefused(w)
    BY <2>2 DEF CheckoutRefused, loyaltyVars
  <2>3. QED
    BY <2>1, <2>2
<1>3. QED
  BY <1>1, <1>2, RemoveKeepsPoints

\* The values the points of a customer are made of.
LEMMA PointsTyped ==
  ASSUME Typed, NEW u \in Users
  PROVE  /\ wallet[u] \in Nat /\ history.bought[u] \in Nat /\ history.forgiven[u] \in Nat
         /\ StartPoints \in Nat /\ orders \in Seq(OrderRow)
         /\ Gain(orders, u) \in Int /\ Spent(orders, u) \in Nat
         /\ Gain(orders, u) + Spent(orders, u) >= 0
<1>1. /\ wallet[u] \in Nat /\ history.bought[u] \in Nat /\ history.forgiven[u] \in Nat
      /\ orders \in Seq(OrderRow) /\ scene \in Scenes
  BY DEF Typed, TypeOK
<1>2. QED
  BY <1>1, OfferTyped, GainTyped

LEMMA CommitPoints ==
  ASSUME Typed, PointsInv, NEW w \in Workers, CheckoutCommit(w)
  PROVE  PointsInv'
<1> SUFFICES ASSUME NEW v \in Users PROVE (PointsOf(v) /\ ForgivenOf(v))'
  BY DEF PointsInv
<1> DEFINE u == job[w].user
           o == Placed(w)
<1>1. /\ job[w].pc = "commit" /\ orders' = Append(orders, o)
      /\ wallet' = [wallet EXCEPT ![u] = @ - job[w].redeemed + Awarded(w)]
      /\ UNCHANGED <<scene, history>>
  BY Commits
<1>2. /\ o \in OrderRow /\ u \in Users /\ Awarded(w) \in Nat /\ job[w].redeemed \in Nat
  BY <1>1, PlacedTyped, CheckoutAmounts DEF JobState
<1>3. /\ o.user = u /\ o.open /\ o.awarded = Awarded(w) /\ o.redeemed = job[w].redeemed
  BY DEF Placed
<1> HIDE DEF u, o
<1>4. /\ wallet[v] \in Nat /\ history.bought[v] \in Nat /\ history.forgiven[v] \in Nat
      /\ StartPoints \in Nat /\ orders \in Seq(OrderRow)
      /\ Gain(orders, v) \in Int /\ Spent(orders, v) \in Nat
  BY PointsTyped
<1>5. /\ Gain(orders', v)
           = Gain(orders, v) + IF o.user = v /\ o.open THEN o.awarded - o.redeemed ELSE 0
      /\ Spent(orders', v) = Spent(orders, v) + IF o.user = v THEN o.redeemed ELSE 0
  BY <1>1, <1>2, <1>4, GainAppend
<1>6. wallet'[v] = IF v = u THEN wallet[v] - job[w].redeemed + Awarded(w) ELSE wallet[v]
  BY <1>1, <1>2 DEF Typed, TypeOK
<1>7. PointsOf(v) /\ ForgivenOf(v)
  BY DEF PointsInv
<1>8. StartPoints' = StartPoints /\ history' = history
  BY <1>1 DEF StartPoints
<1>9. wallet'[v] = StartPoints - history.bought[v] + history.forgiven[v] + Gain(orders', v)
  <2>1. wallet[v] = StartPoints - history.bought[v] + history.forgiven[v] + Gain(orders, v)
    BY <1>7 DEF PointsOf
  <2>2. CASE v = u
    <3>1. Gain(orders', v) = Gain(orders, v) + (Awarded(w) - job[w].redeemed)
      BY <1>3, <1>5, <2>2
    <3>2. wallet'[v] = wallet[v] - job[w].redeemed + Awarded(w)
      BY <1>6, <2>2
    <3>3. wallet[v] - job[w].redeemed + Awarded(w)
            = StartPoints - history.bought[v] + history.forgiven[v]
                + (Gain(orders, v) + (Awarded(w) - job[w].redeemed))
      <4>1. /\ wallet[v] \in Int /\ StartPoints \in Int /\ history.bought[v] \in Int
            /\ history.forgiven[v] \in Int /\ Gain(orders, v) \in Int
            /\ job[w].redeemed \in Int /\ Awarded(w) \in Int
        BY <1>2, <1>4
      <4>2. Explained(wallet[v], StartPoints, history.bought[v], history.forgiven[v],
                      Gain(orders, v))
        BY <2>1 DEF Explained
      <4>3. Explained(wallet[v] - job[w].redeemed + Awarded(w), StartPoints,
                      history.bought[v], history.forgiven[v],
                      Gain(orders, v) + (Awarded(w) - job[w].redeemed))
        BY <4>1, <4>2, BalanceMoves
      <4>4. QED
        BY <4>3 DEF Explained
    <3>4. QED
      BY <3>1, <3>2, <3>3
  <2>3. CASE v # u
    BY <1>3, <1>4, <1>5, <1>6, <2>1, <2>3
  <2>4. QED
    BY <2>2, <2>3
<1>10. history.forgiven[v] <= history.bought[v] + Spent(orders', v)
  <2>1. history.forgiven[v] <= history.bought[v] + Spent(orders, v)
    BY <1>7 DEF ForgivenOf
  <2>2. Spent(orders', v) \in Nat /\ Spent(orders', v) >= Spent(orders, v)
    BY <1>2, <1>3, <1>4, <1>5
  <2>3. QED
    BY <1>4, <2>1, <2>2
<1>11. QED
  BY <1>8, <1>9, <1>10 DEF PointsOf, ForgivenOf

LEMMA IssuePoints ==
  ASSUME Typed, PointsInv, NEW u \in scene.users, IssueCoupon(u)
  PROVE  PointsInv'
<1> SUFFICES ASSUME NEW v \in Users PROVE (PointsOf(v) /\ ForgivenOf(v))'
  BY DEF PointsInv
<1>0. u \in Users
  BY OfferTyped DEF Typed, TypeOK
<1>1. PICK points \in 1..wallet[u] :
        /\ wallet' = [wallet EXCEPT ![u] = @ - points]
        /\ history' = [history EXCEPT !.bought[u] = @ + points]
  BY DEF IssueCoupon
<1>2. /\ wallet[v] \in Nat /\ history.bought[v] \in Nat /\ history.forgiven[v] \in Nat
      /\ StartPoints \in Nat /\ Gain(orders, v) \in Int /\ Spent(orders, v) \in Nat
  BY PointsTyped
<1>3. points \in Nat
  BY <1>0, PointsTyped
<1>4. wallet'[v] = IF v = u THEN wallet[v] - points ELSE wallet[v]
  BY <1>0, <1>1 DEF Typed, TypeOK
<1>5. /\ history'.bought[v] = IF v = u THEN history.bought[v] + points ELSE history.bought[v]
      /\ history'.forgiven[v] = history.forgiven[v]
  BY <1>0, <1>1 DEF Typed, TypeOK
<1>6. orders' = orders /\ StartPoints' = StartPoints
  BY DEF IssueCoupon, StartPoints
<1>7. QED
  BY <1>2, <1>3, <1>4, <1>5, <1>6 DEF PointsInv, PointsOf, ForgivenOf

\* When a cancellation leaves the wallet empty, what it forgave is what the
\* customer had spent; when it does not, it forgave nothing.
LEMMA CancelPoints ==
  ASSUME Typed, PointsInv, NEW i \in DOMAIN orders, CancelOrder(i)
  PROVE  PointsInv'
<1> SUFFICES ASSUME NEW v \in Users PROVE (PointsOf(v) /\ ForgivenOf(v))'
  BY DEF PointsInv
<1> DEFINE o == orders[i]
           u == orders[i].user
           left == wallet[u] + o.redeemed - o.awarded
           n == Restored(wallet[u], o)
<1>1. /\ o.open
      /\ orders' = [orders EXCEPT ![i].open = FALSE]
      /\ wallet' = [wallet EXCEPT ![u] = n]
      /\ history' = [history EXCEPT !.forgiven[u] = @ + n - left]
      /\ StartPoints' = StartPoints
  BY DEF CancelOrder, Cancellable, StartPoints, Typed, TypeOK
<1>2. u \in Users /\ o.redeemed \in Nat /\ o.awarded \in Nat
  BY OrderTyped
<1>3. /\ wallet[v] \in Nat /\ history.bought[v] \in Nat /\ history.forgiven[v] \in Nat
      /\ StartPoints \in Nat /\ orders \in Seq(OrderRow)
      /\ Gain(orders, v) \in Int /\ Spent(orders, v) \in Nat
  BY PointsTyped
<1>4. left \in Int /\ (n = left \/ n = 0) /\ n \in Nat
  <2>1. wallet[u] \in Nat
    BY <1>2, PointsTyped
  <2>2. left \in Int
    BY <1>2, <2>1
  <2>3. n = AtLeast(left, 0)
    BY DEF Restored
  <2> HIDE DEF left, n
  <2>4. QED
    BY <2>2, <2>3 DEF AtLeast
<1>5. /\ Gain(orders', v) = Gain(orders, v) - IF u = v THEN o.awarded - o.redeemed ELSE 0
      /\ Spent(orders', v) = Spent(orders, v)
  BY <1>1, <1>3, GainClose
<1>6. orders' \in Seq(OrderRow)
  <2>1. [orders[i] EXCEPT !.open = FALSE] \in OrderRow
    BY OrderTyped DEF OrderRow
  <2>2. orders' = [orders EXCEPT ![i] = [orders[i] EXCEPT !.open = FALSE]]
    BY <1>1, <1>3
  <2>3. QED
    BY <1>3, <2>1, <2>2
<1>7. Gain(orders', v) \in Int /\ Gain(orders', v) + Spent(orders', v) >= 0
  BY <1>6, GainTyped
<1>8. u = v => left = wallet[v] + o.redeemed - o.awarded
  OBVIOUS
<1> HIDE DEF n, left, u, o
<1>9. wallet'[v] = IF v = u THEN n ELSE wallet[v]
  BY <1>1, <1>2 DEF Typed, TypeOK
<1>10. /\ history'.forgiven[v] = IF v = u THEN history.forgiven[v] + n - left
                                 ELSE history.forgiven[v]
       /\ history'.bought[v] = history.bought[v]
  BY <1>1, <1>2 DEF Typed, TypeOK
<1>11. /\ wallet[v] = StartPoints - history.bought[v] + history.forgiven[v] + Gain(orders, v)
       /\ history.forgiven[v] <= history.bought[v] + Spent(orders, v)
  BY DEF PointsInv, PointsOf, ForgivenOf
<1>12. wallet'[v]
         = StartPoints - history'.bought[v] + history'.forgiven[v] + Gain(orders', v)
  <2>1. CASE v = u
    <3>1. n = StartPoints - history.bought[v]
              + (history.forgiven[v] + n - (wallet[v] + o.redeemed - o.awarded))
              + (Gain(orders, v) - (o.awarded - o.redeemed))
      <4>1. /\ wallet[v] \in Int /\ StartPoints \in Int /\ history.bought[v] \in Int
            /\ history.forgiven[v] \in Int /\ Gain(orders, v) \in Int
            /\ o.redeemed \in Int /\ o.awarded \in Int /\ n \in Int
        BY <1>2, <1>3, <1>4
      <4>2. Explained(wallet[v], StartPoints, history.bought[v], history.forgiven[v],
                      Gain(orders, v))
        BY <1>11 DEF Explained
      <4>3. Explained(n, StartPoints, history.bought[v],
                      history.forgiven[v] + n - (wallet[v] + o.redeemed - o.awarded),
                      Gain(orders, v) - (o.awarded - o.redeemed))
        BY <4>1, <4>2, BalanceReturns
      <4>4. QED
        BY <4>3 DEF Explained
    <3>2. Gain(orders', v) = Gain(orders, v) - (o.awarded - o.redeemed)
      BY <1>5, <2>1
    <3>3. history'.forgiven[v]
            = history.forgiven[v] + n - (wallet[v] + o.redeemed - o.awarded)
      BY <1>8, <1>10, <2>1
    <3>4. QED
      BY <1>9, <1>10, <2>1, <3>1, <3>2, <3>3
  <2>2. CASE v # u
    BY <1>3, <1>5, <1>9, <1>10, <1>11, <2>2
  <2>3. QED
    BY <2>1, <2>2
<1>13. history'.forgiven[v] <= history'.bought[v] + Spent(orders', v)
  <2>1. CASE v = u /\ n = 0
    <3>1. history'.forgiven[v] \in Int
      <4>1. history'.forgiven[v] = history.forgiven[v] + n - left
        BY <1>10, <2>1
      <4>2. QED
        BY <1>3, <1>4, <4>1
    <3>2. history'.bought[v] \in Int
      BY <1>3, <1>10
    <3>3. 0 = StartPoints - history'.bought[v] + history'.forgiven[v] + Gain(orders', v)
      BY <1>9, <1>12, <2>1
    <3>4. Spent(orders', v) \in Int
      BY <1>3, <1>5
    <3>5. QED
      BY <1>3, <1>7, <3>1, <3>2, <3>3, <3>4, EmptyBalance
  <2>2. CASE v = u /\ n = left
    BY <1>3, <1>4, <1>5, <1>10, <1>11, <2>2
  <2>3. CASE v # u
    BY <1>3, <1>5, <1>10, <1>11, <2>3
  <2>4. QED
    BY <1>4, <2>1, <2>2, <2>3
<1>14. QED
  BY <1>1, <1>12, <1>13 DEF PointsOf, ForgivenOf

LEMMA PointsInvKept == Typed /\ PointsInv /\ [Next]_vars => PointsInv'
<1> SUFFICES ASSUME Typed, PointsInv, [Next]_vars PROVE PointsInv'
  OBVIOUS
<1>1. CASE CartActs
  BY <1>1, PointsKept
     DEF CartActs, AddToCart, RemoveLine, ClearCart, PatchRead, PatchSave, Reorder, loyaltyVars
<1>2. ASSUME NEW w \in Workers,
             CheckoutDies(w) \/ \E u \in scene.users : CheckoutRead(w, u)
      PROVE  PointsInv'
  BY <1>2, PointsKept DEF CheckoutDies, CheckoutRead, loyaltyVars
<1>3. ASSUME NEW w \in Workers, CheckoutLock(w) \/ CheckoutRefused(w)
      PROVE  PointsInv'
  BY <1>3, CheckoutKeepsPoints, PointsKept
<1>4. ASSUME NEW u \in scene.users, PurgeCoupons(u)
      PROVE  PointsInv'
  BY <1>4, PointsKept DEF PurgeCoupons
<1>5. CASE EditZoho \/ Poll \/ Tick
  BY <1>5, PollKeepsPoints, PointsKept
<1>6. CASE UNCHANGED vars
  BY <1>6, PointsKept DEF vars
<1>7. CASE Next
  BY <1>1, <1>2, <1>3, <1>4, <1>5, <1>7, CommitPoints, IssuePoints, CancelPoints
     DEF Next, CartActs
<1>8. QED
  BY <1>6, <1>7

LEMMA PointsInvAlways == Spec => []PointsInv
<1>1. Init => PointsInv
  <2> SUFFICES ASSUME Init, NEW u \in Users PROVE PointsOf(u) /\ ForgivenOf(u)
    BY DEF PointsInv
  <2>1. /\ wallet[u] = StartPoints /\ history.bought[u] = 0 /\ history.forgiven[u] = 0
        /\ orders = <<>> /\ StartPoints \in Nat
    BY OfferTyped DEF Init
  <2>2. OpenOf(orders, u) = {} /\ Of(orders, u) = {}
    BY <2>1 DEF OpenOf, Of
  <2>3. Gain(orders, u) = 0 /\ Spent(orders, u) = 0
    BY <2>2, SumOfNone DEF Gain, Spent
  <2>4. QED
    BY <2>1, <2>3 DEF PointsOf, ForgivenOf
<1>2. QED
  BY <1>1, PointsInvKept, CheckoutTyped, PTL DEF Spec

\* The points of a customer are those of the start and of the open orders, less what
\* was exchanged, and what a cancellation could not take back.
THEOREM PointsAreExplained == Spec => []PointsExplained
<1>1. PointsInv => PointsExplained
  BY PointsMeant DEF PointsInv
<1>2. QED
  BY <1>1, PointsInvAlways, PTL

\* Points are forgiven only to customers who spent them.
THEOREM ForgivenPointsWereSpent == Spec => []ForgivenWereSpent
<1>1. PointsInv => ForgivenWereSpent
  BY PointsMeant DEF PointsInv
<1>2. QED
  BY <1>1, PointsInvAlways, PTL

(***************************************************************************)
(* Loyalty coupons: a code is one coupon and pays for one order.           *)
(***************************************************************************)
\* A request keeps its code; it comes to its commit with a coupon that is there.
KeepsCode(w) ==
  /\ job'[w].code <= codes
  /\ job'[w].pc = "commit" /\ job'[w].code # 0 =>
       \/ job[w].pc = "commit" /\ job'[w].code = job[w].code /\ job'[w].user = job[w].user
       \/ CouponRows(job'[w].user, job'[w].code) # {}

SameCodes ==
  /\ DOMAIN orders' = DOMAIN orders
  /\ \A i \in DOMAIN orders : orders'[i].code = orders[i].code

LEMMA CodedKept ==
  ASSUME Coded, UNCHANGED <<issued, codes>>, SameCodes, \A w \in Workers : KeepsCode(w)
  PROVE  Coded'
<1>1. ASSUME NEW w \in Workers, job'[w].pc = "commit", job'[w].code # 0
      PROVE  \E c \in issued : c.user = job'[w].user /\ c.id = job'[w].code
  BY <1>1 DEF KeepsCode, CouponRows, Coded
<1>2. \A w \in Workers : job'[w].code <= codes
  BY DEF KeepsCode
<1>3. QED
  BY <1>1, <1>2 DEF Coded, SameCodes

LEMMA SameCodesKept == UNCHANGED orders => SameCodes
  BY DEF SameCodes

LEMMA SameRequestsKeepCodes ==
  ASSUME Coded, \A w \in Workers : job'[w] = job[w]
  PROVE  \A w \in Workers : KeepsCode(w)
  BY DEF KeepsCode, Coded

LEMMA MoveKeepsCodes ==
  ASSUME Typed, Coded, NEW t \in Threads, NEW j, Moves(t, j),
         j.pc # "commit" /\ j.code <= codes
  PROVE  \A w \in Workers : KeepsCode(w)
<1>1. \A w \in Workers : job'[w] = IF w = t THEN j ELSE job[w]
  BY ThreadsApart DEF Moves, Typed, TypeOK
<1>2. QED
  BY <1>1 DEF KeepsCode, Coded

LEMMA IdleHasNoCode ==
  ASSUME Typed
  PROVE  Idle.pc # "commit" /\ Idle.code <= codes
  BY DEF Idle, Typed, TypeOK

LEMMA FinishKeepsCodes ==
  ASSUME Typed, Coded, NEW t \in Threads, Finish(t)
  PROVE  \A w \in Workers : KeepsCode(w)
  BY IdleHasNoCode, MoveKeepsCodes DEF Finish, Moves

LEMMA CartActsCoded ==
  ASSUME Typed, Coded, CartActs
  PROVE  Coded'
<1>1. UNCHANGED <<issued, codes, orders>>
  BY DEF CartActs, AddToCart, RemoveLine, ClearCart, PatchRead, PatchSave, Reorder, loyaltyVars
<1>2. CASE UNCHANGED job
  BY <1>1, <1>2, SameRequestsKeepCodes, SameCodesKept, CodedKept
<1>3. ASSUME NEW w \in Workers, NEW u \in scene.users, PatchRead(w, u)
      PROVE  Coded'
  <2>1. PICK l \in cart[u] :
          Moves(w, [Idle EXCEPT !.pc = "patch", !.user = u, !.lines = {l}])
    BY <1>3 DEF PatchRead, Moves
  <2> DEFINE j == [Idle EXCEPT !.pc = "patch", !.user = u, !.lines = {l}]
  <2>2. j.pc # "commit" /\ j.code <= codes
    BY DEF Idle, Typed, TypeOK
  <2> HIDE DEF j
  <2>3. Moves(w, j)
    BY <2>1 DEF j
  <2>4. QED
    BY <1>1, <2>2, <2>3, ThreadsApart, MoveKeepsCodes, SameCodesKept, CodedKept
<1>4. ASSUME NEW w \in Workers, PatchSave(w)
      PROVE  Coded'
  BY <1>1, <1>4, ThreadsApart, FinishKeepsCodes, SameCodesKept, CodedKept DEF PatchSave
<1>5. QED
  BY <1>2, <1>3, <1>4 DEF CartActs, AddToCart, RemoveLine, ClearCart, Reorder

LEMMA ReadCoded ==
  ASSUME Typed, Coded, NEW u \in scene.users, NEW w \in Workers, CheckoutRead(w, u)
  PROVE  Coded'
<1>1. PICK points \in Wishes \cup {0}, code \in 0..codes, named \in BOOLEAN :
        Moves(w, [Idle EXCEPT !.pc = "lock", !.user = u, !.lines = cart[u],
                              !.points = points, !.code = code, !.named = named,
                              !.seen = Len(orders)])
  BY DEF CheckoutRead, Moves
<1> DEFINE j == [Idle EXCEPT !.pc = "lock", !.user = u, !.lines = cart[u],
                             !.points = points, !.code = code, !.named = named,
                             !.seen = Len(orders)]
<1>2. j.pc # "commit" /\ j.code <= codes
  BY DEF Idle, Typed, TypeOK
<1> HIDE DEF j
<1>3. Moves(w, j)
  BY <1>1 DEF j
<1>4. UNCHANGED <<issued, codes, orders>>
  BY DEF CheckoutRead, loyaltyVars
<1>5. QED
  BY <1>2, <1>3, <1>4, ThreadsApart, MoveKeepsCodes, SameCodesKept, CodedKept

LEMMA LockCoded ==
  ASSUME Typed, Coded, NEW w \in Workers, CheckoutLock(w)
  PROVE  Coded'
<1>0. job[w].pc = "lock" /\ UNCHANGED <<issued, codes, orders>>
  BY DEF CheckoutLock, loyaltyVars
<1>1. PICK out \in LoyaltyOutcomes(job[w].user, job[w].code, job[w].points, Cap(w)) :
        Moves(w, Taking(w, out))
  BY LockTakes
<1> DEFINE j == Taking(w, out)
<1>2. j.code = job[w].code /\ (j.code # 0 => CouponRows(j.user, j.code) # {})
  BY <1>0, TakingTyped
<1> HIDE DEF j
<1>3. job'[w] = j /\ \A v \in Workers \ {w} : job'[v] = job[v]
  BY <1>1, ThreadsApart DEF j, Moves, Typed, TypeOK
<1>4. \A v \in Workers : KeepsCode(v)
  BY <1>2, <1>3 DEF KeepsCode, Coded
<1>5. QED
  BY <1>0, <1>4, SameCodesKept, CodedKept

\* The order has the code of a coupon that was there, and takes it away.
LEMMA CommitCoded ==
  ASSUME Typed, Coded, NEW w \in Workers, CheckoutCommit(w)
  PROVE  Coded'
<1> DEFINE n == Len(orders)
           u == job[w].user
           code == job[w].code
<1>1. /\ job[w].pc = "commit" /\ orders' = Append(orders, Placed(w))
      /\ issued' = issued \ CouponRows(u, code) /\ codes' = codes
      /\ job' = [job EXCEPT ![w] = Idle]
  BY Commits DEF Finish
<1>2. n \in Nat /\ orders \in Seq(OrderRow)
  BY DEF Typed, TypeOK
<1>3. Placed(w).code = code
  BY DEF Placed
<1>4. /\ DOMAIN orders = 1..n /\ DOMAIN orders' = 1..(n + 1)
      /\ orders'[n + 1] = Placed(w) /\ \A i \in 1..n : orders'[i] = orders[i]
  BY <1>1, <1>2
<1> HIDE DEF n, u, code
<1>5. /\ job'[w].pc # "commit" /\ job'[w].code <= codes
      /\ \A v \in Workers \ {w} : job'[v] = job[v]
  BY <1>1, IdleHasNoCode, ThreadsApart DEF Typed, TypeOK
<1>6. \A v \in Workers : job'[v].code <= codes
  BY <1>5 DEF Coded
<1>7. ASSUME NEW v \in Workers, job'[v].pc = "commit", job'[v].code # 0
      PROVE  \E c \in issued' : c.user = job'[v].user /\ c.id = job'[v].code
  <2>1. v # w /\ job'[v] = job[v]
    BY <1>5, <1>7
  <2>2. job[v].user # u
    BY <1>1, <1>7, <2>1 DEF Typed, Held, u
  <2>3. PICK c \in issued : c.user = job[v].user /\ c.id = job[v].code
    BY <1>7, <2>1 DEF Coded
  <2>4. c \in issued'
    BY <1>1, <2>2, <2>3 DEF CouponRows
  <2>5. QED
    BY <2>1, <2>3, <2>4
<1>8. ASSUME code # 0
      PROVE  /\ \A i \in 1..n : orders[i].code # code
             /\ \A c \in issued' : c.id # code
  <2>1. PICK d \in issued : d.user = u /\ d.id = code
    BY <1>1, <1>8 DEF Coded, u, code
  <2>2. \A i \in 1..n : orders[i].code # code
    BY <1>4, <1>8, <2>1 DEF Coded
  <2>3. \A c \in issued : c.id = code => c \in CouponRows(u, code)
    BY <2>1 DEF Coded, CouponRows
  <2>4. QED
    BY <1>1, <2>2, <2>3
<1>9. issued' \subseteq issued /\ code <= codes
  BY <1>1 DEF Coded, code
<1>10. ASSUME NEW i \in DOMAIN orders', orders'[i].code # 0
       PROVE  /\ \A k \in DOMAIN orders' : orders'[k].code = orders'[i].code => k = i
              /\ \A c \in issued' : c.id # orders'[i].code
  <2>1. CASE i \in 1..n
    <3>1. orders'[i] = orders[i] /\ i \in DOMAIN orders /\ orders[i].code # 0
      BY <1>4, <1>10, <2>1
    <3>2. \A k \in 1..n : orders'[k].code = orders'[i].code => k = i
      BY <1>4, <3>1 DEF Coded
    <3>3. orders'[n + 1].code # orders'[i].code
      BY <1>3, <1>4, <1>8, <2>1, <3>1
    <3>4. \A k \in DOMAIN orders' : k \in 1..n \/ k = n + 1
      BY <1>2, <1>4
    <3>5. \A c \in issued' : c.id # orders'[i].code
      BY <1>9, <3>1 DEF Coded
    <3>6. QED
      BY <3>2, <3>3, <3>4, <3>5
  <2>2. CASE i = n + 1
    <3>1. orders'[i].code = code /\ code # 0
      BY <1>3, <1>4, <1>10, <2>2
    <3>2. \A k \in 1..n : orders'[k].code # code
      BY <1>4, <1>8, <3>1
    <3>3. \A k \in DOMAIN orders' : k \in 1..n \/ k = n + 1
      BY <1>2, <1>4
    <3>4. QED
      BY <1>8, <2>2, <3>1, <3>2, <3>3
  <2>3. QED
    BY <1>2, <1>4, <1>10, <2>1, <2>2
<1>11. \A i \in DOMAIN orders' : orders'[i].code <= codes
  <2>1. \A i \in DOMAIN orders' : i \in 1..n \/ i = n + 1
    BY <1>2, <1>4
  <2>2. \A i \in 1..n : orders'[i].code <= codes
    BY <1>4 DEF Coded
  <2>3. QED
    BY <1>3, <1>4, <1>9, <2>1, <2>2
<1>12. \A c, d \in issued' : c.id = d.id => c = d
  BY <1>9 DEF Coded
<1>13. \A c \in issued' : c.id <= codes
  BY <1>9 DEF Coded
<1>14. QED
  BY <1>1, <1>6, <1>7, <1>10, <1>11, <1>12, <1>13 DEF Coded

\* A new coupon has a code no row had.
LEMMA IssueCoded ==
  ASSUME Typed, Coded, NEW u \in scene.users, IssueCoupon(u)
  PROVE  Coded'
<1>1. PICK d : issued' = issued \cup {d} /\ d.id = codes + 1
  <2>1. PICK points \in 1..wallet[u] :
          issued' = issued \cup
            {[id |-> codes + 1, user |-> u, points |-> points,
              amount |-> BlockCredit * (points \div Block), expires |-> now + Lifetime]}
    BY DEF IssueCoupon
  <2> DEFINE d == [id |-> codes + 1, user |-> u, points |-> points,
                   amount |-> BlockCredit * (points \div Block), expires |-> now + Lifetime]
  <2>2. d.id = codes + 1
    OBVIOUS
  <2> HIDE DEF d
  <2>3. issued' = issued \cup {d}
    BY <2>1 DEF d
  <2>4. QED
    BY <2>2, <2>3
<1>2. codes \in Nat /\ codes' = codes + 1 /\ UNCHANGED <<orders, job>>
  BY DEF IssueCoupon, Typed, TypeOK
<1>3. /\ \A c \in issued : c.id \in Int /\ c.id <= codes
      /\ \A i \in DOMAIN orders : orders[i].code \in Int /\ orders[i].code <= codes
      /\ \A w \in Workers : job[w].code \in Int /\ job[w].code <= codes
  <2>1. \A c \in issued : c.id \in Int
    BY DEF Typed, TypeOK, IssuedCoupon
  <2>2. \A i \in DOMAIN orders : orders[i].code \in Int
    BY OrderTyped DEF OrderRow
  <2>3. \A w \in Workers : job[w].code \in Int
    BY ThreadsApart DEF Typed, TypeOK, JobState
  <2>4. QED
    BY <2>1, <2>2, <2>3 DEF Coded
<1>4. \A c, e \in issued' : c.id = e.id => c = e
  BY <1>1, <1>2, <1>3 DEF Coded
<1>5. /\ \A c \in issued' : c.id <= codes'
      /\ \A w \in Workers : job'[w].code <= codes'
      /\ \A i \in DOMAIN orders' : orders'[i].code <= codes'
  BY <1>1, <1>2, <1>3
<1>6. \A w \in Workers : job'[w].pc = "commit" /\ job'[w].code # 0 =>
        \E c \in issued' : c.user = job'[w].user /\ c.id = job'[w].code
  BY <1>1, <1>2 DEF Coded
<1>7. \A i \in DOMAIN orders' : orders'[i].code # 0 =>
        /\ \A k \in DOMAIN orders' : orders'[k].code = orders'[i].code => k = i
        /\ \A c \in issued' : c.id # orders'[i].code
  BY <1>1, <1>2, <1>3 DEF Coded
<1>8. QED
  BY <1>4, <1>5, <1>6, <1>7 DEF Coded

\* The coupon of a running checkout is not purged.
LEMMA PurgeCoded ==
  ASSUME Coded, NEW u \in scene.users, PurgeCoupons(u)
  PROVE  Coded'
<1> DEFINE stale == {c \in issued : c.user = u /\ c.expires <= now}
<1>1. /\ issued' = issued \ stale /\ UNCHANGED <<codes, orders, job>>
      /\ \A w \in Workers : job[w].pc = "commit" => \A c \in stale : c.id # job[w].code
  BY DEF PurgeCoupons
<1> HIDE DEF stale
<1>2. ASSUME NEW w \in Workers, job[w].pc = "commit", job[w].code # 0
      PROVE  \E c \in issued' : c.user = job[w].user /\ c.id = job[w].code
  BY <1>1, <1>2 DEF Coded
<1>3. QED
  BY <1>1, <1>2 DEF Coded

LEMMA CancelCoded ==
  ASSUME Typed, Coded, NEW i \in DOMAIN orders, CancelOrder(i)
  PROVE  Coded'
<1>1. orders' = [orders EXCEPT ![i].open = FALSE] /\ UNCHANGED <<issued, codes, job>>
  BY DEF CancelOrder
<1>2. orders \in Seq(OrderRow)
  BY DEF Typed, TypeOK
<1>3. SameCodes
  <2>1. orders' = [orders EXCEPT ![i] = [orders[i] EXCEPT !.open = FALSE]]
    BY <1>1, <1>2
  <2>2. /\ [orders[i] EXCEPT !.open = FALSE] \in OrderRow
        /\ [orders[i] EXCEPT !.open = FALSE].code = orders[i].code
    BY OrderTyped DEF OrderRow
  <2>3. QED
    BY <1>2, <2>1, <2>2 DEF SameCodes
<1>4. QED
  BY <1>1, <1>3, SameRequestsKeepCodes, CodedKept

LEMMA PollCoded ==
  ASSUME Typed, Coded, EditZoho \/ Poll \/ Tick
  PROVE  Coded'
<1>1. UNCHANGED <<issued, codes>>
  BY DEF EditZoho, Tick, Poll, PollFetch, PollInactive, PollRow, PollSave, PollEnd, loyaltyVars
<1>2. QED
  BY <1>1, PollApart, SameRequestsKeepCodes, SameCodesKept, CodedKept

LEMMA CodedStep == Typed /\ Coded /\ [Next]_vars => Coded'
<1> SUFFICES ASSUME Typed, Coded, [Next]_vars PROVE Coded'
  OBVIOUS
<1>1. ASSUME NEW w \in Workers, CheckoutRefused(w) \/ CheckoutDies(w)
      PROVE  Coded'
  <2>1. Finish(w) /\ UNCHANGED <<issued, codes, orders>>
    BY <1>1 DEF CheckoutRefused, CheckoutDies, loyaltyVars
  <2>2. QED
    BY <2>1, FinishKeepsCodes, ThreadsApart, SameCodesKept, CodedKept
<1>2. CASE UNCHANGED vars
  BY <1>2, SameRequestsKeepCodes, SameCodesKept, CodedKept DEF vars
<1>3. CASE Next
  BY <1>1, <1>3, CartActsCoded, ReadCoded, LockCoded, CommitCoded, IssueCoded, PurgeCoded,
     CancelCoded, PollCoded DEF Next, CartActs
<1>4. QED
  BY <1>2, <1>3

LEMMA CodedAlways == Spec => []Coded
<1>1. Init => Coded
  <2> SUFFICES ASSUME Init PROVE Coded
    OBVIOUS
  <2>1. issued = {} /\ codes = 0 /\ DOMAIN orders = {}
    BY DEF Init
  <2>2. \A w \in Workers : job[w] = Idle
    BY ThreadsApart DEF Init
  <2>3. Idle.pc # "commit" /\ Idle.code = 0
    BY DEF Idle
  <2>4. QED
    BY <2>1, <2>2, <2>3 DEF Coded
<1>2. QED
  BY <1>1, CodedStep, CheckoutTyped, PTL DEF Spec

(***************************************************************************)
(* The offer: its redemptions, its counter and its limits.                 *)
(***************************************************************************)
OfferInv == Logged /\ Remains /\ WithinLimit /\ Counted

LEMMA UsageSizes ==
  ASSUME Typed, Logged
  PROVE  /\ Cardinality(usage) \in Nat
         /\ \A u : IsFiniteSet(UsesOf(u)) /\ Cardinality(UsesOf(u)) \in Nat
         /\ IsFiniteSet(Redeemers) /\ Cardinality(Redeemers) \in Nat
         /\ Cardinality(Redeemers) <= Cardinality(Users) /\ Cardinality(Users) \in Nat
         /\ offer.count \in Nat /\ Offer.max \in Nat /\ Offer.maxPerUser \in Nat
<1>1. IsFiniteSet(usage)
  BY DEF Logged
<1>2. \A u : UsesOf(u) \subseteq usage
  BY DEF UsesOf
<1>3. Redeemers \subseteq Users
  BY DEF Redeemers
<1>4. \A u : IsFiniteSet(UsesOf(u))
  BY <1>1, <1>2, FS_Subset
<1>5. /\ IsFiniteSet(Redeemers) /\ Cardinality(Redeemers) <= Cardinality(Users)
  BY <1>3, UsersAssumption, FS_Subset
<1>6. offer.count \in Nat
  BY DEF Typed, TypeOK, OfferRow
<1>7. Offer.max \in Nat /\ Offer.maxPerUser \in Nat
  BY OfferTyped DEF Typed, TypeOK
<1>8. QED
  BY <1>1, <1>4, <1>5, <1>6, <1>7, UsersAssumption, FS_CardinalityType

\* Those who hold a redemption in the next state: fewer, when no request comes to its
\* commit.
RedeemersNext ==
  {u \in Users : \E w \in Workers : job'[w].user = u /\ job'[w].pc = "commit" /\ job'[w].row.pk # 0}

LEMMA RedeemersPrimed == Redeemers' = RedeemersNext
  BY DEF Redeemers, Redeems, RedeemersNext

LEMMA FewerRedeemers ==
  ASSUME Typed, Logged,
         \A w \in Workers : job'[w] = job[w] \/ job'[w].pc # "commit" \/ job'[w].row.pk = 0
  PROVE  /\ Cardinality(RedeemersNext) \in Nat
         /\ Cardinality(RedeemersNext) <= Cardinality(Redeemers)
<1>1. RedeemersNext \subseteq Redeemers
  BY DEF Redeemers, Redeems, RedeemersNext
<1>2. QED
  BY <1>1, UsageSizes, FS_Subset, FS_CardinalityType

\* What the poll holds is no more than was counted, and of the row that is there.
PollerHolds(row, pc) ==
  /\ row.count <= Cardinality(usage)
  /\ ~history.removed /\ pc = "poll_save" => row.pk = 1

\* The offer and its redemptions stay; a request that comes to its commit takes no
\* redemption.
LEMMA OfferStays ==
  ASSUME Typed, OfferInv, UNCHANGED <<offer, usage, scene>>,
         history'.removed = history.removed, history'.overwritten = history.overwritten,
         Len(orders') \in Nat, Len(orders') >= Len(orders),
         PollerHolds(job'[Poller].row, job'[Poller].pc),
         \A w \in Workers : job'[w] = job[w] \/ job'[w].pc # "commit" \/ job'[w].row.pk = 0
  PROVE  OfferInv'
<1>o. Offer' = Offer
  BY DEF Offer
<1>1. Logged'
  <2>1. \A x \in usage : x.order <= Len(orders')
    <3>1. \A x \in usage : x.order \in Int /\ x.order <= Len(orders)
      BY DEF OfferInv, Logged, Typed, TypeOK
    <3>2. Len(orders) \in Nat
      BY DEF Typed, TypeOK
    <3>3. QED
      BY <3>1, <3>2
  <2>2. QED
    BY <2>1 DEF OfferInv, Logged, PollerHolds
<1>2. Remains'
  BY DEF OfferInv, Remains, PollerHolds
<1>3. WithinLimit'
  <2>1. \A u : UsesOf(u)' = UsesOf(u)
    BY DEF UsesOf
  <2>2. ASSUME ~history.removed, Offer.maxPerUser > 0, NEW w \in Workers,
               job'[w].pc = "commit", job'[w].row.pk # 0
        PROVE  Cardinality(UsesOf(job'[w].user)) < Offer.maxPerUser
    BY <2>2 DEF OfferInv, WithinLimit, Redeems
  <2>3. ASSUME ~history.removed, Offer.maxPerUser > 0, NEW u \in Users
        PROVE  Cardinality(UsesOf(u)) <= Offer.maxPerUser
    BY <2>3 DEF OfferInv, WithinLimit
  <2>4. QED
    BY <1>o, <2>1, <2>2, <2>3 DEF WithinLimit, Redeems, UsesOf
<1>4. Counted'
  <2>1. /\ Cardinality(RedeemersNext) \in Nat
        /\ Cardinality(RedeemersNext) <= Cardinality(Redeemers)
    BY FewerRedeemers DEF OfferInv
  <2> SUFFICES ASSUME ~history.removed, ~history.overwritten
               PROVE  /\ offer.count = Cardinality(usage)
                      /\ Offer.max > 0 => Cardinality(usage) + Cardinality(RedeemersNext)
                                            < Offer.max + Cardinality(Users)
    BY <1>o, RedeemersPrimed DEF Counted
  <2>2. /\ offer.count = Cardinality(usage)
        /\ Offer.max > 0 => Cardinality(usage) + Cardinality(Redeemers)
                              < Offer.max + Cardinality(Users)
    BY DEF OfferInv, Counted
  <2>3. QED
    BY <2>1, <2>2, UsageSizes DEF OfferInv
<1>5. QED
  BY <1>1, <1>2, <1>3, <1>4 DEF OfferInv

\* When the row of the offer is removed its redemptions stay in the log.
LEMMA OfferGoes ==
  ASSUME Typed, OfferInv, RemoveOffer, UNCHANGED <<orders, scene>>,
         job'[Poller].row.count \in {0, job[Poller].row.count}
  PROVE  OfferInv'
<1>1. history'.removed
  <2>1. history'.removed <=> history.removed \/ offer.pk # 0
    BY DEF RemoveOffer, Typed, TypeOK
  <2>2. ~history.removed => offer.pk = 1
    BY DEF OfferInv, Remains
  <2>3. QED
    BY <2>1, <2>2
<1>2. Remains' /\ WithinLimit' /\ Counted'
  BY <1>1 DEF Remains, WithinLimit, Counted
<1>3. Logged'
  <2> DEFINE f == [x \in usage |-> [x EXCEPT !.pk = 0]]
  <2>1. usage' = {f[x] : x \in usage} /\ offer'.count = 0
    BY DEF RemoveOffer, DropUsageLinks, NoRow
  <2>2. \A x \in usage : f[x].order = x.order
    BY DEF Typed, TypeOK
  <2>3. \A x, y \in usage : f[x] = f[y] => x = y
    <3>1. \A x, y \in usage : f[x] = f[y] => x.order = y.order
      BY <2>2
    <3>2. QED
      BY <3>1 DEF OfferInv, Logged
  <2> HIDE DEF f
  <2>4. IsFiniteSet(usage') /\ Cardinality(usage') = Cardinality(usage)
    <3>1. IsFiniteSet(usage)
      BY DEF OfferInv, Logged
    <3>2. QED
      BY <2>1, <2>3, <3>1, ImageFinite
  <2>5. \A z \in usage' : z.order <= Len(orders')
    BY <2>1, <2>2 DEF OfferInv, Logged
  <2>6. \A z, y \in usage' : z.order = y.order => z = y
    BY <2>1, <2>2 DEF OfferInv, Logged
  <2>7. Cardinality(usage) \in Nat
    BY UsageSizes DEF OfferInv
  <2>8. offer'.count <= Cardinality(usage') /\ job'[Poller].row.count <= Cardinality(usage')
    BY <2>1, <2>4, <2>7 DEF OfferInv, Logged
  <2>9. QED
    BY <2>4, <2>5, <2>6, <2>8 DEF Logged
<1>4. QED
  BY <1>2, <1>3 DEF OfferInv

\* The steps of the requests leave the poll alone.
LEMMA PollerStays ==
  ASSUME OfferInv, job'[Poller] = job[Poller]
  PROVE  /\ PollerHolds(job'[Poller].row, job'[Poller].pc)
         /\ job'[Poller].row.count \in {0, job[Poller].row.count}
  BY DEF PollerHolds, OfferInv, Logged, Remains

LEMMA WorkerMoves ==
  ASSUME Typed, NEW w \in Workers, NEW j, Moves(w, j)
  PROVE  /\ job'[Poller] = job[Poller] /\ job'[w] = j
         /\ \A v \in Workers \ {w} : job'[v] = job[v]
  BY ThreadsApart DEF Moves, Typed, TypeOK

LEMMA IdleRedeemsNothing == Idle.pc = "idle" /\ Idle.row.pk = 0 /\ Idle.row.count = 0
  BY DEF Idle, NoRow

\* A request begins or ends and redeems nothing.
LEMMA RequestMovesOffer ==
  ASSUME Typed, OfferInv, NEW w \in Workers, NEW j, Moves(w, j), j.pc # "commit",
         UNCHANGED <<offer, usage, scene, orders, history>>
  PROVE  OfferInv'
<1>1. /\ job'[Poller] = job[Poller] /\ job'[w] = j
      /\ \A v \in Workers \ {w} : job'[v] = job[v]
  BY WorkerMoves
<1>2. Len(orders') \in Nat /\ Len(orders') >= Len(orders)
  BY DEF Typed, TypeOK
<1>3. QED
  BY <1>1, <1>2, PollerStays, OfferStays

LEMMA SameOffer ==
  ASSUME Typed, OfferInv, UNCHANGED <<offer, usage, scene, job>>,
         Len(orders') = Len(orders),
         history'.removed = history.removed, history'.overwritten = history.overwritten
  PROVE  OfferInv'
<1>1. Len(orders') \in Nat /\ Len(orders') >= Len(orders)
  BY DEF Typed, TypeOK
<1>2. QED
  BY <1>1, PollerStays, OfferStays

LEMMA CartActsOffer ==
  ASSUME Typed, OfferInv, CartActs
  PROVE  OfferInv'
<1>1. UNCHANGED <<offer, usage, scene, orders, history>>
  BY DEF CartActs, AddToCart, RemoveLine, ClearCart, PatchRead, PatchSave, Reorder, offerVars
<1>2. CASE UNCHANGED job
  BY <1>1, <1>2, SameOffer
<1>3. ASSUME NEW w \in Workers, NEW u \in scene.users, PatchRead(w, u)
      PROVE  OfferInv'
  <2>1. PICK l \in cart[u] :
          Moves(w, [Idle EXCEPT !.pc = "patch", !.user = u, !.lines = {l}])
    BY <1>3 DEF PatchRead, Moves
  <2> DEFINE j == [Idle EXCEPT !.pc = "patch", !.user = u, !.lines = {l}]
  <2>2. j.pc # "commit"
    BY DEF Idle
  <2> HIDE DEF j
  <2>3. Moves(w, j)
    BY <2>1 DEF j
  <2>4. QED
    BY <1>1, <2>2, <2>3, RequestMovesOffer
<1>4. ASSUME NEW w \in Workers, PatchSave(w)
      PROVE  OfferInv'
  BY <1>1, <1>4, IdleRedeemsNothing, RequestMovesOffer DEF PatchSave, Finish, Moves
<1>5. UNCHANGED job \/ (\E w \in Workers : PatchSave(w) \/ \E u \in scene.users : PatchRead(w, u))
  <2>1. CASE \E u \in scene.users :
               (\E p \in Products : AddToCart(u, p)) \/ RemoveLine(u) \/ ClearCart(u)
    BY <2>1 DEF AddToCart, RemoveLine, ClearCart
  <2>2. CASE \E i \in DOMAIN orders : Reorder(i)
    BY <2>2 DEF Reorder
  <2>3. QED
    BY <2>1, <2>2 DEF CartActs
<1>6. QED
  BY <1>2, <1>3, <1>4, <1>5

LEMMA ReadOffer ==
  ASSUME Typed, OfferInv, NEW u \in scene.users, NEW w \in Workers, CheckoutRead(w, u)
  PROVE  OfferInv'
<1>1. PICK points \in Wishes \cup {0}, code \in 0..codes, named \in BOOLEAN :
        Moves(w, [Idle EXCEPT !.pc = "lock", !.user = u, !.lines = cart[u],
                              !.points = points, !.code = code, !.named = named,
                              !.seen = Len(orders)])
  BY DEF CheckoutRead, Moves
<1> DEFINE j == [Idle EXCEPT !.pc = "lock", !.user = u, !.lines = cart[u],
                             !.points = points, !.code = code, !.named = named,
                             !.seen = Len(orders)]
<1>2. j.pc # "commit"
  BY DEF Idle
<1> HIDE DEF j
<1>3. Moves(w, j)
  BY <1>1 DEF j
<1>4. UNCHANGED <<offer, usage, scene, orders, history>>
  BY DEF CheckoutRead, offerVars
<1>5. QED
  BY <1>2, <1>3, <1>4, RequestMovesOffer

LEMMA RefusedOffer ==
  ASSUME Typed, OfferInv, NEW w \in Workers, CheckoutRefused(w)
  PROVE  OfferInv'
<1>1. Moves(w, Idle) /\ UNCHANGED <<scene, orders>>
  BY DEF CheckoutRefused, Finish, Moves
<1>2. RemoveOffer \/ UNCHANGED <<offer, usage, history>>
  BY DEF CheckoutRefused, CleanupExpired
<1>3. job'[Poller] = job[Poller]
  BY <1>1, WorkerMoves
<1>4. CASE RemoveOffer
  BY <1>1, <1>3, <1>4, PollerStays, OfferGoes
<1>5. CASE UNCHANGED <<offer, usage, history>>
  BY <1>1, <1>5, IdleRedeemsNothing, RequestMovesOffer
<1>6. QED
  BY <1>2, <1>4, <1>5

LEMMA DiesOffer ==
  ASSUME Typed, OfferInv, NEW w \in Workers, CheckoutDies(w)
  PROVE  OfferInv'
  BY IdleRedeemsNothing, RequestMovesOffer DEF CheckoutDies, Finish, Moves, offerVars

\* An offer is taken only while it has redemptions left, for the customer and in all.
LEMMA AppliesWithinLimits ==
  ASSUME Typed, OfferInv, NEW w \in Workers, Applies(w), ~history.removed
  PROVE  /\ offer.pk = 1
         /\ Offer.maxPerUser > 0 => Cardinality(UsesOf(job[w].user)) < Offer.maxPerUser
         /\ Offer.max > 0 => offer.count < Offer.max
<1>1. Applicable(job[w].user, job[w].lines)
  BY DEF Applies, AutoApplied
<1>2. offer.pk = 1 /\ \A x \in usage : x.pk = 1
  BY DEF OfferInv, Remains
<1>3. UsedBy(job[w].user) = UsesOf(job[w].user)
  BY <1>2 DEF UsedBy, UsesOf
<1>4. Offer.max > 0 => offer.count < Offer.max
  BY <1>1, UsageSizes DEF Applicable, Exhausted, OfferInv
<1>5. QED
  BY <1>1, <1>2, <1>3, <1>4 DEF Applicable

LEMMA LockOffer ==
  ASSUME Typed, OfferInv, NEW w \in Workers, CheckoutLock(w)
  PROVE  OfferInv'
<1>0. job[w].pc = "lock" /\ UNCHANGED <<scene, orders>>
  BY DEF CheckoutLock
<1>1. PICK out \in LoyaltyOutcomes(job[w].user, job[w].code, job[w].points, Cap(w)) :
        Moves(w, Taking(w, out))
  BY LockTakes
<1> DEFINE j == Taking(w, out)
<1>2. /\ j.user = job[w].user /\ j.pc = "commit"
      /\ j.row = IF Applies(w) THEN offer ELSE NoRow
  BY <1>0, TakingTyped
<1> HIDE DEF j
<1>3. /\ job'[Poller] = job[Poller] /\ job'[w] = j
      /\ \A v \in Workers \ {w} : job'[v] = job[v]
  BY <1>1, WorkerMoves DEF j
<1>4. RemoveOffer \/ UNCHANGED <<offer, usage, history>>
  BY DEF CheckoutLock, CleanupExpired
<1>5. CASE RemoveOffer
  BY <1>0, <1>3, <1>5, PollerStays, OfferGoes
<1>6. CASE UNCHANGED <<offer, usage, history>> /\ ~Applies(w)
  <2>1. job'[w].row.pk = 0
    BY <1>2, <1>3, <1>6 DEF NoRow
  <2>2. Len(orders') \in Nat /\ Len(orders') >= Len(orders)
    BY <1>0 DEF Typed, TypeOK
  <2>3. QED
    BY <1>0, <1>3, <1>6, <2>1, <2>2, PollerStays, OfferStays
<1>7. CASE UNCHANGED <<offer, usage, history>> /\ Applies(w)
  <2>o. Offer' = Offer
    BY <1>0 DEF Offer
  <2>1. Logged'
    BY <1>0, <1>3, <1>7 DEF OfferInv, Logged
  <2>2. Remains'
    <3>1. ASSUME ~history.removed, NEW v \in Workers, job'[v].pc = "commit"
          PROVE  job'[v].row.pk \in {0, 1}
      BY <1>2, <1>3, <1>7, <3>1, AppliesWithinLimits DEF OfferInv, Remains
    <3>2. QED
      BY <1>3, <1>7, <3>1 DEF OfferInv, Remains
  <2>3. WithinLimit'
    <3>1. ASSUME ~history.removed, Offer.maxPerUser > 0, NEW v \in Workers,
                 job'[v].pc = "commit", job'[v].row.pk # 0
          PROVE  Cardinality(UsesOf(job'[v].user)) < Offer.maxPerUser
      BY <1>2, <1>3, <1>7, <3>1, AppliesWithinLimits DEF OfferInv, WithinLimit, Redeems
    <3>2. ASSUME ~history.removed, Offer.maxPerUser > 0, NEW u \in Users
          PROVE  Cardinality(UsesOf(u)) <= Offer.maxPerUser
      BY <3>2 DEF OfferInv, WithinLimit
    <3>3. \A u : UsesOf(u)' = UsesOf(u)
      BY <1>7 DEF UsesOf
    <3>4. QED
      BY <1>7, <2>o, <3>1, <3>2, <3>3 DEF WithinLimit, Redeems, UsesOf
  <2>4. Counted'
    <3> SUFFICES ASSUME ~history.removed, ~history.overwritten
                 PROVE  /\ offer.count = Cardinality(usage)
                        /\ Offer.max > 0 => Cardinality(usage) + Cardinality(RedeemersNext)
                                              < Offer.max + Cardinality(Users)
      BY <1>7, <2>o, RedeemersPrimed DEF Counted
    <3>1. offer.count = Cardinality(usage)
      BY DEF OfferInv, Counted
    <3>2. Offer.max > 0 => offer.count < Offer.max
      BY <1>7, AppliesWithinLimits
    <3>3. RedeemersNext \subseteq Users
      BY DEF RedeemersNext
    <3>4. Cardinality(RedeemersNext) <= Cardinality(Users) /\ Cardinality(RedeemersNext) \in Nat
      BY <3>3, UsersAssumption, FS_Subset, FS_CardinalityType
    <3>5. QED
      BY <3>1, <3>2, <3>4, UsageSizes DEF OfferInv
  <2>5. QED
    BY <2>1, <2>2, <2>3, <2>4 DEF OfferInv
<1>8. QED
  BY <1>4, <1>5, <1>6, <1>7

\* The customer of a commit holds no other redemption: one pending becomes one made.
LEMMA CommitRedeemers ==
  ASSUME Typed, Logged, NEW w \in Workers, Redeems(w), Moves(w, Idle)
  PROVE  /\ Cardinality(RedeemersNext) \in Nat
         /\ Cardinality(RedeemersNext) + 1 = Cardinality(Redeemers)
<1> DEFINE u == job[w].user
<1>1. job[w].pc = "commit" /\ u \in Users
  BY CheckoutAmounts DEF Redeems
<1>2. job'[w] = Idle /\ \A v \in Workers \ {w} : job'[v] = job[v]
  BY WorkerMoves
<1>3. \A v \in Workers \ {w} : job[v].pc = "commit" => job[v].user # u
  BY <1>1 DEF Typed, Held
<1>4. u \in Redeemers
  BY <1>1 DEF Redeemers
<1> HIDE DEF u
<1>5. RedeemersNext = Redeemers \ {u}
  <2>1. ASSUME NEW v \in RedeemersNext
        PROVE  v \in Redeemers /\ v # u
    <3>1. PICK k \in Workers : job'[k].user = v /\ job'[k].pc = "commit" /\ job'[k].row.pk # 0
      BY DEF RedeemersNext
    <3>2. k # w /\ job'[k] = job[k]
      BY <1>2, <3>1, IdleRedeemsNothing
    <3>3. QED
      BY <1>3, <3>1, <3>2 DEF Redeemers, Redeems, RedeemersNext
  <2>2. ASSUME NEW v \in Redeemers, v # u
        PROVE  v \in RedeemersNext
    <3>1. PICK k \in Workers : job[k].user = v /\ Redeems(k)
      BY DEF Redeemers
    <3>2. k # w /\ job'[k] = job[k]
      BY <1>2, <2>2, <3>1 DEF u
    <3>3. QED
      BY <3>1, <3>2 DEF Redeemers, Redeems, RedeemersNext
  <2>3. QED
    BY <2>1, <2>2
<1>6. IsFiniteSet(Redeemers) /\ Cardinality(Redeemers) \in Nat
  BY UsageSizes
<1>7. IsFiniteSet(RedeemersNext) /\ Cardinality(RedeemersNext) = Cardinality(Redeemers) - 1
  BY <1>4, <1>5, <1>6, FS_RemoveElement
<1>8. Cardinality(RedeemersNext) \in Nat
  BY <1>7, FS_CardinalityType
<1>9. QED
  BY <1>6, <1>7, <1>8

UsesNext(u) == {x \in usage' : x.user = u}

LEMMA CommitOffer ==
  ASSUME Typed, OfferInv, NEW w \in Workers, CheckoutCommit(w)
  PROVE  OfferInv'
<1> DEFINE n == Len(orders)
           u == job[w].user
           row == job[w].row
<1>1. /\ job[w].pc = "commit" /\ Moves(w, Idle) /\ UNCHANGED <<scene, history>>
      /\ CountUsage(u, row, n + 1) /\ orders' = Append(orders, Placed(w))
  BY Commits DEF Finish, Moves
<1>2. n \in Nat /\ Len(orders') = n + 1
  BY <1>1 DEF Typed, TypeOK
<1>3. /\ job'[Poller] = job[Poller] /\ job'[w] = Idle
      /\ \A v \in Workers \ {w} : job'[v] = job[v]
  BY <1>1, WorkerMoves
<1> HIDE DEF n, u, row
<1>4. CASE row.pk = 0 \/ row.pk # offer.pk
  <2>1. UNCHANGED <<offer, usage>>
    BY <1>1, <1>4 DEF CountUsage
  <2>2. Len(orders') \in Nat /\ Len(orders') >= Len(orders)
    BY <1>2 DEF n
  <2>3. QED
    BY <1>1, <1>3, <2>1, <2>2, IdleRedeemsNothing, PollerStays, OfferStays
<1>5. CASE row.pk # 0 /\ row.pk = offer.pk
  <2> DEFINE x == [pk |-> offer.pk, user |-> u, order |-> n + 1]
  <2>1. offer' = [offer EXCEPT !.count = @ + 1] /\ usage' = usage \cup {x}
    BY <1>1, <1>5 DEF CountUsage
  <2>2. x.pk = offer.pk /\ x.user = u /\ x.order = n + 1
    OBVIOUS
  <2> HIDE DEF x
  <2>3. offer'.count = offer.count + 1 /\ offer'.pk = offer.pk
    BY <2>1 DEF Typed, TypeOK, OfferRow
  <2>4. /\ \A y \in usage : y.order \in Int /\ y.order <= n
        /\ x \notin usage
    <3>1. \A y \in usage : y.order \in Int /\ y.order <= n
      BY DEF OfferInv, Logged, Typed, TypeOK, n
    <3>2. QED
      BY <1>2, <2>2, <3>1
  <2>5. /\ IsFiniteSet(usage') /\ Cardinality(usage') = Cardinality(usage) + 1
        /\ Cardinality(usage) \in Nat
    <3>1. IsFiniteSet(usage)
      BY DEF OfferInv, Logged
    <3>2. QED
      BY <2>1, <2>4, <3>1, FS_AddElement, FS_CardinalityType
  <2>o. Offer' = Offer
    BY <1>1 DEF Offer
  <2>6. Logged'
    <3>1. \A y \in usage' : y.order <= Len(orders')
      BY <1>2, <2>1, <2>2, <2>4
    <3>2. \A y, z \in usage' : y.order = z.order => y = z
      <4>1. \A y, z \in usage : y.order = z.order => y = z
        BY DEF OfferInv, Logged
      <4>2. \A y \in usage : y.order # x.order
        BY <1>2, <2>2, <2>4
      <4>3. QED
        BY <2>1, <4>1, <4>2
    <3>3. offer'.count <= Cardinality(usage')
      BY <2>3, <2>5, UsageSizes DEF OfferInv, Logged
    <3>4. job'[Poller].row.count <= Cardinality(usage')
      <4>1. job[Poller].row.count \in Nat /\ job[Poller].row.count <= Cardinality(usage)
        BY ThreadsApart DEF OfferInv, Logged, Typed, TypeOK, JobState, OfferRow
      <4>2. QED
        BY <1>3, <2>5, <4>1
    <3>5. QED
      BY <2>5, <3>1, <3>2, <3>3, <3>4 DEF Logged
  <2>7. Remains'
    BY <1>1, <1>3, <2>1, <2>2, <2>3, IdleRedeemsNothing DEF OfferInv, Remains
  <2>8. WithinLimit'
    <3> SUFFICES ASSUME ~history.removed, Offer.maxPerUser > 0
                 PROVE  /\ \A v \in Users : Cardinality(UsesNext(v)) <= Offer.maxPerUser
                        /\ \A k \in Workers : job'[k].pc = "commit" /\ job'[k].row.pk # 0
                             => Cardinality(UsesNext(job'[k].user)) < Offer.maxPerUser
      BY <1>1, <2>o DEF WithinLimit, Redeems, UsesOf, UsesNext
    <3>1. \A v : v # u => UsesNext(v) = UsesOf(v)
      BY <2>1, <2>2 DEF UsesOf, UsesNext
    <3>2. UsesNext(u) = UsesOf(u) \cup {x} /\ x \notin UsesOf(u)
      BY <2>1, <2>2, <2>4 DEF UsesOf, UsesNext
    <3>3. Cardinality(UsesNext(u)) = Cardinality(UsesOf(u)) + 1
      BY <3>2, UsageSizes, FS_AddElement DEF OfferInv
    <3>4. Cardinality(UsesOf(u)) < Offer.maxPerUser
      BY <1>1, <1>5 DEF OfferInv, WithinLimit, Redeems, u, row
    <3>5. \A v \in Users : Cardinality(UsesNext(v)) <= Offer.maxPerUser
      <4>1. Cardinality(UsesNext(u)) <= Offer.maxPerUser
        BY <3>3, <3>4, UsageSizes DEF OfferInv
      <4>2. QED
        BY <3>1, <4>1 DEF OfferInv, WithinLimit
    <3>6. ASSUME NEW k \in Workers, job'[k].pc = "commit", job'[k].row.pk # 0
          PROVE  Cardinality(UsesNext(job'[k].user)) < Offer.maxPerUser
      <4>1. k # w /\ job'[k] = job[k]
        BY <1>3, <3>6, IdleRedeemsNothing
      <4>2. job[k].user # u
        BY <1>1, <3>6, <4>1 DEF Typed, Held, u
      <4>3. QED
        BY <3>1, <3>6, <4>1, <4>2 DEF OfferInv, WithinLimit, Redeems
    <3>7. QED
      BY <3>5, <3>6
  <2>9. Counted'
    <3> SUFFICES ASSUME ~history.removed, ~history.overwritten
                 PROVE  /\ offer'.count = Cardinality(usage')
                        /\ Offer.max > 0 => Cardinality(usage') + Cardinality(RedeemersNext)
                                              < Offer.max + Cardinality(Users)
      BY <1>1, <2>o, RedeemersPrimed DEF Counted
    <3>1. /\ offer.count = Cardinality(usage)
          /\ Offer.max > 0 => Cardinality(usage) + Cardinality(Redeemers)
                                < Offer.max + Cardinality(Users)
      BY DEF OfferInv, Counted
    <3>2. Redeems(w)
      BY <1>1, <1>5 DEF Redeems, row
    <3>3. /\ Cardinality(RedeemersNext) \in Nat
          /\ Cardinality(RedeemersNext) + 1 = Cardinality(Redeemers)
      BY <1>1, <3>2, CommitRedeemers DEF OfferInv
    <3>4. QED
      BY <2>3, <2>5, <3>1, <3>3, UsageSizes DEF OfferInv
  <2>10. QED
    BY <2>6, <2>7, <2>8, <2>9 DEF OfferInv
<1>6. QED
  BY <1>4, <1>5

\* The poll.
LEMMA PollOffer ==
  ASSUME Typed, OfferInv, EditZoho \/ Poll \/ Tick
  PROVE  OfferInv'
<1>1. UNCHANGED <<orders, scene>> /\ \A w \in Workers : job'[w] = job[w]
  <2>1. UNCHANGED scene
    BY DEF EditZoho, Tick, Poll, PollFetch, PollInactive, PollRow, PollSave, PollEnd
  <2>2. QED
    BY <2>1, PollApart
<1>2. Len(orders') \in Nat /\ Len(orders') >= Len(orders)
  BY <1>1 DEF Typed, TypeOK
<1>3. Cardinality(usage) \in Nat
  BY UsageSizes DEF OfferInv
<1>4. CASE EditZoho \/ Tick
  BY <1>4, SameOffer DEF EditZoho, Tick, offerVars
<1>5. CASE PollFetch
  <2>1. PICK fetched \in BOOLEAN :
          job' = [job EXCEPT ![Poller] =
                    [Idle EXCEPT !.pc = IF fetched THEN "poll_row" ELSE "poll_end",
                                 !.live = fetched, !.named = zoho]]
    BY <1>5 DEF PollFetch
  <2>2. job'[Poller].row.count = 0 /\ job'[Poller].pc # "poll_save"
    BY <2>1, ThreadsApart DEF Typed, TypeOK, Idle, NoRow
  <2>3. PollerHolds(job'[Poller].row, job'[Poller].pc)
    BY <1>3, <2>2 DEF PollerHolds
  <2>4. UNCHANGED <<offer, usage, history>>
    BY <1>5 DEF PollFetch, offerVars
  <2>5. QED
    BY <1>1, <1>2, <2>3, <2>4, OfferStays
<1>6. CASE PollInactive
  <2>1. job'[Poller].row = job[Poller].row
    BY <1>6, ThreadsApart DEF PollInactive, Typed, TypeOK
  <2>2. QED
    BY <1>1, <1>6, <2>1, OfferGoes DEF PollInactive
<1>7. CASE PollRow
  <2>1. job' = [job EXCEPT ![Poller].pc = "poll_save", ![Poller].row = offer']
        /\ UNCHANGED <<usage, history>>
    BY <1>7 DEF PollRow
  <2>2. job'[Poller].row = offer' /\ job'[Poller].pc = "poll_save"
    BY <2>1, ThreadsApart DEF Typed, TypeOK
  <2>3. CASE offer.pk # 0
    <3>1. offer' = offer
      BY <1>7, <2>3 DEF PollRow
    <3>2. PollerHolds(job'[Poller].row, job'[Poller].pc)
      BY <2>2, <3>1 DEF PollerHolds, OfferInv, Logged, Remains
    <3>3. QED
      BY <1>1, <1>2, <2>1, <3>1, <3>2, OfferStays
  <2>4. CASE offer.pk = 0
    <3>1. history'.removed
      BY <2>1, <2>4 DEF OfferInv, Remains, Typed, TypeOK
    <3>2. offer'.count = 0
      BY <1>7, <2>4 DEF PollRow
    <3>3. Logged'
      BY <1>1, <1>3, <2>1, <2>2, <3>2 DEF OfferInv, Logged
    <3>4. Remains' /\ WithinLimit' /\ Counted'
      BY <3>1 DEF Remains, WithinLimit, Counted
    <3>5. QED
      BY <3>3, <3>4 DEF OfferInv
  <2>5. QED
    BY <2>3, <2>4
<1>8. CASE PollSave
  <2>1. /\ job[Poller].pc = "poll_save" /\ offer' = job[Poller].row
        /\ history' = [history EXCEPT !.overwritten = @ \/ offer # job[Poller].row]
        /\ job' = [job EXCEPT ![Poller].pc = "poll_end"] /\ UNCHANGED usage
    BY <1>8 DEF PollSave
  <2>2. job'[Poller].row = job[Poller].row /\ job'[Poller].pc = "poll_end"
    BY <2>1, ThreadsApart DEF Typed, TypeOK
  <2>3. /\ history'.removed = history.removed
        /\ history'.overwritten = (history.overwritten \/ offer # offer')
    BY <2>1 DEF Typed, TypeOK
  <2>4. CASE offer' = offer
    <3>1. PollerHolds(job'[Poller].row, job'[Poller].pc)
      BY <2>2 DEF PollerHolds, OfferInv, Logged
    <3>2. history'.overwritten = history.overwritten
      BY <2>3, <2>4 DEF Typed, TypeOK
    <3>3. QED
      BY <1>1, <1>2, <2>1, <2>3, <2>4, <3>1, <3>2, OfferStays
  <2>5. CASE offer' # offer
    <3>1. Logged'
      BY <1>1, <2>1, <2>2 DEF OfferInv, Logged
    <3>2. Remains'
      BY <1>1, <2>1, <2>2, <2>3 DEF OfferInv, Remains
    <3>3. WithinLimit'
      BY <1>1, <2>1, <2>3 DEF OfferInv, WithinLimit, UsesOf, Redeems, Offer
    <3>4. Counted'
      BY <2>3, <2>5 DEF Counted
    <3>5. QED
      BY <3>1, <3>2, <3>3, <3>4 DEF OfferInv
  <2>6. QED
    BY <2>4, <2>5
<1>9. CASE PollEnd
  <2>1. job'[Poller] = Idle
    BY <1>9, ThreadsApart DEF PollEnd, Finish, Typed, TypeOK
  <2>2. job'[Poller].row.count = 0 /\ job'[Poller].pc # "poll_save"
    BY <2>1, IdleRedeemsNothing
  <2>3. CASE RemoveOffer
    BY <1>1, <2>2, <2>3, OfferGoes
  <2>4. CASE UNCHANGED <<offer, usage, history>>
    <3>1. PollerHolds(job'[Poller].row, job'[Poller].pc)
      BY <1>3, <2>2 DEF PollerHolds
    <3>2. QED
      BY <1>1, <1>2, <2>4, <3>1, OfferStays
  <2>5. QED
    BY <1>9, <2>3, <2>4 DEF PollEnd
<1>10. QED
  BY <1>4, <1>5, <1>6, <1>7, <1>8, <1>9 DEF Poll

\* Points and their coupons do not touch the offer.
LEMMA PointsOffer ==
  ASSUME Typed, OfferInv,
         \/ \E u \in scene.users : IssueCoupon(u) \/ PurgeCoupons(u)
         \/ \E i \in DOMAIN orders : CancelOrder(i)
  PROVE  OfferInv'
<1>1. ASSUME NEW u \in scene.users, IssueCoupon(u)
      PROVE  OfferInv'
  <2>1. /\ history'.removed = history.removed
        /\ history'.overwritten = history.overwritten
    BY <1>1 DEF IssueCoupon, Typed, TypeOK
  <2>2. UNCHANGED <<offer, usage, scene, job, orders>>
    BY <1>1 DEF IssueCoupon, offerVars
  <2>3. QED
    BY <2>1, <2>2, SameOffer
<1>2. ASSUME NEW u \in scene.users, PurgeCoupons(u)
      PROVE  OfferInv'
  BY <1>2, SameOffer DEF PurgeCoupons, offerVars
<1>3. ASSUME NEW i \in DOMAIN orders, CancelOrder(i)
      PROVE  OfferInv'
  <2>1. /\ history'.removed = history.removed
        /\ history'.overwritten = history.overwritten
    BY <1>3 DEF CancelOrder, Typed, TypeOK
  <2>2. UNCHANGED <<offer, usage, scene, job>>
    BY <1>3 DEF CancelOrder, offerVars
  <2>3. Len(orders') = Len(orders)
    <3>1. orders' = [orders EXCEPT ![i].open = FALSE] /\ orders \in Seq(OrderRow)
      BY <1>3 DEF CancelOrder, Typed, TypeOK
    <3>2. QED
      BY <3>1
  <2>4. QED
    BY <2>1, <2>2, <2>3, SameOffer
<1>4. QED
  BY <1>1, <1>2, <1>3

LEMMA OfferInvKept == Typed /\ OfferInv /\ [Next]_vars => OfferInv'
<1> SUFFICES ASSUME Typed, OfferInv, [Next]_vars PROVE OfferInv'
  OBVIOUS
<1>1. CASE UNCHANGED vars
  BY <1>1, SameOffer DEF vars
<1>2. CASE Next
  BY <1>2, CartActsOffer, ReadOffer, RefusedOffer, LockOffer, CommitOffer, DiesOffer,
     PollOffer, PointsOffer DEF Next, CartActs
<1>3. QED
  BY <1>1, <1>2

LEMMA OfferInvAlways == Spec => []OfferInv
<1>1. Init => OfferInv
  <2> SUFFICES ASSUME Init PROVE OfferInv
    OBVIOUS
  <2>1. /\ offer.pk = 1 /\ offer.count = 0 /\ usage = {} /\ scene \in Scenes
        /\ history.removed = FALSE /\ history.overwritten = FALSE
    BY DEF Init
  <2>2. \A t \in Threads : job[t] = Idle
    BY DEF Init
  <2>3. IsFiniteSet({}) /\ Cardinality({}) = 0
    BY FS_EmptySet
  <2>4. /\ job[Poller].row.count = 0 /\ job[Poller].pc = "idle"
        /\ \A w \in Workers : job[w].pc = "idle"
    BY <2>2, ThreadsApart, IdleRedeemsNothing
  <2>5. (\A u : UsesOf(u) = {}) /\ Redeemers = {}
    BY <2>1, <2>4 DEF UsesOf, Redeemers, Redeems
  <2>6. Logged /\ Remains
    BY <2>1, <2>3, <2>4 DEF Logged, Remains
  <2>7. WithinLimit
    BY <2>1, <2>3, <2>4, <2>5, OfferTyped DEF WithinLimit, Redeems
  <2>8. Counted
    <3>1. Offer.max \in Nat /\ Cardinality(Users) \in Nat
      BY <2>1, OfferTyped, UsersAssumption, FS_CardinalityType
    <3>2. QED
      BY <2>1, <2>3, <2>5, <3>1 DEF Counted
  <2>9. QED
    BY <2>6, <2>7, <2>8 DEF OfferInv
<1>2. QED
  BY <1>1, OfferInvKept, CheckoutTyped, PTL DEF Spec

\* A loyalty coupon pays for one order and is gone then; nobody redeems an offer more
\* often than its limit per user while the poll removes no row.
THEOREM CouponsAreLimited == Spec => []CouponLimits
<1>1. Coded /\ OfferInv => CouponLimits
  BY DEF Coded, OfferInv, WithinLimit, UsesOf, CouponLimits
<1>2. QED
  BY <1>1, CodedAlways, OfferInvAlways, PTL

\* The counter of the offer never exceeds its redemptions, and these exceed the limit
\* by less than the number of customers.
THEOREM RedemptionsAreCounted == Spec => []RedemptionsCounted
<1>1. Typed /\ OfferInv => RedemptionsCounted
  <2> SUFFICES ASSUME Typed, OfferInv PROVE RedemptionsCounted
    OBVIOUS
  <2>1. /\ Cardinality(usage) \in Nat /\ Cardinality(Redeemers) \in Nat
        /\ Cardinality(Users) \in Nat /\ Offer.max \in Nat
    BY UsageSizes DEF OfferInv
  <2>2. QED
    BY <2>1 DEF OfferInv, Logged, Counted, RedemptionsCounted
<1>2. QED
  BY <1>1, CheckoutTyped, OfferInvAlways, PTL
====
