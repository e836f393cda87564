------------------------------ MODULE Catalog ------------------------------
(***************************************************************************)
(* The local product rows of a store.  The command sync_zoho_products      *)
(* copies Zoho's list, page by page, each page in one transaction; a       *)
(* customer who puts an item into the cart or on the wishlist creates or   *)
(* refreshes its row, without one.  A row is saved as a whole, from an     *)
(* object that was read before: what was written in between is lost.  The  *)
(* line that then goes into the cart is an action of Checkout.             *)
(***************************************************************************)
EXTENDS Naturals, Sequences, FiniteSets

CONSTANTS
  Workers,      \* request threads and runs of the command
  Items,        \* 1..n: what Zoho sells, in the order of the names
  MaxPrice,     \* prices are 1..MaxPrice, 0 where Zoho gives none
  Unstorable,   \* items the database refuses: an SKU or a price is too long
  PerPage,
  Shops,        \* what happens in a run: "sync", "cart", "wish", "change"
  MaxRows, MaxChanges   \* bounds

ASSUME ItemsAssumption == IsFiniteSet(Items) /\ Items = 1..Cardinality(Items)
ASSUME BoundsAssumption == {MaxPrice, MaxRows, MaxChanges} \subseteq Nat /\ PerPage \in Nat \ {0}

VARIABLES
  shop,
  zoho,      \* [Items -> what Zoho Commerce says]
  had,       \* [Items -> prices it had: a cached detail may still give them]
  changes,
  products,  \* the rows, in the order of their creation
  task,      \* [Workers -> what it is doing]
  raced      \* items that two of them found missing at the same time

catalogVars == <<shop, zoho, had, changes, products, task, raced>>
storeVars == <<shop, zoho, had, changes>>

Prices == 0..MaxPrice
None == 0

\* A slug is made from the name, of an item or of the item and its id.
Slugs == [kind: {"name", "id", "store", "last"}, item: Items, n: 0..MaxRows]

Row == [item: Items, price: Prices, active: BOOLEAN, slug: Slugs]
NoSlug == [kind |-> "name", item |-> 1, n |-> 0]
NoRow == [item |-> 1, price |-> 0, active |-> FALSE, slug |-> NoSlug]

\* batch: the rows of the page, or the payload of the one item;
\* id: of each, the row that was read, None if there was none; object: that row.
Free == [step |-> "free", for |-> "sync", page |-> 0, batch |-> <<>>, more |-> FALSE,
         id |-> <<>>, object |-> <<>>, touched |-> {}, left |-> FALSE]

CatalogInit ==
  /\ shop \in Shops
  /\ zoho \in [Items -> [price: Prices \ {0}, state: {"active"}]]
  /\ had = [i \in Items |-> {zoho[i].price}]
  /\ changes = 0
  /\ products = <<>>
  /\ task = [w \in Workers |-> Free]
  /\ raced = {}

RowsOf(i) == {r \in DOMAIN products : products[r].item = i}
InUse(slug) == {r \in DOMAIN products : products[r].slug = slug}

\* filter_by=Status.Active, sorted by name
Listed == {i \in Items : zoho[i].state # "inactive"}
Position(i) == Cardinality({j \in Listed : j <= i})
OnPage(n) == {i \in Listed : (n - 1) * PerPage < Position(i) /\ Position(i) <= n * PerPage}
InOrder(S) == [k \in 1..Cardinality(S) |-> CHOOSE i \in S : Cardinality({j \in S : j <= i}) = k]

Working(w, step) == task[w].step = step

\* Some other worker looked for the item in vain, too.
Racing(w, i) ==
  \E v \in Workers \ {w} : \E k \in DOMAIN task[v].id :
    task[v].id[k] = None /\ task[v].batch[k].item = i

\* Items that are changed, in Zoho or here, while a sync runs.
Touch(t, S) == [w \in Workers |-> IF t[w].for = "sync" /\ t[w].step # "free"
                                  THEN [t[w] EXCEPT !.touched = @ \cup S] ELSE t[w]]

-----------------------------------------------------------------------------
(***************************************************************************)
(* sync_store_from_zoho                                                    *)
(***************************************************************************)
StartSync(w) ==
  /\ "sync" \in shop /\ Working(w, "free")
  /\ task' = [task EXCEPT ![w] = [Free EXCEPT !.step = "page", !.page = 1]]
  /\ UNCHANGED <<storeVars, products, raced>>

FetchPage(w) ==
  /\ Working(w, "page")
  /\ LET batch == InOrder(OnPage(task[w].page)) IN
     task' = [task EXCEPT ![w] =
       [@ EXCEPT !.step = "read",
                 !.batch = [k \in DOMAIN batch |->
                              [item |-> batch[k], price |-> zoho[batch[k]].price,
                               active |-> zoho[batch[k]].state = "active"]],
                 !.more = OnPage(task[w].page + 1) # {}]]
  /\ UNCHANGED <<storeVars, products, raced>>

\* The call fails and the command with it.
FetchFails(w) ==
  /\ Working(w, "page")
  /\ task' = [task EXCEPT ![w] = Free]
  /\ UNCHANGED <<storeVars, products, raced>>

\* first() of the rows of an item; which one is not determined.
Find(w, rows) ==
  LET batch == task[w].batch IN
  \E id \in [DOMAIN batch -> rows \cup {None}] :
    /\ \A k \in DOMAIN batch :
         IF RowsOf(batch[k].item) \cap rows = {} THEN id[k] = None
         ELSE id[k] \in RowsOf(batch[k].item)
    /\ task' = [task EXCEPT ![w].id = id, ![w].step = "save",
                  ![w].object = [k \in DOMAIN batch |-> IF id[k] = None THEN NoRow
                                                        ELSE products[id[k]]]]
    /\ raced' = raced \cup {batch[k].item : k \in {j \in DOMAIN batch :
                                             id[j] = None /\ Racing(w, batch[j].item)}}

\* Wrong: only rows that are on sale are found.
ReadActive(w) ==
  /\ Working(w, "read") /\ Find(w, {r \in DOMAIN products : products[r].active})
  /\ UNCHANGED <<storeVars, products>>

Read(w) ==
  /\ Working(w, "read") /\ Find(w, DOMAIN products)
  /\ UNCHANGED <<storeVars, products>>

\* _resolve_unique_slug: the last resort is not checked.
SyncSlug(i, id) ==
  LET Of(kind) == [kind |-> kind, item |-> i, n |-> 0] IN
  IF InUse(Of("id")) \subseteq {id} THEN Of("id")
  ELSE IF InUse(Of("store")) \subseteq {id} THEN Of("store") ELSE Of("last")

\* Of a batch, the rows to be and where they go: a row that was found is written as a
\* whole when the object differs, one that was not is added.
Additions(t) == {k \in DOMAIN t.batch : t.id[k] = None}
NewRow(t, k) ==
  [item |-> t.batch[k].item, price |-> t.batch[k].price, active |-> t.batch[k].active,
   slug |-> SyncSlug(t.batch[k].item, t.id[k])]
\* Wrong: a row that was found is left as it is.
SavedNew(t) ==
  products
  \o [n \in 1..Cardinality(Additions(t)) |->
        NewRow(t, CHOOSE k \in Additions(t) :
                    Cardinality({j \in Additions(t) : j <= k}) = n)]

Saved(t) ==
  LET Put(r) == {k \in DOMAIN t.batch : t.id[k] = r /\ t.object[k] # NewRow(t, k)} IN
  [r \in DOMAIN products |->
     IF Put(r) = {} THEN products[r] ELSE NewRow(t, CHOOSE k \in Put(r) : TRUE)]
  \o [n \in 1..Cardinality(Additions(t)) |->
        NewRow(t, CHOOSE k \in Additions(t) :
                    Cardinality({j \in Additions(t) : j <= k}) = n)]

Distinct(rows) == \A r, s \in DOMAIN rows : rows[r].slug = rows[s].slug => r = s

\* A row that cannot be stored is caught and counted, but takes the page with it.
SavePage(w) ==
  LET t == task[w]
      items == {t.batch[k].item : k \in DOMAIN t.batch}
      rows == Saved(t)
      good == items \cap Unstorable = {} /\ Distinct(rows) IN
  /\ Working(w, "save") /\ t.for = "sync"
  /\ Len(rows) <= MaxRows
  /\ products' = IF good THEN rows ELSE products
  /\ task' = [Touch([task EXCEPT ![w] = Free], IF good THEN items ELSE {}) EXCEPT ![w] =
                [t EXCEPT !.step = IF t.more THEN "page" ELSE "done", !.page = @ + 1,
                          !.batch = <<>>, !.id = <<>>, !.object = <<>>,
                          !.touched = IF good THEN @ ELSE @ \cup items]]
  /\ UNCHANGED <<storeVars, raced>>

EndSync(w) ==
  /\ Working(w, "done")
  /\ task' = [task EXCEPT ![w] = Free]
  /\ UNCHANGED <<storeVars, products, raced>>

-----------------------------------------------------------------------------
(***************************************************************************)
(* Customers.                                                              *)
(***************************************************************************)
\* The detail may come from the cache.
AskDetail(w, for, i) ==
  /\ for \in shop
  /\ Working(w, "free")
  /\ \E price \in had[i] :
       task' = [task EXCEPT ![w] =
         [Free EXCEPT !.step = "read", !.for = for,
                      !.batch = <<[item |-> i, price |-> price, active |-> TRUE]>>]]
  /\ UNCHANGED <<storeVars, products, raced>>

\* _perform_cart_add_zoho_product: only when no row on sale gives a price.
AskForCart(w, i) ==
  /\ \E r \in RowsOf(i) \cup {None} :
       IF r = None THEN \A s \in RowsOf(i) : ~products[s].active
       ELSE products[r].active /\ products[r].price = 0
  /\ AskDetail(w, "cart", i)

\* WishlistListCreate.post: "source-of-truth", whatever the row says.
AskForWishlist(w, i) == AskDetail(w, "wish", i)

\* The first free slug of the name, looked up after the row was.
ChooseSlug(w) ==
  LET i == task[w].batch[1].item
      Of(n) == [kind |-> "name", item |-> i, n |-> n] IN
  /\ Working(w, "save") /\ task[w].for # "sync"
  /\ task[w].id[1] = None /\ task[w].object[1] = NoRow
  /\ \E n \in 1..MaxRows :
       /\ InUse(Of(n)) = {} /\ \A m \in 1..n - 1 : InUse(Of(m)) # {}
       /\ task' = [task EXCEPT ![w].object[1] = [item |-> i, price |-> 0, active |-> TRUE,
                                                 slug |-> Of(n)]]
  /\ UNCHANGED <<storeVars, products, raced>>

\* _upsert_local_product_from_zoho: a price is kept when the payload has none; the item is
\* on sale from now on.
SaveDetail(w) ==
  LET t == task[w]  i == t.batch[1].item
      price == IF t.batch[1].price = 0 THEN t.object[1].price ELSE t.batch[1].price
      row == [t.object[1] EXCEPT !.price = price, !.active = TRUE]
      at == IF t.id[1] = None THEN Len(products) + 1 ELSE t.id[1]
      taken == InUse(row.slug) \ {at} # {} \/ i \in Unstorable IN
  /\ Working(w, "save") /\ t.for # "sync" /\ t.object[1] # NoRow
  /\ at <= MaxRows
  /\ products' = IF taken THEN products
                 ELSE [r \in DOMAIN products \cup {at} |-> IF r = at THEN row ELSE products[r]]
  /\ task' = Touch([task EXCEPT ![w] = Free], IF taken THEN {} ELSE {i})
  /\ UNCHANGED <<storeVars, raced>>

-----------------------------------------------------------------------------
\* Zoho's own staff.
ChangeItem(i, price, state) ==
  /\ "change" \in shop /\ changes < MaxChanges
  /\ zoho[i] # [price |-> price, state |-> state]
  /\ changes' = changes + 1
  /\ zoho' = [zoho EXCEPT ![i] = [price |-> price, state |-> state]]
  /\ had' = [had EXCEPT ![i] = @ \cup {price}]
  /\ task' = [w \in Workers |->
                IF task[w].step # "free" /\ state = "inactive" /\ i \in Listed
                THEN [Touch(task, {i})[w] EXCEPT !.left = task[w].for = "sync"]
                ELSE Touch(task, {i})[w]]
  /\ UNCHANGED <<shop, products, raced>>

CatalogNext ==
  \/ \E w \in Workers :
       \/ StartSync(w) \/ FetchPage(w) \/ FetchFails(w) \/ Read(w) \/ SavePage(w) \/ EndSync(w)
       \/ \E i \in Items : AskForCart(w, i) \/ AskForWishlist(w, i)
       \/ ChooseSlug(w) \/ SaveDetail(w)
  \/ \E i \in Items, price \in Prices, state \in {"active", "hidden", "inactive"} :
       ChangeItem(i, price, state)

CatalogSpec == CatalogInit /\ [][CatalogNext]_catalogVars

-----------------------------------------------------------------------------
\* A sync that finished has brought every item of Zoho's list up to date, except for items
\* that changed meanwhile, whose page was refused, or that a page missed because another
\* item left the list.
SyncBringsUpToDate ==
  \A w \in Workers, i \in Listed :
    Working(w, "done") /\ ~task[w].left /\ i \notin task[w].touched =>
      \E r \in RowsOf(i) : /\ products[r].price = zoho[i].price
                           /\ products[r].active = (zoho[i].state = "active")

\* An item has a second row only if two workers found it missing at the same time.
OneRowUnlessRaced ==
  \A i \in Items \ raced : Cardinality(RowsOf(i)) <= 1
=============================================================================
