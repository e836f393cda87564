------------------------- MODULE Storefront_proofs -------------------------
(***************************************************************************)
(* What the storefront shows and charges.  The catalogue and the caches in *)
(* front of it: OneRowUnlessRaced and SyncBringsUpToDate for any items,    *)
(* pages and workers, and ShownIsRecent for any lifetimes of the three     *)
(* cache layers, any number of concurrent requests and any bound on the    *)
(* time a request takes.  The amounts of an order: the four properties of  *)
(* OrderAmounts for any cart, prices, offers, loyalty amounts, zones, fees *)
(* and rate of VAT.                                                        *)
(***************************************************************************)
EXTENDS OrderAmounts, Sums, Catalog, ZohoReads, FiniteSetTheorems, SequenceTheorems, TLAPS

(***************************************************************************)
(* Ranks: how InOrder and Saved number the elements of a finite set.       *)
(***************************************************************************)
Rank(S, i) == Cardinality({j \in S : j <= i})

Nth(S, n) == CHOOSE i \in S : Cardinality({j \in S : j <= i}) = n

LEMMA RankBounds ==
  ASSUME NEW S, IsFiniteSet(S), S \subseteq Nat, NEW i \in S
  PROVE  Rank(S, i) \in 1..Cardinality(S)
<1> DEFINE T == {j \in S : j <= i}
<1>1. /\ IsFiniteSet(T) /\ Cardinality(T) <= Cardinality(S)
      /\ Cardinality(T) \in Nat /\ Cardinality(S) \in Nat
  <2>1. T \in SUBSET S
    OBVIOUS
  <2>2. QED
    BY <2>1, FS_Subset, FS_CardinalityType
<1>2. i \in T
  BY i \in Nat
<1>3. Cardinality(T) # 0
  BY <1>1, <1>2, FS_EmptySet
<1>4. QED
  BY <1>1, <1>3 DEF Rank

LEMMA RankGrows ==
  ASSUME NEW S, IsFiniteSet(S), S \subseteq Nat, NEW i \in S, NEW k \in S, i < k
  PROVE  Rank(S, i) < Rank(S, k)
<1> DEFINE T == {j \in S : j <= i}
           U == {j \in S : j <= k}
<1>0. i \in Nat /\ k \in Nat /\ \A j \in S : j \in Nat
  OBVIOUS
<1>1. T \in SUBSET U /\ k \in U /\ k \notin T
  <2>1. \A j \in S : j <= i => j <= k
    BY <1>0
  <2>2. k <= k /\ ~(k <= i)
    BY <1>0
  <2>3. QED
    BY <2>1, <2>2
<1>2. IsFiniteSet(U)
  <2>1. U \in SUBSET S
    OBVIOUS
  <2>2. QED
    BY <2>1, FS_Subset
<1>3. /\ Cardinality(T) <= Cardinality(U) /\ Cardinality(T) # Cardinality(U)
      /\ Cardinality(T) \in Nat /\ Cardinality(U) \in Nat
  BY <1>1, <1>2, FS_Subset, FS_CardinalityType
<1>4. Rank(S, i) = Cardinality(T) /\ Rank(S, k) = Cardinality(U)
  BY DEF Rank
<1> HIDE DEF T, U
<1>5. QED
  BY <1>3, <1>4

LEMMA RankTells ==
  ASSUME NEW S, IsFiniteSet(S), S \subseteq Nat, NEW i \in S, NEW k \in S, Rank(S, i) = Rank(S, k)
  PROVE  i = k
<1>1. Rank(S, i) \in Nat /\ Rank(S, k) \in Nat /\ i \in Nat /\ k \in Nat
  <2>1. Cardinality(S) \in Nat
    BY FS_CardinalityType
  <2>2. Rank(S, i) \in 1..Cardinality(S)
    BY RankBounds
  <2>3. Rank(S, k) \in 1..Cardinality(S)
    BY RankBounds
  <2>4. QED
    BY <2>1, <2>2, <2>3
<1>2. CASE i < k
  <2>1. Rank(S, i) < Rank(S, k)
    BY <1>2, RankGrows
  <2>2. QED
    BY <1>1, <2>1
<1>3. CASE k < i
  <2>1. Rank(S, k) < Rank(S, i)
    BY <1>3, RankGrows
  <2>2. QED
    BY <1>1, <2>1
<1>4. QED
  BY <1>1, <1>2, <1>3

LEMMA RankOnto ==
  ASSUME NEW S, IsFiniteSet(S), S \subseteq Nat, NEW n \in 1..Cardinality(S)
  PROVE  \E i \in S : Rank(S, i) = n
<1> DEFINE f == [i \in S |-> Rank(S, i)]
           T == 1..Cardinality(S)
<1>1. Cardinality(S) \in Nat
  BY FS_CardinalityType
<1>2. IsFiniteSet(T) /\ Cardinality(T) = Cardinality(S)
  BY <1>1, FS_Interval
<1>3. f \in Injection(S, T)
  <2>1. \A i \in S : Rank(S, i) \in T
    BY RankBounds
  <2>2. \A i, k \in S : Rank(S, i) = Rank(S, k) => i = k
    BY RankTells
  <2>3. QED
    BY <2>1, <2>2 DEF Injection, IsInjective
<1>4. f \in Surjection(S, T)
  BY <1>2, <1>3, FS_Injection
<1>5. QED
  BY <1>4 DEF Surjection

LEMMA NthIs ==
  ASSUME NEW S, IsFiniteSet(S), S \subseteq Nat, NEW n \in 1..Cardinality(S)
  PROVE  Nth(S, n) \in S /\ Rank(S, Nth(S, n)) = n
<1>1. \E i \in S : Cardinality({j \in S : j <= i}) = n
  BY RankOnto DEF Rank
<1>2. QED
  BY <1>1 DEF Nth, Rank

LEMMA IsNth ==
  ASSUME NEW S, IsFiniteSet(S), S \subseteq Nat, NEW i \in S
  PROVE  \E n \in 1..Cardinality(S) : Nth(S, n) = i
<1> DEFINE n == Rank(S, i)
<1>1. n \in 1..Cardinality(S)
  BY RankBounds
<1>2. Nth(S, n) \in S /\ Rank(S, Nth(S, n)) = n
  <2> HIDE DEF n
  <2>1. QED
    BY <1>1, NthIs
<1>3. Nth(S, n) = i
  BY <1>2, RankTells
<1>4. QED
  BY <1>1, <1>3

LEMMA NthTells ==
  ASSUME NEW S, IsFiniteSet(S), S \subseteq Nat,
         NEW m \in 1..Cardinality(S), NEW n \in 1..Cardinality(S), Nth(S, m) = Nth(S, n)
  PROVE  m = n
<1>1. Rank(S, Nth(S, m)) = m /\ Rank(S, Nth(S, n)) = n
  BY NthIs
<1>2. QED
  BY <1>1

-----------------------------------------------------------------------------
(***************************************************************************)
(* Types.                                                                  *)
(***************************************************************************)
PageEntry == [item : Items, price : Prices, active : BOOLEAN]

Found == Row \cup {NoRow}

Task == [step : {"free", "page", "read", "save", "done"}, for : {"sync", "cart", "wish"},
         page : Nat, batch : Seq(PageEntry), more : BOOLEAN, id : Seq(Nat), object : Seq(Found),
         touched : SUBSET Items, left : BOOLEAN]

CatalogTyped ==
  /\ zoho \in [Items -> [price : Prices, state : {"active", "hidden", "inactive"}]]
  /\ had \in [Items -> SUBSET Prices]
  /\ products \in Seq(Row)
  /\ task \in [Workers -> Task]

Syncing(t) == t.for = "sync" /\ t.step # "free"

LEMMA ItemsAre == /\ IsFiniteSet(Items) /\ Items \subseteq Nat
                  /\ \A S \in SUBSET Items : IsFiniteSet(S) /\ S \subseteq Nat
<1>1. Items = 1..Cardinality(Items) /\ IsFiniteSet(Items) /\ Cardinality(Items) \in Nat
  BY ItemsAssumption, FS_CardinalityType
<1>2. Items \subseteq Nat
  BY <1>1
<1>3. QED
  BY <1>1, <1>2, FS_Subset

LEMMA FreeTyped == Free \in Task
<1>1. <<>> \in Seq(PageEntry) /\ <<>> \in Seq(Nat) /\ <<>> \in Seq(Found)
  BY EmptySeq
<1>2. QED
  BY <1>1 DEF Free, Task

LEMMA NoRowIsFound == NoRow \in Found /\ Row \subseteq Found
  BY DEF Found

LEMMA RowFields ==
  ASSUME NEW x \in Row
  PROVE  /\ x.item \in Items /\ x.price \in Prices /\ x.active \in BOOLEAN /\ x.slug \in Slugs
         /\ x = [item |-> x.item, price |-> x.price, active |-> x.active, slug |-> x.slug]
  BY DEF Row

LEMMA EntryFields ==
  ASSUME NEW x \in PageEntry
  PROVE  x.item \in Items /\ x.price \in Prices /\ x.active \in BOOLEAN
  BY DEF PageEntry

LEMMA TaskFields ==
  ASSUME NEW t \in Task
  PROVE  /\ t.page \in Nat /\ t.touched \subseteq Items
         /\ t.batch \in Seq(PageEntry) /\ t.id \in Seq(Nat) /\ t.object \in Seq(Found)
         /\ t.step \in {"free", "page", "read", "save", "done"}
         /\ t.for \in {"sync", "cart", "wish"} /\ t.more \in BOOLEAN /\ t.left \in BOOLEAN
  BY DEF Task

\* A sequence is a function on 1..n ...
LEMMA SeqDomain ==
  ASSUME NEW S, NEW s \in Seq(S)
  PROVE  /\ Len(s) \in Nat /\ DOMAIN s = 1..Len(s)
         /\ \A k \in DOMAIN s : s[k] \in S
         /\ DOMAIN s = {} <=> s = <<>>
<1>1. Len(s) \in Nat /\ DOMAIN s = 1..Len(s) /\ \A k \in DOMAIN s : s[k] \in S
  BY LenProperties, ElementOfSeq
<1>2. s = <<>> => DOMAIN s = {}
  OBVIOUS
<1>3. s # <<>> => 1 \in DOMAIN s
  BY <1>1, EmptySeq
<1>4. QED
  BY <1>1, <1>2, <1>3

\* ... and a function on the domain of one is one.
LEMMA DomainSeq ==
  ASSUME NEW S, NEW T, NEW s \in Seq(S), NEW f \in [DOMAIN s -> T]
  PROVE  f \in Seq(T) /\ Len(f) = Len(s) /\ DOMAIN f = DOMAIN s
<1>1. Len(s) \in Nat /\ DOMAIN s = 1..Len(s)
  BY SeqDomain
<1>2. QED
  BY <1>1

LEMMA TouchIs ==
  ASSUME NEW t \in [Workers -> Task], NEW S \in SUBSET Items
  PROVE  /\ Touch(t, S) \in [Workers -> Task]
         /\ \A v \in Workers :
              /\ Syncing(t[v]) => Touch(t, S)[v] = [t[v] EXCEPT !.touched = t[v].touched \cup S]
              /\ ~Syncing(t[v]) => Touch(t, S)[v] = t[v]
<1>1. \A v \in Workers : [t[v] EXCEPT !.touched = t[v].touched \cup S] \in Task
  <2> SUFFICES ASSUME NEW v \in Workers
               PROVE  [t[v] EXCEPT !.touched = t[v].touched \cup S] \in Task
    OBVIOUS
  <2>1. t[v] \in Task /\ t[v].touched \cup S \in SUBSET Items
    BY TaskFields
  <2>2. QED
    BY <2>1 DEF Task
<1>2. QED
  BY <1>1 DEF Touch, Syncing

-----------------------------------------------------------------------------
(***************************************************************************)
(* What a task in flight knows.                                            *)
(***************************************************************************)
ItemOf(t, k) == t.batch[k].item

\* A worker that found no row of the item and will add one.
Claims(w, i) == \E k \in DOMAIN task[w].id : task[w].id[k] = None /\ ItemOf(task[w], k) = i

\* The row read for an entry of the batch is one of its item; no item is twice in a batch.
Fits(w) ==
  LET t == task[w] IN
  /\ t.step \notin {"read", "save"} => t.batch = <<>>
  /\ t.step # "save" => t.id = <<>> /\ t.object = <<>>
  /\ t.step = "save" => DOMAIN t.id = DOMAIN t.batch /\ DOMAIN t.object = DOMAIN t.batch
  /\ \A j, k \in DOMAIN t.batch : ItemOf(t, j) = ItemOf(t, k) => j = k
  /\ t.for # "sync" => t.step \in {"free", "read", "save"} /\ (t.step # "free" => Len(t.batch) = 1)
  /\ \A k \in DOMAIN t.id :
       /\ t.id[k] # None => /\ t.id[k] \in DOMAIN products
                            /\ products[t.id[k]].item = ItemOf(t, k)
                            /\ t.object[k].item = ItemOf(t, k)
       /\ t.id[k] = None => t.object[k] = NoRow \/ t.object[k].item = ItemOf(t, k)

\* Unless it is raced for, an item has one row or one worker that will add it.
Alone ==
  \A i \in Items \ raced :
    /\ \A v, w \in Workers : Claims(v, i) /\ Claims(w, i) => v = w
    /\ (\E w \in Workers : Claims(w, i)) => RowsOf(i) = {}
    /\ \A r, s \in RowsOf(i) : r = s

Current(i) ==
  \E r \in RowsOf(i) : /\ products[r].price = zoho[i].price
                       /\ products[r].active = (zoho[i].state = "active")

InBatch(t, i) == \E k \in DOMAIN t.batch : ItemOf(t, k) = i

\* A batch shows what Zoho says, but for what was touched since.
Shown(w) ==
  LET t == task[w] IN
  \A k \in DOMAIN t.batch :
    LET i == ItemOf(t, k) IN
    i \notin t.touched => /\ t.batch[k].price = zoho[i].price
                          /\ t.batch[k].active = (zoho[i].state = "active")

\* So do the objects that were read.
Fresh(w) ==
  LET t == task[w] IN
  \A k \in DOMAIN t.id :
    ItemOf(t, k) \notin t.touched /\ t.id[k] # None => products[t.id[k]] = t.object[k]

\* As long as no item left the list, those of the pages that were stored are up to date.
Reached(w) ==
  LET t == task[w] IN
  ~t.left => \A i \in Listed \ t.touched :
    /\ t.step = "page" /\ Position(i) <= (t.page - 1) * PerPage => Current(i)
    /\ t.step \in {"read", "save"} /\ (Position(i) <= t.page * PerPage \/ ~t.more)
         => Current(i) \/ InBatch(t, i)
    /\ t.step = "done" => Current(i)

Progress(w) == Syncing(task[w]) => task[w].page >= 1 /\ Shown(w) /\ Fresh(w) /\ Reached(w)

SyncInv == \A w \in Workers : Fits(w) /\ Progress(w)

-----------------------------------------------------------------------------
(***************************************************************************)
(* What a step leaves to the other workers.                                *)
(***************************************************************************)
\* Of its task nothing changes but what was touched meanwhile.
Stays(v, S) ==
  LET t == task[v]  u == task'[v] IN
  /\ u.step = t.step /\ u.for = t.for /\ u.page = t.page /\ u.batch = t.batch
  /\ u.more = t.more /\ u.id = t.id /\ u.object = t.object
  /\ Syncing(t) => t.touched \cup S \subseteq u.touched /\ (~u.left => ~t.left)

RowsLast(S) ==
  \A r \in DOMAIN products :
    /\ r \in DOMAIN products'
    /\ products'[r].item = products[r].item
    /\ products[r].item \notin S => products'[r] = products[r]

ListLasts(v, S) ==
  /\ \A i \in Items \ S : zoho'[i] = zoho[i]
  /\ Syncing(task[v]) /\ ~task'[v].left =>
       \A i \in Listed' \ S : i \in Listed /\ Position(i) <= Position(i)'

LEMMA FitsLasts ==
  ASSUME NEW v \in Workers, NEW S, Fits(v), Stays(v, S), RowsLast(S)
  PROVE  Fits(v)'
  BY DEF Fits, Stays, RowsLast, ItemOf

LEMMA ClaimsLast ==
  ASSUME NEW v \in Workers, NEW S, Stays(v, S), NEW i
  PROVE  Claims(v, i)' <=> Claims(v, i)
  BY DEF Claims, Stays, ItemOf

LEMMA CurrentLasts ==
  ASSUME NEW S, RowsLast(S), NEW i \in Items \ S, zoho'[i] = zoho[i], Current(i)
  PROVE  Current(i)'
<1>1. PICK r \in RowsOf(i) : /\ products[r].price = zoho[i].price
                             /\ products[r].active = (zoho[i].state = "active")
  BY DEF Current
<1>2. products'[r] = products[r] /\ r \in RowsOf(i)'
  BY DEF RowsLast, RowsOf
<1>3. QED
  BY <1>1, <1>2 DEF Current

\* Positions in the list are numbers.
LEMMA PositionIs ==
  ASSUME NEW S \in SUBSET Items, NEW i
  PROVE  Cardinality({j \in S : j <= i}) \in Nat
<1>1. {j \in S : j <= i} \in SUBSET Items
  OBVIOUS
<1>2. IsFiniteSet({j \in S : j <= i})
  BY <1>1, ItemsAre
<1>3. QED
  BY <1>2, FS_CardinalityType

LEMMA ProgressLasts ==
  ASSUME CatalogTyped, CatalogTyped', NEW v \in Workers, NEW S \in SUBSET Items, Fits(v),
         Progress(v), Stays(v, S), RowsLast(S), ListLasts(v, S)
  PROVE  Progress(v)'
<1> SUFFICES ASSUME Syncing(task'[v])
             PROVE  /\ task'[v].page >= 1
                    /\ Shown(v)' /\ Fresh(v)' /\ Reached(v)'
  BY DEF Progress, Syncing
<1> DEFINE t == task[v]
           u == task'[v]
<1>1. /\ Syncing(t) /\ t \in Task /\ u \in Task
      /\ u.step = t.step /\ u.page = t.page /\ u.batch = t.batch
      /\ u.more = t.more /\ u.id = t.id /\ u.object = t.object
      /\ t.touched \subseteq u.touched /\ S \subseteq u.touched /\ (~u.left => ~t.left)
  BY DEF Stays, Syncing, CatalogTyped
<1>2. t.page >= 1 /\ Shown(v) /\ Fresh(v) /\ Reached(v)
  BY <1>1 DEF Progress
<1>3. \A k \in DOMAIN t.batch : ItemOf(t, k) \in Items /\ ItemOf(u, k) = ItemOf(t, k)
  BY <1>1, TaskFields, SeqDomain, EntryFields DEF ItemOf
<1>4. \A i \in Items \ S : zoho'[i] = zoho[i]
  BY DEF ListLasts
<1>5. Shown(v)'
  <2> SUFFICES ASSUME NEW k \in DOMAIN u.batch, ItemOf(u, k) \notin u.touched
               PROVE  /\ u.batch[k].price = zoho'[ItemOf(u, k)].price
                      /\ u.batch[k].active = (zoho'[ItemOf(u, k)].state = "active")
    BY DEF Shown, ItemOf
  <2>1. k \in DOMAIN t.batch /\ ItemOf(u, k) = ItemOf(t, k) /\ ItemOf(t, k) \in Items \ S
        /\ ItemOf(t, k) \notin t.touched
    BY <1>1, <1>3
  <2>2. QED
    BY <1>1, <1>2, <1>4, <2>1 DEF Shown
<1>6. Fresh(v)'
  <2> SUFFICES ASSUME NEW k \in DOMAIN u.id, ItemOf(u, k) \notin u.touched, u.id[k] # None
               PROVE  products'[u.id[k]] = u.object[k]
    BY DEF Fresh, ItemOf
  <2>1. k \in DOMAIN t.id /\ ItemOf(u, k) = ItemOf(t, k) /\ ItemOf(t, k) \notin S
        /\ ItemOf(t, k) \notin t.touched /\ t.id[k] # None
    BY <1>1 DEF ItemOf
  <2>2. t.id[k] \in DOMAIN products /\ products[t.id[k]].item = ItemOf(t, k)
    BY <2>1 DEF Fits
  <2>3. products[t.id[k]] = t.object[k]
    BY <1>2, <2>1 DEF Fresh
  <2>4. QED
    BY <1>1, <2>1, <2>2, <2>3 DEF RowsLast
<1>7. Reached(v)'
  <2> SUFFICES ASSUME ~u.left, NEW i \in Listed' \ u.touched
               PROVE  /\ u.step = "page" /\ Position(i)' <= (u.page - 1) * PerPage => Current(i)'
                      /\ u.step \in {"read", "save"} /\ (Position(i)' <= u.page * PerPage \/ ~u.more)
                           => Current(i)' \/ InBatch(u, i)
                      /\ u.step = "done" => Current(i)'
    BY DEF Reached, InBatch, ItemOf
  <2>1. i \in Items \ S /\ i \in Listed \ t.touched /\ Position(i) <= Position(i)'
    BY <1>1 DEF ListLasts, Listed
  <2>2. Position(i) \in Nat
    <3>1. Listed \in SUBSET Items
      BY DEF Listed
    <3>2. QED
      BY <3>1, PositionIs DEF Position
  <2>3. Position(i)' \in Nat
    <3>1. Listed' \in SUBSET Items
      BY DEF Listed
    <3>2. QED
      BY <3>1, PositionIs DEF Position
  <2>4. Current(i) => Current(i)'
    BY <1>4, <2>1, CurrentLasts
  <2>5. InBatch(t, i) => InBatch(u, i)
    BY <1>1 DEF InBatch, ItemOf
  <2>6. u.page \in Nat /\ PerPage \in Nat
    BY <1>1, TaskFields, BoundsAssumption
  <2>7. ~t.left
    BY <1>1
  <2>8. (u.page - 1) * PerPage \in Int /\ u.page * PerPage \in Int
    BY <2>6
  <2> DEFINE a == (u.page - 1) * PerPage
             b == u.page * PerPage
  <2>9. /\ t.step = "page" /\ Position(i) <= a => Current(i)
        /\ t.step \in {"read", "save"} /\ (Position(i) <= b \/ ~t.more) => Current(i) \/ InBatch(t, i)
        /\ t.step = "done" => Current(i)
    BY <1>1, <1>2, <2>1, <2>7 DEF Reached
  <2>10. a \in Int /\ b \in Int
    BY <2>8
  <2> HIDE DEF a, b
  <2>11. /\ u.step = "page" /\ Position(i)' <= a => Current(i)'
         /\ u.step \in {"read", "save"} /\ (Position(i)' <= b \/ ~u.more) => Current(i)' \/ InBatch(u, i)
         /\ u.step = "done" => Current(i)'
    BY <1>1, <2>1, <2>2, <2>3, <2>4, <2>5, <2>9, <2>10
  <2>12. QED
    BY <2>11 DEF a, b
<1>8. QED
  BY <1>1, <1>2, <1>5, <1>6, <1>7

-----------------------------------------------------------------------------
(***************************************************************************)
(* The rows of a page.                                                     *)
(***************************************************************************)
LEMMA AdditionsAre ==
  ASSUME NEW t \in Task
  PROVE  /\ Additions(t) \subseteq DOMAIN t.batch
         /\ IsFiniteSet(Additions(t)) /\ Additions(t) \subseteq Nat
         /\ Cardinality(Additions(t)) \in Nat
<1>1. DOMAIN t.batch = 1..Len(t.batch) /\ Len(t.batch) \in Nat
  BY TaskFields, SeqDomain
<1>2. Additions(t) \in SUBSET (1..Len(t.batch))
  BY <1>1 DEF Additions
<1>3. IsFiniteSet(Additions(t))
  <2>1. PICK n \in Nat : n = Len(t.batch)
    BY <1>1
  <2>2. IsFiniteSet(1..n)
    BY FS_Interval
  <2>3. Additions(t) \in SUBSET (1..n)
    BY <1>2, <2>1
  <2>4. QED
    BY <2>2, <2>3, FS_Subset
<1>4. QED
  BY <1>1, <1>2, <1>3, FS_CardinalityType

LEMMA NewRowIs ==
  ASSUME NEW t \in Task, NEW k \in DOMAIN t.batch
  PROVE  /\ NewRow(t, k) \in Row
         /\ NewRow(t, k).item = ItemOf(t, k)
         /\ NewRow(t, k).price = t.batch[k].price
         /\ NewRow(t, k).active = t.batch[k].active
<1>1. t.batch[k] \in PageEntry
  BY TaskFields, SeqDomain
<1>2. /\ t.batch[k].item \in Items /\ t.batch[k].price \in Prices /\ t.batch[k].active \in BOOLEAN
  BY <1>1, EntryFields
<1>3. 0 \in 0..MaxRows
  BY BoundsAssumption
<1>4. SyncSlug(t.batch[k].item, t.id[k]) \in Slugs
  BY <1>2, <1>3 DEF SyncSlug, Slugs
<1>5. QED
  BY <1>2, <1>4 DEF NewRow, Row, ItemOf

\* The row of entry k is written over r.
Writes(t, k, r) == t.id[k] = r /\ t.object[k] # NewRow(t, k)

LEMMA SavedIs ==
  ASSUME products \in Seq(Row), NEW t \in Task
  PROVE  LET A == Additions(t)  rows == Saved(t) IN
         /\ rows \in Seq(Row)
         /\ Len(rows) = Len(products) + Cardinality(A)
         /\ \A r \in DOMAIN products :
              \/ rows[r] = products[r] /\ \A k \in DOMAIN t.batch : ~Writes(t, k, r)
              \/ \E k \in DOMAIN t.batch : Writes(t, k, r) /\ rows[r] = NewRow(t, k)
         /\ \A n \in 1..Cardinality(A) : rows[Len(products) + n] = NewRow(t, Nth(A, n))
<1> DEFINE A == Additions(t)
           Put(r) == {k \in DOMAIN t.batch : t.id[k] = r /\ t.object[k] # NewRow(t, k)}
           Kept(r) == IF Put(r) = {} THEN products[r] ELSE NewRow(t, CHOOSE k \in Put(r) : TRUE)
           stayed == [r \in DOMAIN products |-> Kept(r)]
           Added(n) == NewRow(t, Nth(A, n))
           added == [n \in 1..Cardinality(A) |-> Added(n)]
<1>1. Saved(t) = stayed \o added
  BY DEF Saved, Nth
<1>2. \A r \in DOMAIN products :
        /\ Kept(r) \in Row
        /\ \/ Kept(r) = products[r] /\ \A k \in DOMAIN t.batch : ~Writes(t, k, r)
           \/ \E k \in DOMAIN t.batch : Writes(t, k, r) /\ Kept(r) = NewRow(t, k)
  <2> SUFFICES ASSUME NEW r \in DOMAIN products
               PROVE  /\ Kept(r) \in Row
                      /\ \/ Kept(r) = products[r] /\ \A k \in DOMAIN t.batch : ~Writes(t, k, r)
                         \/ \E k \in DOMAIN t.batch : Writes(t, k, r) /\ Kept(r) = NewRow(t, k)
    OBVIOUS
  <2>1. CASE Put(r) = {}
    <3>1. products[r] \in Row
      BY SeqDomain
    <3>2. \A k \in DOMAIN t.batch : ~Writes(t, k, r)
      BY <2>1 DEF Writes
    <3>3. QED
      BY <2>1, <3>1, <3>2
  <2>2. CASE Put(r) # {}
    <3>1. PICK k \in Put(r) : Kept(r) = NewRow(t, k)
      BY <2>2
    <3>2. k \in DOMAIN t.batch /\ Writes(t, k, r)
      BY DEF Writes
    <3>3. QED
      BY <3>1, <3>2, NewRowIs
  <2>3. QED
    BY <2>1, <2>2
<1>3. \A n \in 1..Cardinality(A) : Added(n) \in Row
  <2> SUFFICES ASSUME NEW n \in 1..Cardinality(A)
               PROVE  Added(n) \in Row
    OBVIOUS
  <2>1. Nth(A, n) \in DOMAIN t.batch
    <3>1. IsFiniteSet(A) /\ A \subseteq Nat /\ A \subseteq DOMAIN t.batch
      BY AdditionsAre
    <3> HIDE DEF A
    <3>2. QED
      BY <3>1, NthIs
  <2>2. QED
    BY <2>1, NewRowIs
<1>4. /\ Len(products) \in Nat /\ DOMAIN products = 1..Len(products)
      /\ Cardinality(A) \in Nat
  BY SeqDomain, AdditionsAre
<1> HIDE DEF A, Kept, Added
<1>5. stayed \in Seq(Row) /\ Len(stayed) = Len(products)
  BY <1>2, <1>4
<1>6. added \in Seq(Row) /\ Len(added) = Cardinality(A)
  BY <1>3, <1>4
<1>7. /\ stayed \o added \in Seq(Row) /\ Len(stayed \o added) = Len(products) + Cardinality(A)
      /\ \A i \in 1..(Len(products) + Cardinality(A)) :
           (stayed \o added)[i] = IF i <= Len(products) THEN stayed[i] ELSE added[i - Len(products)]
  <2>1. /\ stayed \o added \in Seq(Row) /\ Len(stayed \o added) = Len(stayed) + Len(added)
        /\ \A i \in 1..(Len(stayed) + Len(added)) :
             (stayed \o added)[i] = IF i <= Len(stayed) THEN stayed[i] ELSE added[i - Len(stayed)]
    <3> HIDE DEF stayed, added
    <3>1. QED
      BY <1>5, <1>6, ConcatProperties
  <2>2. QED
    BY <1>5, <1>6, <2>1
<1>8. \A r \in DOMAIN products : (stayed \o added)[r] = Kept(r)
  BY <1>4, <1>7
<1>9. \A n \in 1..Cardinality(A) : (stayed \o added)[Len(products) + n] = Added(n)
  <2> SUFFICES ASSUME NEW n \in 1..Cardinality(A)
               PROVE  (stayed \o added)[Len(products) + n] = Added(n)
    OBVIOUS
  <2>1. PICK x \in Nat : x = Len(products) + n
    BY <1>4
  <2>2. /\ x \in 1..(Len(products) + Cardinality(A))
        /\ ~(x <= Len(products)) /\ x - Len(products) = n
    BY <1>4, <2>1
  <2>3. (stayed \o added)[x] = IF x <= Len(products) THEN stayed[x] ELSE added[x - Len(products)]
    BY <1>7, <2>2
  <2>4. added[n] = Added(n)
    OBVIOUS
  <2> HIDE DEF stayed, added
  <2>5. QED
    BY <2>1, <2>2, <2>3, <2>4
<1> HIDE DEF stayed, added
<1>10. QED
  BY <1>1, <1>2, <1>7, <1>8, <1>9 DEF A, Added

-----------------------------------------------------------------------------
(***************************************************************************)
(* Steps that only change the task of one worker.                          *)
(***************************************************************************)
Turns(w, new) ==
  /\ new \in Task /\ task' = [task EXCEPT ![w] = new]
  /\ UNCHANGED <<zoho, had, products>>

LEMMA TurnTyped ==
  ASSUME CatalogTyped, NEW w \in Workers, NEW new, Turns(w, new)
  PROVE  CatalogTyped' /\ task'[w] = new /\ \A v \in Workers \ {w} : task'[v] = task[v]
  BY DEF CatalogTyped, Turns

LEMMA OthersKeep ==
  ASSUME CatalogTyped, CatalogTyped', SyncInv, NEW w \in Workers, UNCHANGED <<zoho, products>>,
         \A v \in Workers \ {w} : task'[v] = task[v], NEW v \in Workers, v # w
  PROVE  Fits(v)' /\ Progress(v)' /\ \A i : Claims(v, i)' <=> Claims(v, i)
<1>1. task'[v] = task[v]
  OBVIOUS
<1>2. Stays(v, {})
  BY <1>1 DEF Stays
<1>3. RowsLast({})
  BY DEF RowsLast
<1>4. ListLasts(v, {})
  <2>1. Listed' = Listed
    BY DEF Listed
  <2>2. \A i : Position(i)' = Position(i) /\ Position(i) \in Nat
    <3>1. Listed \in SUBSET Items
      BY DEF Listed
    <3>2. QED
      BY <2>1, <3>1, PositionIs DEF Position
  <2>3. \A i \in Listed' \ {} : i \in Listed /\ Position(i) <= Position(i)'
    BY <2>1, <2>2
  <2>4. QED
    BY <2>3 DEF ListLasts
<1>5. Fits(v) /\ Progress(v)
  BY DEF SyncInv
<1>6. Fits(v)'
  BY <1>2, <1>3, <1>5, FitsLasts
<1>7. Progress(v)'
  <2>1. {} \in SUBSET Items
    OBVIOUS
  <2>2. QED
    BY <1>2, <1>3, <1>4, <1>5, <2>1, ProgressLasts
<1>8. \A i : Claims(v, i)' <=> Claims(v, i)
  BY <1>2, ClaimsLast
<1>9. QED
  BY <1>6, <1>7, <1>8

LEMMA QuietStep ==
  ASSUME CatalogTyped, SyncInv, Alone, NEW w \in Workers, NEW new, Turns(w, new),
         raced' = raced, Fits(w)', Progress(w)', \A i : Claims(w, i)' => Claims(w, i)
  PROVE  CatalogTyped' /\ SyncInv' /\ Alone'
<1>1. CatalogTyped' /\ UNCHANGED <<zoho, products>> /\ \A v \in Workers \ {w} : task'[v] = task[v]
  BY TurnTyped DEF Turns
<1>2. \A v \in Workers : Fits(v)' /\ Progress(v)' /\ \A i : Claims(v, i)' => Claims(v, i)
  <2> SUFFICES ASSUME NEW v \in Workers
               PROVE  Fits(v)' /\ Progress(v)' /\ \A i : Claims(v, i)' => Claims(v, i)
    OBVIOUS
  <2>1. CASE v = w
    BY <2>1
  <2>2. CASE v # w
    BY <1>1, <2>2, OthersKeep
  <2>3. QED
    BY <2>1, <2>2
<1>3. SyncInv'
  BY <1>2 DEF SyncInv
<1>4. \A i : RowsOf(i)' = RowsOf(i)
  BY <1>1 DEF RowsOf
<1>5. Alone'
  <2> SUFFICES ASSUME NEW i \in Items \ raced
               PROVE  /\ \A u, v \in Workers : Claims(u, i)' /\ Claims(v, i)' => u = v
                      /\ (\E v \in Workers : Claims(v, i)') => RowsOf(i)' = {}
                      /\ \A r, s \in RowsOf(i)' : r = s
    BY DEF Alone
  <2>1. QED
    BY <1>2, <1>4 DEF Alone
<1>6. QED
  BY <1>1, <1>3, <1>5

\* A worker without a batch.
LEMMA EmptyFits ==
  ASSUME NEW w \in Workers, task'[w].batch = <<>>, task'[w].id = <<>>, task'[w].object = <<>>,
         task'[w].for = "sync", task'[w].step # "save"
  PROVE  Fits(w)' /\ \A i : ~Claims(w, i)'
  BY DEF Fits, Claims

LEMMA FreeFits ==
  ASSUME NEW w \in Workers, task'[w] = Free
  PROVE  Fits(w)' /\ Progress(w)' /\ \A i : ~Claims(w, i)'
<1>1. Fits(w)' /\ \A i : ~Claims(w, i)'
  BY EmptyFits DEF Free
<1>2. Progress(w)'
  BY DEF Progress, Syncing, Free
<1>3. QED
  BY <1>1, <1>2

LEMMA BecomesFree ==
  ASSUME CatalogTyped, SyncInv, Alone, NEW w \in Workers, FetchFails(w) \/ EndSync(w)
  PROVE  CatalogTyped' /\ SyncInv' /\ Alone'
<1>1. Turns(w, Free) /\ raced' = raced
  BY FreeTyped DEF FetchFails, EndSync, Turns, storeVars
<1>2. task'[w] = Free
  BY <1>1, TurnTyped
<1>3. Fits(w)' /\ Progress(w)' /\ \A i : ~Claims(w, i)'
  BY <1>2, FreeFits
<1>4. QED
  BY <1>1, <1>3, QuietStep

\* A listed item has a position that is not before the first.
LEMMA ListedPosition ==
  ASSUME CatalogTyped, NEW i \in Listed
  PROVE  Position(i) \in 1..Cardinality(Listed) /\ Cardinality(Listed) \in Nat
<1>1. Listed \in SUBSET Items
  BY DEF Listed
<1>2. IsFiniteSet(Listed) /\ Listed \subseteq Nat
  BY <1>1, ItemsAre
<1>3. Rank(Listed, i) \in 1..Cardinality(Listed)
  BY <1>2, RankBounds
<1>4. QED
  BY <1>2, <1>3, FS_CardinalityType DEF Rank, Position

LEMMA StartsSync ==
  ASSUME CatalogTyped, SyncInv, Alone, NEW w \in Workers, StartSync(w)
  PROVE  CatalogTyped' /\ SyncInv' /\ Alone'
<1> DEFINE new == [Free EXCEPT !.step = "page", !.page = 1]
<1>1. /\ new \in Task /\ new.step = "page" /\ new.page = 1 /\ new.batch = <<>> /\ new.id = <<>>
      /\ new.object = <<>> /\ new.for = "sync"
  BY FreeTyped DEF Free, Task
<1>2. Turns(w, new) /\ raced' = raced
  BY <1>1 DEF StartSync, Turns, storeVars
<1>3. task'[w] = new /\ Listed' = Listed
  BY <1>2, TurnTyped DEF Listed, Turns
<1> HIDE DEF new
<1>4. Fits(w)' /\ \A i : ~Claims(w, i)'
  BY <1>1, <1>3, EmptyFits
<1>5. Shown(w)' /\ Fresh(w)'
  BY <1>1, <1>3 DEF Shown, Fresh
<1>6. Reached(w)'
  <2>1. \A i \in Listed : ~(Position(i)' <= (new.page - 1) * PerPage)
    <3> SUFFICES ASSUME NEW i \in Listed
                 PROVE  ~(Position(i)' <= (new.page - 1) * PerPage)
      OBVIOUS
    <3>1. Position(i) \in 1..Cardinality(Listed) /\ Cardinality(Listed) \in Nat
      BY ListedPosition
    <3>2. Position(i)' = Position(i)
      BY <1>3 DEF Position
    <3>3. (new.page - 1) * PerPage = 0
      BY <1>1, BoundsAssumption
    <3>4. QED
      BY <3>1, <3>2, <3>3
  <2>2. QED
    BY <1>1, <1>3, <2>1 DEF Reached
<1>7. Progress(w)'
  BY <1>1, <1>3, <1>5, <1>6 DEF Progress
<1>8. QED
  BY <1>2, <1>4, <1>7, QuietStep

(***************************************************************************)
(* A page.                                                                 *)
(***************************************************************************)
\* The page that is fetched: the items of the list with these positions, each once.
LEMMA PageIs ==
  ASSUME CatalogTyped, NEW n \in Nat \ {0}
  PROVE  LET page == InOrder(OnPage(n)) IN
         /\ DOMAIN page = 1..Cardinality(OnPage(n)) /\ Cardinality(OnPage(n)) \in Nat
         /\ \A k \in DOMAIN page : page[k] \in OnPage(n)
         /\ \A j, k \in DOMAIN page : page[j] = page[k] => j = k
         /\ \A i \in OnPage(n) : \E k \in DOMAIN page : page[k] = i
<1> DEFINE S == OnPage(n)
           page == InOrder(S)
<1>1. S \in SUBSET Items
  BY DEF OnPage, Listed
<1>2. IsFiniteSet(S) /\ S \subseteq Nat /\ Cardinality(S) \in Nat
  BY <1>1, ItemsAre, FS_CardinalityType
<1> HIDE DEF S
<1>3. DOMAIN page = 1..Cardinality(S) /\ \A k \in 1..Cardinality(S) : page[k] = Nth(S, k)
  BY DEF InOrder, Nth
<1> HIDE DEF page
<1>4. \A k \in 1..Cardinality(S) : Nth(S, k) \in S
  BY <1>2, NthIs
<1>5. \A j, k \in 1..Cardinality(S) : Nth(S, j) = Nth(S, k) => j = k
  BY <1>2, NthTells
<1>6. \A i \in S : \E k \in 1..Cardinality(S) : Nth(S, k) = i
  BY <1>2, IsNth
<1>7. QED
  BY <1>2, <1>3, <1>4, <1>5, <1>6 DEF S, page

\* If nothing is on the next page the list ends with this one.
LEMMA LastPage ==
  ASSUME CatalogTyped, NEW n \in Nat, OnPage(n + 1) = {}, NEW i \in Listed
  PROVE  Position(i) <= n * PerPage
<1>1. Listed \in SUBSET Items
  BY DEF Listed
<1>2. IsFiniteSet(Listed) /\ Listed \subseteq Nat
  BY <1>1, ItemsAre
<1>3. Position(i) \in 1..Cardinality(Listed) /\ Cardinality(Listed) \in Nat
  BY ListedPosition
<1>4. PICK a \in Nat : a = n * PerPage
  BY BoundsAssumption
<1>5. (n + 1) * PerPage = a + PerPage /\ (n + 1 - 1) * PerPage = a
  BY <1>4, BoundsAssumption
<1>6. PerPage \in Nat \ {0}
  BY BoundsAssumption
<1>7. SUFFICES ASSUME ~(Position(i) <= a)
               PROVE  FALSE
  BY <1>4
<1>8. a + 1 \in 1..Cardinality(Listed)
  BY <1>3, <1>7
<1>9. PICK j \in Listed : Rank(Listed, j) = a + 1
  BY <1>2, <1>8, RankOnto
<1>10. Position(j) = a + 1
  BY <1>9 DEF Rank, Position
<1>11. j \in OnPage(n + 1)
  <2>1. a < Position(j) /\ Position(j) <= a + PerPage
    BY <1>6, <1>10
  <2>2. QED
    BY <1>5, <2>1 DEF OnPage
<1>12. QED
  BY <1>11

LEMMA FetchesPage ==
  ASSUME CatalogTyped, SyncInv, Alone, NEW w \in Workers, FetchPage(w)
  PROVE  CatalogTyped' /\ SyncInv' /\ Alone'
<1> DEFINE t == task[w]
           page == InOrder(OnPage(t.page))
           batch == [k \in DOMAIN page |-> [item |-> page[k], price |-> zoho[page[k]].price,
                                            active |-> zoho[page[k]].state = "active"]]
           new == [t EXCEPT !.step = "read", !.batch = batch, !.more = OnPage(t.page + 1) # {}]
<1>1. /\ task' = [task EXCEPT ![w] = new] /\ UNCHANGED <<zoho, had, products>>
      /\ raced' = raced /\ t.step = "page"
  BY DEF FetchPage, storeVars, Working
<1>2. t \in Task /\ Fits(w) /\ Progress(w)
  BY DEF CatalogTyped, SyncInv
<1>3. t.for = "sync" /\ t.id = <<>> /\ t.object = <<>>
  BY <1>1, <1>2 DEF Fits
<1>4. t.page \in Nat \ {0} /\ Reached(w)
  BY <1>1, <1>2, <1>3, TaskFields DEF Progress, Syncing
<1>5. /\ DOMAIN page = 1..Cardinality(OnPage(t.page)) /\ Cardinality(OnPage(t.page)) \in Nat
      /\ \A k \in DOMAIN page : page[k] \in OnPage(t.page)
      /\ \A j, k \in DOMAIN page : page[j] = page[k] => j = k
      /\ \A i \in OnPage(t.page) : \E k \in DOMAIN page : page[k] = i
  BY <1>4, PageIs
<1> HIDE DEF page
<1>6. /\ DOMAIN batch = DOMAIN page
      /\ \A k \in DOMAIN page : /\ batch[k].item = page[k] /\ batch[k].price = zoho[page[k]].price
                                /\ batch[k].active = (zoho[page[k]].state = "active")
                                /\ batch[k] \in PageEntry
  <2>1. \A k \in DOMAIN page : page[k] \in Items
    BY <1>5 DEF OnPage, Listed
  <2>2. \A k \in DOMAIN page : zoho[page[k]].price \in Prices
    BY <2>1 DEF CatalogTyped
  <2>3. QED
    BY <2>1, <2>2 DEF PageEntry
<1>7. batch \in Seq(PageEntry)
  BY <1>5, <1>6
<1> HIDE DEF batch
<1>8. /\ new \in Task /\ new.step = "read" /\ new.for = "sync" /\ new.page = t.page
      /\ new.batch = batch /\ new.more = (OnPage(t.page + 1) # {}) /\ new.id = <<>>
      /\ new.object = <<>> /\ new.touched = t.touched /\ new.left = t.left
  BY <1>2, <1>3, <1>7 DEF Task
<1> HIDE DEF new
<1>9. Turns(w, new)
  BY <1>1, <1>8 DEF Turns
<1>10. task'[w] = new /\ Listed' = Listed
  BY <1>9, TurnTyped DEF Turns, Listed
<1>11. Fits(w)' /\ \A i : ~Claims(w, i)'
  <2>1. \A j, k \in DOMAIN batch : ItemOf(new, j) = ItemOf(new, k) => j = k
    BY <1>5, <1>6, <1>8 DEF ItemOf
  <2>2. QED
    BY <1>8, <1>10, <2>1 DEF Fits, Claims, ItemOf
<1>12. Shown(w)'
  BY <1>1, <1>6, <1>8, <1>10 DEF Shown, ItemOf
<1>13. Fresh(w)'
  BY <1>8, <1>10 DEF Fresh
<1>14. Reached(w)'
  <2> SUFFICES ASSUME ~t.left, NEW i \in Listed \ t.touched,
                      Position(i) <= t.page * PerPage \/ OnPage(t.page + 1) = {}
               PROVE  Current(i) \/ \E k \in DOMAIN batch : batch[k].item = i
    <3>1. \A j : Position(j)' = Position(j) /\ (Current(j)' <=> Current(j))
      BY <1>1, <1>10 DEF Position, Current, RowsOf
    <3>2. \A j : InBatch(new, j) <=> \E k \in DOMAIN batch : batch[k].item = j
      BY <1>8 DEF InBatch, ItemOf
    <3>3. \A j : InBatch(task[w], j)' <=> InBatch(new, j)
      BY <1>10 DEF InBatch, ItemOf
    <3>4. QED
      BY <1>8, <1>10, <3>1, <3>2, <3>3 DEF Reached
  <2>1. Position(i) <= t.page * PerPage
    BY <1>4, LastPage
  <2>2. CASE Position(i) <= (t.page - 1) * PerPage
    BY <1>1, <1>4, <2>2 DEF Reached
  <2>3. CASE ~(Position(i) <= (t.page - 1) * PerPage)
    <3>1. Position(i) \in Nat
      BY ListedPosition
    <3>2. (t.page - 1) * PerPage \in Nat
      BY <1>4, BoundsAssumption
    <3>3. (t.page - 1) * PerPage < Position(i)
      BY <2>3, <3>1, <3>2
    <3>4. i \in OnPage(t.page)
      BY <2>1, <3>3 DEF OnPage
    <3>5. QED
      BY <1>5, <1>6, <3>4
  <2>4. QED
    BY <2>2, <2>3
<1>15. Progress(w)'
  BY <1>4, <1>8, <1>10, <1>12, <1>13, <1>14 DEF Progress
<1>16. QED
  BY <1>1, <1>9, <1>11, <1>15, QuietStep

-----------------------------------------------------------------------------
(***************************************************************************)
(* The cart and the wishlist.                                              *)
(***************************************************************************)
LEMMA AsksDetail ==
  ASSUME CatalogTyped, SyncInv, Alone, NEW w \in Workers, NEW for \in {"cart", "wish"},
         NEW i \in Items, AskDetail(w, for, i)
  PROVE  CatalogTyped' /\ SyncInv' /\ Alone'
<1>1. PICK price \in had[i] :
        task' = [task EXCEPT ![w] =
          [Free EXCEPT !.step = "read", !.for = for,
                       !.batch = <<[item |-> i, price |-> price, active |-> TRUE]>>]]
  BY DEF AskDetail
<1> DEFINE entry == [item |-> i, price |-> price, active |-> TRUE]
           batch == <<entry>>
           new == [Free EXCEPT !.step = "read", !.for = for, !.batch = batch]
<1>2. UNCHANGED <<zoho, had, products>> /\ raced' = raced
  BY DEF AskDetail, storeVars
<1>3. entry \in PageEntry
  BY DEF CatalogTyped, PageEntry
<1> HIDE DEF entry
<1>4. batch \in Seq(PageEntry) /\ Len(batch) = 1 /\ DOMAIN batch = {1}
  BY <1>3
<1> HIDE DEF batch
<1>5. /\ new \in Task /\ new.step = "read" /\ new.for = for /\ new.batch = batch
      /\ new.id = <<>> /\ new.object = <<>>
  BY <1>4, FreeTyped DEF Free, Task
<1>6. Turns(w, new)
  BY <1>1, <1>2, <1>5 DEF Turns, batch, entry
<1> HIDE DEF new
<1>7. task'[w] = new
  BY <1>6, TurnTyped
<1>8. Fits(w)' /\ \A j : ~Claims(w, j)'
  BY <1>4, <1>5, <1>7 DEF Fits, Claims
<1>9. Progress(w)'
  BY <1>5, <1>7 DEF Progress, Syncing
<1>10. QED
  BY <1>2, <1>6, <1>8, <1>9, QuietStep

LEMMA ChoosesSlug ==
  ASSUME CatalogTyped, SyncInv, Alone, NEW w \in Workers, ChooseSlug(w)
  PROVE  CatalogTyped' /\ SyncInv' /\ Alone'
<1> DEFINE t == task[w]
           i == t.batch[1].item
<1>1. t \in Task /\ Fits(w) /\ t.step = "save" /\ t.for # "sync" /\ t.id[1] = None
  BY DEF CatalogTyped, SyncInv, ChooseSlug, Working
<1>2. PICK n \in 1..MaxRows :
        task' = [task EXCEPT ![w].object[1] =
                   [item |-> i, price |-> 0, active |-> TRUE,
                    slug |-> [kind |-> "name", item |-> i, n |-> n]]]
  BY DEF ChooseSlug
<1> DEFINE row == [item |-> i, price |-> 0, active |-> TRUE,
                   slug |-> [kind |-> "name", item |-> i, n |-> n]]
           object == [t.object EXCEPT ![1] = row]
           new == [t EXCEPT !.object = object]
<1>3. /\ task' = [task EXCEPT ![w] = new]
      /\ UNCHANGED <<zoho, had, products>> /\ raced' = raced
  BY <1>2 DEF ChooseSlug, storeVars
<1>4. /\ Len(t.batch) = 1 /\ DOMAIN t.batch = {1} /\ DOMAIN t.object = {1} /\ DOMAIN t.id = {1}
      /\ i \in Items
  <2>1. Len(t.batch) = 1 /\ DOMAIN t.id = DOMAIN t.batch /\ DOMAIN t.object = DOMAIN t.batch
    BY <1>1 DEF Fits
  <2>2. DOMAIN t.batch = 1..1
    BY <1>1, <2>1, TaskFields, SeqDomain
  <2>3. i \in Items
    BY <1>1, <2>2, TaskFields, SeqDomain, EntryFields
  <2>4. QED
    BY <2>1, <2>2, <2>3
<1>5. row \in Row /\ row.item = i
  <2>1. n \in 0..MaxRows /\ 0 \in Prices
    BY BoundsAssumption DEF Prices
  <2>2. QED
    BY <1>4, <2>1 DEF Row, Slugs
<1> HIDE DEF row
<1>6. object \in Seq(Found) /\ DOMAIN object = {1} /\ object[1] = row
  <2>1. t.object \in Seq(Found) /\ row \in Found
    BY <1>1, <1>5, TaskFields, NoRowIsFound
  <2>2. object \in [DOMAIN t.object -> Found] /\ object[1] = row
    BY <1>4, <2>1, SeqDomain
  <2>3. QED
    BY <1>4, <2>1, <2>2, DomainSeq
<1> HIDE DEF object
<1>7. /\ new \in Task /\ new.object = object
      /\ new.step = t.step /\ new.for = t.for /\ new.batch = t.batch /\ new.id = t.id
  BY <1>1, <1>6 DEF Task
<1> HIDE DEF new
<1>8. Turns(w, new)
  BY <1>3, <1>7 DEF Turns
<1>9. task'[w] = new
  BY <1>8, TurnTyped
<1>10. Fits(w)'
  <2>1. /\ new.step = "save" /\ Len(new.batch) = 1 /\ DOMAIN new.batch = {1}
        /\ DOMAIN new.id = {1} /\ DOMAIN new.object = {1}
        /\ new.id[1] = None /\ new.object[1].item = ItemOf(new, 1)
    BY <1>1, <1>4, <1>5, <1>6, <1>7 DEF ItemOf
  <2>2. QED
    BY <1>9, <2>1 DEF Fits, ItemOf
<1>11. Progress(w)' /\ \A j : Claims(w, j)' => Claims(w, j)
  BY <1>1, <1>7, <1>9 DEF Progress, Syncing, Claims, ItemOf
<1>12. QED
  BY <1>3, <1>8, <1>10, <1>11, QuietStep

(***************************************************************************)
(* Looking for the rows.                                                   *)
(***************************************************************************)
LEMMA Reads ==
  ASSUME CatalogTyped, SyncInv, Alone, NEW w \in Workers, Read(w)
  PROVE  CatalogTyped' /\ SyncInv' /\ Alone'
<1> DEFINE t == task[w]
           batch == t.batch
<1>1. PICK id \in [DOMAIN batch -> DOMAIN products \cup {None}] :
        /\ \A k \in DOMAIN batch :
             IF RowsOf(batch[k].item) \cap DOMAIN products = {} THEN id[k] = None
             ELSE id[k] \in RowsOf(batch[k].item)
        /\ task' = [task EXCEPT ![w].id = id, ![w].step = "save",
                      ![w].object = [k \in DOMAIN batch |-> IF id[k] = None THEN NoRow
                                                            ELSE products[id[k]]]]
        /\ raced' = raced \cup {batch[k].item : k \in {j \in DOMAIN batch :
                                                 id[j] = None /\ Racing(w, batch[j].item)}}
  BY DEF Read, Find
<1> DEFINE object == [k \in DOMAIN batch |-> IF id[k] = None THEN NoRow ELSE products[id[k]]]
           new == [t EXCEPT !.id = id, !.step = "save", !.object = object]
<1>2. /\ t \in Task /\ Fits(w) /\ Progress(w) /\ t.step = "read"
      /\ UNCHANGED <<zoho, had, products>>
      /\ task' = [task EXCEPT ![w] = new]
  BY <1>1 DEF CatalogTyped, SyncInv, Read, Working, storeVars
<1>3. batch \in Seq(PageEntry) /\ products \in Seq(Row)
  BY <1>2, TaskFields DEF CatalogTyped
<1>4. DOMAIN products \subseteq Nat \ {0} /\ \A r \in DOMAIN products : products[r] \in Row
  BY <1>3, SeqDomain
<1>5. id \in Seq(Nat) /\ DOMAIN id = DOMAIN batch
  <2>1. id \in [DOMAIN batch -> Nat]
    BY <1>4 DEF None
  <2>2. QED
    BY <1>3, <2>1, DomainSeq
<1>6. \A k \in DOMAIN batch :
        /\ id[k] = None => RowsOf(batch[k].item) = {} /\ object[k] = NoRow
        /\ id[k] # None => /\ id[k] \in DOMAIN products /\ products[id[k]].item = batch[k].item
                           /\ object[k] = products[id[k]]
  BY <1>1, <1>4 DEF RowsOf, None
<1>7. object \in Seq(Found) /\ DOMAIN object = DOMAIN batch
  <2>1. object \in [DOMAIN batch -> Found]
    BY <1>4, <1>6, NoRowIsFound
  <2> HIDE DEF object
  <2>2. QED
    BY <1>3, <2>1, DomainSeq
<1> HIDE DEF object
<1>8. /\ new \in Task /\ new.id = id /\ new.step = "save" /\ new.object = object
      /\ new.for = t.for /\ new.batch = batch /\ new.page = t.page /\ new.more = t.more
      /\ new.touched = t.touched /\ new.left = t.left
  BY <1>2, <1>5, <1>7 DEF Task
<1> HIDE DEF new
<1>9. Turns(w, new)
  BY <1>2, <1>8 DEF Turns
<1>10. CatalogTyped' /\ task'[w] = new /\ \A v \in Workers \ {w} : task'[v] = task[v]
  BY <1>9, TurnTyped
<1>11. Fits(w)'
  BY <1>2, <1>5, <1>6, <1>7, <1>8, <1>10 DEF Fits, ItemOf
<1>12. Progress(w)'
  <2> SUFFICES ASSUME Syncing(t)
               PROVE  Progress(w)'
    BY <1>8, <1>10, <1>2 DEF Progress, Syncing
  <2>1. t.page >= 1 /\ Shown(w) /\ Reached(w)
    BY <1>2 DEF Progress
  <2>2. Shown(w)'
    BY <1>2, <1>8, <1>10, <2>1 DEF Shown, ItemOf
  <2>3. Fresh(w)'
    BY <1>2, <1>5, <1>6, <1>8, <1>10 DEF Fresh, ItemOf
  <2>4. Reached(w)'
    <3>1. Listed' = Listed
      BY <1>2 DEF Listed
    <3>2. \A i : Position(i)' = Position(i) /\ (Current(i)' <=> Current(i))
      BY <1>2, <3>1 DEF Position, Current, RowsOf
    <3>3. \A i : InBatch(task[w], i)' <=> InBatch(t, i)
      BY <1>8, <1>10 DEF InBatch, ItemOf
    <3>4. QED
      BY <1>2, <1>8, <1>10, <2>1, <3>1, <3>2, <3>3 DEF Reached
  <2>5. QED
    BY <1>8, <1>10, <2>1, <2>2, <2>3, <2>4 DEF Progress
<1>13. \A v \in Workers \ {w} : Fits(v)' /\ Progress(v)' /\ \A i : Claims(v, i)' <=> Claims(v, i)
  BY <1>2, <1>10, OthersKeep
<1>14. SyncInv'
  BY <1>11, <1>12, <1>13 DEF SyncInv
<1>15. \A i : RowsOf(i)' = RowsOf(i)
  BY <1>2 DEF RowsOf
<1>16. \A i \in Items \ raced' :
         Claims(w, i)' => RowsOf(i) = {} /\ \A v \in Workers \ {w} : ~Claims(v, i)
  <2> SUFFICES ASSUME NEW i \in Items \ raced', Claims(w, i)'
               PROVE  RowsOf(i) = {} /\ \A v \in Workers \ {w} : ~Claims(v, i)
    OBVIOUS
  <2>1. PICK k \in DOMAIN batch : id[k] = None /\ batch[k].item = i
    BY <1>5, <1>8, <1>10 DEF Claims, ItemOf
  <2>2. ~Racing(w, i)
    BY <1>1, <2>1
  <2>3. \A v \in Workers \ {w} : ~Claims(v, i)
    BY <2>2 DEF Racing, Claims, ItemOf
  <2>4. QED
    BY <1>6, <2>1, <2>3
<1>17. Alone'
  <2> SUFFICES ASSUME NEW i \in Items \ raced'
               PROVE  /\ \A u, v \in Workers : Claims(u, i)' /\ Claims(v, i)' => u = v
                      /\ (\E v \in Workers : Claims(v, i)') => RowsOf(i)' = {}
                      /\ \A r, s \in RowsOf(i)' : r = s
    BY DEF Alone
  <2>1. i \in Items \ raced
    BY <1>1
  <2>2. QED
    BY <1>13, <1>15, <1>16, <2>1 DEF Alone
<1>18. QED
  BY <1>10, <1>14, <1>17

-----------------------------------------------------------------------------
(***************************************************************************)
(* Steps that save rows.                                                   *)
(***************************************************************************)
LEMMA SavedStep ==
  ASSUME CatalogTyped, CatalogTyped', SyncInv, Alone, NEW w \in Workers, NEW S \in SUBSET Items,
         \A v \in Workers \ {w} : Stays(v, S), RowsLast(S), zoho' = zoho, raced' = raced,
         Fits(w)', Progress(w)', \A i : ~Claims(w, i)',
         \A i \in Items : \/ RowsOf(i)' = RowsOf(i)
                          \/ Claims(w, i) /\ (RowsOf(i) = {} => \A r, s \in RowsOf(i)' : r = s)
  PROVE  SyncInv' /\ Alone'
<1>1. \A v \in Workers \ {w} : Fits(v)' /\ Progress(v)' /\ \A i : Claims(v, i)' <=> Claims(v, i)
  <2> SUFFICES ASSUME NEW v \in Workers \ {w}
               PROVE  Fits(v)' /\ Progress(v)' /\ \A i : Claims(v, i)' <=> Claims(v, i)
    OBVIOUS
  <2>1. ListLasts(v, S)
    <3>1. Listed' = Listed
      BY DEF Listed
    <3>2. \A i : Position(i)' = Position(i) /\ Position(i) \in Nat
      <4>1. Listed \in SUBSET Items
        BY DEF Listed
      <4>2. QED
        BY <3>1, <4>1, PositionIs DEF Position
    <3>3. \A i \in Listed' \ S : i \in Listed /\ Position(i) <= Position(i)'
      BY <3>1, <3>2
    <3>4. QED
      BY <3>3 DEF ListLasts
  <2>2. Fits(v) /\ Progress(v) /\ Stays(v, S)
    BY DEF SyncInv
  <2>3. Fits(v)'
    BY <2>2, FitsLasts
  <2>4. Progress(v)'
    BY <2>1, <2>2, ProgressLasts
  <2>5. \A i : Claims(v, i)' <=> Claims(v, i)
    BY <2>2, ClaimsLast
  <2>6. QED
    BY <2>3, <2>4, <2>5
<1>2. SyncInv'
  BY <1>1 DEF SyncInv
<1>3. Alone'
  <2> SUFFICES ASSUME NEW i \in Items \ raced
               PROVE  /\ \A u, v \in Workers : Claims(u, i)' /\ Claims(v, i)' => u = v
                      /\ (\E v \in Workers : Claims(v, i)') => RowsOf(i)' = {}
                      /\ \A r, s \in RowsOf(i)' : r = s
    BY DEF Alone
  <2>1. \A v \in Workers : Claims(v, i)' => v # w /\ Claims(v, i)
    BY <1>1
  <2>2. /\ \A u, v \in Workers : Claims(u, i) /\ Claims(v, i) => u = v
        /\ (\E v \in Workers : Claims(v, i)) => RowsOf(i) = {}
        /\ \A r, s \in RowsOf(i) : r = s
    BY DEF Alone
  <2>3. CASE RowsOf(i)' = RowsOf(i)
    BY <2>1, <2>2, <2>3
  <2>4. CASE Claims(w, i) /\ (RowsOf(i) = {} => \A r, s \in RowsOf(i)' : r = s)
    BY <2>1, <2>2, <2>4
  <2>5. QED
    BY <2>3, <2>4
<1>4. QED
  BY <1>2, <1>3

ItemsIn(t) == {ItemOf(t, k) : k \in DOMAIN t.batch}

\* What saving the page does to the rows.
LEMMA SavedRows ==
  ASSUME CatalogTyped, NEW w \in Workers, Fits(w), task[w].step = "save"
  PROVE  LET t == task[w]  rows == Saved(t) IN
         /\ rows \in Seq(Row)
         /\ \A r \in DOMAIN products :
              /\ r \in DOMAIN rows /\ rows[r].item = products[r].item
              /\ products[r].item \notin ItemsIn(t) => rows[r] = products[r]
         /\ \A i \in Items :
              \/ Claims(w, i) /\ \A r, s \in DOMAIN rows \ DOMAIN products :
                                   rows[r].item = i /\ rows[s].item = i => r = s
              \/ \A r \in DOMAIN rows : rows[r].item = i => r \in DOMAIN products
         /\ \A k \in DOMAIN t.batch :
              (t.id[k] # None => products[t.id[k]] = t.object[k])
                => \E r \in DOMAIN rows : rows[r] = NewRow(t, k)
<1> DEFINE t == task[w]
           rows == Saved(t)
           A == Additions(t)
<1>1. t \in Task /\ products \in Seq(Row)
  BY DEF CatalogTyped
<1>2. DOMAIN t.id = DOMAIN t.batch /\ DOMAIN t.object = DOMAIN t.batch
  BY DEF Fits
<1>3. /\ rows \in Seq(Row)
      /\ Len(rows) = Len(products) + Cardinality(A)
      /\ \A r \in DOMAIN products :
           \/ rows[r] = products[r] /\ \A k \in DOMAIN t.batch : ~Writes(t, k, r)
           \/ \E k \in DOMAIN t.batch : Writes(t, k, r) /\ rows[r] = NewRow(t, k)
      /\ \A n \in 1..Cardinality(A) : rows[Len(products) + n] = NewRow(t, Nth(A, n))
  BY <1>1, SavedIs
<1> HIDE DEF rows
<1>4. /\ A \subseteq DOMAIN t.batch /\ IsFiniteSet(A) /\ A \subseteq Nat /\ Cardinality(A) \in Nat
  BY <1>1, AdditionsAre
<1>5. \A k \in A : t.id[k] = None
  BY DEF Additions
<1>6. \A k \in DOMAIN t.batch : t.id[k] = None => k \in A
  BY DEF Additions
<1> HIDE DEF A
<1>7. DOMAIN products = 1..Len(products) /\ Len(products) \in Nat /\ DOMAIN rows = 1..Len(rows)
  BY <1>1, <1>3, SeqDomain
<1>8. \A r \in DOMAIN products : r \in DOMAIN rows /\ r # None
  BY <1>3, <1>4, <1>7 DEF None
<1>9. \A r \in DOMAIN products, k \in DOMAIN t.batch :
        t.id[k] = r => products[r].item = ItemOf(t, k)
  BY <1>2, <1>8 DEF Fits
<1>10. \A k \in DOMAIN t.batch : NewRow(t, k).item = ItemOf(t, k) /\ ItemOf(t, k) \in ItemsIn(t)
  BY <1>1, NewRowIs DEF ItemsIn
<1>11. \A r \in DOMAIN products :
         /\ r \in DOMAIN rows /\ rows[r].item = products[r].item
         /\ products[r].item \notin ItemsIn(t) => rows[r] = products[r]
  BY <1>3, <1>8, <1>9, <1>10 DEF Writes
<1>12. \A r \in DOMAIN rows \ DOMAIN products :
         \E n \in 1..Cardinality(A) : r = Len(products) + n
  <2> SUFFICES ASSUME NEW r \in DOMAIN rows \ DOMAIN products
               PROVE  \E n \in 1..Cardinality(A) : r = Len(products) + n
    OBVIOUS
  <2>1. r - Len(products) \in 1..Cardinality(A) /\ r = Len(products) + (r - Len(products))
    BY <1>3, <1>4, <1>7
  <2>2. QED
    BY <2>1
<1>13. \A n \in 1..Cardinality(A) : Nth(A, n) \in A
  BY <1>4, NthIs
<1>14. \A m, n \in 1..Cardinality(A) : Nth(A, m) = Nth(A, n) => m = n
  BY <1>4, NthTells
<1>15. \A j, k \in DOMAIN t.batch : ItemOf(t, j) = ItemOf(t, k) => j = k
  BY DEF Fits
<1>16. \A i \in Items :
         \/ Claims(w, i) /\ \A r, s \in DOMAIN rows \ DOMAIN products :
                              rows[r].item = i /\ rows[s].item = i => r = s
         \/ \A r \in DOMAIN rows : rows[r].item = i => r \in DOMAIN products
  <2> SUFFICES ASSUME NEW i \in Items, NEW q \in DOMAIN rows \ DOMAIN products, rows[q].item = i
               PROVE  /\ Claims(w, i)
                      /\ \A r, s \in DOMAIN rows \ DOMAIN products :
                           rows[r].item = i /\ rows[s].item = i => r = s
    OBVIOUS
  <2>1. PICK n \in 1..Cardinality(A) : q = Len(products) + n
    BY <1>12
  <2>2. Nth(A, n) \in DOMAIN t.id /\ t.id[Nth(A, n)] = None /\ ItemOf(t, Nth(A, n)) = i
    BY <1>2, <1>3, <1>4, <1>5, <1>10, <1>13, <2>1
  <2>3. Claims(w, i)
    BY <2>2 DEF Claims
  <2>4. ASSUME NEW r \in DOMAIN rows \ DOMAIN products, NEW s \in DOMAIN rows \ DOMAIN products,
               rows[r].item = i, rows[s].item = i
        PROVE  r = s
    <3>1. PICK x \in 1..Cardinality(A) : r = Len(products) + x
      BY <1>12
    <3>2. PICK y \in 1..Cardinality(A) : s = Len(products) + y
      BY <1>12
    <3>3. ItemOf(t, Nth(A, x)) = i /\ Nth(A, x) \in DOMAIN t.batch
      BY <1>3, <1>4, <1>10, <1>13, <2>4, <3>1
    <3>4. ItemOf(t, Nth(A, y)) = i /\ Nth(A, y) \in DOMAIN t.batch
      BY <1>3, <1>4, <1>10, <1>13, <2>4, <3>2
    <3>5. x = y
      BY <1>14, <1>15, <3>3, <3>4
    <3>6. QED
      BY <3>1, <3>2, <3>5
  <2>5. QED
    BY <2>3, <2>4
<1>17. ASSUME NEW k \in DOMAIN t.batch, t.id[k] # None => products[t.id[k]] = t.object[k]
       PROVE  \E r \in DOMAIN rows : rows[r] = NewRow(t, k)
  <2>1. CASE t.id[k] = None
    <3>1. k \in A
      BY <1>6, <2>1
    <3>2. PICK n \in 1..Cardinality(A) : Nth(A, n) = k
      BY <1>4, <3>1, IsNth
    <3>3. Len(products) + n \in DOMAIN rows
      BY <1>3, <1>4, <1>7
    <3>4. QED
      BY <1>3, <3>2, <3>3
  <2>2. CASE t.id[k] # None
    <3>1. PICK r \in DOMAIN products : r = t.id[k]
      BY <1>2, <2>2 DEF Fits
    <3>2. products[r] = t.object[k] /\ r \in DOMAIN rows
      BY <1>8, <1>17, <2>2, <3>1
    <3>3. CASE rows[r] = products[r] /\ ~Writes(t, k, r)
      BY <3>1, <3>2, <3>3 DEF Writes
    <3>4. CASE \E j \in DOMAIN t.batch : Writes(t, j, r) /\ rows[r] = NewRow(t, j)
      <4>1. PICK j \in DOMAIN t.batch : Writes(t, j, r) /\ rows[r] = NewRow(t, j)
        BY <3>4
      <4>2. products[r].item = ItemOf(t, j) /\ products[r].item = ItemOf(t, k)
        BY <1>9, <3>1, <4>1 DEF Writes
      <4>3. j = k
        BY <1>15, <4>2
      <4>4. QED
        BY <3>2, <4>1, <4>3
    <3>5. QED
      BY <1>3, <3>3, <3>4
  <2>3. QED
    BY <2>1, <2>2
<1>18. QED
  BY <1>3, <1>11, <1>16, <1>17 DEF rows

LEMMA SavesPage ==
  ASSUME CatalogTyped, SyncInv, Alone, NEW w \in Workers, SavePage(w)
  PROVE  CatalogTyped' /\ SyncInv' /\ Alone'
<1> DEFINE t == task[w]
           items == ItemsIn(t)
           rows == Saved(t)
           good == items \cap Unstorable = {} /\ Distinct(rows)
           S == IF good THEN items ELSE {}
           idle == [task EXCEPT ![w] = Free]
           step == IF t.more THEN "page" ELSE "done"
           touched == IF good THEN t.touched ELSE t.touched \cup items
           new == [t EXCEPT !.step = step, !.page = t.page + 1,
                            !.batch = <<>>, !.id = <<>>, !.object = <<>>,
                            !.touched = touched]
<1>1. /\ t.step = "save" /\ t.for = "sync"
      /\ products' = IF good THEN rows ELSE products
      /\ task' = [Touch(idle, S) EXCEPT ![w] = new]
      /\ UNCHANGED <<zoho, had>> /\ raced' = raced
  BY DEF SavePage, Working, storeVars, ItemsIn, ItemOf
<1>2. t \in Task /\ Fits(w) /\ Progress(w)
  BY DEF CatalogTyped, SyncInv
<1>3. t.page \in Nat /\ t.page >= 1 /\ Shown(w) /\ Fresh(w) /\ Reached(w)
  BY <1>1, <1>2, TaskFields DEF Progress, Syncing
<1>4. items \in SUBSET Items
  <2>1. \A k \in DOMAIN t.batch : ItemOf(t, k) \in Items
    BY <1>2, TaskFields, SeqDomain, EntryFields DEF ItemOf
  <2>2. QED
    BY <2>1 DEF ItemsIn
<1>5. /\ rows \in Seq(Row)
      /\ \A r \in DOMAIN products :
           /\ r \in DOMAIN rows /\ rows[r].item = products[r].item
           /\ products[r].item \notin items => rows[r] = products[r]
      /\ \A i \in Items :
           \/ Claims(w, i) /\ \A r, s \in DOMAIN rows \ DOMAIN products :
                                rows[r].item = i /\ rows[s].item = i => r = s
           \/ \A r \in DOMAIN rows : rows[r].item = i => r \in DOMAIN products
      /\ \A k \in DOMAIN t.batch :
           (t.id[k] # None => products[t.id[k]] = t.object[k])
             => \E r \in DOMAIN rows : rows[r] = NewRow(t, k)
  BY <1>1, <1>2, SavedRows
<1>6. \A k \in DOMAIN t.batch : ItemOf(t, k) \in items
  BY DEF ItemsIn
<1>7. \A i \in Items : InBatch(t, i) => i \in items
  BY <1>6 DEF InBatch
<1> HIDE DEF items, rows, good
<1>8. S \in SUBSET Items
  BY <1>4
<1> HIDE DEF S
<1>9. idle \in [Workers -> Task] /\ idle[w] = Free /\ \A v \in Workers \ {w} : idle[v] = task[v]
  BY FreeTyped DEF CatalogTyped
<1> HIDE DEF idle
<1>10. /\ Touch(idle, S) \in [Workers -> Task]
       /\ \A v \in Workers :
            /\ Syncing(idle[v]) => Touch(idle, S)[v] = [idle[v] EXCEPT !.touched = idle[v].touched \cup S]
            /\ ~Syncing(idle[v]) => Touch(idle, S)[v] = idle[v]
  BY <1>8, <1>9, TouchIs
<1>11. <<>> \in Seq(PageEntry) /\ <<>> \in Seq(Nat) /\ <<>> \in Seq(Found)
  BY EmptySeq
<1>12. step \in {"page", "done"} /\ touched \in SUBSET Items /\ t.page + 1 \in Nat
  BY <1>2, <1>3, <1>4, TaskFields
<1>13. /\ new \in Task /\ new.step = step /\ new.for = "sync"
       /\ new.page = t.page + 1 /\ new.batch = <<>> /\ new.id = <<>> /\ new.object = <<>>
       /\ new.touched = touched /\ new.left = t.left
  <2> HIDE DEF step, touched
  <2>1. QED
    BY <1>1, <1>2, <1>11, <1>12 DEF Task
<1>14. /\ new \in Task /\ new.step = (IF t.more THEN "page" ELSE "done") /\ new.for = "sync"
       /\ new.page = t.page + 1 /\ new.batch = <<>> /\ new.id = <<>> /\ new.object = <<>>
       /\ new.touched = (IF good THEN t.touched ELSE t.touched \cup items) /\ new.left = t.left
  BY <1>13
<1> HIDE DEF new
<1>15. /\ task' \in [Workers -> Task] /\ task'[w] = new
       /\ \A v \in Workers \ {w} : task'[v] = Touch(idle, S)[v]
  BY <1>1, <1>10, <1>14
<1>16. CatalogTyped'
  BY <1>1, <1>5, <1>15 DEF CatalogTyped
<1>17. \A v \in Workers \ {w} : Stays(v, S)
  <2> SUFFICES ASSUME NEW v \in Workers \ {w}
               PROVE  Stays(v, S)
    OBVIOUS
  <2>1. task[v] \in Task /\ idle[v] = task[v]
    BY <1>9 DEF CatalogTyped
  <2>2. CASE Syncing(task[v])
    <3>1. task'[v] = [task[v] EXCEPT !.touched = task[v].touched \cup S]
      BY <1>10, <1>15, <2>1, <2>2
    <3>2. QED
      BY <2>1, <3>1 DEF Stays, Task
  <2>3. CASE ~Syncing(task[v])
    <3>1. task'[v] = task[v]
      BY <1>10, <1>15, <2>1, <2>3
    <3>2. QED
      BY <2>3, <3>1 DEF Stays
  <2>4. QED
    BY <2>2, <2>3
<1>18. RowsLast(S)
  BY <1>1, <1>5 DEF RowsLast, S
<1>19. Fits(w)' /\ \A i : ~Claims(w, i)'
  BY <1>14, <1>15, EmptyFits
<1>20. \A i \in Items : \/ RowsOf(i)' = RowsOf(i)
                        \/ Claims(w, i) /\ (RowsOf(i) = {} => \A r, s \in RowsOf(i)' : r = s)
  <2> SUFFICES ASSUME NEW i \in Items
               PROVE  \/ RowsOf(i)' = RowsOf(i)
                      \/ Claims(w, i) /\ (RowsOf(i) = {} => \A r, s \in RowsOf(i)' : r = s)
    OBVIOUS
  <2>1. CASE ~good
    BY <1>1, <2>1 DEF RowsOf
  <2>2. CASE good
    <3>1. RowsOf(i)' = {r \in DOMAIN rows : rows[r].item = i}
      BY <1>1, <2>2 DEF RowsOf
    <3>2. \A r \in DOMAIN products : rows[r].item = i => r \in RowsOf(i)
      BY <1>5 DEF RowsOf
    <3>3. CASE Claims(w, i) /\ \A r, s \in DOMAIN rows \ DOMAIN products :
                                 rows[r].item = i /\ rows[s].item = i => r = s
      BY <3>1, <3>2, <3>3
    <3>4. CASE \A r \in DOMAIN rows : rows[r].item = i => r \in DOMAIN products
      <4>1. RowsOf(i)' = RowsOf(i)
        BY <1>5, <3>1, <3>4 DEF RowsOf
      <4>2. QED
        BY <4>1
    <3>5. QED
      BY <1>5, <3>3, <3>4
  <2>3. QED
    BY <2>1, <2>2
\* What the page showed is stored.
<1>21. ASSUME good, NEW i \in Items, i \notin t.touched, InBatch(t, i)
       PROVE  Current(i)'
  <2>1. PICK k \in DOMAIN t.batch : ItemOf(t, k) = i
    BY <1>21 DEF InBatch
  <2>2. /\ t.batch[k].price = zoho[i].price
        /\ t.batch[k].active = (zoho[i].state = "active")
    BY <1>3, <1>21, <2>1 DEF Shown
  <2>3. t.id[k] # None => products[t.id[k]] = t.object[k]
    <3>1. DOMAIN t.id = DOMAIN t.batch
      BY <1>1, <1>2 DEF Fits
    <3>2. QED
      BY <1>3, <1>21, <2>1, <3>1 DEF Fresh
  <2>4. PICK r \in DOMAIN rows : rows[r] = NewRow(t, k)
    BY <1>5, <2>3
  <2>5. /\ rows[r].item = i /\ rows[r].price = t.batch[k].price
        /\ rows[r].active = t.batch[k].active
    BY <1>2, <2>1, <2>4, NewRowIs
  <2>6. products' = rows /\ zoho' = zoho
    BY <1>1, <1>21
  <2>7. r \in RowsOf(i)'
    BY <2>5, <2>6 DEF RowsOf
  <2>8. QED
    BY <2>2, <2>5, <2>6, <2>7 DEF Current
<1>22. ASSUME NEW i \in Items \ new.touched, Current(i) \/ InBatch(t, i)
       PROVE  Current(i)'
  <2>1. i \notin t.touched /\ (~good => i \notin items)
    BY <1>14
  <2>2. CASE good /\ InBatch(t, i)
    BY <1>21, <2>1, <2>2
  <2>3. CASE ~(good /\ InBatch(t, i))
    <3>1. Current(i)
      BY <1>7, <1>22, <2>1, <2>3
    <3>2. i \notin S
      BY <2>1, <2>3 DEF S, items, ItemsIn, InBatch
    <3>3. QED
      BY <1>1, <1>18, <3>1, <3>2, CurrentLasts
  <2>4. QED
    BY <2>2, <2>3
<1>23. Reached(w)'
  <2>1. Listed' = Listed /\ \A i : Position(i)' = Position(i)
    BY <1>1 DEF Listed, Position
  <2>2. new.page - 1 = t.page
    BY <1>3, <1>14
  <2>3. ASSUME ~t.left, NEW i \in Listed \ new.touched, Position(i) <= t.page * PerPage \/ ~t.more
        PROVE  Current(i)'
    <3>1. i \in Items \ new.touched /\ i \in Listed \ t.touched
      BY <1>14 DEF Listed
    <3>2. Current(i) \/ InBatch(t, i)
      BY <1>1, <1>3, <2>3, <3>1 DEF Reached
    <3>3. QED
      BY <1>22, <3>1, <3>2
  <2>4. t.more \in BOOLEAN
    BY <1>2, TaskFields
  <2>5. QED
    BY <1>14, <1>15, <2>1, <2>2, <2>3, <2>4 DEF Reached
<1>24. Shown(w)' /\ Fresh(w)'
  BY <1>14, <1>15 DEF Shown, Fresh
<1>25. Progress(w)'
  BY <1>3, <1>14, <1>15, <1>23, <1>24 DEF Progress
<1>26. SyncInv' /\ Alone'
  BY <1>1, <1>8, <1>16, <1>17, <1>18, <1>19, <1>20, <1>25, SavedStep
<1>27. QED
  BY <1>16, <1>26

LEMMA SavesDetail ==
  ASSUME CatalogTyped, SyncInv, Alone, NEW w \in Workers, SaveDetail(w)
  PROVE  CatalogTyped' /\ SyncInv' /\ Alone'
<1> DEFINE t == task[w]
           i == t.batch[1].item
           price == IF t.batch[1].price = 0 THEN t.object[1].price ELSE t.batch[1].price
           row == [t.object[1] EXCEPT !.price = price, !.active = TRUE]
           at == IF t.id[1] = None THEN Len(products) + 1 ELSE t.id[1]
           taken == InUse(row.slug) \ {at} # {} \/ i \in Unstorable
           rows == [r \in DOMAIN products \cup {at} |-> IF r = at THEN row ELSE products[r]]
           S == IF taken THEN {} ELSE {i}
           idle == [task EXCEPT ![w] = Free]
<1>1. /\ t.step = "save" /\ t.for # "sync" /\ t.object[1] # NoRow
      /\ products' = IF taken THEN products ELSE rows
      /\ task' = Touch(idle, S)
      /\ UNCHANGED <<zoho, had>> /\ raced' = raced
  BY DEF SaveDetail, Working, storeVars
<1>2. t \in Task /\ Fits(w) /\ products \in Seq(Row)
  BY DEF CatalogTyped, SyncInv
<1>3. /\ DOMAIN t.batch = {1} /\ DOMAIN t.id = {1} /\ DOMAIN t.object = {1}
      /\ i \in Items /\ t.batch[1].price \in Prices /\ t.object[1] \in Row
  <2>1. Len(t.batch) = 1 /\ DOMAIN t.id = DOMAIN t.batch /\ DOMAIN t.object = DOMAIN t.batch
    BY <1>1, <1>2 DEF Fits
  <2>2. DOMAIN t.batch = 1..1
    BY <1>2, <2>1, TaskFields, SeqDomain
  <2>3. t.batch[1] \in PageEntry /\ t.object[1] \in Found
    BY <1>2, <2>1, <2>2, TaskFields, SeqDomain
  <2>4. QED
    BY <1>1, <2>1, <2>2, <2>3, EntryFields DEF Found
<1>4. t.object[1].item = i /\ (t.id[1] # None => t.id[1] \in DOMAIN products /\ products[t.id[1]].item = i)
  BY <1>1, <1>2, <1>3 DEF Fits, ItemOf
<1>5. row \in Row /\ row.item = i
  <2>1. price \in Prices
    BY <1>3, RowFields
  <2> HIDE DEF price
  <2>2. QED
    BY <1>3, <1>4, <2>1 DEF Row
<1>6. /\ DOMAIN products = 1..Len(products) /\ Len(products) \in Nat
      /\ \A r \in DOMAIN products : products[r] \in Row
  BY <1>2, SeqDomain
<1>7. at \in 1..(Len(products) + 1) /\ (at \in DOMAIN products => products[at].item = i)
      /\ (at \notin DOMAIN products => at = Len(products) + 1 /\ t.id[1] = None)
  BY <1>4, <1>6
<1>8. at \notin DOMAIN products => Claims(w, i)
  BY <1>3, <1>7 DEF Claims, ItemOf
<1> HIDE DEF row, at, taken
<1>9. rows \in Seq(Row)
  <2>1. CASE at \in DOMAIN products
    <3>1. rows \in [1..Len(products) -> Row]
      BY <1>5, <1>6, <2>1
    <3> HIDE DEF rows
    <3>2. QED
      BY <1>6, <3>1
  <2>2. CASE at \notin DOMAIN products
    <3>1. rows \in [1..(Len(products) + 1) -> Row]
      <4>1. DOMAIN products \cup {at} = 1..(Len(products) + 1)
        BY <1>6, <1>7, <2>2
      <4>2. QED
        BY <1>5, <1>6, <4>1
    <3>2. Len(products) + 1 \in Nat
      BY <1>6
    <3> HIDE DEF rows
    <3>3. QED
      BY <3>1, <3>2
  <2>3. QED
    BY <2>1, <2>2
<1>10. /\ DOMAIN rows = DOMAIN products \cup {at} /\ rows[at] = row
       /\ \A r \in DOMAIN products : r # at => rows[r] = products[r]
  OBVIOUS
<1> HIDE DEF rows
<1>11. S \in SUBSET Items
  BY <1>3
<1> HIDE DEF i
<1>12. \A r \in DOMAIN products :
         /\ r \in DOMAIN rows /\ rows[r].item = products[r].item
         /\ products[r].item # i => rows[r] = products[r]
  BY <1>5, <1>7, <1>10
<1>13. RowsLast(S)
  BY <1>1, <1>12 DEF RowsLast
<1> HIDE DEF S
<1>14. idle \in [Workers -> Task] /\ idle[w] = Free /\ \A v \in Workers \ {w} : idle[v] = task[v]
  BY FreeTyped DEF CatalogTyped
<1> HIDE DEF idle
<1>15. /\ Touch(idle, S) \in [Workers -> Task]
       /\ \A v \in Workers :
            /\ Syncing(idle[v]) => Touch(idle, S)[v] = [idle[v] EXCEPT !.touched = idle[v].touched \cup S]
            /\ ~Syncing(idle[v]) => Touch(idle, S)[v] = idle[v]
  BY <1>11, <1>14, TouchIs
<1>16. task'[w] = Free
  BY <1>1, <1>14, <1>15 DEF Syncing, Free
<1>17. CatalogTyped'
  BY <1>1, <1>9, <1>15 DEF CatalogTyped
<1>18. \A v \in Workers \ {w} : Stays(v, S)
  <2> SUFFICES ASSUME NEW v \in Workers \ {w}
               PROVE  Stays(v, S)
    OBVIOUS
  <2>1. task[v] \in Task /\ idle[v] = task[v]
    BY <1>14 DEF CatalogTyped
  <2>2. CASE Syncing(task[v])
    <3>1. task'[v] = [task[v] EXCEPT !.touched = task[v].touched \cup S]
      BY <1>1, <1>15, <2>1, <2>2
    <3>2. QED
      BY <2>1, <3>1 DEF Stays, Task
  <2>3. CASE ~Syncing(task[v])
    <3>1. task'[v] = task[v]
      BY <1>1, <1>15, <2>1, <2>3
    <3>2. QED
      BY <2>3, <3>1 DEF Stays
  <2>4. QED
    BY <2>2, <2>3
<1>19. Fits(w)' /\ Progress(w)' /\ \A j : ~Claims(w, j)'
  BY <1>16, FreeFits
<1>20. \A j \in Items : \/ RowsOf(j)' = RowsOf(j)
                        \/ Claims(w, j) /\ (RowsOf(j) = {} => \A r, s \in RowsOf(j)' : r = s)
  <2> SUFFICES ASSUME NEW j \in Items
               PROVE  \/ RowsOf(j)' = RowsOf(j)
                      \/ Claims(w, j) /\ (RowsOf(j) = {} => \A r, s \in RowsOf(j)' : r = s)
    OBVIOUS
  <2>1. CASE taken
    BY <1>1, <2>1 DEF RowsOf
  <2>2. CASE ~taken
    <3>1. RowsOf(j)' = {r \in DOMAIN rows : rows[r].item = j}
      BY <1>1, <2>2 DEF RowsOf
    <3>2. CASE at \in DOMAIN products \/ j # i
      <4>1. RowsOf(j)' = RowsOf(j)
        BY <1>5, <1>7, <1>10, <1>12, <3>1, <3>2 DEF RowsOf
      <4>2. QED
        BY <4>1
    <3>3. CASE at \notin DOMAIN products /\ j = i
      <4>1. \A r \in RowsOf(j)' : r \in RowsOf(j) \/ r = at
        BY <1>10, <1>12, <3>1 DEF RowsOf
      <4>2. QED
        BY <1>8, <3>3, <4>1
    <3>4. QED
      BY <3>2, <3>3
  <2>3. QED
    BY <2>1, <2>2
<1>21. SyncInv' /\ Alone'
  BY <1>1, <1>11, <1>13, <1>17, <1>18, <1>19, <1>20, SavedStep
<1>22. QED
  BY <1>17, <1>21

-----------------------------------------------------------------------------
(***************************************************************************)
(* Changes at Zoho.                                                        *)
(***************************************************************************)
LEMMA ZohoChanges ==
  ASSUME CatalogTyped, SyncInv, Alone, NEW i \in Items, NEW price \in Prices,
         NEW state \in {"active", "hidden", "inactive"}, ChangeItem(i, price, state)
  PROVE  CatalogTyped' /\ SyncInv' /\ Alone'
<1> DEFINE leaves == state = "inactive" /\ i \in Listed
           Seen(w) == Touch(task, {i})[w]
<1>1. /\ zoho' = [zoho EXCEPT ![i] = [price |-> price, state |-> state]]
      /\ had' = [had EXCEPT ![i] = @ \cup {price}]
      /\ task' = [w \in Workers |->
                    IF task[w].step # "free" /\ leaves
                    THEN [Seen(w) EXCEPT !.left = task[w].for = "sync"] ELSE Seen(w)]
      /\ products' = products /\ raced' = raced
  BY DEF ChangeItem
<1>2. zoho' \in [Items -> [price : Prices, state : {"active", "hidden", "inactive"}]]
      /\ had' \in [Items -> SUBSET Prices]
  BY <1>1 DEF CatalogTyped
<1>3. /\ Touch(task, {i}) \in [Workers -> Task]
      /\ \A v \in Workers :
           /\ Syncing(task[v]) => Seen(v) = [task[v] EXCEPT !.touched = task[v].touched \cup {i}]
           /\ ~Syncing(task[v]) => Seen(v) = task[v]
  BY TouchIs DEF CatalogTyped
<1> HIDE DEF Seen, leaves
<1>4. \A v \in Workers :
        /\ task'[v] \in Task
        /\ Stays(v, {i})
        /\ Syncing(task[v]) /\ ~task'[v].left => ~leaves
  <2> SUFFICES ASSUME NEW v \in Workers
               PROVE  /\ task'[v] \in Task
                      /\ Stays(v, {i})
                      /\ Syncing(task[v]) /\ ~task'[v].left => ~leaves
    OBVIOUS
  <2>1. task[v] \in Task
    BY DEF CatalogTyped
  <2>2. Seen(v) \in Task
    BY <1>3 DEF Seen
  <2>3. /\ Seen(v).step = task[v].step /\ Seen(v).for = task[v].for /\ Seen(v).page = task[v].page
        /\ Seen(v).batch = task[v].batch /\ Seen(v).more = task[v].more /\ Seen(v).id = task[v].id
        /\ Seen(v).object = task[v].object /\ Seen(v).left = task[v].left
        /\ Syncing(task[v]) => Seen(v).touched = task[v].touched \cup {i}
    <3>1. CASE Syncing(task[v])
      BY <1>3, <2>1, <3>1 DEF Task
    <3>2. CASE ~Syncing(task[v])
      BY <1>3, <3>2
    <3>3. QED
      BY <3>1, <3>2
  <2>4. CASE task[v].step # "free" /\ leaves
    <3>1. task'[v] = [Seen(v) EXCEPT !.left = (task[v].for = "sync")]
      BY <1>1, <2>4
    <3>2. /\ task'[v] \in Task /\ task'[v].left = (task[v].for = "sync")
          /\ task'[v].step = Seen(v).step /\ task'[v].for = Seen(v).for
          /\ task'[v].page = Seen(v).page /\ task'[v].batch = Seen(v).batch
          /\ task'[v].more = Seen(v).more /\ task'[v].id = Seen(v).id
          /\ task'[v].object = Seen(v).object /\ task'[v].touched = Seen(v).touched
      BY <2>2, <3>1 DEF Task
    <3>3. QED
      BY <2>3, <3>2 DEF Stays, Syncing
  <2>5. CASE ~(task[v].step # "free" /\ leaves)
    <3>1. task'[v] = Seen(v)
      BY <1>1, <2>5
    <3>2. QED
      BY <2>2, <2>3, <2>5, <3>1 DEF Stays, Syncing
  <2>6. QED
    BY <2>4, <2>5
<1>5. CatalogTyped'
  <2>1. task' \in [Workers -> Task]
    BY <1>1, <1>4
  <2>2. QED
    BY <1>1, <1>2, <2>1 DEF CatalogTyped
<1>6. RowsLast({i})
  BY <1>1 DEF RowsLast
<1>7. \A v \in Workers : ListLasts(v, {i})
  <2> SUFFICES ASSUME NEW v \in Workers
               PROVE  ListLasts(v, {i})
    OBVIOUS
  <2>1. \A j \in Items \ {i} : zoho'[j] = zoho[j]
    BY <1>1 DEF CatalogTyped
  <2>2. ASSUME ~leaves, NEW j \in Listed' \ {i}
        PROVE  j \in Listed /\ Position(j) <= Position(j)'
    <3>1. \A k \in Listed : k \in Listed'
      <4> SUFFICES ASSUME NEW k \in Listed
                   PROVE  k \in Listed'
        OBVIOUS
      <4>1. CASE k = i
        <5>1. state # "inactive"
          BY <2>2, <4>1 DEF leaves
        <5>2. zoho'[i].state = state
          BY <1>1 DEF CatalogTyped
        <5>3. QED
          BY <4>1, <5>1, <5>2 DEF Listed
      <4>2. CASE k # i
        BY <2>1, <4>2 DEF Listed
      <4>3. QED
        BY <4>1, <4>2
    <3>2. j \in Listed
      BY <2>1 DEF Listed
    <3>3. Listed' \in SUBSET Items
      BY DEF Listed
    <3>4. PICK L \in {Listed'} : TRUE
      OBVIOUS
    <3>5. L \in SUBSET Items /\ Listed \subseteq L
      BY <3>1, <3>3, <3>4
    <3>6. IsFiniteSet({k \in L : k <= j})
      <4>1. {k \in L : k <= j} \in SUBSET Items
        BY <3>5
      <4>2. QED
        BY <4>1, ItemsAre
    <3>7. {k \in Listed : k <= j} \in SUBSET {k \in L : k <= j}
      BY <3>5
    <3>8. Cardinality({k \in Listed : k <= j}) <= Cardinality({k \in L : k <= j})
      BY <3>6, <3>7, FS_Subset
    <3>9. QED
      BY <3>2, <3>4, <3>8 DEF Position
  <2>3. QED
    BY <1>4, <2>1, <2>2 DEF ListLasts
<1>8. SyncInv'
  <2> SUFFICES ASSUME NEW v \in Workers
               PROVE  Fits(v)' /\ Progress(v)'
    BY DEF SyncInv
  <2>1. Fits(v) /\ Progress(v)
    BY DEF SyncInv
  <2>2. Fits(v)'
    BY <1>4, <1>6, <2>1, FitsLasts
  <2>3. {i} \in SUBSET Items
    OBVIOUS
  <2>4. Stays(v, {i}) /\ ListLasts(v, {i})
    BY <1>4, <1>7
  <2>5. Progress(v)'
    BY <1>5, <1>6, <2>1, <2>3, <2>4, ProgressLasts
  <2>6. QED
    BY <2>2, <2>5
<1>9. Alone'
  <2>1. \A v \in Workers, j \in Items : Claims(v, j)' <=> Claims(v, j)
    <3> SUFFICES ASSUME NEW v \in Workers, NEW j \in Items
                 PROVE  Claims(v, j)' <=> Claims(v, j)
      OBVIOUS
    <3>1. QED
      BY <1>4, ClaimsLast
  <2>2. \A j \in Items : RowsOf(j)' = RowsOf(j)
    BY <1>1 DEF RowsOf
  <2> SUFFICES ASSUME NEW j \in Items \ raced
               PROVE  /\ \A u, v \in Workers : Claims(u, j)' /\ Claims(v, j)' => u = v
                      /\ (\E v \in Workers : Claims(v, j)') => RowsOf(j)' = {}
                      /\ \A r, s \in RowsOf(j)' : r = s
    BY <1>1 DEF Alone
  <2>3. QED
    BY <2>1, <2>2 DEF Alone
<1>10. QED
  BY <1>5, <1>8, <1>9

(***************************************************************************)
(* The invariant, and the theorems.                                        *)
(***************************************************************************)
CatalogInv == CatalogTyped /\ SyncInv /\ Alone

LEMMA CatalogStarts == CatalogInit => CatalogInv
<1> SUFFICES ASSUME CatalogInit
             PROVE  CatalogInv
  OBVIOUS
<1>1. products = <<>> /\ DOMAIN products = {} /\ products \in Seq(Row)
  BY EmptySeq DEF CatalogInit
<1>2. \A w \in Workers : task[w] = Free
  BY DEF CatalogInit
<1>3. CatalogTyped
  BY <1>1, FreeTyped DEF CatalogInit, CatalogTyped
<1>4. SyncInv
  <2> SUFFICES ASSUME NEW w \in Workers
               PROVE  Fits(w) /\ Progress(w)
    BY DEF SyncInv
  <2>1. task[w] = Free
    BY <1>2
  <2>2. Fits(w)
    BY <2>1 DEF Fits, Free
  <2>3. Progress(w)
    BY <2>1 DEF Progress, Syncing, Free
  <2>4. QED
    BY <2>2, <2>3
<1>5. Alone
  <2>1. \A w \in Workers : \A i : ~Claims(w, i)
    BY <1>2 DEF Claims, Free
  <2>2. \A i : RowsOf(i) = {}
    BY <1>1 DEF RowsOf
  <2>3. QED
    BY <2>1, <2>2 DEF Alone
<1>6. QED
  BY <1>3, <1>4, <1>5 DEF CatalogInv

LEMMA CatalogKeeps == CatalogInv /\ [CatalogNext]_catalogVars => CatalogInv'
<1> SUFFICES ASSUME CatalogInv, [CatalogNext]_catalogVars
             PROVE  CatalogInv'
  OBVIOUS
<1>1. CatalogTyped /\ SyncInv /\ Alone
  BY DEF CatalogInv
<1>2. ASSUME NEW w \in Workers, StartSync(w)
      PROVE  CatalogInv'
  BY <1>1, <1>2, StartsSync DEF CatalogInv
<1>3. ASSUME NEW w \in Workers, FetchPage(w)
      PROVE  CatalogInv'
  BY <1>1, <1>3, FetchesPage DEF CatalogInv
<1>4. ASSUME NEW w \in Workers, FetchFails(w) \/ EndSync(w)
      PROVE  CatalogInv'
  BY <1>1, <1>4, BecomesFree DEF CatalogInv
<1>5. ASSUME NEW w \in Workers, Read(w)
      PROVE  CatalogInv'
  BY <1>1, <1>5, Reads DEF CatalogInv
<1>6. ASSUME NEW w \in Workers, SavePage(w)
      PROVE  CatalogInv'
  BY <1>1, <1>6, SavesPage DEF CatalogInv
<1>7. ASSUME NEW w \in Workers, NEW i \in Items, AskForCart(w, i) \/ AskForWishlist(w, i)
      PROVE  CatalogInv'
  <2>1. PICK for \in {"cart", "wish"} : AskDetail(w, for, i)
    BY <1>7 DEF AskForCart, AskForWishlist
  <2>2. QED
    BY <1>1, <2>1, AsksDetail DEF CatalogInv
<1>8. ASSUME NEW w \in Workers, ChooseSlug(w)
      PROVE  CatalogInv'
  BY <1>1, <1>8, ChoosesSlug DEF CatalogInv
<1>9. ASSUME NEW w \in Workers, SaveDetail(w)
      PROVE  CatalogInv'
  BY <1>1, <1>9, SavesDetail DEF CatalogInv
<1>10. ASSUME NEW i \in Items, NEW price \in Prices,
              NEW state \in {"active", "hidden", "inactive"}, ChangeItem(i, price, state)
       PROVE  CatalogInv'
  BY <1>1, <1>10, ZohoChanges DEF CatalogInv
<1>11. ASSUME UNCHANGED catalogVars
       PROVE  CatalogInv'
  <2>1. \A w \in Workers : Fits(w)' <=> Fits(w)
    BY <1>11 DEF catalogVars, Fits, ItemOf
  <2>2. Listed' = Listed /\ \A i : Position(i)' = Position(i)
    BY <1>11 DEF catalogVars, Listed, Position
  <2>3. \A i : RowsOf(i)' = RowsOf(i) /\ (Current(i)' <=> Current(i))
    BY <1>11 DEF catalogVars, RowsOf, Current
  <2>4. \A w \in Workers : Shown(w)' <=> Shown(w)
    BY <1>11 DEF catalogVars, Shown, ItemOf
  <2>5. \A w \in Workers : Fresh(w)' <=> Fresh(w)
    BY <1>11 DEF catalogVars, Fresh, ItemOf
  <2>6. \A w \in Workers : Reached(w)' <=> Reached(w)
    BY <1>11, <2>2, <2>3 DEF catalogVars, Reached, InBatch, ItemOf
  <2>7. \A w \in Workers : Progress(w)' <=> Progress(w)
    BY <1>11, <2>4, <2>5, <2>6 DEF catalogVars, Progress, Syncing
  <2>8. SyncInv'
    BY <1>1, <2>1, <2>7 DEF SyncInv
  <2>9. \A w \in Workers, i \in Items : Claims(w, i)' <=> Claims(w, i)
    BY <1>11 DEF catalogVars, Claims, ItemOf
  <2>10. Alone'
    <3> SUFFICES ASSUME NEW i \in Items \ raced
                 PROVE  /\ \A u, v \in Workers : Claims(u, i)' /\ Claims(v, i)' => u = v
                        /\ (\E v \in Workers : Claims(v, i)') => RowsOf(i)' = {}
                        /\ \A r, s \in RowsOf(i)' : r = s
      BY <1>11 DEF catalogVars, Alone
    <3>1. QED
      BY <1>1, <2>3, <2>9 DEF Alone
  <2>11. CatalogTyped'
    BY <1>1, <1>11 DEF catalogVars, CatalogTyped
  <2>12. QED
    BY <2>8, <2>10, <2>11 DEF CatalogInv
<1>12. QED
  BY <1>2, <1>3, <1>4, <1>5, <1>6, <1>7, <1>8, <1>9, <1>10, <1>11 DEF CatalogNext

LEMMA CatalogHolds == CatalogSpec => []CatalogInv
  BY CatalogStarts, CatalogKeeps, PTL DEF CatalogSpec

\* For any number of items, pages, syncs and customers: an item has a second row
\* only if two workers looked for it in vain at the same time.  A worker that found
\* none is the only one to add the row, and adds one.
THEOREM ItemsHaveOneRow == CatalogSpec => []OneRowUnlessRaced
<1>1. CatalogInv => OneRowUnlessRaced
  <2> SUFFICES ASSUME CatalogInv, NEW i \in Items \ raced
               PROVE  Cardinality(RowsOf(i)) <= 1
    BY DEF OneRowUnlessRaced
  <2>1. \A r, s \in RowsOf(i) : r = s
    BY DEF CatalogInv, Alone
  <2>2. RowsOf(i) = {} \/ \E r : RowsOf(i) = {r}
    BY <2>1
  <2>3. CASE RowsOf(i) = {}
    <3>1. Cardinality(RowsOf(i)) = 0
      BY <2>3, FS_EmptySet
    <3>2. QED
      BY <3>1
  <2>4. CASE \E r : RowsOf(i) = {r}
    <3>1. PICK r : RowsOf(i) = {r}
      BY <2>4
    <3>2. Cardinality({r}) = 1
      BY FS_Singleton
    <3>3. QED
      BY <3>1, <3>2
  <2>5. QED
    BY <2>2, <2>3, <2>4
<1>2. QED
  BY <1>1, CatalogHolds, PTL

\* However the pages are cut and whoever writes rows meanwhile: when a sync ends, each
\* item of the list has a row that is as Zoho says, but for items touched since, items
\* of a page that was refused, and lists that lost an item while they were read.
THEOREM SyncsAreComplete == CatalogSpec => []SyncBringsUpToDate
<1>1. CatalogInv => SyncBringsUpToDate
  <2> SUFFICES ASSUME CatalogInv, NEW w \in Workers, NEW i \in Listed,
                      task[w].step = "done", ~task[w].left, i \notin task[w].touched
               PROVE  Current(i)
    BY DEF SyncBringsUpToDate, Working, Current
  <2>1. Fits(w) /\ Progress(w) /\ task[w] \in Task
    BY DEF CatalogInv, SyncInv, CatalogTyped
  <2>2. Syncing(task[w])
    BY <2>1 DEF Fits, Syncing
  <2>3. Reached(w)
    BY <2>1, <2>2 DEF Progress
  <2>4. QED
    BY <2>3 DEF Reached
<1>2. QED
  BY <1>1, CatalogHolds, PTL

-----------------------------------------------------------------------------
(***************************************************************************)
(* What the storefront shows.                                              *)
(***************************************************************************)
PieceNames == {"tree", "page", "rows", "detail", "category", "collections", "sites"}

PiecesOf(e) == {Pieces(e)[i] : i \in DOMAIN Pieces(e)}

Entry == [age : Nat, left : Nat]

Request == [endpoint : Endpoints \cup {"none"}, todo : Seq(PieceNames), since : Nat, oldest : Nat,
            calling : BOOLEAN, asked : Nat]

ReadsTypeOK ==
  /\ kept \in [CachedPieces -> Entry]
  /\ responses \in [CachedEndpoints -> Entry]
  /\ read \in [Readers -> Request]

\* An entry that is still used: its age and the time it has left add up to no more than its
\* lifetime and the request that fetched it.
PieceLives(p) == Valid(kept[p]) => kept[p].age + kept[p].left <= Lifetime[p] + MaxWork

ResponseLives(e) ==
  Valid(responses[e]) =>
    responses[e].age + responses[e].left
      <= LongestLife(e) + Lifetime["response"] + 2 * MaxWork

\* What a request has read so far: older than the longest life by the request that fetched
\* it and by the time it has itself taken.
RequestLives(r) ==
  LET e == read[r].endpoint IN
  Serving(r) =>
    /\ read[r].todo \in Seq(PiecesOf(e))
    /\ read[r].since <= MaxWork
    /\ read[r].asked <= read[r].since
    /\ read[r].calling => read[r].todo # <<>>
    /\ read[r].oldest <= LongestLife(e) + MaxWork + read[r].since

Lives ==
  /\ ReadsTypeOK
  /\ \A p \in CachedPieces : PieceLives(p)
  /\ \A e \in CachedEndpoints : ResponseLives(e)
  /\ \A r \in Readers : RequestLives(r)

-----------------------------------------------------------------------------
\* Every plan is a sequence of its pieces.
LEMMA PlansAreSequences ==
  \A e \in Endpoints : Pieces(e) \in Seq(PieceNames) /\ Pieces(e) \in Seq(PiecesOf(e))
<1>1. SUFFICES ASSUME NEW e \in Endpoints PROVE Pieces(e) \in Seq(PieceNames)
  <2>1. ASSUME NEW s \in Seq(PieceNames) PROVE s \in Seq({s[i] : i \in DOMAIN s})
    OBVIOUS
  <2>2. QED BY <2>1 DEF PiecesOf
<1>2. Endpoints = {"page", "limited", "all", "search", "category_deals", "admin_deals",
                   "collection_deals", "product", "related", "stores", "categories",
                   "sub_categories", "category_search", "category_image", "collections"}
  BY DEF Endpoints, Plans
<1>3. CASE e = "page"
  BY <1>3 DEF PieceNames, Pieces, Plans, ProductPage
<1>4. CASE e = "limited"
  BY <1>4 DEF PieceNames, Pieces, Plans, LimitedList
<1>5. CASE e = "all"
  BY <1>5 DEF PieceNames, Pieces, Plans, WholeList
<1>6. CASE e = "search"
  BY <1>6 DEF PieceNames, Pieces, Plans, ProductSearch
<1>7. CASE e = "category_deals"
  BY <1>7 DEF PieceNames, Pieces, Plans, CategoryDeals
<1>8. CASE e = "admin_deals"
  BY <1>8 DEF PieceNames, Pieces, Plans, AdminDeals
<1>9. CASE e = "collection_deals"
  BY <1>9 DEF PieceNames, Pieces, Plans, CollectionDeals
<1>10. CASE e = "product"
  BY <1>10 DEF PieceNames, Pieces, Plans, ProductDetail
<1>11. CASE e = "related"
  BY <1>11 DEF PieceNames, Pieces, Plans, RelatedProducts
<1>12. CASE e = "stores"
  BY <1>12 DEF PieceNames, Pieces, Plans, StoreList
<1>13. CASE e = "categories"
  BY <1>13 DEF PieceNames, Pieces, Plans, CategoryList
<1>14. CASE e = "sub_categories"
  BY <1>14 DEF PieceNames, Pieces, Plans, SubCategories
<1>15. CASE e = "category_search"
  BY <1>15 DEF PieceNames, Pieces, Plans, CategorySearch
<1>16. CASE e = "category_image"
  BY <1>16 DEF PieceNames, Pieces, Plans, CategoryImage
<1>17. CASE e = "collections"
  BY <1>17 DEF PieceNames, Pieces, Plans, CollectionList
<1>18. QED
  BY <1>2, <1>3, <1>4, <1>5, <1>6, <1>7, <1>8, <1>9, <1>10,
     <1>11, <1>12, <1>13, <1>14, <1>15, <1>16, <1>17

\* The endpoints whose responses are kept are endpoints.
LEMMA CachedAreEndpoints == CachedEndpoints \subseteq Endpoints /\ "none" \notin Endpoints
BY DEF CachedEndpoints, Endpoints, Plans

\* LongestLife(e) is a number that no cached piece of e outlives.
LEMMA LongestLifeBounds ==
  ASSUME NEW e \in Endpoints
  PROVE  /\ LongestLife(e) \in Nat
         /\ \A p \in CachedPieces \cap PiecesOf(e) : Lifetime[p] <= LongestLife(e)
<1> DEFINE lives == {Lifetime[p] : p \in CachedPieces \cap PiecesOf(e)}
<1>1. LongestLife(e) = IF lives = {} THEN 0
                       ELSE CHOOSE l \in lives : \A other \in lives : other <= l
  BY DEF LongestLife, PiecesOf
<1>2. lives \subseteq Nat
  BY LifetimeAssumption
<1>3. \E a, b, c \in Nat : lives \subseteq {a, b, c}
  BY LifetimeAssumption DEF CachedPieces
<1>4. \A p \in CachedPieces \cap PiecesOf(e) : Lifetime[p] \in lives
  OBVIOUS
<1> HIDE DEF lives
<1>5. CASE lives = {}
  BY <1>1, <1>4, <1>5
<1>6. CASE lives # {}
  <2>1. \E l \in lives : \A other \in lives : other <= l
    <3>1. PICK a \in Nat, b \in Nat, c \in Nat : lives \subseteq {a, b, c}
      BY <1>3
    <3>2. CASE a \in lives /\ (b \in lives => b <= a) /\ (c \in lives => c <= a)
      BY <3>1, <3>2
    <3>3. CASE b \in lives /\ (a \in lives => a <= b) /\ (c \in lives => c <= b)
      BY <3>1, <3>3
    <3>4. CASE c \in lives /\ (a \in lives => a <= c) /\ (b \in lives => b <= c)
      BY <3>1, <3>4
    <3>5. PICK x \in lives : TRUE
      BY <1>6
    <3>6. a \in lives \/ b \in lives \/ c \in lives
      BY <3>1, <3>5
    <3>7. QED BY <3>2, <3>3, <3>4, <3>6
  <2>2. LongestLife(e) \in lives /\ \A other \in lives : other <= LongestLife(e)
    BY <1>1, <1>6, <2>1
  <2>3. QED BY <1>2, <1>4, <2>2
<1>7. QED BY <1>5, <1>6

-----------------------------------------------------------------------------
\* A request goes on with the rest of its plan, and with a piece that is not too old.
LEMMA UseLives ==
  ASSUME Lives, NEW r \in Readers, Serving(r), read[r].todo # <<>>, NEW age \in Nat,
         \/ age <= read[r].since
         \/ Wanted(r) \in CachedPieces /\ age <= Lifetime[Wanted(r)] + MaxWork,
         Use(r, age)
  PROVE  /\ read' \in [Readers -> Request]
         /\ \A q \in Readers : RequestLives(q)'
<1> DEFINE e == read[r].endpoint
<1>1. /\ read \in [Readers -> Request] /\ read[r] \in Request /\ e \in Endpoints
      /\ RequestLives(r)
  BY DEF Lives, ReadsTypeOK, Request, Serving
<1>2. /\ LongestLife(e) \in Nat
      /\ \A p \in CachedPieces \cap PiecesOf(e) : Lifetime[p] <= LongestLife(e)
  BY <1>1, LongestLifeBounds
<1>3. Wanted(r) \in PiecesOf(e)
  BY <1>1 DEF RequestLives, Wanted
<1>4. age <= LongestLife(e) + MaxWork + read[r].since
  <2>1. CASE age <= read[r].since
    BY <2>1, <1>1, <1>2, WorkAssumption DEF Request
  <2>2. CASE Wanted(r) \in CachedPieces /\ age <= Lifetime[Wanted(r)] + MaxWork
    BY <2>2, <1>1, <1>2, <1>3, WorkAssumption, LifetimeAssumption DEF Request
  <2>3. QED BY <2>1, <2>2
<1>5. /\ Tail(read[r].todo) \in Seq(PiecesOf(e)) /\ Tail(read[r].todo) \in Seq(PieceNames)
  BY <1>1 DEF RequestLives, Request
<1> DEFINE new == [read[r] EXCEPT !.todo = Tail(@), !.oldest = IF @ > age THEN @ ELSE age,
                                  !.calling = FALSE, !.asked = 0]
<1>6. read' = [read EXCEPT ![r] = new]
  BY <1>1 DEF Use
<1>7. new \in Request
  BY <1>1, <1>5 DEF Request
<1>8. /\ new.endpoint = e /\ new.todo = Tail(read[r].todo) /\ new.since = read[r].since
      /\ new.asked = 0 /\ new.calling = FALSE
      /\ new.oldest = IF read[r].oldest > age THEN read[r].oldest ELSE age
  BY <1>1 DEF Request
<1> HIDE DEF new
<1>9. RequestLives(r)'
  <2>1. read'[r] = new
    BY <1>1, <1>6
  <2>2. /\ read[r].since \in Nat /\ read[r].since <= MaxWork
        /\ read[r].oldest \in Nat
        /\ read[r].oldest <= LongestLife(e) + MaxWork + read[r].since
    BY <1>1 DEF RequestLives, Request
  <2>3. new.oldest <= LongestLife(e) + MaxWork + new.since
    BY <1>4, <1>8, <2>2
  <2>4. MaxWork \in Nat /\ new.todo \in Seq(PiecesOf(new.endpoint))
    BY <1>5, <1>8, WorkAssumption
  <2>5. QED
    BY <2>1, <2>2, <2>3, <2>4, <1>8 DEF RequestLives, Serving
<1>10. ASSUME NEW q \in Readers, q # r PROVE RequestLives(q)'
  BY <1>10, <1>1, <1>6 DEF Lives, RequestLives, Serving
<1>11. QED BY <1>1, <1>6, <1>7, <1>9, <1>10

\* The entries do not change.
LEMMA SameEntries ==
  ASSUME Lives, UNCHANGED <<kept, responses>>
  PROVE  /\ kept' \in [CachedPieces -> Entry] /\ responses' \in [CachedEndpoints -> Entry]
         /\ \A p \in CachedPieces : PieceLives(p)'
         /\ \A e \in CachedEndpoints : ResponseLives(e)'
BY DEF Lives, ReadsTypeOK, PieceLives, ResponseLives, Valid

\* A request that is not served, and one of the others.
LEMMA OneRequest ==
  ASSUME Lives, NEW r \in Readers, NEW new \in Request, read' = [read EXCEPT ![r] = new],
         new.endpoint # "none" =>
           /\ new.todo \in Seq(PiecesOf(new.endpoint))
           /\ new.since <= MaxWork
           /\ new.asked <= new.since
           /\ new.calling => new.todo # <<>>
           /\ new.oldest <= LongestLife(new.endpoint) + MaxWork + new.since
  PROVE  /\ read' \in [Readers -> Request]
         /\ \A q \in Readers : RequestLives(q)'
<1>1. read \in [Readers -> Request]
  BY DEF Lives, ReadsTypeOK
<1>2. RequestLives(r)'
  <2>1. read'[r] = new
    BY <1>1
  <2>2. QED BY <2>1 DEF RequestLives, Serving
<1>3. ASSUME NEW q \in Readers, q # r PROVE RequestLives(q)'
  BY <1>1, <1>3 DEF Lives, RequestLives, Serving
<1>4. QED BY <1>1, <1>2, <1>3

LEMMA NoReadIsRequest == NoRead \in Request /\ NoRead.endpoint = "none"
<1>1. <<>> \in Seq(PieceNames)
  OBVIOUS
<1>2. QED BY <1>1 DEF NoRead, Request

-----------------------------------------------------------------------------
LEMMA AskForLives ==
  ASSUME Lives, NEW r \in Readers, NEW e \in Endpoints, AskFor(r, e)
  PROVE  Lives'
<1> DEFINE new == [NoRead EXCEPT !.endpoint = e, !.todo = Pieces(e)]
<1>1. new \in Request
  BY PlansAreSequences DEF NoRead, Request
<1>2. /\ new.endpoint = e /\ new.todo = Pieces(e) /\ new.since = 0 /\ new.asked = 0
      /\ new.oldest = 0 /\ new.calling = FALSE
  BY DEF NoRead
<1>3. read' = [read EXCEPT ![r] = new] /\ UNCHANGED <<kept, responses>>
  BY DEF AskFor
<1> HIDE DEF new
<1>4. LongestLife(e) \in Nat /\ Pieces(e) \in Seq(PiecesOf(e))
  BY LongestLifeBounds, PlansAreSequences
<1>5. /\ new.todo \in Seq(PiecesOf(new.endpoint)) /\ new.since <= MaxWork
      /\ new.oldest <= LongestLife(new.endpoint) + MaxWork + new.since
  BY <1>2, <1>4, WorkAssumption
<1>6. /\ read' \in [Readers -> Request] /\ \A q \in Readers : RequestLives(q)'
  <2>1. new.asked <= new.since /\ (new.calling => new.todo # <<>>)
    BY <1>2
  <2>2. read' = [read EXCEPT ![r] = new]
    BY <1>3
  <2>3. QED BY <1>1, <1>5, <2>1, <2>2, OneRequest
<1>7. QED BY <1>3, <1>6, SameEntries DEF Lives, ReadsTypeOK

LEMMA RestOfPlan == ASSUME NEW S, NEW s \in Seq(S), s # <<>> PROVE Tail(s) \in Seq(S)
OBVIOUS

LEMMA SkipLives ==
  ASSUME Lives, NEW r \in Readers, Skip(r)
  PROVE  Lives'
<1> DEFINE new == [read[r] EXCEPT !.todo = Tail(@)]
<1>1. read[r] \in Request /\ RequestLives(r) /\ Serving(r) /\ read[r].todo # <<>>
  BY DEF Lives, ReadsTypeOK, Skip, Ready
<1>2. /\ Tail(read[r].todo) \in Seq(PieceNames)
      /\ Tail(read[r].todo) \in Seq(PiecesOf(read[r].endpoint))
  <2>1. read[r].todo \in Seq(PieceNames) /\ read[r].todo # <<>>
    BY <1>1 DEF Request
  <2>2. read[r].todo \in Seq(PiecesOf(read[r].endpoint))
    BY <1>1 DEF RequestLives
  <2>3. Tail(read[r].todo) \in Seq(PieceNames)
    BY <2>1
  <2>4. Tail(read[r].todo) \in Seq(PiecesOf(read[r].endpoint))
    BY <2>1, <2>2, RestOfPlan
  <2>5. QED BY <2>3, <2>4
<1>3. new \in Request
  BY <1>1, <1>2 DEF Request
<1>4. /\ new.endpoint = read[r].endpoint /\ new.todo = Tail(read[r].todo)
      /\ new.since = read[r].since /\ new.asked = read[r].asked
      /\ new.oldest = read[r].oldest /\ new.calling = FALSE
  BY <1>1 DEF Request, Skip, Ready
<1>5. read' = [read EXCEPT ![r] = new] /\ UNCHANGED <<kept, responses>>
  BY DEF Skip, Lives, ReadsTypeOK
<1> HIDE DEF new
<1>6. /\ read' \in [Readers -> Request] /\ \A q \in Readers : RequestLives(q)'
  BY <1>1, <1>2, <1>3, <1>4, <1>5, OneRequest DEF RequestLives, Serving
<1>7. QED BY <1>5, <1>6, SameEntries DEF Lives, ReadsTypeOK

LEMMA CallLives ==
  ASSUME Lives, NEW r \in Readers, Call(r)
  PROVE  Lives'
<1> DEFINE new == [read[r] EXCEPT !.calling = TRUE]
<1>1. read[r] \in Request /\ RequestLives(r) /\ Serving(r) /\ read[r].todo # <<>>
  BY DEF Lives, ReadsTypeOK, Call, Ready
<1>2. new \in Request
  BY <1>1 DEF Request
<1>3. /\ new.endpoint = read[r].endpoint /\ new.todo = read[r].todo
      /\ new.since = read[r].since /\ new.asked = read[r].asked
      /\ new.oldest = read[r].oldest
  BY <1>1 DEF Request
<1>4. read' = [read EXCEPT ![r] = new] /\ UNCHANGED <<kept, responses>>
  BY DEF Call, Lives, ReadsTypeOK
<1> HIDE DEF new
<1>5. /\ read' \in [Readers -> Request] /\ \A q \in Readers : RequestLives(q)'
  BY <1>1, <1>2, <1>3, <1>4, OneRequest DEF RequestLives, Serving
<1>6. QED BY <1>4, <1>5, SameEntries DEF Lives, ReadsTypeOK

\* A piece from the cache is no older than its lifetime and the request that fetched it.
LEMMA FromCacheLives ==
  ASSUME Lives, NEW r \in Readers, FromCache(r)
  PROVE  Lives'
<1> DEFINE p == Wanted(r)
<1>1. p \in CachedPieces /\ Valid(kept[p]) /\ PieceLives(p) /\ kept[p] \in Entry
  BY DEF FromCache, Lives, ReadsTypeOK
<1>2. kept[p].age \in Nat /\ kept[p].age <= Lifetime[p] + MaxWork
  BY <1>1, LifetimeAssumption, WorkAssumption DEF PieceLives, Entry, Valid
<1>3. /\ Serving(r) /\ read[r].todo # <<>> /\ Use(r, kept[p].age)
      /\ UNCHANGED <<kept, responses>>
  BY DEF FromCache, Ready
<1> HIDE DEF p
<1>4. /\ read' \in [Readers -> Request] /\ \A q \in Readers : RequestLives(q)'
  BY <1>1, <1>2, <1>3, UseLives DEF p
<1>5. QED BY <1>3, <1>4, SameEntries DEF Lives, ReadsTypeOK

LEMMA EvictLives ==
  ASSUME Lives, NEW p \in CachedPieces, Evict(p)
  PROVE  Lives'
<1>1. /\ kept' = [kept EXCEPT ![p] = Nothing] /\ Nothing \in Entry
      /\ UNCHANGED <<responses, read>>
  BY DEF Evict, Nothing, Entry
<1>2. ReadsTypeOK'
  BY <1>1 DEF Lives, ReadsTypeOK
<1>3. ASSUME NEW q \in CachedPieces PROVE PieceLives(q)'
  BY <1>1 DEF Lives, ReadsTypeOK, PieceLives, Valid, Nothing
<1>4. QED
  BY <1>1, <1>2, <1>3 DEF Lives, ResponseLives, RequestLives, Serving, Valid

\* A piece that was fetched is as old as the request has been asking for it.
LEMMA AnswerLives ==
  ASSUME Lives, NEW r \in Readers, Answer(r)
  PROVE  Lives'
<1> DEFINE asked == read[r].asked
<1>1. /\ Serving(r) /\ read[r].todo # <<>> /\ asked \in Nat /\ asked <= read[r].since
      /\ asked <= MaxWork
  BY WorkAssumption DEF Answer, Lives, ReadsTypeOK, Request, RequestLives
<1>2. Use(r, asked) /\ UNCHANGED responses
  BY DEF Answer
<1>3. /\ kept' \in [CachedPieces -> Entry]
      /\ \A p \in CachedPieces : PieceLives(p)'
  <2>1. CASE Wanted(r) \in CachedPieces /\ Lifetime[Wanted(r)] > 0
    <3>1. kept' = [kept EXCEPT ![Wanted(r)] = [age |-> asked, left |-> Lifetime[Wanted(r)]]]
      BY <2>1 DEF Answer
    <3>2. [age |-> asked, left |-> Lifetime[Wanted(r)]] \in Entry
      BY <2>1, <1>1, LifetimeAssumption DEF Entry
    <3>3. ASSUME NEW p \in CachedPieces PROVE PieceLives(p)'
      <4>1. Lifetime[p] \in Nat
        BY LifetimeAssumption
      <4>2. QED
        BY <3>1, <1>1, <4>1, WorkAssumption DEF Lives, ReadsTypeOK, PieceLives, Valid
    <3>4. QED BY <3>1, <3>2, <3>3 DEF Lives, ReadsTypeOK
  <2>2. CASE ~(Wanted(r) \in CachedPieces /\ Lifetime[Wanted(r)] > 0)
    <3>1. kept' = kept
      BY <2>2 DEF Answer
    <3>2. QED BY <3>1 DEF Lives, ReadsTypeOK, PieceLives, Valid
  <2>3. QED BY <2>1, <2>2
<1> HIDE DEF asked
<1>4. /\ read' \in [Readers -> Request] /\ \A q \in Readers : RequestLives(q)'
  BY <1>1, <1>2, UseLives
<1>5. QED
  BY <1>2, <1>3, <1>4 DEF Lives, ReadsTypeOK, ResponseLives, Valid

\* A failed call leaves a gap that is as old, or ends the request.
LEMMA CallFailsLives ==
  ASSUME Lives, NEW r \in Readers, CallFails(r)
  PROVE  Lives'
<1>1. /\ Serving(r) /\ read[r].todo # <<>> /\ read[r].asked \in Nat
      /\ read[r].asked <= read[r].since
  BY DEF CallFails, Lives, ReadsTypeOK, Request, RequestLives
<1>2. Use(r, read[r].asked) \/ read' = [read EXCEPT ![r] = NoRead]
  BY DEF CallFails
<1>3. /\ read' \in [Readers -> Request] /\ \A q \in Readers : RequestLives(q)'
  BY <1>1, <1>2, UseLives, OneRequest, NoReadIsRequest
<1>4. UNCHANGED <<kept, responses>>
  BY DEF CallFails
<1>5. QED BY <1>3, <1>4, SameEntries DEF Lives, ReadsTypeOK

\* A response is as old as its oldest piece.
LEMMA RespondLives ==
  ASSUME Lives, NEW r \in Readers, Respond(r)
  PROVE  Lives'
<1> DEFINE e == read[r].endpoint
<1>1. /\ e \in Endpoints /\ read[r].oldest \in Nat
      /\ read[r].since \in Nat /\ read[r].since <= MaxWork
      /\ read[r].oldest <= LongestLife(e) + MaxWork + read[r].since
  BY DEF Respond, Serving, Lives, ReadsTypeOK, Request, RequestLives
<1>2. LongestLife(e) \in Nat /\ Lifetime["response"] \in Nat /\ MaxWork \in Nat
  BY <1>1, LongestLifeBounds, LifetimeAssumption, WorkAssumption
<1>3. read[r].oldest <= LongestLife(e) + 2 * MaxWork
  BY <1>1, <1>2
<1>4. /\ responses' \in [CachedEndpoints -> Entry]
      /\ \A f \in CachedEndpoints : ResponseLives(f)'
  <2>1. CASE responses' = responses
    BY <2>1 DEF Lives, ReadsTypeOK, ResponseLives, Valid
  <2>2. CASE /\ e \in CachedEndpoints
             /\ responses' = [responses EXCEPT ![e] = [age |-> read[r].oldest,
                                                       left |-> Lifetime["response"]]]
    <3>1. [age |-> read[r].oldest, left |-> Lifetime["response"]] \in Entry
      BY <1>1, <1>2 DEF Entry
    <3>2. ASSUME NEW f \in CachedEndpoints, f = e PROVE ResponseLives(f)'
      <4>1. responses'[f] = [age |-> read[r].oldest, left |-> Lifetime["response"]]
        BY <2>2, <3>2 DEF Lives, ReadsTypeOK
      <4>2. read[r].oldest <= LongestLife(f) + 2 * MaxWork
        BY <1>3, <3>2
      <4>3. QED
        BY <4>1, <4>2, <1>1, <1>2, <3>2 DEF ResponseLives
    <3>3. ASSUME NEW f \in CachedEndpoints, f # e PROVE ResponseLives(f)'
      BY <3>3, <2>2 DEF Lives, ReadsTypeOK, ResponseLives, Valid
    <3>4. QED BY <2>2, <3>1, <3>2, <3>3 DEF Lives, ReadsTypeOK
  <2>3. QED BY <2>1, <2>2 DEF Respond
<1>5. read' = [read EXCEPT ![r] = NoRead] /\ UNCHANGED kept
  BY DEF Respond
<1>6. /\ read' \in [Readers -> Request] /\ \A q \in Readers : RequestLives(q)'
  BY <1>5, OneRequest, NoReadIsRequest
<1>7. QED
  BY <1>4, <1>5, <1>6 DEF Lives, ReadsTypeOK, PieceLives, Valid

LEMMA AgedEntry ==
  ASSUME NEW entry \in Entry
  PROVE  /\ Aged(entry) \in Entry
         /\ Valid(Aged(entry)) =>
              Valid(entry) /\ Aged(entry).age + Aged(entry).left = entry.age + entry.left
<1>1. CASE entry.left <= 1
  BY <1>1 DEF Aged, Nothing, Entry, Valid
<1>2. CASE ~(entry.left <= 1)
  <2>1. Aged(entry) = [age |-> entry.age + 1, left |-> entry.left - 1]
    BY <1>2 DEF Aged
  <2>2. QED BY <1>2, <2>1 DEF Entry, Valid
<1>3. QED BY <1>1, <1>2

LEMMA OlderRequest ==
  ASSUME NEW q \in Request, NEW a \in Nat, NEW b \in Nat, NEW c \in Nat
  PROVE  [q EXCEPT !.since = a, !.oldest = b, !.asked = c] \in Request
BY DEF Request

\* Time passes only while every request has some left.
LEMMA PassLives ==
  ASSUME Lives, Pass
  PROVE  Lives'
<1>1. ReadsTypeOK
  BY DEF Lives
<1>2. /\ kept' \in [CachedPieces -> Entry]
      /\ \A p \in CachedPieces : PieceLives(p)'
  BY <1>1, AgedEntry DEF Pass, Lives, ReadsTypeOK, PieceLives
<1>3. /\ responses' \in [CachedEndpoints -> Entry]
      /\ \A e \in CachedEndpoints : ResponseLives(e)'
  BY <1>1, AgedEntry DEF Pass, Lives, ReadsTypeOK, ResponseLives
<1>4. ASSUME NEW r \in Readers PROVE read'[r] \in Request /\ RequestLives(r)'
  <2>1. read[r] \in Request
    BY <1>1 DEF ReadsTypeOK
  <2>2. CASE ~Serving(r)
    <3>1. read'[r] = NoRead
      BY <2>2 DEF Pass
    <3>2. QED BY <3>1, NoReadIsRequest DEF RequestLives, Serving
  <2>3. CASE Serving(r)
    <3> DEFINE asked == IF read[r].calling THEN read[r].asked + 1 ELSE 0
    <3> DEFINE new == [read[r] EXCEPT !.since = @ + 1, !.oldest = @ + 1, !.asked = asked]
    <3>1. read'[r] = new /\ read[r].since < MaxWork
      BY <2>3 DEF Pass
    <3>2. new \in Request
      <4>1. asked \in Nat
        BY <2>1 DEF Request
      <4> HIDE DEF asked
      <4>2. read[r].since + 1 \in Nat /\ read[r].oldest + 1 \in Nat
        BY <2>1 DEF Request
      <4>3. QED BY <2>1, <4>1, <4>2, OlderRequest
    <3>3. /\ new.endpoint = read[r].endpoint /\ new.todo = read[r].todo
          /\ new.since = read[r].since + 1 /\ new.oldest = read[r].oldest + 1
          /\ new.asked = IF read[r].calling THEN read[r].asked + 1 ELSE 0
          /\ new.calling = read[r].calling
      BY <2>1 DEF Request
    <3> HIDE DEF new
    <3>4. /\ read[r].todo \in Seq(PiecesOf(read[r].endpoint))
          /\ read[r].asked <= read[r].since
          /\ read[r].calling => read[r].todo # <<>>
          /\ read[r].oldest <= LongestLife(read[r].endpoint) + MaxWork + read[r].since
          /\ read[r].endpoint \in Endpoints
      BY <2>1, <2>3 DEF Lives, RequestLives, Serving, Request
    <3>5. LongestLife(read[r].endpoint) \in Nat /\ MaxWork \in Nat
      BY <3>4, LongestLifeBounds, WorkAssumption
    <3>6. /\ new.since <= MaxWork /\ new.asked <= new.since
          /\ new.oldest <= LongestLife(new.endpoint) + MaxWork + new.since
      BY <2>1, <3>1, <3>3, <3>4, <3>5 DEF Request
    <3>7. QED BY <3>1, <3>2, <3>3, <3>4, <3>6 DEF RequestLives, Serving
  <2>4. QED BY <2>2, <2>3
<1>5. read' \in [Readers -> Request]
  BY <1>4 DEF Pass
<1>6. QED BY <1>2, <1>3, <1>4, <1>5 DEF Lives, ReadsTypeOK

-----------------------------------------------------------------------------
LEMMA NextLives ==
  ASSUME Lives, [ReadsNext]_readVars
  PROVE  Lives'
<1>1. CASE UNCHANGED readVars
  BY <1>1 DEF readVars, Lives, ReadsTypeOK, PieceLives, ResponseLives, RequestLives, Serving,
              Valid
<1>2. ASSUME NEW r \in Readers, NEW e \in Endpoints, AskFor(r, e) PROVE Lives'
  BY <1>2, AskForLives
<1>3. ASSUME NEW r \in Readers,
             \/ Skip(r) \/ FromCache(r) \/ Call(r) \/ Answer(r) \/ CallFails(r)
             \/ Respond(r)
      PROVE  Lives'
  BY <1>3, SkipLives, FromCacheLives, CallLives, AnswerLives, CallFailsLives, RespondLives
<1>4. ASSUME NEW p \in CachedPieces, Evict(p) PROVE Lives'
  BY <1>4, EvictLives
<1>5. CASE Pass
  BY <1>5, PassLives
<1>6. QED BY <1>1, <1>2, <1>3, <1>4, <1>5 DEF ReadsNext

LEMMA InitLives == ReadsInit => Lives
<1> SUFFICES ASSUME ReadsInit PROVE Lives
  OBVIOUS
<1>1. Nothing \in Entry /\ ~Valid(Nothing)
  BY DEF Nothing, Entry, Valid
<1>2. ReadsTypeOK
  BY <1>1, NoReadIsRequest DEF ReadsInit, ReadsTypeOK
<1>3. QED
  BY <1>1, <1>2, NoReadIsRequest
     DEF ReadsInit, Lives, PieceLives, ResponseLives, RequestLives, Serving

LEMMA LivesImpliesRecent == Lives => ShownIsRecent
<1> SUFFICES ASSUME Lives PROVE ShownIsRecent
  OBVIOUS
<1>1. ASSUME NEW e \in CachedEndpoints, Valid(responses[e])
      PROVE  responses[e].age < LongestLife(e) + Lifetime["response"] + 2 * MaxWork
  <2>1. LongestLife(e) \in Nat /\ Lifetime["response"] \in Nat /\ MaxWork \in Nat
    BY CachedAreEndpoints, LongestLifeBounds, LifetimeAssumption, WorkAssumption
  <2>2. QED BY <1>1, <2>1 DEF Lives, ReadsTypeOK, ResponseLives, Valid, Entry
<1>2. ASSUME NEW r \in Readers, Serving(r)
      PROVE  read[r].oldest <= LongestLife(read[r].endpoint) + 2 * MaxWork
  <2>1. read[r] \in Request /\ read[r].endpoint \in Endpoints
    BY <1>2 DEF Lives, ReadsTypeOK, Request, Serving
  <2>2. LongestLife(read[r].endpoint) \in Nat /\ MaxWork \in Nat
    BY <2>1, LongestLifeBounds, WorkAssumption
  <2>3. QED BY <1>2, <2>1, <2>2 DEF Lives, RequestLives, Request
<1>3. QED BY <1>1, <1>2 DEF ShownIsRecent

\* Whatever the lifetimes of the three layers are and however the requests that fill and
\* read them interleave, a customer is shown nothing older than the lives of the layers
\* it came through and the time of two requests: zoho_read_cache's caches do not renew
\* each other's entries.
THEOREM ReadsShowRecent == ReadsSpec => []ShownIsRecent
<1>1. ReadsInit => Lives
  BY InitLives
<1>2. Lives /\ [ReadsNext]_readVars => Lives'
  BY NextLives
<1>3. QED BY <1>1, <1>2, LivesImpliesRecent, PTL DEF ReadsSpec

-----------------------------------------------------------------------------
(***************************************************************************)
(* Integers: what the provers need to be told of products and quotients.   *)
(***************************************************************************)
LEMMA Times ==
  ASSUME NEW a \in Int, NEW b \in Int, NEW c \in Nat, a <= b
  PROVE  c * a <= c * b
OBVIOUS

LEMMA Divide ==
  ASSUME NEW a \in Int, NEW b \in Int, NEW c \in Nat \ {0}, c * a <= c * b
  PROVE  a <= b
<1> SUFFICES ASSUME b + 1 <= a PROVE FALSE
  OBVIOUS
<1>1. c * (b + 1) <= c * a
  BY Times
<1>2. c * (b + 1) = c * b + c
  OBVIOUS
<1>3. QED
  BY <1>1, <1>2

LEMMA Quotient ==
  ASSUME NEW n \in Int, NEW d \in Nat \ {0}
  PROVE  \E q \in Int, r \in 0..(d - 1) : q = n \div d /\ r = n % d /\ n = d * q + r
<1>1. n \div d \in Int /\ n % d \in 0..(d - 1)
  OBVIOUS
<1>2. n % d = n - d * (n \div d)
  OBVIOUS
<1>3. PICK q \in Int, r \in 0..(d - 1) : q = n \div d /\ r = n % d
  BY <1>1
<1>4. r = n - d * q
  BY <1>2, <1>3
<1>5. n = d * q + r
  BY <1>4
<1>6. QED
  BY <1>3, <1>5

LEMMA RoundedUp ==
  ASSUME NEW n \in Nat, NEW d \in Nat \ {0}
  PROVE  /\ HalfUp(n, d) \in Nat
         /\ 2 * (d * HalfUp(n, d)) <= 2 * n + d
         /\ 2 * (d * HalfUp(n, d)) > 2 * n - d
<1>1. PICK q \in Int, r \in 0..(2 * d - 1) :
             q = (2 * n + d) \div (2 * d) /\ 2 * n + d = (2 * d) * q + r
  BY Quotient
<1>2. HalfUp(n, d) = q
  BY <1>1 DEF HalfUp
<1>3. /\ 2 * (d * q) <= 2 * n + d
      /\ 2 * (d * q) > 2 * n - d
  BY <1>1
<1>4. q >= 0
  <2>1. SUFFICES ASSUME q <= -1 PROVE FALSE
    BY <1>1
  <2>2. d * q <= d * (-1)
    BY <2>1, <1>1, Times
  <2>3. d * (-1) = -d
    OBVIOUS
  <2>4. QED
    BY <1>1, <1>3, <2>2, <2>3
<1>5. QED
  BY <1>1, <1>2, <1>3, <1>4

LEMMA RoundedEven ==
  ASSUME NEW n \in Nat, NEW d \in Nat \ {0}
  PROVE  /\ HalfEven(n, d) \in Nat
         /\ 2 * (d * HalfEven(n, d)) <= 2 * n + d
         /\ 2 * (d * HalfEven(n, d)) >= 2 * n - d
<1>1. PICK q \in Int, r \in 0..(d - 1) : q = n \div d /\ r = n % d /\ n = d * q + r
  BY Quotient
<1>2. \/ HalfEven(n, d) = q /\ 2 * r <= d
      \/ HalfEven(n, d) = q + 1 /\ 2 * r >= d
  BY <1>1 DEF HalfEven
<1>3. q >= 0
  <2>1. SUFFICES ASSUME q <= -1 PROVE FALSE
    BY <1>1
  <2>2. d * q <= d * (-1)
    BY <2>1, <1>1, Times
  <2>3. d * (-1) = -d
    OBVIOUS
  <2>4. QED
    BY <1>1, <2>2, <2>3
<1>4. d * (q + 1) = d * q + d /\ d * q \in Int
  BY <1>1
<1>5. CASE HalfEven(n, d) = q /\ 2 * r <= d
  BY <1>1, <1>3, <1>4, <1>5
<1>6. CASE HalfEven(n, d) = q + 1 /\ 2 * r >= d
  BY <1>1, <1>3, <1>4, <1>6
<1>7. QED
  BY <1>2, <1>5, <1>6

\* An exact quotient is not rounded.
LEMMA ExactIsKept ==
  ASSUME NEW m \in Nat, NEW d \in Nat \ {0}
  PROVE  HalfUp(m * d, d) = m
<1> DEFINE h == HalfUp(m * d, d)
<1>1. m * d \in Nat /\ m * d = d * m
  OBVIOUS
<1>2. /\ h \in Nat
      /\ 2 * (d * h) <= 2 * (d * m) + d
      /\ 2 * (d * h) > 2 * (d * m) - d
  BY <1>1, RoundedUp
<1> HIDE DEF h
<1>3. h <= m
  <2>1. SUFFICES ASSUME m + 1 <= h PROVE FALSE
    BY <1>2
  <2>2. d * (m + 1) <= d * h
    BY <2>1, <1>2, Times
  <2>3. d * (m + 1) = d * m + d
    OBVIOUS
  <2>4. QED
    BY <1>1, <1>2, <2>2, <2>3
<1>4. m <= h
  <2>1. SUFFICES ASSUME h + 1 <= m PROVE FALSE
    BY <1>2
  <2>2. d * (h + 1) <= d * m
    BY <2>1, <1>2, Times
  <2>3. d * (h + 1) = d * h + d
    BY <1>2
  <2>4. d * h \in Nat
    BY <1>2
  <2>5. QED
    BY <1>1, <1>2, <2>2, <2>3, <2>4
<1>5. QED
  BY <1>2, <1>3, <1>4 DEF h

-----------------------------------------------------------------------------
(***************************************************************************)
(* The refund of a line.                                                   *)
(***************************************************************************)
LEMMA VatTyped ==
  ASSUME NEW t \in Nat
  PROVE  Vat(t) \in 0..t
<1>1. VatPercent \in 0..100
  BY ChargesAssumption
<1>2. t * VatPercent \in Nat /\ t * VatPercent = VatPercent * t
  BY <1>1
<1>3. t * VatPercent <= t * 100
  BY <1>1, Times
<1>4. PICK m \in Nat : m = t * VatPercent
  BY <1>2
<1>5. PICK v : v = HalfEven(m, 100)
  OBVIOUS
<1>6. v \in Nat /\ 2 * (100 * v) <= 2 * m + 100
  BY <1>5, RoundedEven
<1>7. Vat(t) = v
  BY <1>4, <1>5 DEF Vat
<1>8. QED
  BY <1>3, <1>4, <1>6, <1>7

\* A share of an amount, of a part of the whole.
LEMMA ShareBounds ==
  ASSUME NEW a \in Nat, NEW x \in Nat, NEW w \in Nat \ {0}
  PROVE  /\ HalfUp(a * x, w) \in Nat
         /\ 2 * (w * HalfUp(a * x, w)) <= 2 * (a * x) + w
         /\ 2 * (w * HalfUp(a * x, w)) >= 2 * (a * x) - w
<1>1. a * x \in Nat
  OBVIOUS
<1>2. PICK n \in Nat : n = a * x
  BY <1>1
<1>3. /\ HalfUp(n, w) \in Nat
      /\ 2 * (w * HalfUp(n, w)) <= 2 * n + w
      /\ 2 * (w * HalfUp(n, w)) > 2 * n - w
  BY RoundedUp
<1>4. PICK h \in Nat : h = HalfUp(n, w)
  BY <1>3
<1>5. QED
  BY <1>2, <1>3, <1>4

\* What is left of a line after its share of the discount D of the articles S.
LEMMA ProductPart ==
  ASSUME NEW S \in Nat \ {0}, NEW D \in 0..S, NEW g \in Nat, NEW d \in Nat,
         2 * (S * d) <= 2 * (D * g) + S, 2 * (S * d) >= 2 * (D * g) - S
  PROVE  /\ AtLeast(g - d, 0) = g - d /\ g - d \in Nat
         /\ 2 * (S * (g - d)) <= 2 * ((S - D) * g) + S
         /\ 2 * (S * (g - d)) >= 2 * ((S - D) * g) - S
<1>1. D * g <= S * g
  <2>1. g * D <= g * S
    BY Times
  <2>2. QED
    BY <2>1
<1>2. d <= g
  <2>1. SUFFICES ASSUME g + 1 <= d PROVE FALSE
    OBVIOUS
  <2>2. S * (g + 1) <= S * d
    BY <2>1, Times
  <2>3. S * (g + 1) = S * g + S /\ S * g \in Nat /\ D * g \in Nat /\ S * d \in Nat
    OBVIOUS
  <2>4. QED
    BY <1>1, <2>2, <2>3
<1>3. S * (g - d) = S * g - S * d /\ (S - D) * g = S * g - D * g
  OBVIOUS
<1>4. S * g \in Nat /\ D * g \in Nat /\ S * d \in Nat
  OBVIOUS
<1>5. QED
  BY <1>2, <1>3, <1>4 DEF AtLeast

\* Product, VAT and shipping of a line together, each rounded.
LEMMA PartsAddUp ==
  ASSUME NEW S \in Nat \ {0}, NEW T \in Nat \ {0}, NEW V \in 0..T, NEW F \in Nat, NEW g \in Nat,
         NEW p \in Nat, NEW v \in Nat, NEW f \in Nat,
         2 * (S * p) <= 2 * (T * g) + S, 2 * (S * p) >= 2 * (T * g) - S,
         2 * (T * v) <= 2 * (V * p) + T, 2 * (T * v) >= 2 * (V * p) - T,
         2 * (S * f) <= 2 * (F * g) + S, 2 * (S * f) >= 2 * (F * g) - S
  PROVE  /\ S * (p + v + f) <= (T + V + F) * g + 2 * S
         /\ S * (p + v + f) >= (T + V + F) * g - 2 * S
<1>1. /\ T * (2 * (S * p)) <= T * (2 * (T * g) + S)
      /\ T * (2 * (T * g) - S) <= T * (2 * (S * p))
  BY Times
<1>2. /\ S * (2 * (T * v)) <= S * (2 * (V * p) + T)
      /\ S * (2 * (V * p) - T) <= S * (2 * (T * v))
  BY Times
<1>3. /\ V * (2 * (S * p)) <= V * (2 * (T * g) + S)
      /\ V * (2 * (T * g) - S) <= V * (2 * (S * p))
  BY Times
<1>4. /\ T * (2 * (S * f)) <= T * (2 * (F * g) + S)
      /\ T * (2 * (F * g) - S) <= T * (2 * (S * f))
  BY Times
<1>5. S * V <= S * T
  BY Times
<1>6. /\ T * (2 * (S * (p + v + f))) <= T * (2 * ((T + V + F) * g + 2 * S))
      /\ T * (2 * ((T + V + F) * g - 2 * S)) <= T * (2 * (S * (p + v + f)))
  BY <1>1, <1>2, <1>3, <1>4, <1>5
<1>7. /\ 2 * (S * (p + v + f)) <= 2 * ((T + V + F) * g + 2 * S)
      /\ 2 * ((T + V + F) * g - 2 * S) <= 2 * (S * (p + v + f))
  <2>1. PICK x \in Int : x = 2 * (S * (p + v + f))
    OBVIOUS
  <2>2. PICK y \in Int : y = 2 * ((T + V + F) * g + 2 * S)
    OBVIOUS
  <2>3. PICK z \in Int : z = 2 * ((T + V + F) * g - 2 * S)
    OBVIOUS
  <2>4. T * x <= T * y /\ T * z <= T * x
    BY <1>6, <2>1, <2>2, <2>3
  <2>5. x <= y /\ z <= x
    BY <2>4, Divide
  <2>6. QED
    BY <2>1, <2>2, <2>3, <2>5
<1>8. QED
  BY <1>7

\* The part of a product whose whole discount leaves nothing is nothing.
LEMMA NothingLeft ==
  ASSUME NEW S \in Nat \ {0}, NEW g \in Nat, NEW d \in Nat, 2 * (S * d) >= 2 * (S * g) - S
  PROVE  g <= d
<1> SUFFICES ASSUME d + 1 <= g PROVE FALSE
  OBVIOUS
<1>1. S * (d + 1) <= S * g
  BY Times
<1>2. S * (d + 1) = S * d + S
  OBVIOUS
<1>3. QED
  BY <1>1, <1>2

\* A refund of q units of a line of k units at price p is the line's part of all that
\* was paid, to two fils.
LEMMA LineRefundBounds ==
  ASSUME NEW o, NEW p \in Nat, NEW k \in Nat \ {0}, NEW q \in Nat,
         o.subtotal \in Nat \ {0}, ProductDiscount(o) \in 0..o.subtotal, o.shipping \in Nat,
         o.vat \in 0..(o.subtotal - ProductDiscount(o)),
         NEW paid, paid = o.subtotal - ProductDiscount(o) + o.vat + o.shipping
  PROVE  /\ LineRefund(o, p * k, k, q) \in Nat
         /\ o.subtotal * LineRefund(o, p * k, k, q) <= paid * (p * q) + 2 * o.subtotal
         /\ o.subtotal * LineRefund(o, p * k, k, q) >= paid * (p * q) - 2 * o.subtotal
<1>1. PICK S \in Nat \ {0} : S = o.subtotal
  OBVIOUS
<1>2. PICK D \in Nat : D = ProductDiscount(o) /\ D \in 0..S
  BY <1>1
<1>3. PICK F \in Nat : F = o.shipping
  OBVIOUS
<1>4. PICK T \in Nat : T = S - D
  BY <1>2
<1>5. PICK V \in 0..T : V = o.vat
  BY <1>1, <1>2, <1>4
<1>6. PICK g \in Nat : g = p * q
  OBVIOUS
<1>7. HalfUp(p * k * q, k) = g
  <2>1. p * k * q = g * k
    BY <1>6
  <2>2. QED
    BY <2>1, ExactIsKept
<1>8. PICK d \in Nat : /\ d = HalfUp(D * g, S)
                       /\ 2 * (S * d) <= 2 * (D * g) + S /\ 2 * (S * d) >= 2 * (D * g) - S
  <2>1. PICK h : h = HalfUp(D * g, S)
    OBVIOUS
  <2>2. h \in Nat /\ 2 * (S * h) <= 2 * (D * g) + S /\ 2 * (S * h) >= 2 * (D * g) - S
    BY <2>1, ShareBounds
  <2>3. QED
    BY <2>1, <2>2
<1>9. /\ AtLeast(g - d, 0) = g - d /\ g - d \in Nat
      /\ 2 * (S * (g - d)) <= 2 * ((S - D) * g) + S
      /\ 2 * (S * (g - d)) >= 2 * ((S - D) * g) - S
  <2>1. D \in 0..S
    BY <1>2
  <2>2. 2 * (S * d) <= 2 * (D * g) + S /\ 2 * (S * d) >= 2 * (D * g) - S
    BY <1>8
  <2>3. QED
    BY <2>1, <2>2, ProductPart
<1>10. PICK x \in Nat : x = g - d
  BY <1>9
<1>11. PICK f \in Nat : /\ f = HalfUp(F * g, S)
                        /\ 2 * (S * f) <= 2 * (F * g) + S /\ 2 * (S * f) >= 2 * (F * g) - S
  BY ShareBounds
<1>12. AtLeast(o.subtotal - ProductDiscount(o), 0) = T
  BY <1>1, <1>2, <1>4 DEF AtLeast
<1>13. PICK v : v = IF T > 0 THEN HalfUp(V * x, T) ELSE 0
  OBVIOUS
<1>14. LineRefund(o, p * k, k, q) = x + v + f
  BY <1>1, <1>2, <1>3, <1>5, <1>7, <1>8, <1>9, <1>10, <1>11, <1>12, <1>13 DEF LineRefund
<1>15. paid = T + V + F
  BY <1>1, <1>2, <1>3, <1>4, <1>5
<1>16. CASE T > 0
  <2>1. /\ v \in Nat
        /\ 2 * (T * v) <= 2 * (V * x) + T
        /\ 2 * (T * v) >= 2 * (V * x) - T
    BY <1>13, <1>16, ShareBounds
  <2>0. /\ T \in Nat \ {0} /\ V \in 0..T
        /\ 2 * (S * x) <= 2 * (T * g) + S
        /\ 2 * (S * x) >= 2 * (T * g) - S
    BY <1>4, <1>5, <1>9, <1>10, <1>16
  <2>2. /\ S * (x + v + f) <= (T + V + F) * g + 2 * S
        /\ S * (x + v + f) >= (T + V + F) * g - 2 * S
    BY <1>11, <2>0, <2>1, PartsAddUp
  <2>3. QED
    BY <1>1, <1>6, <1>14, <1>15, <2>1, <2>2
<1>17. CASE T = 0
  <2>1. v = 0 /\ V = 0 /\ D = S
    BY <1>4, <1>13, <1>17
  <2>2. x = 0
    BY <1>8, <1>10, <2>1, NothingLeft
  <2>3. /\ S * f <= F * g + 2 * S
        /\ S * f >= F * g - 2 * S
    BY <1>11
  <2>4. QED
    BY <1>1, <1>6, <1>14, <1>15, <1>17, <2>1, <2>2, <2>3
<1>18. QED
  BY <1>16, <1>17

-----------------------------------------------------------------------------
(***************************************************************************)
(* The amounts of an order, in terms of its cart and its request.          *)
(***************************************************************************)
AmountsTyped ==
  /\ cart \in [Lines -> [price : Nat, qty : 1..MaxQty, matched : BOOLEAN]]
  /\ request \in [coupon : Coupons, credit : Credits, zone : Zones, cash : BOOLEAN]
  /\ request.coupon.type = "item" => MatchedTotal(cart) > 0
  /\ returned \in [Lines \cup {Gift} -> Nat]
  /\ refunds.lines \in Nat

Computed == OrderAmounts(cart, request.coupon, request.credit, request.zone, request.cash)

LEMMA CartIs ==
  ASSUME AmountsTyped
  PROVE  /\ DOMAIN cart = Lines /\ IsFiniteSet(Lines)
         /\ \A l \in Lines : /\ cart[l].price \in Nat /\ cart[l].qty \in 1..MaxQty
                             /\ cart[l].matched \in BOOLEAN
                             /\ LineTotals(cart)[l] = cart[l].price * cart[l].qty
                             /\ LineTotals(cart)[l] \in Nat
<1>1. DOMAIN cart = Lines /\ IsFiniteSet(Lines) /\ MaxQty \in Nat
  BY CartAssumption DEF AmountsTyped
<1>2. SUFFICES ASSUME NEW l \in Lines
               PROVE  /\ cart[l].price \in Nat /\ cart[l].qty \in 1..MaxQty
                      /\ cart[l].matched \in BOOLEAN
                      /\ LineTotals(cart)[l] = cart[l].price * cart[l].qty
                      /\ LineTotals(cart)[l] \in Nat
  BY <1>1
<1>3. /\ cart[l].price \in Nat /\ cart[l].qty \in 1..MaxQty
      /\ cart[l].matched \in BOOLEAN
  BY DEF AmountsTyped
<1>4. LineTotals(cart)[l] = cart[l].price * cart[l].qty
  BY <1>1 DEF LineTotals, LineTotal
<1>5. cart[l].price * cart[l].qty \in Nat
  BY <1>1, <1>3
<1>6. QED
  BY <1>3, <1>4, <1>5

LEMMA SubtotalTyped ==
  ASSUME AmountsTyped
  PROVE  Subtotal(cart) \in Nat /\ MatchedTotal(cart) \in Nat
<1> DEFINE matched == {l \in DOMAIN cart : cart[l].matched}
<1>1. matched \subseteq Lines /\ IsFiniteSet(matched)
  BY CartIs, FS_Subset
<1>2. \A l \in matched : LineTotals(cart)[l] \in Nat
  BY <1>1, CartIs
<1>3. /\ SumFunctionOnSet(LineTotals(cart), Lines) \in Nat
      /\ SumFunctionOnSet(LineTotals(cart), matched) \in Nat
  <2> HIDE DEF matched
  <2> QED
    BY <1>1, <1>2, CartIs, SumNotNegative
<1>4. QED
  BY <1>3, CartIs DEF Subtotal, MatchedTotal

LEMMA RequestIs ==
  ASSUME AmountsTyped
  PROVE  /\ request.coupon.type \in CouponTypes /\ request.coupon.percent \in BOOLEAN
         /\ request.coupon.value \in Nat /\ request.coupon.cap \in Nat
         /\ request.coupon.get \in Nat /\ request.coupon.count \in Nat
         /\ request.credit \in Nat /\ request.cash \in BOOLEAN
         /\ request.zone.known \in BOOLEAN /\ request.zone.fee \in Nat
         /\ request.zone.surcharge \in Nat /\ request.zone.threshold \in Nat
<1>1. /\ request.coupon \in Coupons /\ request.credit \in Credits
      /\ request.zone \in Zones /\ request.cash \in BOOLEAN
  BY DEF AmountsTyped
<1>2. /\ request.coupon \in [type : CouponTypes, percent : BOOLEAN, value : Nat, cap : Nat,
                             get : Nat, count : Nat]
      /\ request.zone \in [known : BOOLEAN, fee : Nat, surcharge : Nat, threshold : Nat]
      /\ request.credit \in Nat
  BY <1>1, ChargesAssumption
<1>3. QED
  BY <1>1, <1>2

LEMMA ShippingTyped ==
  ASSUME AmountsTyped
  PROVE  /\ ShippingFee(request.zone, Subtotal(cart), request.cash) \in Nat
         /\ CodSurcharge(request.zone, request.cash) \in Nat
<1>1. DefaultFee \in Nat
  BY ChargesAssumption
<1>2. QED
  BY <1>1, RequestIs, SubtotalTyped DEF ShippingFee, DeliveryFee, CodSurcharge

LEMMA PercentageTyped ==
  ASSUME AmountsTyped, NEW base \in Nat
  PROVE  Percentage(request.coupon, base) \in Nat
<1>1. base * request.coupon.value \in Nat
  BY RequestIs
<1>2. PICK n \in Nat : n = base * request.coupon.value
  BY <1>1
<1>3. HalfEven(n, 100) \in Nat
  BY RoundedEven
<1>4. QED
  BY <1>2, <1>3, RequestIs DEF Percentage, AtMost

LEMMA DiscountTyped ==
  ASSUME AmountsTyped, NEW shipping \in Nat
  PROVE  CouponDiscount(request.coupon, cart, shipping) \in Nat
<1> DEFINE base == IF request.coupon.type = "transaction" THEN Subtotal(cart)
                   ELSE MatchedTotal(cart)
<1>1. base \in Nat
  BY SubtotalTyped
<1>2. Percentage(request.coupon, base) \in Nat
  <2> HIDE DEF base
  <2> QED
    BY <1>1, PercentageTyped
<1>3. QED
  BY <1>2, RequestIs DEF CouponDiscount

LEMMA GiftTyped ==
  ASSUME AmountsTyped
  PROVE  /\ GiftDiscount(request.coupon) \in Nat
         /\ request.coupon.get * request.coupon.count \in Nat
         /\ GiftNet(request.coupon) \in Int
         /\ GiftNet(request.coupon)
              = request.coupon.get * request.coupon.count - GiftDiscount(request.coupon)
         /\ request.coupon.count = 0 => GiftNet(request.coupon) = 0
<1>1. PICK g \in Nat, n \in Nat, v \in Nat :
             g = request.coupon.get /\ n = request.coupon.count /\ v = request.coupon.value
  BY RequestIs
<1>2. PICK m \in Nat : m = g * n * v
  OBVIOUS
<1>3. PICK d \in Nat : d = HalfEven(m, 100) /\ 2 * (100 * d) <= 2 * m + 100
  <2>1. PICK h : h = HalfEven(m, 100)
    OBVIOUS
  <2>2. h \in Nat /\ 2 * (100 * h) <= 2 * m + 100
    BY <2>1, RoundedEven
  <2>3. QED
    BY <2>1, <2>2
<1>4. GiftDiscount(request.coupon) = d
  BY <1>1, <1>2, <1>3 DEF GiftDiscount
<1>5. g * n \in Nat
  OBVIOUS
<1>6. GiftNet(request.coupon) = g * n - d
  BY <1>1, <1>4 DEF GiftNet
<1>7. n = 0 => m = 0 /\ g * n = 0
  BY <1>2
<1>8. n = 0 => d = 0
  BY <1>3, <1>7
<1>9. QED
  BY <1>1, <1>4, <1>5, <1>6, <1>7, <1>8

\* What the checkout computes: a loyalty discount within the subtotal, and a total made of
\* the articles after discount, their VAT and the shipping.
Taken == IF request.coupon.type \in {"free_shipping", "buyxgety"} THEN Computed.loyalty
         ELSE Computed.loyalty + Computed.coupon

Extra == IF request.coupon.type = "buyxgety" THEN GiftNet(request.coupon) ELSE 0

LEMMA ComputedIs ==
  ASSUME AmountsTyped
  PROVE  /\ Computed = [subtotal |-> Computed.subtotal, shipping |-> Computed.shipping,
                        loyalty |-> Computed.loyalty, coupon |-> Computed.coupon,
                        type |-> Computed.type, vat |-> Computed.vat, total |-> Computed.total]
         /\ Computed.subtotal = Subtotal(cart) /\ Computed.type = request.coupon.type
         /\ Computed.shipping = ShippingFee(request.zone, Subtotal(cart), request.cash)
         /\ Computed.coupon \in Nat /\ Computed.loyalty \in 0..Computed.subtotal
         /\ Computed.vat = Vat(AtLeast(Computed.subtotal - Taken, 0) + Extra)
         /\ Computed.total = AtLeast(Computed.subtotal - Taken, 0) + Extra + Computed.vat
              + (IF request.coupon.type = "free_shipping" THEN 0 ELSE Computed.shipping)
<1> DEFINE s == Subtotal(cart)
           f == ShippingFee(request.zone, s, request.cash)
           c == CouponDiscount(request.coupon, cart, f)
<1>1. s \in Nat /\ f \in Nat
  BY SubtotalTyped, ShippingTyped
<1>2. c \in Nat
  <2> HIDE DEF f, s
  <2> QED
    BY <1>1, DiscountTyped
<1>3. GiftDiscount(request.coupon) \in Nat /\ request.credit \in Nat
  BY GiftTyped, RequestIs
<1> HIDE DEF c, f, s
<1>4. /\ Computed.subtotal = s /\ Computed.shipping = f /\ Computed.type = request.coupon.type
      /\ Computed.loyalty = AtMost(request.credit, LoyaltyCap(s, c))
      /\ Computed.coupon = IF request.coupon.type = "buyxgety" THEN GiftDiscount(request.coupon)
                           ELSE c
      /\ Computed = [subtotal |-> Computed.subtotal, shipping |-> Computed.shipping,
                     loyalty |-> Computed.loyalty, coupon |-> Computed.coupon,
                     type |-> Computed.type, vat |-> Computed.vat, total |-> Computed.total]
  BY DEF Computed, OrderAmounts, c, f, s
<1>5. AtMost(request.credit, LoyaltyCap(s, c)) \in 0..s
  <2>1. \A m, n, k \in Nat : AtMost(k, AtLeast(m - n, 0)) \in 0..m
    BY DEF AtMost, AtLeast
  <2>2. QED
    BY <1>1, <1>2, <1>3, <2>1, Zenon DEF LoyaltyCap
<1>6. /\ Computed.vat = Vat(AtLeast(s - Taken, 0) + Extra)
      /\ Computed.total = AtLeast(s - Taken, 0) + Extra + Computed.vat
              + (IF request.coupon.type = "free_shipping" THEN 0 ELSE f)
  BY <1>4, Zenon DEF Computed, OrderAmounts, CheckoutTotals, Taken, Extra, c, f, s
<1>7. QED
  BY <1>2, <1>3, <1>4, <1>5, <1>6 DEF s, f

LEMMA TotalTyped ==
  ASSUME AmountsTyped, request.coupon.type # "buyxgety"
  PROVE  Computed.subtotal \in Nat /\ Computed.total \in Nat
<1>1. /\ Computed.subtotal \in Nat /\ Computed.loyalty \in Nat /\ Computed.coupon \in Nat
      /\ Computed.shipping \in Nat
  BY ComputedIs, SubtotalTyped, ShippingTyped
<1>2. Taken \in Nat /\ Extra = 0
  BY <1>1 DEF Taken, Extra
<1>3. PICK a \in Nat : a = AtLeast(Computed.subtotal - Taken, 0)
  BY <1>1, <1>2 DEF AtLeast
<1>4. a + 0 = a /\ Vat(a) \in 0..a
  BY VatTyped
<1>5. Computed.vat = Vat(a)
  BY <1>2, <1>3, <1>4, ComputedIs
<1>6. Computed.total = a + Vat(a)
        + (IF request.coupon.type = "free_shipping" THEN 0 ELSE Computed.shipping)
  BY <1>2, <1>3, <1>4, <1>5, ComputedIs
<1>7. QED
  BY <1>1, <1>4, <1>6

\* Summary and checkout agree on the orders QuoteIsCharged speaks of.
LEMMA QuoteIsComputed ==
  ASSUME AmountsTyped,
         \/ request.coupon.type \in {"none", "transaction"}
         \/ request.coupon.type = "item" /\ request.credit = 0
  PROVE  QuotedTotal(cart, request.coupon, request.credit, request.zone, request.cash)
           = Computed.total
<1> DEFINE s == Subtotal(cart)
           f == ShippingFee(request.zone, s, request.cash)
           c == CouponDiscount(request.coupon, cart, f)
           t == QuotedTaxable(cart, request.coupon, request.credit, c)
<1>1. s \in Nat /\ f \in Nat
  BY SubtotalTyped, ShippingTyped
<1>2. c \in Nat
  <2> HIDE DEF f, s
  <2> QED
    BY <1>1, DiscountTyped
<1>3. request.credit \in Nat
  BY RequestIs
<1>4. request.coupon.type \in {"none", "transaction", "item"}
  OBVIOUS
<1>5. QuotedTotal(cart, request.coupon, request.credit, request.zone, request.cash)
        = t + Vat(t) + f
  BY <1>4 DEF QuotedTotal
<1>6. request.coupon.type = "none" => c = 0
  BY DEF CouponDiscount
<1>7. t = AtLeast(s - c - request.credit, 0)
  <2>1. CASE request.coupon.type = "none"
    <3>1. t = AtLeast(s - request.credit, 0)
      BY <2>1 DEF QuotedTaxable
    <3> HIDE DEF t, c, f, s
    <3>2. QED
      BY <1>1, <1>3, <1>6, <2>1, <3>1
  <2>2. CASE request.coupon.type # "none"
    BY <1>3, <1>4, <2>2 DEF QuotedTaxable
  <2>3. QED
    BY <2>1, <2>2
<1>8. /\ Computed.loyalty = AtMost(request.credit, LoyaltyCap(s, c))
      /\ Computed.coupon = c /\ Computed.subtotal = s /\ Computed.shipping = f
  BY <1>4 DEF Computed, OrderAmounts
<1> HIDE DEF t, c, f, s
<1>9. Computed.total = AtLeast(s - (Computed.loyalty + c), 0)
                         + Vat(AtLeast(s - (Computed.loyalty + c), 0)) + f
  <2>1. Taken = Computed.loyalty + c /\ Extra = 0
    BY <1>4, <1>8 DEF Taken, Extra
  <2>2. Computed.loyalty \in Nat
    BY <1>1, <1>8, ComputedIs
  <2>3. PICK a \in Nat : a = AtLeast(s - (Computed.loyalty + c), 0)
    BY <1>1, <1>2, <2>2 DEF AtLeast
  <2>4. Computed.vat = Vat(a)
    BY <1>8, <2>1, <2>3, ComputedIs
  <2>5. a + 0 = a
    OBVIOUS
  <2>6. Computed.total = a + Computed.vat + f
    BY <1>4, <1>8, <2>1, <2>3, <2>5, ComputedIs
  <2>7. QED
    BY <2>3, <2>4, <2>6
<1>10. AtLeast(s - (Computed.loyalty + c), 0) = t
  BY <1>1, <1>2, <1>3, <1>7, <1>8 DEF AtMost, AtLeast, LoyaltyCap
<1>11. QED
  BY <1>5, <1>9, <1>10

-----------------------------------------------------------------------------
(***************************************************************************)
(* The inductive invariant.                                                *)
(***************************************************************************)
\* The amounts shown and charged are those of the formulas; an order that was repriced
\* has forgotten its offer.
Agreed ==
  /\ DOMAIN order = {"subtotal", "shipping", "loyalty", "coupon", "type", "vat", "total"}
  /\ quoted # -1 => quoted = QuotedTotal(cart, request.coupon, request.credit,
                                         request.zone, request.cash)
  /\ Placed =>
       /\ quoted # -1
       /\ order.subtotal = Computed.subtotal /\ order.loyalty = Computed.loyalty
       /\ order.coupon = Computed.coupon /\ order.type = Computed.type
       /\ ~repriced => order = Computed
       /\ repriced =>
            /\ order.shipping \in Nat
            /\ order.vat = Vat(AtLeast(order.subtotal - order.loyalty, 0))
            /\ order.total = AtLeast(order.subtotal - order.loyalty, 0) + order.vat
                               + order.shipping

\* Nothing is refunded before it is ordered, and no unit twice.
Counted ==
  /\ ~Placed => refunds.lines = 0 /\ ~repriced
  /\ refunds.lines = 0 => /\ refunds.total = 0
                          /\ \A l \in Lines \cup {Gift} : returned[l] = 0
  /\ \A l \in Lines \cup {Gift} : returned[l] <= Ordered(l).qty

Gross(units) == SumFunctionOnSet([l \in Lines |-> cart[l].price * units[l]], Lines)

\* What was refunded is the part of the price of what was returned, to Slack fils a line.
Proportional ==
  Placed /\ Divisible =>
    /\ refunds.total \in Int
    /\ order.subtotal * refunds.total
         <= order.total * Gross(returned) + 2 * order.subtotal * refunds.lines
    /\ order.subtotal * refunds.total
         >= order.total * Gross(returned) - 2 * order.subtotal * refunds.lines

AmountsInv == AmountsTyped /\ Agreed /\ Counted /\ Proportional

LEMMA OrderedIs ==
  ASSUME AmountsTyped
  PROVE  /\ \A l \in Lines : /\ Ordered(l).qty = cart[l].qty
                             /\ Ordered(l).total = cart[l].price * cart[l].qty
         /\ Ordered(Gift).qty \in Nat
         /\ request.coupon.type # "buyxgety" => Ordered(Gift).qty = 0
         /\ request.coupon.type = "buyxgety" =>
              /\ Ordered(Gift).qty = request.coupon.count
              /\ Ordered(Gift).total = GiftNet(request.coupon)
<1>1. Gift \notin Lines
  BY GiftAssumption
<1>2. request.coupon.count \in Nat
  BY RequestIs
<1>3. \A l \in Lines : Ordered(l) = [total |-> LineTotal(cart[l]), qty |-> cart[l].qty]
  BY <1>1 DEF Ordered
<1>4. request.coupon.type = "buyxgety" =>
        Ordered(Gift) = [total |-> GiftNet(request.coupon), qty |-> request.coupon.count]
  BY <1>1 DEF Ordered
<1>5. request.coupon.type # "buyxgety" => Ordered(Gift) = [total |-> 0, qty |-> 0]
  BY <1>1 DEF Ordered
<1>6. QED
  BY <1>2, <1>3, <1>4, <1>5 DEF LineTotal

LEMMA GrossTyped ==
  ASSUME AmountsTyped, NEW units, \A l \in Lines : units[l] \in Nat
  PROVE  Gross(units) \in Nat
<1> DEFINE f == [l \in Lines |-> cart[l].price * units[l]]
<1>1. \A l \in Lines : f[l] \in Nat
  <2> SUFFICES ASSUME NEW l \in Lines PROVE cart[l].price * units[l] \in Nat
    OBVIOUS
  <2>1. cart[l].price \in Nat /\ units[l] \in Nat
    BY CartIs
  <2>2. QED
    BY <2>1
<1> HIDE DEF f
<1>2. SumFunctionOnSet(f, Lines) \in Nat
  BY <1>1, CartIs, SumNotNegative
<1>3. QED
  BY <1>2 DEF Gross, f

LEMMA GrossOfNone ==
  ASSUME AmountsTyped, NEW units, \A l \in Lines : units[l] = 0
  PROVE  Gross(units) = 0
<1> DEFINE f == [l \in Lines |-> cart[l].price * units[l]]
<1>1. \A l \in Lines : f[l] = 0
  <2> SUFFICES ASSUME NEW l \in Lines PROVE cart[l].price * units[l] = 0
    OBVIOUS
  <2>1. cart[l].price \in Nat /\ units[l] = 0
    BY CartIs
  <2>2. QED
    BY <2>1
<1> HIDE DEF f
<1>2. SumFunctionOnSet(f, Lines) = 0
  BY <1>1, CartIs, SumOfZeros
<1>3. QED
  BY <1>2 DEF Gross, f

\* The units of two returns cost what both cost.
LEMMA GrossAdds ==
  ASSUME AmountsTyped, NEW u, NEW v, NEW w,
         \A l \in Lines : u[l] \in Nat /\ v[l] \in Nat /\ w[l] = u[l] + v[l]
  PROVE  Gross(w) = Gross(u) + Gross(v)
<1> DEFINE f == [l \in Lines |-> cart[l].price * u[l]]
           h == [l \in Lines |-> cart[l].price * v[l]]
           r == [l \in Lines |-> cart[l].price * w[l]]
<1>1. AddUp(f, h, r, Lines)
  <2> SUFFICES ASSUME NEW l \in Lines
               PROVE  f[l] \in Int /\ h[l] \in Int /\ r[l] = f[l] + h[l]
    BY DEF AddUp
  <2>1. PICK p \in Nat, a \in Nat, b \in Nat : p = cart[l].price /\ a = u[l] /\ b = v[l]
    BY CartIs
  <2>2. f[l] = p * a /\ h[l] = p * b /\ r[l] = p * (a + b)
    BY <2>1
  <2> HIDE DEF f, h, r
  <2>3. QED
    BY <2>2
<1> HIDE DEF f, h, r
<1>2. SumFunctionOnSet(r, Lines) = SumFunctionOnSet(f, Lines) + SumFunctionOnSet(h, Lines)
  BY <1>1, CartIs, SumAdded
<1>3. QED
  BY <1>2 DEF Gross, f, h, r

\* What is returned costs no more than what was ordered, and as much once all is returned.
LEMMA GrossWithin ==
  ASSUME AmountsTyped, NEW units, \A l \in Lines : units[l] \in 0..cart[l].qty
  PROVE  /\ Gross(units) <= Subtotal(cart)
         /\ (\A l \in Lines : units[l] = cart[l].qty) => Gross(units) = Subtotal(cart)
<1> DEFINE rest == [l \in Lines |-> cart[l].qty - units[l]]
           all == [l \in Lines |-> cart[l].qty]
<1>1. \A l \in Lines : /\ units[l] \in Nat /\ rest[l] \in Nat /\ all[l] \in Nat
                       /\ all[l] = units[l] + rest[l]
  <2> SUFFICES ASSUME NEW l \in Lines
               PROVE  /\ units[l] \in Nat /\ rest[l] \in Nat /\ all[l] \in Nat
                      /\ all[l] = units[l] + rest[l]
    OBVIOUS
  <2>1. MaxQty \in Nat /\ cart[l].qty \in 1..MaxQty /\ units[l] \in 0..cart[l].qty
    BY CartIs, CartAssumption
  <2>2. QED
    BY <2>1
<1>2. Gross(all) = Subtotal(cart)
  <2> DEFINE f == [l \in Lines |-> cart[l].price * all[l]]
  <2>1. \A l \in Lines : f[l] = LineTotals(cart)[l]
    BY CartIs
  <2>2. Gross(all) = SumFunctionOnSet(f, Lines)
    BY DEF Gross
  <2> HIDE DEF f
  <2>3. SumFunctionOnSet(f, Lines) = SumFunctionOnSet(LineTotals(cart), Lines)
    BY <2>1, CartIs, SumSame
  <2>4. QED
    BY <2>2, <2>3, CartIs DEF Subtotal
<1> HIDE DEF rest, all
<1>3. Gross(all) = Gross(units) + Gross(rest)
  BY <1>1, GrossAdds
<1>4. Gross(units) \in Nat /\ Gross(rest) \in Nat
  BY <1>1, GrossTyped
<1>5. (\A l \in Lines : units[l] = cart[l].qty) => Gross(rest) = 0
  <2> SUFFICES ASSUME \A l \in Lines : units[l] = cart[l].qty PROVE Gross(rest) = 0
    OBVIOUS
  <2>1. \A l \in Lines : rest[l] = 0
    <3> SUFFICES ASSUME NEW l \in Lines PROVE rest[l] = 0
      OBVIOUS
    <3>1. MaxQty \in Nat /\ cart[l].qty \in 1..MaxQty
      BY CartIs, CartAssumption
    <3>2. QED
      BY <3>1 DEF rest
  <2>2. QED
    BY <2>1, GrossOfNone
<1>6. QED
  BY <1>2, <1>3, <1>4, <1>5

-----------------------------------------------------------------------------
(***************************************************************************)
(* A return.                                                               *)
(***************************************************************************)
LEMMA DivisiblePaid ==
  ASSUME AmountsTyped, Agreed, Placed, Divisible
  PROVE  /\ order.subtotal = Subtotal(cart) /\ order.subtotal \in Nat \ {0}
         /\ ProductDiscount(order) \in 0..order.subtotal
         /\ order.shipping \in Nat
         /\ order.vat \in 0..(order.subtotal - ProductDiscount(order))
         /\ order.total = order.subtotal - ProductDiscount(order) + order.vat + order.shipping
         /\ request.coupon.type # "buyxgety"
<1>1. /\ order.subtotal = Computed.subtotal /\ order.loyalty = Computed.loyalty
      /\ order.coupon = Computed.coupon /\ order.type = Computed.type
  BY DEF Agreed
<1>2. PICK S \in Nat, L \in Nat, C \in Nat :
             /\ S = order.subtotal /\ L = order.loyalty /\ C = order.coupon /\ S > 0
             /\ S = Subtotal(cart)
  BY <1>1, ComputedIs, SubtotalTyped DEF Divisible
<1>3. order.type \notin {"buyxgety", "free_shipping"} /\ order.type = request.coupon.type
  BY <1>1, ComputedIs DEF Divisible
<1>4. ProductDiscount(order) = L + C /\ C + L <= S
  BY <1>2, <1>3 DEF ProductDiscount, Divisible
<1>5. PICK T \in Nat : T = S - (L + C)
  BY <1>4
<1>6. Vat(T) \in 0..T
  BY VatTyped
<1>7. CASE repriced
  <2>1. C = 0 /\ order.shipping \in Nat /\ order.vat = Vat(AtLeast(S - L, 0))
    BY <1>2, <1>7 DEF Divisible, Agreed
  <2>2. AtLeast(S - L, 0) = T
    BY <1>4, <1>5, <2>1 DEF AtLeast
  <2>3. order.total = T + order.vat + order.shipping
    BY <1>2, <1>7, <2>2 DEF Agreed
  <2>4. order.vat \in 0..T
    BY <1>6, <2>1, <2>2
  <2>5. ProductDiscount(order) \in 0..S /\ S - ProductDiscount(order) = T
    BY <1>4, <1>5
  <2>6. QED
    BY <1>2, <1>3, <2>1, <2>3, <2>4, <2>5
<1>8. CASE ~repriced
  <2>1. order = Computed
    BY <1>8 DEF Agreed
  <2>2. Taken = L + C /\ Extra = 0
    BY <1>2, <1>3, <2>1 DEF Taken, Extra
  <2>3. AtLeast(S - Taken, 0) = T /\ T + 0 = T
    BY <1>4, <1>5, <2>2 DEF AtLeast
  <2>4. order.vat = Vat(T) /\ order.total = T + order.vat + order.shipping
    BY <1>2, <1>3, <2>1, <2>2, <2>3, ComputedIs
  <2>5. order.shipping \in Nat
    BY <2>1, ComputedIs, ShippingTyped
  <2>6. QED
    BY <1>2, <1>3, <1>4, <1>5, <1>6, <2>4, <2>5
<1>9. QED
  BY <1>7, <1>8

\* The refund of a return is the part of what was paid, to Slack fils a line.
LEMMA RefundBounds ==
  ASSUME AmountsTyped, Agreed, Placed, Divisible,
         \A l \in Lines \cup {Gift} : returned[l] <= Ordered(l).qty,
         NEW qty \in [Lines \cup {Gift} -> 0..MaxQty],
         \A l \in DOMAIN qty : qty[l] <= Left(l),
         NEW n, n = Cardinality({l \in DOMAIN qty : qty[l] > 0})
  PROVE  /\ RefundOf(qty) \in Int /\ n \in Nat
         /\ order.subtotal * RefundOf(qty) <= order.total * Gross(qty) + 2 * order.subtotal * n
         /\ order.subtotal * RefundOf(qty) >= order.total * Gross(qty) - 2 * order.subtotal * n
<1> DEFINE A == {l \in DOMAIN qty : qty[l] > 0}
           f == [l \in DOMAIN qty |-> LineRefund(order, Ordered(l).total, Ordered(l).qty, qty[l])]
           h == [l \in Lines |-> cart[l].price * qty[l]]
<1>1. DOMAIN qty = Lines \cup {Gift} /\ MaxQty \in Nat
  BY CartAssumption
<1>2. PICK S \in Nat \ {0}, paid \in Nat : S = order.subtotal /\ paid = order.total
  BY DivisiblePaid
<1>3. Gift \notin A
  <2>1. Ordered(Gift).qty = 0
    BY OrderedIs, DivisiblePaid
  <2>2. returned[Gift] \in Nat /\ qty[Gift] <= Ordered(Gift).qty - returned[Gift]
    BY <1>1 DEF Left, AmountsTyped
  <2>3. qty[Gift] \in Nat
    BY <1>1
  <2>4. QED
    BY <2>1, <2>2, <2>3
<1>4. A \subseteq Lines /\ IsFiniteSet(A)
  <2>1. A \subseteq Lines
    BY <1>1, <1>3
  <2> HIDE DEF A
  <2>2. QED
    BY <2>1, CartIs, FS_Subset
<1>5. \A l \in Lines : h[l] \in Nat
  <2> SUFFICES ASSUME NEW l \in Lines PROVE cart[l].price * qty[l] \in Nat
    OBVIOUS
  <2>1. cart[l].price \in Nat /\ qty[l] \in Nat
    BY <1>1, CartIs
  <2>2. QED
    BY <2>1
<1>6. ASSUME NEW l \in A
      PROVE  /\ f[l] \in Nat
             /\ S * f[l] <= paid * h[l] + 2 * S
             /\ S * f[l] >= paid * h[l] - 2 * S
  <2>1. l \in Lines /\ l \in DOMAIN qty
    BY <1>4
  <2>2. PICK p \in Nat, k \in Nat \ {0}, q \in Nat :
               p = cart[l].price /\ k = cart[l].qty /\ q = qty[l]
    BY <1>1, <2>1, CartIs
  <2>3. f[l] = LineRefund(order, p * k, k, q) /\ h[l] = p * q
    BY <2>1, <2>2, OrderedIs
  <2>4. /\ LineRefund(order, p * k, k, q) \in Nat
        /\ order.subtotal * LineRefund(order, p * k, k, q) <= paid * (p * q) + 2 * order.subtotal
        /\ order.subtotal * LineRefund(order, p * k, k, q) >= paid * (p * q) - 2 * order.subtotal
    BY <1>2, DivisiblePaid, LineRefundBounds
  <2>5. QED
    BY <1>2, <2>3, <2>4
<1> HIDE DEF A, f, h
<1>7. n = Cardinality(A) /\ n \in Nat
  BY <1>4, FS_CardinalityType DEF A
<1>8. /\ SumFunctionOnSet(f, A) \in Int /\ SumFunctionOnSet(h, A) \in Int
  <2>1. /\ \A l \in A : f[l] \in Int
        /\ \A l \in A : h[l] \in Int
    BY <1>4, <1>5, <1>6
  <2>2. QED
    BY <1>4, <2>1, SumTyped
<1>9. SumFunctionOnSet(h, A) = Gross(qty)
  <2>1. \A l \in Lines \ A : h[l] = 0
    <3> SUFFICES ASSUME NEW l \in Lines \ A PROVE h[l] = 0
      OBVIOUS
    <3>1. qty[l] \in Nat /\ ~(qty[l] > 0)
      BY <1>1 DEF A
    <3>2. qty[l] = 0 /\ cart[l].price \in Nat
      BY <3>1, CartIs
    <3>3. QED
      BY <3>2 DEF h
  <2>2. \A l \in Lines : h[l] \in Int
    BY <1>5
  <2>3. SumFunctionOnSet(h, A) = SumFunctionOnSet(h, Lines)
    BY <1>4, <2>1, <2>2, CartIs, SumSupport
  <2>4. QED
    BY <2>3 DEF Gross, h
<1>10. RefundOf(qty) = SumFunctionOnSet(f, A)
  BY DEF RefundOf, f, A
<1>11. PICK a \in Int, b \in Int, c \in Int : a = S /\ b = paid /\ c = 2 * S
  OBVIOUS
<1>12. SumFunctionOnSet(f, A) * S <= paid * SumFunctionOnSet(h, A) + 2 * S * n
  <2> DEFINE r == [l \in A |-> Linear(-a, b, c, f[l], h[l], 1)]
  <2>1. -a \in Int
    OBVIOUS
  <2>2. \A l \in A : f[l] \in Int /\ h[l] \in Int
    BY <1>4, <1>5, <1>6
  <2>3. Terms(-a, b, c, f, h, r, A)
    BY <2>2 DEF Terms
  <2>4. \A l \in A : r[l] \in Nat
    <3> SUFFICES ASSUME NEW l \in A PROVE r[l] \in Nat
      OBVIOUS
    <3>1. PICK x \in Int, y \in Int : x = f[l] /\ y = h[l]
      BY <2>2
    <3>2. S * x <= paid * y + 2 * S
      BY <1>6, <3>1
    <3>3. r[l] = (-a) * x + b * y + c * 1
      BY <3>1 DEF Linear
    <3> HIDE DEF r
    <3>4. QED
      BY <1>11, <3>2, <3>3
  <2> HIDE DEF r
  <2>5. SumFunctionOnSet(r, A) \in Nat
    BY <1>4, <2>4, SumNotNegative
  <2>6. SumFunctionOnSet(r, A)
          = Linear(-a, b, c, SumFunctionOnSet(f, A), SumFunctionOnSet(h, A), Cardinality(A))
    BY <1>4, <2>1, <2>3, SumLinear
  <2>7. QED
    BY <1>7, <1>8, <1>11, <2>5, <2>6 DEF Linear
<1>13. SumFunctionOnSet(f, A) * S >= paid * SumFunctionOnSet(h, A) - 2 * S * n
  <2> DEFINE r == [l \in A |-> Linear(a, -b, c, f[l], h[l], 1)]
  <2>1. -b \in Int
    OBVIOUS
  <2>2. \A l \in A : f[l] \in Int /\ h[l] \in Int
    BY <1>4, <1>5, <1>6
  <2>3. Terms(a, -b, c, f, h, r, A)
    BY <2>2 DEF Terms
  <2>4. \A l \in A : r[l] \in Nat
    <3> SUFFICES ASSUME NEW l \in A PROVE r[l] \in Nat
      OBVIOUS
    <3>1. PICK x \in Int, y \in Int : x = f[l] /\ y = h[l]
      BY <2>2
    <3>2. S * x >= paid * y - 2 * S
      BY <1>6, <3>1
    <3>3. r[l] = a * x + (-b) * y + c * 1
      BY <3>1 DEF Linear
    <3> HIDE DEF r
    <3>4. QED
      BY <1>11, <3>2, <3>3
  <2> HIDE DEF r
  <2>5. SumFunctionOnSet(r, A) \in Nat
    BY <1>4, <2>4, SumNotNegative
  <2>6. SumFunctionOnSet(r, A)
          = Linear(a, -b, c, SumFunctionOnSet(f, A), SumFunctionOnSet(h, A), Cardinality(A))
    BY <1>4, <2>1, <2>3, SumLinear
  <2>7. QED
    BY <1>7, <1>8, <1>11, <2>5, <2>6 DEF Linear
<1>14. PICK x \in Int, y \in Int : x = SumFunctionOnSet(f, A) /\ y = SumFunctionOnSet(h, A)
  BY <1>8
<1>15. /\ S * x <= paid * y + 2 * S * n
       /\ S * x >= paid * y - 2 * S * n
  BY <1>7, <1>12, <1>13, <1>14
<1>16. QED
  BY <1>2, <1>7, <1>9, <1>10, <1>14, <1>15

-----------------------------------------------------------------------------
(***************************************************************************)
(* The steps.                                                              *)
(***************************************************************************)
LEMMA AmountsStart == Init => AmountsInv
<1> SUFFICES ASSUME Init PROVE AmountsInv
  OBVIOUS
<1>1. PICK prices \in PriceLists, qty \in [Lines -> 1..MaxQty], matched \in Matches :
             cart = FilledCart(prices, qty, matched)
  BY DEF Init
<1>2. cart \in [Lines -> [price : Nat, qty : 1..MaxQty, matched : BOOLEAN]]
  <2>1. prices \in [Lines -> Nat]
    BY CartAssumption
  <2>2. \A l \in Lines : /\ prices[l] \in Nat /\ qty[l] \in 1..MaxQty
                         /\ (l \in matched) \in BOOLEAN
    BY <2>1
  <2>3. cart = [l \in Lines |-> [price |-> prices[l], qty |-> qty[l], matched |-> l \in matched]]
    BY <1>1 DEF FilledCart
  <2>4. QED
    BY <2>2, <2>3
<1>3. AmountsTyped
  <2>1. request.coupon.type = "item" => MatchedTotal(cart) > 0
    BY DEF Init
  <2>2. /\ request \in [coupon : Coupons, credit : Credits, zone : Zones, cash : BOOLEAN]
        /\ returned \in [Lines \cup {Gift} -> Nat] /\ refunds.lines \in Nat
    BY DEF Init
  <2>3. QED
    BY <1>2, <2>1, <2>2 DEF AmountsTyped
<1>4. ~Placed /\ quoted = -1
  BY DEF Init, Placed
<1>5. Counted
  <2>1. /\ ~repriced /\ refunds.lines = 0 /\ refunds.total = 0
        /\ \A l \in Lines \cup {Gift} : returned[l] = 0
    BY DEF Init
  <2>2. \A l \in Lines \cup {Gift} : 0 <= Ordered(l).qty
    <3>1. \A l \in Lines : Ordered(l).qty \in Nat
      <4>1. MaxQty \in Nat
        BY CartAssumption
      <4>2. QED
        BY <1>3, <4>1, OrderedIs, CartIs
    <3>2. Ordered(Gift).qty \in Nat
      BY <1>3, OrderedIs
    <3>3. QED
      BY <3>1, <3>2
  <2>3. QED
    BY <2>1, <2>2 DEF Counted
<1>6. DOMAIN order = {"subtotal", "shipping", "loyalty", "coupon", "type", "vat", "total"}
  BY DEF Init, NoOrder
<1>7. QED
  BY <1>3, <1>4, <1>5, <1>6 DEF AmountsInv, Agreed, Proportional

LEMMA SummarizeKeeps ==
  ASSUME AmountsInv, Summarize
  PROVE  AmountsInv'
<1>1. UNCHANGED <<cart, request, order, returned, refunds, repriced>>
  BY DEF Summarize
<1>2. AmountsTyped'
  BY <1>1 DEF AmountsInv, AmountsTyped, MatchedTotal, LineTotals
<1>3. Agreed'
  BY <1>1 DEF AmountsInv, Summarize, Agreed, Placed
<1>4. Counted' /\ Proportional'
  BY <1>1 DEF AmountsInv, Counted, Proportional, Placed, Ordered, Divisible, Gross
<1>5. QED
  BY <1>2, <1>3, <1>4 DEF AmountsInv

LEMMA PlaceOrderKeeps ==
  ASSUME AmountsInv, PlaceOrder
  PROVE  AmountsInv'
<1>1. UNCHANGED <<cart, request, quoted, returned, refunds, repriced>>
  BY DEF PlaceOrder
<1>2. AmountsTyped'
  BY <1>1 DEF AmountsInv, AmountsTyped, MatchedTotal, LineTotals
<1>3. /\ ~repriced /\ refunds.lines = 0 /\ refunds.total = 0
      /\ \A l \in Lines \cup {Gift} : returned[l] = 0
  BY DEF AmountsInv, PlaceOrder, Counted
<1>4. order' = Computed /\ Computed' = Computed
  BY <1>1 DEF PlaceOrder, Computed
<1>5. Agreed'
  <2>1. DOMAIN Computed = {"subtotal", "shipping", "loyalty", "coupon", "type", "vat", "total"}
    BY DEF Computed, OrderAmounts
  <2>2. QED
    BY <1>1, <1>3, <1>4, <2>1 DEF AmountsInv, PlaceOrder, Agreed
<1>6. Counted'
  BY <1>1, <1>3 DEF AmountsInv, Counted, Ordered
<1>7. Proportional'
  <2> SUFFICES ASSUME Placed', Divisible'
               PROVE  /\ refunds'.total \in Int
                      /\ order'.subtotal * refunds'.total
                           <= order'.total * Gross(returned)' + 2 * order'.subtotal * refunds'.lines
                      /\ order'.subtotal * refunds'.total
                           >= order'.total * Gross(returned)' - 2 * order'.subtotal * refunds'.lines
    BY DEF Proportional
  <2>1. Gross(returned)' = 0
    BY <1>1, <1>2, <1>3, GrossOfNone DEF AmountsInv, Gross
  <2>2. PICK S \in Int, t \in Int : S = order'.subtotal /\ t = order'.total
    <3>1. request.coupon.type # "buyxgety"
      BY <1>4, ComputedIs DEF AmountsInv, Divisible
    <3>2. QED
      BY <1>4, <3>1, TotalTyped DEF AmountsInv
  <2>3. QED
    BY <1>1, <1>3, <2>1, <2>2
<1>8. QED
  BY <1>2, <1>5, <1>6, <1>7 DEF AmountsInv

LEMMA EditShippingKeeps ==
  ASSUME AmountsInv, NEW fee \in Fees, EditShipping(fee)
  PROVE  AmountsInv'
<1>1. /\ UNCHANGED <<cart, request, quoted, returned, refunds>>
      /\ Placed /\ refunds.lines = 0 /\ repriced'
  BY DEF EditShipping
<1>2. AmountsTyped'
  BY <1>1 DEF AmountsInv, AmountsTyped, MatchedTotal, LineTotals
<1>3. refunds.total = 0 /\ \A l \in Lines \cup {Gift} : returned[l] = 0
  BY <1>1 DEF AmountsInv, Counted
<1>4. fee \in Nat
  BY ChargesAssumption
<1>5. /\ order.subtotal = Computed.subtotal /\ order.loyalty = Computed.loyalty
      /\ order.coupon = Computed.coupon /\ order.type = Computed.type
      /\ order.subtotal \in Nat /\ order.loyalty \in Nat
  BY <1>1, ComputedIs, SubtotalTyped DEF AmountsInv, Agreed
<1>6. /\ DOMAIN order' = DOMAIN order
      /\ order'.subtotal = order.subtotal /\ order'.loyalty = order.loyalty
      /\ order'.coupon = order.coupon /\ order'.type = order.type /\ order'.shipping = fee
      /\ order'.vat = CheckoutTotals("none", order.subtotal, fee, order.loyalty, 0, 0).vat
      /\ order'.total = CheckoutTotals("none", order.subtotal, fee, order.loyalty, 0, 0).total
  <2>1. DOMAIN order = {"subtotal", "shipping", "loyalty", "coupon", "type", "vat", "total"}
    BY DEF AmountsInv, Agreed
  <2> DEFINE totals == CheckoutTotals("none", order.subtotal, fee, order.loyalty, 0, 0)
  <2>2. order' = [order EXCEPT !.shipping = fee, !.vat = totals.vat, !.total = totals.total]
    BY DEF EditShipping
  <2> HIDE DEF totals
  <2>3. QED
    BY <2>1, <2>2 DEF totals
<1>7. PICK a \in Nat : a = AtLeast(order.subtotal - order.loyalty, 0)
  BY <1>5 DEF AtLeast
<1>8. /\ order'.vat = Vat(a) /\ order'.total = a + Vat(a) + fee
  <2>1. AtLeast(order.subtotal - (order.loyalty + 0), 0) + 0 = a
    BY <1>5, <1>7
  <2>2. /\ CheckoutTotals("none", order.subtotal, fee, order.loyalty, 0, 0).vat = Vat(a)
        /\ CheckoutTotals("none", order.subtotal, fee, order.loyalty, 0, 0).total
             = a + Vat(a) + fee
    BY <2>1 DEF CheckoutTotals
  <2>3. QED
    BY <1>6, <2>2
<1>9. Agreed'
  <2>1. Computed' = Computed /\ quoted # -1
    BY <1>1 DEF AmountsInv, Agreed, Computed
  <2>2. /\ order'.shipping \in Nat
        /\ order'.vat = Vat(AtLeast(order'.subtotal - order'.loyalty, 0))
        /\ order'.total = AtLeast(order'.subtotal - order'.loyalty, 0) + order'.vat
                             + order'.shipping
    BY <1>4, <1>6, <1>7, <1>8
  <2>3. QED
    BY <1>1, <1>5, <1>6, <2>1, <2>2 DEF AmountsInv, Agreed
<1>10. Placed'
  <2>1. order'.total \in Nat
    BY <1>4, <1>8, VatTyped
  <2>2. order'.total # -1
    BY <2>1
  <2>3. QED
    BY <2>2 DEF Placed, NoOrder
<1>11. Counted'
  BY <1>1, <1>3, <1>10 DEF AmountsInv, Counted, Ordered
<1>12. Proportional'
  <2> SUFFICES ASSUME Placed', Divisible'
               PROVE  /\ refunds'.total \in Int
                      /\ order'.subtotal * refunds'.total
                           <= order'.total * Gross(returned)' + 2 * order'.subtotal * refunds'.lines
                      /\ order'.subtotal * refunds'.total
                           >= order'.total * Gross(returned)' - 2 * order'.subtotal * refunds'.lines
    BY DEF Proportional
  <2>1. Gross(returned)' = 0
    BY <1>1, <1>3, GrossOfNone DEF AmountsInv, Gross
  <2>2. PICK S \in Int, t \in Int : S = order'.subtotal /\ t = order'.total
    BY <1>4, <1>5, <1>6, <1>8, VatTyped
  <2>3. QED
    BY <1>1, <1>3, <2>1, <2>2
<1>13. QED
  BY <1>2, <1>9, <1>11, <1>12 DEF AmountsInv

LEMMA ReturnKeeps ==
  ASSUME AmountsInv, Return
  PROVE  AmountsInv'
<1>1. PICK qty \in [Lines \cup {Gift} -> 0..MaxQty] :
        /\ \A l \in DOMAIN qty : qty[l] <= Left(l)
        /\ \E l \in DOMAIN qty : qty[l] > 0
        /\ returned' = [l \in DOMAIN qty |-> returned[l] + qty[l]]
        /\ refunds' = [total |-> refunds.total + RefundOf(qty),
                       lines |-> refunds.lines + Cardinality({l \in DOMAIN qty : qty[l] > 0})]
  BY DEF Return
<1>2. Placed /\ UNCHANGED <<cart, request, quoted, order, repriced>>
  BY DEF Return
<1> DEFINE A == {l \in DOMAIN qty : qty[l] > 0}
<1>3. DOMAIN qty = Lines \cup {Gift} /\ MaxQty \in Nat /\ DOMAIN returned = Lines \cup {Gift}
  BY CartAssumption DEF AmountsInv, AmountsTyped
<1>4. A # {} /\ IsFiniteSet(A)
  <2>1. IsFiniteSet(Lines \cup {Gift})
    BY CartAssumption, FS_AddElement
  <2>2. A \subseteq Lines \cup {Gift} /\ A # {}
    BY <1>1, <1>3
  <2> HIDE DEF A
  <2>3. QED
    BY <2>1, <2>2, FS_Subset
<1> HIDE DEF A
<1>5. PICK n \in Nat \ {0} : n = Cardinality(A)
  BY <1>4, FS_CardinalityType, FS_EmptySet
<1>6. refunds'.lines = refunds.lines + n /\ refunds'.total = refunds.total + RefundOf(qty)
  BY <1>1, <1>5 DEF A
<1>7. refunds.lines \in Nat
  BY DEF AmountsInv, AmountsTyped
<1>8. \A l \in Lines \cup {Gift} : /\ returned[l] \in Nat /\ qty[l] \in Nat
                                  /\ returned'[l] = returned[l] + qty[l]
  BY <1>1, <1>3 DEF AmountsInv, AmountsTyped
<1>9. AmountsTyped'
  <2>1. returned' \in [Lines \cup {Gift} -> Nat]
    <3>1. \A l \in Lines \cup {Gift} : returned[l] + qty[l] \in Nat
      BY <1>8
    <3>2. returned' = [l \in Lines \cup {Gift} |-> returned[l] + qty[l]]
      BY <1>1, <1>3
    <3>3. QED
      BY <3>1, <3>2
  <2>2. refunds'.lines \in Nat
    BY <1>6, <1>7
  <2>3. QED
    BY <1>2, <2>1, <2>2 DEF AmountsInv, AmountsTyped, MatchedTotal, LineTotals
<1>10. Agreed'
  BY <1>2 DEF AmountsInv, Agreed, Placed, Computed
<1>11. Counted'
  <2>1. Placed' /\ refunds'.lines # 0
    BY <1>2, <1>6, <1>7 DEF Placed
  <2>2. ASSUME NEW l \in Lines \cup {Gift} PROVE returned'[l] <= Ordered(l)'.qty
    <3>1. Ordered(l)' = Ordered(l)
      BY <1>2 DEF Ordered
    <3>2. Ordered(l).qty \in Nat
      BY CartAssumption, CartIs, OrderedIs DEF AmountsInv
    <3>3. qty[l] <= Ordered(l).qty - returned[l]
      BY <1>1, <1>3 DEF Left
    <3>4. QED
      BY <1>8, <3>1, <3>2, <3>3
  <2>3. QED
    BY <2>1, <2>2 DEF Counted
<1>12. Proportional'
  <2> SUFFICES ASSUME Divisible
               PROVE  /\ refunds'.total \in Int
                      /\ order.subtotal * refunds'.total
                           <= order.total * Gross(returned)' + 2 * order.subtotal * refunds'.lines
                      /\ order.subtotal * refunds'.total
                           >= order.total * Gross(returned)' - 2 * order.subtotal * refunds'.lines
    BY <1>2 DEF Proportional, Divisible
  <2>1. /\ RefundOf(qty) \in Int
        /\ order.subtotal * RefundOf(qty) <= order.total * Gross(qty) + 2 * order.subtotal * n
        /\ order.subtotal * RefundOf(qty) >= order.total * Gross(qty) - 2 * order.subtotal * n
    BY <1>1, <1>2, <1>5, RefundBounds DEF AmountsInv, Counted, A
  <2>2. /\ refunds.total \in Int
        /\ order.subtotal * refunds.total
             <= order.total * Gross(returned) + 2 * order.subtotal * refunds.lines
        /\ order.subtotal * refunds.total
             >= order.total * Gross(returned) - 2 * order.subtotal * refunds.lines
    BY <1>2 DEF AmountsInv, Proportional
  <2>3. Gross(returned)' = Gross(returned) + Gross(qty)
    <3>1. Gross(returned)' = Gross(returned')
      BY <1>2 DEF Gross
    <3>2. Gross(returned') = Gross(returned) + Gross(qty)
      BY <1>8, GrossAdds DEF AmountsInv
    <3>3. QED
      BY <3>1, <3>2
  <2>4. Gross(returned) \in Nat /\ Gross(qty) \in Nat
    BY <1>8, GrossTyped DEF AmountsInv
  <2>5. PICK S \in Nat, t \in Nat : S = order.subtotal /\ t = order.total
    BY <1>2, DivisiblePaid DEF AmountsInv
  <2>6. PICK x \in Int, y \in Int, g \in Nat, h \in Nat, k \in Nat :
          /\ x = refunds.total /\ y = RefundOf(qty) /\ g = Gross(returned) /\ h = Gross(qty)
          /\ k = refunds.lines
    BY <1>7, <2>1, <2>2, <2>4
  <2>7. /\ S * y <= t * h + 2 * S * n /\ S * y >= t * h - 2 * S * n
        /\ S * x <= t * g + 2 * S * k /\ S * x >= t * g - 2 * S * k
    BY <2>1, <2>2, <2>5, <2>6
  <2>8. /\ S * (x + y) <= t * (g + h) + 2 * S * (k + n)
        /\ S * (x + y) >= t * (g + h) - 2 * S * (k + n)
    BY <2>7
  <2>9. QED
    BY <1>6, <2>3, <2>5, <2>6, <2>8
<1>13. QED
  BY <1>9, <1>10, <1>11, <1>12 DEF AmountsInv

LEMMA AmountsKeep == AmountsInv /\ [Next]_vars => AmountsInv'
<1> SUFFICES ASSUME AmountsInv, [Next]_vars PROVE AmountsInv'
  OBVIOUS
<1>1. CASE Summarize
  BY <1>1, SummarizeKeeps
<1>2. CASE PlaceOrder
  BY <1>2, PlaceOrderKeeps
<1>3. CASE Return
  BY <1>3, ReturnKeeps
<1>4. CASE \E fee \in Fees : EditShipping(fee)
  BY <1>4, EditShippingKeeps
<1>5. CASE UNCHANGED vars
  <2>1. UNCHANGED <<cart, request, quoted, order, returned, refunds, repriced>>
    BY <1>5 DEF vars
  <2>2. AmountsTyped'
    BY <2>1 DEF AmountsInv, AmountsTyped, MatchedTotal, LineTotals
  <2>3. Agreed'
    BY <2>1 DEF AmountsInv, Agreed, Placed, Computed
  <2>4. Counted'
    BY <2>1 DEF AmountsInv, Counted, Placed, Ordered
  <2>5. Proportional'
    BY <2>1 DEF AmountsInv, Proportional, Placed, Divisible, Gross
  <2>6. QED
    BY <2>2, <2>3, <2>4, <2>5 DEF AmountsInv
<1>6. QED
  BY <1>1, <1>2, <1>3, <1>4, <1>5 DEF Next

LEMMA AmountsHold == Spec => []AmountsInv
  BY AmountsStart, AmountsKeep, PTL DEF Spec

\* For every cart, price, offer, credit and zone: the customer is charged what the summary
\* showed, for the orders the property names.
THEOREM QuotesAreCharged == Spec => []QuoteIsCharged
<1>1. AmountsInv => QuoteIsCharged
  <2> SUFFICES ASSUME AmountsInv, Placed, ~repriced,
                      \/ request.coupon.type \in {"none", "transaction"}
                      \/ request.coupon.type = "item" /\ request.credit = 0
               PROVE  quoted = order.total
    BY DEF QuoteIsCharged
  <2>1. /\ order = Computed
        /\ quoted = QuotedTotal(cart, request.coupon, request.credit, request.zone, request.cash)
    BY DEF AmountsInv, Agreed
  <2>2. QED
    BY <2>1, QuoteIsComputed DEF AmountsInv
<1>2. QED
  BY <1>1, AmountsHold, PTL

LEMMA RefundsAre ==
  ASSUME AmountsInv, Placed, Divisible
  PROVE  /\ refunds.total <= order.total + Slack * refunds.lines
         /\ (\A l \in Lines : Left(l) = 0)
              => refunds.total >= order.total - Slack * refunds.lines
<1>1. AmountsTyped /\ Agreed
  BY DEF AmountsInv
<1>2. PICK S \in Nat \ {0}, t \in Nat, x \in Int, k \in Nat :
             /\ S = order.subtotal /\ t = order.total /\ x = refunds.total
             /\ k = refunds.lines /\ S = Subtotal(cart)
  BY <1>1, DivisiblePaid DEF AmountsInv, AmountsTyped, Proportional
<1>3. \A l \in Lines : returned[l] \in 0..cart[l].qty
  <2> SUFFICES ASSUME NEW l \in Lines PROVE returned[l] \in 0..cart[l].qty
    OBVIOUS
  <2>1. /\ returned[l] \in Nat /\ returned[l] <= Ordered(l).qty
        /\ Ordered(l).qty = cart[l].qty /\ cart[l].qty \in Int
    BY <1>1, CartIs, OrderedIs, CartAssumption DEF AmountsInv, AmountsTyped, Counted
  <2>2. QED
    BY <2>1
<1>4. PICK g \in Nat : g = Gross(returned)
  BY <1>1, GrossTyped DEF AmountsTyped
<1>5. g <= S
  BY <1>1, <1>2, <1>3, <1>4, GrossWithin
<1>6. /\ S * x <= t * g + 2 * S * k
      /\ S * x >= t * g - 2 * S * k
  BY <1>2, <1>4 DEF AmountsInv, Proportional
<1>7. x <= t + 2 * k
  <2>1. t * g <= t * S
    BY <1>5, Times
  <2>2. S * x <= S * (t + 2 * k)
    BY <1>6, <2>1
  <2>3. QED
    BY <2>2, Divide
<1>8. ASSUME \A l \in Lines : Left(l) = 0
      PROVE  x >= t - 2 * k
  <2>1. \A l \in Lines : returned[l] = cart[l].qty
    <3> SUFFICES ASSUME NEW l \in Lines PROVE returned[l] = cart[l].qty
      OBVIOUS
    <3>1. Ordered(l).qty - returned[l] = 0 /\ Ordered(l).qty = cart[l].qty
      BY <1>1, <1>8, OrderedIs DEF Left
    <3>2. returned[l] \in Nat /\ cart[l].qty \in Int
      BY <1>1, CartIs, CartAssumption DEF AmountsTyped
    <3>3. QED
      BY <3>1, <3>2
  <2>2. g = S
    BY <1>1, <1>2, <1>3, <1>4, <2>1, GrossWithin
  <2>3. S * (t - 2 * k) <= S * x
    BY <1>6, <2>2
  <2>4. QED
    BY <2>3, Divide
<1>9. QED
  BY <1>2, <1>7, <1>8 DEF Slack

\* However often and in whatever parts an order is returned, its refunds exceed what was
\* paid by less than the rounding of each refunded line.
THEOREM RefundsStayWithinPaid == Spec => []RefundsWithinPaid
<1>1. AmountsInv => RefundsWithinPaid
  BY RefundsAre DEF RefundsWithinPaid
<1>2. QED
  BY <1>1, AmountsHold, PTL

\* And once every unit is returned they fall short of it by no more.
THEOREM FullReturnsRefundAll == Spec => []FullReturnRefundsAll
<1>1. AmountsInv => FullReturnRefundsAll
  BY RefundsAre DEF FullReturnRefundsAll
<1>2. QED
  BY <1>1, AmountsHold, PTL

-----------------------------------------------------------------------------
(***************************************************************************)
(* The rows of the document in Books.                                      *)
(***************************************************************************)
LEMMA VatInt ==
  ASSUME NEW t \in Int
  PROVE  Vat(t) \in Int
<1>1. t * VatPercent \in Int
  BY ChargesAssumption
<1>2. PICK n \in Int : n = t * VatPercent
  BY <1>1
<1>3. n \div 100 \in Int
  OBVIOUS
<1>4. HalfEven(n, 100) \in Int
  BY <1>3 DEF HalfEven
<1>5. QED
  BY <1>2, <1>4 DEF Vat

\* The even shares and what they leave over add up to the amount.
LEMMA SplitAdds ==
  ASSUME NEW amount \in Nat, NEW rows, IsFiniteSet(rows), rows # {}
  PROVE  /\ \A r \in rows : Split(amount, rows)[r] \in Int
         /\ SumFunctionOnSet(Split(amount, rows), rows) = amount
<1>1. PICK n \in Nat \ {0} : n = Cardinality(rows)
  BY FS_CardinalityType, FS_EmptySet
<1>2. PICK s \in Nat : s = HalfEven(amount, n)
  BY RoundedEven
<1>3. Some(rows) \in rows
  BY SomeIn
<1>4. PICK first \in rows : first = Some(rows)
  BY <1>3
<1> DEFINE f == [r \in rows |-> IF r = first THEN amount - s * (n - 1) ELSE s]
           even == [r \in rows |-> s]
<1>5. Split(amount, rows) = f
  BY <1>1, <1>2, <1>4 DEF Split, Some
<1>6. PICK last \in Int : last = amount - s * (n - 1)
  OBVIOUS
<1>7. /\ f[first] = last /\ even[first] = s
      /\ \A r \in rows : f[r] \in Int /\ even[r] \in Int
      /\ \A r \in rows \ {first} : even[r] = f[r]
  BY <1>6
<1>8. Terms(0, 0, s, even, even, even, rows)
  <2> SUFFICES ASSUME NEW r \in rows
               PROVE  even[r] \in Int /\ even[r] = Linear(0, 0, s, even[r], even[r], 1)
    BY DEF Terms
  <2>1. even[r] = s
    OBVIOUS
  <2>2. QED
    BY <2>1 DEF Linear
<1> HIDE DEF f, even
<1>9. SumFunctionOnSet(even, rows) = s * n
  <2>1. 0 \in Int /\ s \in Int
    OBVIOUS
  <2>2. SumFunctionOnSet(even, rows)
          = Linear(0, 0, s, SumFunctionOnSet(even, rows), SumFunctionOnSet(even, rows),
                   Cardinality(rows))
    BY <1>8, <2>1, SumLinear
  <2>3. SumFunctionOnSet(even, rows) \in Int
    BY <1>7, SumTyped
  <2>4. QED
    BY <1>1, <2>2, <2>3 DEF Linear
<1>10. SumFunctionOnSet(f, rows) = SumFunctionOnSet(even, rows) - even[first] + f[first]
  BY <1>7, SumChange
<1>11. s * n - s + (amount - s * (n - 1)) = amount
  OBVIOUS
<1>12. SumFunctionOnSet(f, rows) = amount
  BY <1>6, <1>7, <1>9, <1>10, <1>11
<1>13. QED
  BY <1>5, <1>7, <1>12

\* So they do among rows that take none.
Shares(f, amount, rows, all) == \A r \in all : f[r] = ShareOf(r, amount, rows)

LEMMA SharesAdd ==
  ASSUME NEW amount \in Nat, NEW rows, NEW all, IsFiniteSet(all), rows \subseteq all, rows # {},
         NEW f, Shares(f, amount, rows, all)
  PROVE  /\ \A r \in all : f[r] \in Int
         /\ SumFunctionOnSet(f, all) = amount
<1>1. IsFiniteSet(rows)
  BY FS_Subset
<1>2. /\ \A r \in rows : Split(amount, rows)[r] \in Int
      /\ SumFunctionOnSet(Split(amount, rows), rows) = amount
  BY <1>1, SplitAdds
<1>3. /\ \A r \in rows : f[r] = Split(amount, rows)[r]
      /\ \A r \in all \ rows : f[r] = 0
  BY DEF ShareOf, Shares
<1>4. \A r \in all : f[r] \in Int
  BY <1>2, <1>3
<1>5. SumFunctionOnSet(f, rows) = SumFunctionOnSet(Split(amount, rows), rows)
  BY <1>1, <1>3, SumSame
<1>6. SumFunctionOnSet(f, rows) = SumFunctionOnSet(f, all)
  BY <1>3, <1>4, SumSupport
<1>7. QED
  BY <1>2, <1>4, <1>5, <1>6

\* A document nets what its rows would cost less the discounts they are given.
Differ(f, h, r, S) == \A x \in S : f[x] \in Int /\ h[x] \in Int /\ r[x] = f[x] - h[x]

LEMMA SumTakenOff ==
  ASSUME NEW f, NEW h, NEW r, NEW S, IsFiniteSet(S), Differ(f, h, r, S)
  PROVE  SumFunctionOnSet(r, S) = SumFunctionOnSet(f, S) - SumFunctionOnSet(h, S)
<1>1. AddUp(r, h, f, S)
  <2> SUFFICES ASSUME NEW x \in S PROVE r[x] \in Int /\ h[x] \in Int /\ f[x] = r[x] + h[x]
    BY DEF AddUp
  <2>1. PICK a \in Int, b \in Int : a = f[x] /\ b = h[x]
    BY DEF Differ
  <2>2. r[x] = a - b
    BY <2>1 DEF Differ
  <2>3. QED
    BY <2>1, <2>2
<1>2. SumFunctionOnSet(f, S) = SumFunctionOnSet(r, S) + SumFunctionOnSet(h, S)
  BY <1>1, SumAdded
<1>3. SumFunctionOnSet(r, S) \in Int /\ SumFunctionOnSet(h, S) \in Int
  BY <1>1, SumTyped DEF AddUp
<1>4. QED
  BY <1>2, <1>3

Item(r) == OrderItems[r]

Rows == {i \in Lines \cup {Gift} : Ordered(i).qty > 0}

LEMMA RowsAre ==
  ASSUME AmountsTyped
  PROVE  /\ DOMAIN OrderItems = Rows /\ IsFiniteSet(Rows) /\ Lines \subseteq Rows /\ Lines # {}
         /\ request.coupon.type # "buyxgety" => Rows = Lines
         /\ Gift \in Rows =>
              request.coupon.type = "buyxgety" /\ Rows = Lines \cup {Gift}
         /\ Gift \notin Rows =>
              Rows = Lines /\ (request.coupon.type = "buyxgety" => request.coupon.count = 0)
         /\ \A l \in Lines : /\ Item(l).gross = LineTotals(cart)[l]
                             /\ Item(l).net = LineTotals(cart)[l]
                             /\ Item(l).matched = cart[l].matched
         /\ Gift \in Rows => /\ Item(Gift).gross = request.coupon.get * request.coupon.count
                             /\ Item(Gift).net = GiftNet(request.coupon)
                             /\ ~Item(Gift).matched
<1>1. Gift \notin Lines /\ IsFiniteSet(Lines) /\ Lines # {} /\ MaxQty \in Nat
  BY GiftAssumption, CartAssumption
<1>2. \A l \in Lines : Ordered(l).qty > 0
  <2> SUFFICES ASSUME NEW l \in Lines PROVE Ordered(l).qty > 0
    OBVIOUS
  <2>1. Ordered(l).qty = cart[l].qty /\ cart[l].qty \in 1..MaxQty
    BY OrderedIs, CartIs
  <2>2. QED
    BY <1>1, <2>1
<1>3. Lines \subseteq Rows /\ Rows \subseteq Lines \cup {Gift}
  BY <1>2 DEF Rows
<1>4. IsFiniteSet(Rows)
  BY <1>1, <1>3, FS_AddElement, FS_Subset
<1>5. request.coupon.type # "buyxgety" => Gift \notin Rows
  <2>1. request.coupon.type # "buyxgety" => Ordered(Gift).qty = 0
    BY OrderedIs
  <2>2. QED
    BY <2>1 DEF Rows
<1>6. (Gift \notin Rows => Rows = Lines) /\ (Gift \in Rows => Rows = Lines \cup {Gift})
  BY <1>3
<1>7. Gift \notin Rows /\ request.coupon.type = "buyxgety" => request.coupon.count = 0
  <2>1. request.coupon.count \in Nat
    BY RequestIs
  <2>2. request.coupon.type = "buyxgety" => Ordered(Gift).qty = request.coupon.count
    BY OrderedIs
  <2>3. QED
    BY <2>1, <2>2 DEF Rows
<1>8. DOMAIN OrderItems = Rows
  BY DEF OrderItems, Rows
<1>9. \A r \in Rows :
        Item(r) = [gross |-> IF r \in Lines THEN LineTotal(cart[r])
                            ELSE request.coupon.get * request.coupon.count,
                  net |-> Ordered(r).total, matched |-> r \in Lines /\ cart[r].matched]
  BY DEF OrderItems, Item, Rows
<1>10. \A l \in Lines : /\ Item(l).gross = LineTotals(cart)[l]
                        /\ Item(l).net = LineTotals(cart)[l]
                        /\ Item(l).matched = cart[l].matched
  <2> SUFFICES ASSUME NEW l \in Lines
               PROVE  /\ Item(l).gross = LineTotals(cart)[l] /\ Item(l).net = LineTotals(cart)[l]
                      /\ Item(l).matched = cart[l].matched
    OBVIOUS
  <2>1. l \in Rows
    BY <1>3
  <2>2. LineTotal(cart[l]) = LineTotals(cart)[l] /\ Ordered(l).total = LineTotals(cart)[l]
    BY CartIs, OrderedIs DEF LineTotals
  <2>3. cart[l].matched \in BOOLEAN
    BY CartIs
  <2>4. QED
    BY <1>9, <2>1, <2>2, <2>3
<1>11. Gift \in Rows => /\ Item(Gift).gross = request.coupon.get * request.coupon.count
                        /\ Item(Gift).net = GiftNet(request.coupon)
                        /\ ~Item(Gift).matched
  <2> SUFFICES ASSUME Gift \in Rows
               PROVE  /\ Item(Gift).gross = request.coupon.get * request.coupon.count
                      /\ Item(Gift).net = GiftNet(request.coupon)
                      /\ ~Item(Gift).matched
    OBVIOUS
  <2>1. Ordered(Gift).total = GiftNet(request.coupon)
    BY <1>5, OrderedIs
  <2>2. Item(Gift) = [gross |-> IF Gift \in Lines THEN LineTotal(cart[Gift])
                              ELSE request.coupon.get * request.coupon.count,
                    net |-> Ordered(Gift).total,
                    matched |-> Gift \in Lines /\ cart[Gift].matched]
    BY <1>9
  <2>3. Item(Gift).matched = (Gift \in Lines /\ cart[Gift].matched)
    BY <2>2
  <2>4. ~Item(Gift).matched
    BY <1>1, <2>3, Zenon
  <2>5. Item(Gift).gross = request.coupon.get * request.coupon.count
    BY <1>1, <2>2
  <2>6. Item(Gift).net = Ordered(Gift).total
    BY <2>2
  <2>7. QED
    BY <2>1, <2>4, <2>5, <2>6
<1>12. QED
  BY <1>1, <1>3, <1>4, <1>5, <1>6, <1>7, <1>8, <1>10, <1>11

\* The amount of the order before VAT, from what Books is to show of it.
LEMMA NetIs ==
  ASSUME AmountsTyped, Agreed, Placed, repriced => order.type = "none",
         \/ order.coupon + order.loyalty <= order.subtotal
         \/ order.type \in {"buyxgety", "free_shipping"}
  PROVE  /\ order.subtotal = Subtotal(cart) /\ order.type = request.coupon.type
         /\ order.loyalty \in Nat /\ order.coupon \in Nat /\ order.shipping \in Nat
         /\ order.type = "buyxgety" =>
              order.total - order.vat = Subtotal(cart) - order.loyalty
                                          + GiftNet(request.coupon) + order.shipping
         /\ order.type = "free_shipping" =>
              order.total - order.vat = Subtotal(cart) - order.loyalty
         /\ order.type \notin {"buyxgety", "free_shipping"} =>
              order.total - order.vat = Subtotal(cart) - (order.loyalty + order.coupon)
                                          + order.shipping
<1>1. /\ order.subtotal = Computed.subtotal /\ order.loyalty = Computed.loyalty
      /\ order.coupon = Computed.coupon /\ order.type = Computed.type
  BY DEF Agreed
<1>2. PICK S \in Nat, L \in Nat, C \in Nat :
             /\ S = order.subtotal /\ L = order.loyalty /\ C = order.coupon
             /\ S = Subtotal(cart) /\ L <= S
  BY <1>1, ComputedIs, SubtotalTyped
<1>3. order.type = request.coupon.type
  BY <1>1, ComputedIs
<1>4. CASE repriced
  <2>1. order.type = "none"
    BY <1>4
  <2>2. C = 0
    BY <1>1, <1>2, <1>3, <2>1 DEF Computed, OrderAmounts, CouponDiscount
  <2>3. PICK a \in Nat : a = AtLeast(S - L, 0) /\ a = S - L
    BY <1>2 DEF AtLeast
  <2>4. order.shipping \in Nat /\ order.vat = Vat(a) /\ order.total = a + order.vat + order.shipping
    BY <1>2, <1>4, <2>3 DEF Agreed
  <2>5. order.vat \in Int
    BY <2>4, VatInt
  <2>6. order.total - order.vat = a + order.shipping
    BY <2>4, <2>5
  <2>7. QED
    BY <1>2, <1>3, <2>1, <2>2, <2>3, <2>4, <2>6
<1>5. CASE ~repriced
  <2>1. order = Computed
    BY <1>5 DEF Agreed
  <2>2. PICK f \in Nat : f = order.shipping
    BY <2>1, ComputedIs, ShippingTyped
  <2>3. PICK x \in Int : x = Extra
    BY GiftTyped DEF Extra
  <2>4. PICK a \in Nat : a = AtLeast(S - Taken, 0) /\ a = S - Taken
    <3>1. Taken \in Nat /\ Taken <= S
      BY <1>2, <1>3, <2>1 DEF Taken
    <3>2. QED
      BY <1>2, <3>1 DEF AtLeast
  <2>5. PICK v \in Int : v = order.vat
    <3>1. order.vat = Vat(a + x)
      BY <1>2, <2>1, <2>3, <2>4, ComputedIs
    <3>2. a + x \in Int
      OBVIOUS
    <3>3. QED
      BY <3>1, <3>2, VatInt
  <2>6. order.total = a + x + v + (IF request.coupon.type = "free_shipping" THEN 0 ELSE f)
    BY <1>2, <2>1, <2>2, <2>3, <2>4, <2>5, ComputedIs
  <2>7. order.total - order.vat = a + x + (IF request.coupon.type = "free_shipping" THEN 0 ELSE f)
    BY <2>5, <2>6
  <2>8. CASE order.type = "buyxgety"
    <3>1. Taken = L /\ x = GiftNet(request.coupon) /\ request.coupon.type # "free_shipping"
      BY <1>2, <1>3, <2>1, <2>3, <2>8 DEF Taken, Extra
    <3>2. QED
      BY <1>2, <1>3, <2>2, <2>4, <2>7, <2>8, <3>1
  <2>9. CASE order.type = "free_shipping"
    <3>1. Taken = L /\ x = 0
      BY <1>2, <1>3, <2>1, <2>3, <2>9 DEF Taken, Extra
    <3>2. QED
      BY <1>2, <1>3, <2>2, <2>4, <2>7, <2>9, <3>1
  <2>10. CASE order.type \notin {"buyxgety", "free_shipping"}
    <3>1. Taken = L + C /\ x = 0
      BY <1>2, <1>3, <2>1, <2>3, <2>10 DEF Taken, Extra
    <3>2. QED
      BY <1>2, <1>3, <2>2, <2>4, <2>7, <2>10, <3>1
  <2>11. QED
    BY <2>8, <2>9, <2>10
<1>6. QED
  BY <1>4, <1>5

\* The sums of the rows, and of the discounts of an order of each kind.
LEMMA GrossOfRows ==
  ASSUME AmountsTyped, request.coupon.type # "buyxgety",
         NEW f, \A r \in Rows : f[r] = Item(r).gross
  PROVE  /\ \A r \in Rows : f[r] \in Int
         /\ SumFunctionOnSet(f, Rows) = Subtotal(cart)
<1>1. Rows = Lines /\ \A l \in Lines : f[l] = LineTotals(cart)[l]
  BY RowsAre
<1>2. SumFunctionOnSet(f, Lines) = SumFunctionOnSet(LineTotals(cart), Lines)
  BY <1>1, CartIs, SumSame
<1>3. QED
  BY <1>1, <1>2, CartIs DEF Subtotal

LEMMA NetOfRows ==
  ASSUME AmountsTyped, request.coupon.type = "buyxgety",
         NEW f, \A r \in Rows : f[r] = Item(r).net
  PROVE  /\ \A r \in Rows : f[r] \in Int
         /\ SumFunctionOnSet(f, Rows) = Subtotal(cart) + GiftNet(request.coupon)
<1>1. \A l \in Lines : f[l] = LineTotals(cart)[l]
  BY RowsAre
<1>2. SumFunctionOnSet(f, Lines) = SumFunctionOnSet(LineTotals(cart), Lines)
  BY <1>1, CartIs, SumSame
<1>3. SumFunctionOnSet(f, Lines) = Subtotal(cart) /\ Subtotal(cart) \in Nat
  BY <1>2, CartIs, SubtotalTyped DEF Subtotal
<1>4. GiftNet(request.coupon) \in Int
  BY GiftTyped
<1>5. CASE Gift \notin Rows
  <2>1. Rows = Lines /\ GiftNet(request.coupon) = 0
    BY <1>5, RowsAre, GiftTyped
  <2>2. QED
    BY <1>1, <1>3, <2>1, CartIs
<1>6. CASE Gift \in Rows
  <2>1. Rows = Lines \cup {Gift} /\ f[Gift] = GiftNet(request.coupon) /\ IsFiniteSet(Rows)
    BY <1>6, RowsAre
  <2>2. \A r \in Rows : f[r] \in Int
    BY <1>1, <1>4, <2>1, CartIs
  <2>3. Rows \ {Gift} = Lines
    BY <2>1, GiftAssumption
  <2>4. SumFunctionOnSet(f, Rows) = f[Gift] + SumFunctionOnSet(f, Rows \ {Gift})
    BY <1>6, <2>1, <2>2, SumSplit
  <2>5. PICK g \in Int, t \in Nat : g = GiftNet(request.coupon) /\ t = Subtotal(cart)
    BY <1>3, <1>4
  <2>6. SumFunctionOnSet(f, Rows) = g + t
    BY <1>3, <2>1, <2>3, <2>4, <2>5
  <2>7. g + t = t + g
    OBVIOUS
  <2>8. QED
    BY <2>2, <2>5, <2>6, <2>7
<1>7. QED
  BY <1>5, <1>6

Discount(r) == RowDiscount(order, OrderItems, r)

LEMMA DiscountsAdd ==
  ASSUME AmountsTyped, order.type = request.coupon.type, order.type # "buyxgety",
         order.loyalty \in Nat, order.coupon \in Nat,
         NEW d, \A r \in Rows : d[r] = Discount(r)
  PROVE  /\ \A r \in Rows : d[r] \in Int
         /\ SumFunctionOnSet(d, Rows) = IF order.type = "free_shipping" THEN order.loyalty
                                        ELSE order.loyalty + order.coupon
<1>1. DOMAIN OrderItems = Rows /\ IsFiniteSet(Rows) /\ Rows # {} /\ Rows = Lines
  BY RowsAre
<1>2. CASE order.type = "free_shipping"
  <2>1. Shares(d, order.loyalty, Rows, Rows)
    BY <1>1, <1>2 DEF Discount, RowDiscount, Shares
  <2>2. QED
    BY <1>1, <1>2, <2>1, SharesAdd
<1>3. CASE order.type = "item"
  <2> DEFINE matched == {i \in Rows : OrderItems[i].matched}
             e == [r \in Rows |-> ShareOf(r, order.loyalty, Rows)]
             g == [r \in Rows |-> ShareOf(r, order.coupon, matched)]
  <2>1. matched # {}
    <3>1. SUFFICES ASSUME matched = {} PROVE FALSE
      OBVIOUS
    <3>2. {l \in DOMAIN cart : cart[l].matched} = {}
      <4>1. \A l \in Lines : OrderItems[l].matched = cart[l].matched
        BY RowsAre DEF Item
      <4>2. QED
        BY <1>1, <3>1, <4>1, CartIs
    <3>3. MatchedTotal(cart) = 0
      BY <3>2, SumOfNone DEF MatchedTotal
    <3>4. MatchedTotal(cart) > 0
      BY <1>3 DEF AmountsTyped
    <3>5. QED
      BY <3>3, <3>4
  <2>2. matched \subseteq Rows /\ Rows \subseteq Rows
    OBVIOUS
  <2>3. \A r \in Rows : d[r] = e[r] + g[r]
    BY <1>1, <1>3 DEF Discount, RowDiscount
  <2> HIDE DEF matched
  <2>4. PICK a \in Nat, c \in Nat : a = order.loyalty /\ c = order.coupon
    OBVIOUS
  <2>5. Shares(e, a, Rows, Rows) /\ Shares(g, c, matched, Rows)
    BY <2>4 DEF Shares
  <2> HIDE DEF e, g
  <2>6. /\ \A r \in Rows : e[r] \in Int
        /\ SumFunctionOnSet(e, Rows) = a
    <3>1. IsFiniteSet(Rows) /\ Rows # {}
      BY <1>1
    <3>2. QED
      BY <2>2, <2>5, <3>1, SharesAdd
  <2>7. /\ \A r \in Rows : g[r] \in Int
        /\ SumFunctionOnSet(g, Rows) = c
    <3>1. IsFiniteSet(Rows)
      BY <1>1
    <3>2. QED
      BY <2>1, <2>2, <2>5, <3>1, SharesAdd
  <2>8. SumFunctionOnSet(d, Rows) = SumFunctionOnSet(e, Rows) + SumFunctionOnSet(g, Rows)
    <3>1. AddUp(e, g, d, Rows)
      BY <2>3, <2>6, <2>7 DEF AddUp
    <3>2. QED
      BY <1>1, <3>1, SumAdded
  <2>9. QED
    BY <1>3, <2>3, <2>4, <2>6, <2>7, <2>8
<1>4. CASE order.type \notin {"free_shipping", "item"}
  <2>1. \A r \in Rows : d[r] = ShareOf(r, order.loyalty + order.coupon, Rows)
    BY <1>1, <1>4 DEF Discount, RowDiscount
  <2>2. PICK a \in Nat : a = order.loyalty + order.coupon
    OBVIOUS
  <2>3. Shares(d, a, Rows, Rows)
    BY <2>1, <2>2 DEF Shares
  <2>4. /\ \A r \in Rows : d[r] \in Int
        /\ SumFunctionOnSet(d, Rows) = a
    BY <1>1, <2>3, SharesAdd
  <2>5. QED
    BY <1>4, <2>2, <2>4
<1>5. QED
  BY <1>2, <1>3, <1>4

\* With a buyxgety coupon, the rows that are not the gift share the loyalty discount.
LEMMA GiftDiscountsAdd ==
  ASSUME AmountsTyped, order.type = request.coupon.type, order.type = "buyxgety",
         order.loyalty \in Nat
  PROVE  \E e : /\ \A r \in Rows : /\ e[r] \in Int
                                   /\ Discount(r) = (Item(r).gross - Item(r).net) + e[r]
                /\ SumFunctionOnSet(e, Rows) = order.loyalty
<1>1. DOMAIN OrderItems = Rows /\ IsFiniteSet(Rows) /\ Lines \subseteq Rows /\ Lines # {}
  BY RowsAre
<1> DEFINE given == {i \in Rows : OrderItems[i].net < OrderItems[i].gross}
           takers == Rows \ given
           e == [r \in Rows |-> ShareOf(r, order.loyalty, takers)]
<1>2. takers # {}
  <2>1. PICK l : l \in Lines
    BY <1>1
  <2>2. Item(l).gross = LineTotals(cart)[l] /\ Item(l).net = LineTotals(cart)[l]
    BY <2>1, RowsAre
  <2>3. LineTotals(cart)[l] \in Nat
    BY <2>1, CartIs
  <2>4. ~(OrderItems[l].net < OrderItems[l].gross)
    BY <2>2, <2>3 DEF Item
  <2>5. QED
    BY <1>1, <2>1, <2>4
<1>3. takers \subseteq Rows
  OBVIOUS
<1>4. \A r \in Rows : Discount(r) = (Item(r).gross - Item(r).net) + e[r]
  BY <1>1 DEF Discount, RowDiscount, Item
<1> HIDE DEF takers, given
<1>5. Shares(e, order.loyalty, takers, Rows)
  BY DEF Shares
<1> HIDE DEF e
<1>6. /\ \A r \in Rows : e[r] \in Int
      /\ SumFunctionOnSet(e, Rows) = order.loyalty
  BY <1>1, <1>2, <1>3, <1>5, SharesAdd
<1>7. QED
  BY <1>4, <1>6

LEMMA BooksAre ==
  ASSUME AmountsInv, Placed, NoneDropped, repriced => order.type = "none",
         \/ order.coupon + order.loyalty <= order.subtotal
         \/ order.type \in {"buyxgety", "free_shipping"}
  PROVE  BooksNet(order, OrderItems) = order.total - order.vat
<1> DEFINE n == [r \in DOMAIN OrderItems |-> RowNet(order, OrderItems, r)]
           g == [r \in Rows |-> Item(r).gross]
           net == [r \in Rows |-> Item(r).net]
           d == [r \in Rows |-> Discount(r)]
<1>1. AmountsTyped /\ Agreed
  BY DEF AmountsInv
<1>2. DOMAIN OrderItems = Rows /\ IsFiniteSet(Rows)
  BY <1>1, RowsAre
<1>3. BooksNet(order, OrderItems)
        = SumFunctionOnSet(n, Rows) + (IF order.type = "free_shipping" THEN 0 ELSE order.shipping)
  <2>1. DOMAIN n = Rows
    BY <1>2
  <2> HIDE DEF n
  <2>2. QED
    BY <2>1 DEF BooksNet, SumFunction, n
<1>4. /\ order.type = request.coupon.type
      /\ order.loyalty \in Nat /\ order.coupon \in Nat /\ order.shipping \in Nat
  BY <1>1, NetIs
<1>5. Subtotal(cart) \in Nat /\ GiftNet(request.coupon) \in Int
  BY <1>1, SubtotalTyped, GiftTyped
<1>6. PICK s \in Nat, l \in Nat, c \in Nat, f \in Nat, x \in Int :
        /\ s = Subtotal(cart) /\ l = order.loyalty /\ c = order.coupon /\ f = order.shipping
        /\ x = GiftNet(request.coupon)
  BY <1>4, <1>5
<1>7. CASE order.type # "buyxgety"
  <2>1. \A r \in Rows : g[r] = Item(r).gross /\ d[r] = Discount(r)
    OBVIOUS
  <2>2. \A r \in Rows : n[r] = Item(r).gross - AtLeast(Discount(r), 0) /\ Discount(r) >= 0
    BY <1>2, <1>7 DEF RowNet, Item, Discount, NoneDropped
  <2> HIDE DEF n, g, d
  <2>3. /\ \A r \in Rows : g[r] \in Int
        /\ SumFunctionOnSet(g, Rows) = s
    BY <1>1, <1>4, <1>6, <1>7, <2>1, GrossOfRows
  <2>4. /\ \A r \in Rows : d[r] \in Int
        /\ SumFunctionOnSet(d, Rows) = IF order.type = "free_shipping" THEN l ELSE l + c
    BY <1>1, <1>4, <1>6, <1>7, <2>1, DiscountsAdd
  <2>5. \A r \in Rows : n[r] = g[r] - d[r]
    <3> SUFFICES ASSUME NEW r \in Rows PROVE n[r] = g[r] - d[r]
      OBVIOUS
    <3>1. PICK y \in Int : y = Discount(r) /\ y = d[r] /\ y >= 0
      BY <2>1, <2>2, <2>4
    <3>2. AtLeast(y, 0) = y
      BY <3>1 DEF AtLeast
    <3>3. QED
      BY <2>1, <2>2, <3>1, <3>2
  <2>6. SumFunctionOnSet(n, Rows) = SumFunctionOnSet(g, Rows) - SumFunctionOnSet(d, Rows)
    <3>1. Differ(g, d, n, Rows)
      BY <2>3, <2>4, <2>5 DEF Differ
    <3>2. QED
      BY <1>2, <3>1, SumTakenOff
  <2>7. CASE order.type = "free_shipping"
    <3>1. order.total - order.vat = s - l
      BY <1>1, <1>6, <2>7, NetIs
    <3>2. BooksNet(order, OrderItems) = s - l + 0
      BY <1>3, <2>3, <2>4, <2>6, <2>7
    <3>3. QED
      BY <3>1, <3>2
  <2>8. CASE order.type # "free_shipping"
    <3>1. order.total - order.vat = s - (l + c) + f
      BY <1>1, <1>6, <1>7, <2>8, NetIs
    <3>2. BooksNet(order, OrderItems) = s - (l + c) + f
      BY <1>3, <1>6, <2>3, <2>4, <2>6, <2>8
    <3>3. QED
      BY <3>1, <3>2
  <2>9. QED
    BY <2>7, <2>8
<1>8. CASE order.type = "buyxgety"
  <2>1. PICK e : /\ \A r \in Rows : /\ e[r] \in Int
                                    /\ Discount(r) = (Item(r).gross - Item(r).net) + e[r]
                 /\ SumFunctionOnSet(e, Rows) = l
    BY <1>1, <1>4, <1>6, <1>8, GiftDiscountsAdd
  <2>2. \A r \in Rows : net[r] = Item(r).net
    OBVIOUS
  <2>3. \A r \in Rows : n[r] = Item(r).gross - Discount(r)
    BY <1>2, <1>8 DEF RowNet, Item, Discount
  <2> HIDE DEF n, net
  <2>4. /\ \A r \in Rows : net[r] \in Int
        /\ SumFunctionOnSet(net, Rows) = s + x
    BY <1>1, <1>4, <1>6, <1>8, <2>2, NetOfRows
  <2>5. \A r \in Rows : n[r] = net[r] - e[r]
    <3> SUFFICES ASSUME NEW r \in Rows PROVE n[r] = net[r] - e[r]
      OBVIOUS
    <3>1. Item(r).gross \in Int
      BY <1>1, RowsAre, CartIs, GiftTyped
    <3>2. PICK a \in Int, b \in Int, y \in Int : a = Item(r).gross /\ b = net[r] /\ y = e[r]
      BY <2>1, <2>4, <3>1
    <3>3. n[r] = a - ((a - b) + y)
      BY <2>1, <2>2, <2>3, <3>2
    <3>4. QED
      BY <3>2, <3>3
  <2>6. SumFunctionOnSet(n, Rows) = SumFunctionOnSet(net, Rows) - SumFunctionOnSet(e, Rows)
    <3>1. Differ(net, e, n, Rows)
      BY <2>1, <2>4, <2>5 DEF Differ
    <3>2. QED
      BY <1>2, <3>1, SumTakenOff
  <2>7. order.total - order.vat = s - l + x + f
    BY <1>1, <1>6, <1>8, NetIs
  <2>8. BooksNet(order, OrderItems) = s + x - l + f
    BY <1>3, <1>6, <1>8, <2>1, <2>4, <2>6
  <2>9. QED
    BY <2>7, <2>8
<1>9. QED
  BY <1>7, <1>8

\* For every cart and every kind of offer, what the documents in Books show adds up to the
\* amount of the order before VAT, as long as no row's discount is dropped.
THEOREM BooksShowTheOrder == Spec => []BooksNetsOrder
<1>1. AmountsInv => BooksNetsOrder
  BY BooksAre DEF BooksNetsOrder
<1>2. QED
  BY <1>1, AmountsHold, PTL
=============================================================================
