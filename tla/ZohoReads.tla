----------------------------- MODULE ZohoReads -----------------------------
(***************************************************************************)
(* What the storefront reads from Zoho Commerce, and the three layers it   *)
(* keeps in the cache "zoho": rows of a product list, details of products  *)
(* and categories, and whole responses.  A response is put together from   *)
(* pieces; each layer counts its time to live from when it is written, so  *)
(* the age of what a customer is shown adds up.                            *)
(*                                                                         *)
(* Of a piece only its age is kept: the time since the first call to Zoho  *)
(* that contributed to it.  A response that lacks a piece because a call   *)
(* failed is as old as that failure.  Ages are counted, not clock times.   *)
(***************************************************************************)
EXTENDS Naturals, Sequences

CONSTANTS
  Readers,     \* request threads
  Menus,       \* the endpoints that are called, one of these sets
  Lifetime,    \* [CachedPieces \cup {"response"} -> time to live], 0: not cached
  MaxWork      \* bound: the time a request takes

VARIABLES
  menu,
  kept,        \* [CachedPieces -> cache entry]
  responses,   \* [CachedEndpoints -> cache entry]
  read         \* [Readers -> the request being served]

readVars == <<menu, kept, responses, read>>

CachedPieces == {"rows", "detail", "category"}

\* The timeouts of the cache "zoho" in the settings.
ASSUME LifetimeAssumption == Lifetime \in [CachedPieces \cup {"response"} -> Nat]

ASSUME WorkAssumption == MaxWork \in Nat

CachedEndpoints == {"page", "limited", "all", "stores", "categories"}

\* The pieces of each response, in the order they are read.
ProductPage == <<"page", "detail">>
LimitedList == <<"tree", "page", "detail">>
WholeList == <<"tree", "rows", "detail">>
ProductSearch == <<"tree", "rows", "detail">>
CategoryDeals == <<"tree", "rows", "detail">>
AdminDeals == <<"detail">>
CollectionDeals == <<"collections", "collections", "page">>
ProductDetail == <<"detail">>
RelatedProducts == <<"detail", "tree", "page", "detail">>
StoreList == <<"sites">>
CategoryList == <<"tree", "category", "page", "detail">>
SubCategories == <<"tree">>
CategorySearch == <<"tree">>
CategoryImage == <<"tree", "category">>
CollectionList == <<"collections">>

Plans ==
  [page |-> ProductPage, limited |-> LimitedList, all |-> WholeList, search |-> ProductSearch,
   category_deals |-> CategoryDeals, admin_deals |-> AdminDeals,
   collection_deals |-> CollectionDeals, product |-> ProductDetail,
   related |-> RelatedProducts, stores |-> StoreList, categories |-> CategoryList,
   sub_categories |-> SubCategories, category_search |-> CategorySearch,
   category_image |-> CategoryImage, collections |-> CollectionList]

Endpoints == DOMAIN Plans
Pieces(e) == Plans[e]

\* A call that fails leaves a gap, it does not fail the request.
Optional(e, piece, first) ==
  \/ piece = "detail" /\ e # "product" /\ ~(e = "related" /\ first)
  \/ piece \in {"sites", "category"}
  \/ piece = "collections" /\ ~first
  \/ piece = "page" /\ e = "categories"

\* A piece that may not be needed: no category is given, every row has its price ...
Dispensable(e, piece) ==
  \/ piece = "detail" /\ e # "product"
  \/ piece = "tree" /\ e \in {"limited", "all", "search", "category_deals", "related"}
  \/ piece = "page" /\ e = "categories"
  \/ piece = "category"
  \/ piece = "collections" /\ e = "collection_deals"

\* left: how long the entry is still used; 0 when there is none.
Nothing == [age |-> 0, left |-> 0]

NoRead == [endpoint |-> "none", todo |-> <<>>, since |-> 0, oldest |-> 0, calling |-> FALSE,
           asked |-> 0]

ReadsInit ==
  /\ menu \in Menus
  /\ kept = [p \in CachedPieces |-> Nothing]
  /\ responses = [e \in CachedEndpoints |-> Nothing]
  /\ read = [r \in Readers |-> NoRead]

Serving(r) == read[r].endpoint # "none"
Wanted(r) == Head(read[r].todo)
Ready(r) == Serving(r) /\ read[r].todo # <<>> /\ ~read[r].calling
Valid(entry) == entry.left > 0

-----------------------------------------------------------------------------
\* A request, unless a response is at hand.
AskFor(r, e) ==
  /\ e \in menu
  /\ ~Serving(r)
  /\ e \in CachedEndpoints => ~Valid(responses[e])
  /\ read' = [read EXCEPT ![r] = [NoRead EXCEPT !.endpoint = e, !.todo = Pieces(e)]]
  /\ UNCHANGED <<menu, kept, responses>>

\* The response contains the next piece, which is this old.
Use(r, age) ==
  read' = [read EXCEPT ![r].todo = Tail(@), ![r].oldest = IF @ > age THEN @ ELSE age,
                       ![r].calling = FALSE, ![r].asked = 0]

Skip(r) ==
  /\ Ready(r)
  /\ Dispensable(read[r].endpoint, Wanted(r))
  /\ read' = [read EXCEPT ![r].todo = Tail(@)]
  /\ UNCHANGED <<menu, kept, responses>>

\* Wrong: what is read stays in the cache for another lifetime.
FromCacheRenewed(r) ==
  /\ Ready(r) /\ Wanted(r) \in CachedPieces
  /\ Valid(kept[Wanted(r)])
  /\ kept' = [kept EXCEPT ![Wanted(r)].left = Lifetime[Wanted(r)]]
  /\ Use(r, kept[Wanted(r)].age)
  /\ UNCHANGED <<menu, responses>>

FromCache(r) ==
  /\ Ready(r) /\ Wanted(r) \in CachedPieces
  /\ Valid(kept[Wanted(r)])
  /\ Use(r, kept[Wanted(r)].age)
  /\ UNCHANGED <<menu, kept, responses>>

\* The first page of a list, the first account, the first detail.
Call(r) ==
  /\ Ready(r)
  /\ Wanted(r) \in CachedPieces => ~Valid(kept[Wanted(r)])
  /\ read' = [read EXCEPT ![r].calling = TRUE]
  /\ UNCHANGED <<menu, kept, responses>>

\* The last one.  A piece is kept from now on, and is as old as its first page.
Answer(r) ==
  LET p == Wanted(r) IN
  /\ Serving(r) /\ read[r].calling
  /\ kept' = IF p \in CachedPieces /\ Lifetime[p] > 0
             THEN [kept EXCEPT ![p] = [age |-> read[r].asked, left |-> Lifetime[p]]]
             ELSE kept
  /\ Use(r, read[r].asked)
  /\ UNCHANGED <<menu, responses>>

\* A call fails; rows that were already read are not kept.
CallFails(r) ==
  LET e == read[r].endpoint
      first == Len(read[r].todo) = Len(Pieces(e)) IN
  /\ Serving(r) /\ read[r].calling
  /\ IF Optional(e, Wanted(r), first) THEN Use(r, read[r].asked)
     ELSE read' = [read EXCEPT ![r] = NoRead]
  /\ UNCHANGED <<menu, kept, responses>>

Respond(r) ==
  LET e == read[r].endpoint IN
  /\ Serving(r) /\ read[r].todo = <<>>
  /\ responses' = IF e \in CachedEndpoints /\ Lifetime["response"] > 0
                  THEN [responses EXCEPT ![e] = [age |-> read[r].oldest,
                                                 left |-> Lifetime["response"]]]
                  ELSE responses
  /\ read' = [read EXCEPT ![r] = NoRead]
  /\ UNCHANGED <<menu, kept>>

\* The cache is full, or its directory was cleaned.
Evict(p) ==
  /\ Valid(kept[p])
  /\ kept' = [kept EXCEPT ![p] = Nothing]
  /\ UNCHANGED <<menu, responses, read>>

Aged(entry) == IF entry.left <= 1 THEN Nothing
               ELSE [age |-> entry.age + 1, left |-> entry.left - 1]

Pass ==
  /\ \A r \in Readers : Serving(r) => read[r].since < MaxWork
  /\ kept' = [p \in CachedPieces |-> Aged(kept[p])]
  /\ responses' = [e \in CachedEndpoints |-> Aged(responses[e])]
  /\ read' = [r \in Readers |->
                IF ~Serving(r) THEN NoRead
                ELSE [read[r] EXCEPT !.since = @ + 1, !.oldest = @ + 1,
                                     !.asked = IF read[r].calling THEN @ + 1 ELSE 0]]
  /\ UNCHANGED menu

ReadsNext ==
  \/ \E r \in Readers :
       \/ \E e \in Endpoints : AskFor(r, e)
       \/ Skip(r) \/ FromCache(r) \/ Call(r) \/ Answer(r) \/ CallFails(r) \/ Respond(r)
  \/ \E p \in CachedPieces : Evict(p)
  \/ Pass

ReadsSpec == ReadsInit /\ [][ReadsNext]_readVars

-----------------------------------------------------------------------------
\* The longest life of a piece of a response.
LongestLife(e) ==
  LET lives == {Lifetime[p] : p \in CachedPieces \cap {Pieces(e)[i] : i \in DOMAIN Pieces(e)}} IN
  IF lives = {} THEN 0 ELSE CHOOSE l \in lives : \A other \in lives : other <= l

\* A response says nothing that is older than the lives of its layers and the time of
\* the two requests that fetched and assembled it, whoever warmed the caches; this holds
\* for the gaps that failed calls left, too.
ShownIsRecent ==
  /\ \A e \in CachedEndpoints :
       Valid(responses[e]) =>
         responses[e].age < LongestLife(e) + Lifetime["response"] + 2 * MaxWork
  /\ \A r \in Readers :
       Serving(r) => read[r].oldest <= LongestLife(read[r].endpoint) + 2 * MaxWork
=============================================================================
