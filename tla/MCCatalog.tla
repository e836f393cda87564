----------------------------- MODULE MCCatalog -----------------------------
(***************************************************************************)
(* Instances of Catalog and ZohoReads for TLC.  What a cached detail may   *)
(* say is in Catalog any price the item had, so the two are explored one   *)
(* at a time.                                                              *)
(***************************************************************************)
EXTENDS Catalog, ZohoReads, TLC

ThreeItems == {1, 2, 3}

\* The shops, then none.
SomeShops == {{"sync", "change"}, {"sync", "wish"}, {"cart", "wish", "change"}, {}}

SomeMenus == {{"all", "search"}, {"page", "product"}, {"limited", "related"},
              {"categories", "category_image", "sub_categories", "category_search"},
              {"stores", "admin_deals", "collection_deals", "collections"},
              {"category_deals", "product"}, {}}

\* Ticks of five minutes.
Lives == [p \in CachedPieces \cup {"response"} |-> IF p = "detail" THEN 2 ELSE 1]

Init == CatalogInit /\ ReadsInit /\ (shop = {}) # (menu = {})

Next == \/ CatalogNext /\ UNCHANGED readVars
        \/ ReadsNext /\ shop = {} /\ UNCHANGED catalogVars

Spec == Init /\ [][Next]_<<catalogVars, readVars>>

Identities == Permutations(Workers) \cup Permutations(Readers)
=============================================================================
