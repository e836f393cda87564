-------------------------- MODULE MCBooksDocuments --------------------------
(***************************************************************************)
(* Instances of BooksDocuments for TLC: two customers of one name.         *)
(***************************************************************************)
EXTENDS BooksDocuments, TLC

CONSTANTS o1, o2, o3, ann, bea

CustomerOf == [o \in Orders |-> IF o = o3 THEN bea ELSE ann]
SameName == [u \in Users |-> "Ann"]
FirstIsWorkedOn == [o \in Orders |->
  IF o = o1 THEN {"retry", "edit", "confirm", "invoice", "cancel"} ELSE {}]
BothWorkflows == BOOLEAN

Identities == Permutations(Workers)
=============================================================================
