----------------------------- MODULE MCAccounts -----------------------------
(***************************************************************************)
(* Instances of Accounts for TLC: each set of requests that can disturb    *)
(* one another, with the accounts they need.                               *)
(***************************************************************************)
EXTENDS Accounts, TLC

CONSTANTS u1, u2, e1, e2, p1, p2, r1

TwoPeople == {u1, u2}
TwoEmails == {e1, e2}
TwoPasswords == {p1, p2}
OneRole == {r1}

Account(email, rank) ==
  [email |-> email, password |-> p1, active |-> TRUE, balance |-> 0, rank |-> rank]

NoAccounts == [u \in People |-> Nobody]
Customer == [NoAccounts EXCEPT ![u1] = Account(e1, "customer")]
OneSuper == [NoAccounts EXCEPT ![u1] = Account(e1, "super")]
TwoSupers == (u1 :> Account(e1, "super")) @@ (u2 :> Account(u2, "super"))

SomeScenarios ==
  {[requests |-> {"register", "delete", "order", "earn"}, accounts |-> NoAccounts, codes |-> 2],
   [requests |-> {"reset", "change", "edit", "die"}, accounts |-> Customer, codes |-> 2],
   [requests |-> {"reset", "change", "expire"}, accounts |-> Customer, codes |-> 2],
   [requests |-> {"delete", "edit", "order", "earn"}, accounts |-> Customer, codes |-> 2],
   [requests |-> {"deactivate", "reactivate", "status", "edit"}, accounts |-> Customer, codes |-> 3],
   [requests |-> {"edit", "remove", "drop", "order"}, accounts |-> TwoSupers, codes |-> 2],
   [requests |-> {"login", "remove", "status"}, accounts |-> TwoSupers, codes |-> 2],
   [requests |-> {"hire", "drop", "edit"}, accounts |-> OneSuper, codes |-> 0]}

Identities == Permutations(Clerks)
=============================================================================
