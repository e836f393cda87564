------------------------------ MODULE Accounts ------------------------------
(***************************************************************************)
(* The accounts of customers and staff, and the codes mailed to them.      *)
(*                                                                         *)
(* No request of these views runs in a transaction, the deletion of an     *)
(* account excepted, so requests interleave between any two of their       *)
(* writes, and the user object a request works on is the row as it was     *)
(* when the request was authenticated.  Most saves name the column they    *)
(* write; a profile or staff edit and the anonymisation of a deleted       *)
(* account write the whole row.                                            *)
(***************************************************************************)
EXTENDS Naturals, Sequences, FiniteSets

CONSTANTS Clerks,      \* the threads that serve requests
          People,      \* primary keys of accounts; as an e-mail address,
                       \* the one an anonymised account gets
          Emails, Passwords, Roles, Nobody,
          Scenarios,   \* [requests, accounts, codes]: the requests that are made, the
                       \* accounts at first, and a bound of the codes that are mailed
          MaxBalance   \* bound: points of an account

ASSUME BoundAssumption == MaxBalance \in Nat
ASSUME ClerksAssumption == IsFiniteSet(Clerks)

VARIABLES
  scene,      \* the requests that are made and their bound
  users,      \* the rows, Nobody where there is none
  intended,   \* what the requests wrote, each in the columns it is about
  clobbered,  \* accounts over whose changed row an older one was saved
  keys,       \* primary keys handed out so far
  private,    \* accounts with carts, wishlists or addresses
  ordered,    \* accounts with orders
  bound,      \* AdminUserRole: the role of each account, Nobody for none
  roles,      \* the admin roles
  codes,      \* the rows of all kinds of codes, in the order of their creation
  job         \* [Clerks -> what the thread is doing]

rowVars == <<users, intended, clobbered, keys>>
ownedVars == <<private, ordered, bound, roles>>
accountVars == <<scene, rowVars, ownedVars, codes, job>>

Kinds == {"register", "reset", "change", "deactivate", "reactivate", "delete", "login"}

\* Kinds of which a new code uses up the older ones.
Superseding == Kinds \ {"register", "reset"}

AccountRow == [email: Emails \cup People, password: Passwords \cup {Nobody}, active: BOOLEAN,
               balance: 0..MaxBalance, rank: {"customer", "staff", "super"}]

ASSUME NobodyAssumption == Nobody \notin AccountRow \cup People
ASSUME ScenariosAssumption ==
  \A s \in Scenarios : s.accounts \in [People -> AccountRow \cup {Nobody}]

Code == [kind: Kinds, of: People \cup Emails, state: {"live", "used", "expired", "purged"}]

Steps == {"create", "mark", "supersede", "issue", "password", "status", "orders", "erase",
          "save", "bind", "remove", "drop"}

Idle == [todo |-> <<>>, kind |-> "login", user |-> Nobody, row |-> Nobody, code |-> 0,
         email |-> Nobody, word |-> Nobody, role |-> Nobody, orders |-> FALSE]

JobState == [todo: Seq(Steps), kind: Kinds, user: People \cup {Nobody},
             row: AccountRow \cup {Nobody}, code: Nat,
             email: Emails \cup People \cup {Nobody}, word: Passwords \cup {Nobody},
             role: Roles \cup {Nobody}, orders: BOOLEAN]

AccountsInit ==
  /\ \E s \in Scenarios : scene = s /\ users = s.accounts
  /\ intended = users
  /\ keys = {u \in People : users[u] # Nobody}
  /\ clobbered = {} /\ private = {} /\ ordered = {}
  /\ roles = Roles
  /\ bound = [u \in People |-> Nobody]
  /\ codes = <<>>
  /\ job = [c \in Clerks |-> Idle]

-----------------------------------------------------------------------------
Present(u) == users[u] # Nobody
Active(u) == Present(u) /\ users[u].active
Taken(e, u) == \E v \in People \ {u} : Present(v) /\ users[v].email = e
Live(kind, of) ==
  {i \in DOMAIN codes : codes[i].kind = kind /\ codes[i].of = of /\ codes[i].state = "live"}

At(c, step) == job[c].todo # <<>> /\ Head(job[c].todo) = step

Serve(c, request, j) ==
  /\ request \in scene.requests
  /\ job[c].todo = <<>>
  /\ job' = [job EXCEPT ![c] = j]
  /\ UNCHANGED <<scene, rowVars, ownedVars, codes>>

Continue(c) ==
  LET j == job[c] IN
  job' = [job EXCEPT ![c] = IF Len(j.todo) = 1 THEN Idle ELSE [j EXCEPT !.todo = Tail(j.todo)]]

\* The request ends with an error, what it wrote before stays.
Fail(c) ==
  /\ job' = [job EXCEPT ![c] = Idle]
  /\ UNCHANGED <<scene, rowVars, ownedVars, codes>>

\* A request writes one column, or means to.
Write(u, column, value) ==
  /\ users' = [users EXCEPT ![u][column] = value]
  /\ intended' = IF u \in clobbered THEN intended
                 ELSE [intended EXCEPT ![u][column] = value]

-----------------------------------------------------------------------------
(***************************************************************************)
(* Requests for a code.                                                    *)
(***************************************************************************)
Ask(c, kind, u) ==
  /\ users[u].email \in Emails
  /\ Serve(c, kind,
       [Idle EXCEPT !.kind = kind, !.user = u,
                    !.todo = IF kind \in Superseding THEN <<"supersede", "issue">>
                             ELSE <<"issue">>])

\* RequestRegistrationOTP
AskToRegister(c, e) ==
  /\ ~Taken(e, Nobody)
  /\ Serve(c, "register",
       [Idle EXCEPT !.kind = "register", !.email = e, !.todo = <<"issue">>])

\* ForgotPassword, of customers and of staff
AskToReset(c, u) == Present(u) /\ Ask(c, "reset", u)

\* RequestChangePasswordOTP, RequestDeactivateAccountOTP, RequestDeleteAccountOTP
AskToChange(c, u) == Active(u) /\ Ask(c, "change", u)
AskToDeactivate(c, u) == Active(u) /\ Ask(c, "deactivate", u)
AskToDelete(c, u) == Active(u) /\ Ask(c, "delete", u)

\* RequestReactivateAccountOTP
AskToReactivate(c, u) == Present(u) /\ ~users[u].active /\ Ask(c, "reactivate", u)

\* AdminLogin, with a second factor
AskToLogIn(c, u) == Active(u) /\ users[u].rank # "customer" /\ Ask(c, "login", u)

\* Wrong: an older code stays live.
KeepOlder(c) ==
  /\ At(c, "supersede")
  /\ Continue(c)
  /\ UNCHANGED <<scene, rowVars, ownedVars, codes>>

Supersede(c) ==
  /\ At(c, "supersede")
  /\ LET old == Live(job[c].kind, job[c].user) IN
     codes' = [i \in DOMAIN codes |->
                 IF i \in old THEN [codes[i] EXCEPT !.state = "used"] ELSE codes[i]]
  /\ Continue(c)
  /\ UNCHANGED <<scene, rowVars, ownedVars>>

\* The row is deleted again when the mail cannot be sent, except at a registration.
Issue(c) ==
  LET j == job[c]  of == IF j.kind = "register" THEN j.email ELSE j.user IN
  /\ At(c, "issue")
  /\ \/ /\ of \in People => Present(of)
        /\ Len(codes) < scene.codes
        /\ codes' = Append(codes, [kind |-> j.kind, of |-> of, state |-> "live"])
     \/ UNCHANGED codes
  /\ Continue(c)
  /\ UNCHANGED <<scene, rowVars, ownedVars>>

-----------------------------------------------------------------------------
(***************************************************************************)
(* Requests that use a code.                                               *)
(***************************************************************************)
InForce(i, kind) == codes[i].kind = kind /\ codes[i].state = "live"

Use(c, i, word, plan) ==
  Serve(c, codes[i].kind,
        [Idle EXCEPT !.kind = codes[i].kind, !.code = i, !.word = word, !.todo = plan,
                     !.user = codes[i].of, !.row = users[codes[i].of]])

Register(c, i, word) ==
  /\ InForce(i, "register")
  /\ ~Taken(codes[i].of, Nobody)
  /\ Serve(c, "register", [Idle EXCEPT !.kind = "register", !.code = i, !.word = word,
                             !.email = codes[i].of, !.todo = <<"create", "mark">>])

\* The only one that writes before its code is used up.
ResetPassword(c, i, word) ==
  /\ InForce(i, "reset") /\ Present(codes[i].of)
  /\ Use(c, i, word, <<"password", "mark">>)

ChangePassword(c, i, word) ==
  /\ InForce(i, "change") /\ Active(codes[i].of)
  /\ Use(c, i, word, <<"mark", "password", "supersede">>)

DeactivateAccount(c, i) ==
  /\ InForce(i, "deactivate") /\ Active(codes[i].of)
  /\ Use(c, i, Nobody, <<"mark", "status", "supersede">>)

ReactivateAccount(c, i) ==
  /\ InForce(i, "reactivate") /\ Present(codes[i].of) /\ ~users[codes[i].of].active
  /\ Use(c, i, Nobody, <<"mark", "status", "supersede">>)

DeleteAccount(c, i) ==
  /\ InForce(i, "delete") /\ Active(codes[i].of)
  /\ Use(c, i, Nobody, <<"mark", "orders", "erase">>)

LogIn(c, i) ==
  /\ InForce(i, "login") /\ Active(codes[i].of) /\ users[codes[i].of].rank # "customer"
  /\ Use(c, i, Nobody, <<"mark", "supersede">>)

\* save(update_fields=['is_used']) fails when the row was purged or deleted.
Mark(c) ==
  /\ At(c, "mark")
  /\ LET i == job[c].code IN
     IF codes[i].state = "purged" THEN Fail(c)
     ELSE /\ codes' = [codes EXCEPT ![i].state = "used"]
          /\ Continue(c)
          /\ UNCHANGED <<scene, rowVars, ownedVars>>

\* AdminUserCreate: an account of staff and its role, without a code.
AddStaff(c, by, e, word, role) ==
  /\ Active(by) /\ users[by].rank = "super"
  /\ ~Taken(e, Nobody)
  /\ role \in roles \cup {Nobody}
  /\ Serve(c, "hire", [Idle EXCEPT !.email = e, !.word = word, !.role = role,
                                   !.todo = <<"create", "bind">>])

\* The column email is unique.
Create(c) ==
  LET j == job[c] IN
  /\ At(c, "create")
  /\ IF Taken(j.email, Nobody) THEN Fail(c)
     ELSE \E u \in People :
            LET row == [email |-> j.email, password |-> j.word, active |-> TRUE,
                        balance |-> 0,
                        rank |-> IF j.kind = "register" THEN "customer" ELSE "staff"] IN
            /\ u \notin keys
            /\ keys' = keys \cup {u}
            /\ users' = [users EXCEPT ![u] = row]
            /\ intended' = [intended EXCEPT ![u] = row]
            /\ job' = [job EXCEPT ![c].todo = Tail(@), ![c].user = u]
            /\ UNCHANGED <<scene, clobbered, ownedVars, codes>>

\* Wrong: the save does not name the column.
SaveWholeRow(c) ==
  LET j == job[c]  u == j.user IN
  /\ At(c, "password")
  /\ IF ~Present(u) THEN Fail(c)
     ELSE /\ users' = [users EXCEPT ![u] = [j.row EXCEPT !.password = j.word]]
          /\ intended' = [intended EXCEPT ![u].password = j.word]
          /\ Continue(c)
          /\ UNCHANGED <<scene, clobbered, keys, ownedVars, codes>>

SavePassword(c) ==
  LET j == job[c]  u == j.user IN
  /\ At(c, "password")
  /\ IF ~Present(u) THEN Fail(c)
     ELSE /\ Write(u, "password", j.word)
          /\ Continue(c)
          /\ UNCHANGED <<scene, clobbered, keys, ownedVars, codes>>

\* _deactivate_user_account, _reactivate_user_account
SaveStatus(c) ==
  LET u == job[c].user  on == job[c].kind = "reactivate" IN
  /\ At(c, "status")
  /\ IF ~Present(u) THEN Fail(c)
     ELSE /\ Write(u, "active", on)
          /\ Continue(c)
          /\ UNCHANGED <<scene, clobbered, keys, ownedVars, codes>>

-----------------------------------------------------------------------------
(***************************************************************************)
(* Saves of a whole row: Django updates the row of that key, and inserts   *)
(* it when there is none.                                                  *)
(***************************************************************************)
SaveRow(u, old, row) ==
  /\ users' = [users EXCEPT ![u] = row]
  /\ intended' = [intended EXCEPT ![u] = IF users[u] = old THEN row ELSE @]
  /\ clobbered' = IF users[u] = old THEN clobbered ELSE clobbered \cup {u}

\* Profile.patch, _update_admin_user: the address is looked up before the save ...
Edit(c, u, e, role) ==
  /\ Active(u)
  /\ ~Taken(e, u)
  /\ role # Nobody => users[u].rank # "customer" /\ role \in roles
  /\ Serve(c, "edit", [Idle EXCEPT !.user = u, !.row = users[u], !.email = e, !.role = role,
                                   !.todo = IF role = Nobody THEN <<"save">>
                                            ELSE <<"save", "bind">>])

\* ... and unique when it is saved.
Save(c) ==
  LET j == job[c]  u == j.user IN
  /\ At(c, "save")
  /\ IF Taken(j.email, u) THEN Fail(c)
     ELSE /\ SaveRow(u, j.row, [j.row EXCEPT !.email = j.email])
          /\ Continue(c)
          /\ UNCHANGED <<scene, keys, ownedVars, codes>>

\* assign_role_to_user; a role deleted meanwhile is looked up as none.
Bind(c) ==
  LET u == job[c].user  role == job[c].role IN
  /\ At(c, "bind")
  /\ IF ~Present(u) /\ role \in roles THEN Fail(c)
     ELSE /\ bound' = [bound EXCEPT ![u] = IF role \in roles THEN role ELSE Nobody]
          /\ Continue(c)
          /\ UNCHANGED <<scene, rowVars, private, ordered, roles, codes>>

-----------------------------------------------------------------------------
(***************************************************************************)
(* Deletions.                                                              *)
(***************************************************************************)
ReadOrders(c) ==
  /\ At(c, "orders")
  /\ job' = [job EXCEPT ![c].todo = Tail(@), ![c].orders = job[c].user \in ordered]
  /\ UNCHANGED <<scene, rowVars, ownedVars, codes>>

Purged(kinds, u) ==
  [i \in DOMAIN codes |-> IF codes[i].kind \in kinds /\ codes[i].of = u
                          THEN [codes[i] EXCEPT !.state = "purged"] ELSE codes[i]]

\* user.delete() cascades, except to orders, which protect the row.
DeleteRow(u) ==
  /\ users' = [users EXCEPT ![u] = Nobody]
  /\ intended' = [intended EXCEPT ![u] = Nobody]
  /\ private' = private \ {u}
  /\ bound' = [bound EXCEPT ![u] = Nobody]
  /\ codes' = Purged(Kinds, u)
  /\ UNCHANGED <<clobbered, keys, ordered, roles>>

Anonymise(c) ==
  LET j == job[c]  u == j.user IN
  /\ SaveRow(u, j.row, [j.row EXCEPT !.email = u, !.password = Nobody, !.active = FALSE])
  /\ private' = private \ {u}
  /\ codes' = Purged(Kinds \ {"register", "login"}, u)
  /\ UNCHANGED <<keys, ordered, bound, roles>>

\* Wrong: orders do not protect the row.
EraseAnyway(c) ==
  /\ At(c, "erase")
  /\ IF job[c].orders THEN Anonymise(c) ELSE DeleteRow(job[c].user)
  /\ Continue(c)
  /\ UNCHANGED scene

\* The transaction of DeleteAccount.post; it relies on the orders read before it.
Erase(c) ==
  /\ At(c, "erase")
  /\ IF ~job[c].orders /\ job[c].user \in ordered THEN Fail(c)
     ELSE /\ IF job[c].orders THEN Anonymise(c) ELSE DeleteRow(job[c].user)
          /\ Continue(c)
          /\ UNCHANGED scene

\* _delete_admin_user: another active superuser must be left ...
AskRemoval(c, by, u) ==
  /\ Active(by) /\ users[by].rank = "super"
  /\ Present(u) /\ u # by /\ users[u].rank # "customer"
  /\ users[u].rank = "super" =>
       \E v \in People \ {u} : Active(v) /\ users[v].rank = "super"
  /\ u \notin ordered
  /\ Serve(c, "remove", [Idle EXCEPT !.user = u, !.todo = <<"remove">>])

\* ... when this was checked.
Remove(c) ==
  LET u == job[c].user IN
  /\ At(c, "remove")
  /\ IF u \in ordered THEN Fail(c)
     ELSE DeleteRow(u) /\ Continue(c) /\ UNCHANGED scene

\* AdminRoleDetail.delete: a role in use is kept ...
AskDrop(c, role) ==
  /\ role \in roles /\ \A u \in People : bound[u] # role
  /\ Serve(c, "drop", [Idle EXCEPT !.role = role, !.todo = <<"drop">>])

\* ... but the deletion cascades to accounts bound since.
Drop(c) ==
  LET role == job[c].role IN
  /\ At(c, "drop")
  /\ roles' = roles \ {role}
  /\ bound' = [u \in People |-> IF bound[u] = role THEN Nobody ELSE bound[u]]
  /\ Continue(c)
  /\ UNCHANGED <<scene, rowVars, private, ordered, codes>>

\* A thread dies, what it wrote stays.
Die(c) == "die" \in scene.requests /\ job[c].todo # <<>> /\ Fail(c)

-----------------------------------------------------------------------------
(***************************************************************************)
(* What else writes the rows, in one statement or under a lock.            *)
(***************************************************************************)
SetActive(u, on) ==
  /\ "status" \in scene.requests /\ Present(u)
  /\ Write(u, "active", on)
  /\ UNCHANGED <<scene, clobbered, keys, ownedVars, codes, job>>

\* AdminCustomerStatusUpdate
SetCustomerStatus(u, on) == Present(u) /\ users[u].rank = "customer" /\ SetActive(u, on)

\* AdminUserDeactivate: not oneself, but no superuser need be left.
DeactivateStaff(by, u) ==
  /\ Active(by) /\ users[by].rank # "customer" /\ by # u
  /\ Active(u) /\ users[u].rank # "customer"
  /\ SetActive(u, FALSE)

\* AdminUserReactivate
ReactivateStaff(by, u) ==
  /\ Active(by) /\ users[by].rank # "customer"
  /\ Present(u) /\ users[u].rank # "customer" /\ ~users[u].active
  /\ SetActive(u, TRUE)

\* Points and credit of orders.
Earn(u) ==
  /\ "earn" \in scene.requests /\ Present(u) /\ users[u].balance < MaxBalance
  /\ Write(u, "balance", users[u].balance + 1)
  /\ UNCHANGED <<scene, clobbered, keys, ownedVars, codes, job>>

PlaceOrder(u) ==
  /\ "order" \in scene.requests /\ Active(u)
  /\ ordered' = ordered \cup {u}
  /\ UNCHANGED <<scene, rowVars, private, bound, roles, codes, job>>

\* An address, a cart or a wishlist row.
AddAddress(u) ==
  /\ "order" \in scene.requests /\ Active(u)
  /\ private' = private \cup {u}
  /\ UNCHANGED <<scene, rowVars, ordered, bound, roles, codes, job>>

Expire(i) ==
  /\ "expire" \in scene.requests /\ codes[i].state = "live"
  /\ codes' = [codes EXCEPT ![i].state = "expired"]
  /\ UNCHANGED <<scene, rowVars, ownedVars, job>>

\* purge_otps: what is expired, used or not, and what is used when it is told to.
Purge ==
  /\ "expire" \in scene.requests
  /\ \E S \in SUBSET {i \in DOMAIN codes : codes[i].state = "used"} :
       codes' = [i \in DOMAIN codes |->
                   IF i \in S \/ codes[i].state = "expired"
                   THEN [codes[i] EXCEPT !.state = "purged"] ELSE codes[i]]
  /\ UNCHANGED <<scene, rowVars, ownedVars, job>>

AskAny(c, u) ==
  \/ AskToReset(c, u) \/ AskToChange(c, u) \/ AskToDeactivate(c, u) \/ AskToDelete(c, u)
  \/ AskToReactivate(c, u) \/ AskToLogIn(c, u)

UseAny(c, i) ==
  \/ \E word \in Passwords :
       Register(c, i, word) \/ ResetPassword(c, i, word) \/ ChangePassword(c, i, word)
  \/ DeactivateAccount(c, i) \/ ReactivateAccount(c, i) \/ DeleteAccount(c, i) \/ LogIn(c, i)

AskOfStaff(c) ==
  \/ \E by \in People, e \in Emails, word \in Passwords, role \in Roles \cup {Nobody} :
       AddStaff(c, by, e, word, role)
  \/ \E u \in People :
       \/ \E e \in Emails, role \in Roles \cup {Nobody} : Edit(c, u, e, role)
       \/ \E by \in People : AskRemoval(c, by, u)
  \/ \E role \in Roles : AskDrop(c, role)

Step(c) ==
  \/ Supersede(c) \/ Issue(c) \/ Mark(c) \/ Create(c) \/ SavePassword(c) \/ SaveStatus(c)
  \/ Save(c) \/ Bind(c) \/ ReadOrders(c) \/ Erase(c) \/ Remove(c) \/ Drop(c) \/ Die(c)

AccountsNext ==
  \/ \E c \in Clerks :
       \/ \E e \in Emails : AskToRegister(c, e)
       \/ \E u \in People : AskAny(c, u)
       \/ \E i \in DOMAIN codes : UseAny(c, i)
       \/ AskOfStaff(c) \/ Step(c)
  \/ \E u \in People :
       \/ \E on \in BOOLEAN : SetCustomerStatus(u, on)
       \/ \E by \in People : DeactivateStaff(by, u) \/ ReactivateStaff(by, u)
       \/ Earn(u) \/ PlaceOrder(u) \/ AddAddress(u)
  \/ \E i \in DOMAIN codes : Expire(i)
  \/ Purge

Spec == AccountsInit /\ [][AccountsNext]_accountVars

-----------------------------------------------------------------------------
AccountsTypeOK ==
  /\ users \in [People -> AccountRow \cup {Nobody}]
  /\ intended \in [People -> AccountRow \cup {Nobody}]
  /\ clobbered \subseteq keys /\ keys \subseteq People
  /\ private \subseteq People /\ ordered \subseteq People /\ roles \subseteq Roles
  /\ bound \in [People -> Roles \cup {Nobody}]
  /\ codes \in Seq(Code)
  /\ job \in [Clerks -> JobState]

\* A request that names the columns it saves never undoes another: an account shows
\* what each request last wrote, unless the save of a whole row overwrote it.
WritesSurvive == \A u \in People \ clobbered : users[u] = intended[u]

\* Orders, addresses, roles and codes in force belong to an account that exists,
\* though it may be deleted while they are made.
RowsHaveOwners ==
  \A u \in People : ~Present(u) =>
    /\ u \notin ordered \cup private
    /\ bound[u] = Nobody
    /\ \A kind \in Kinds : Live(kind, u) = {}

\* Of the kinds of which a new code replaces the older ones, an account has no more
\* in force than requests may overlap.
FewLiveCodes ==
  \A u \in People, kind \in Superseding :
    Cardinality(Live(kind, u)) <= Cardinality(Clerks)
=============================================================================
