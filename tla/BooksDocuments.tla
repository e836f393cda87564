--------------------------- MODULE BooksDocuments ---------------------------
(***************************************************************************)
(* The documents of orders in Zoho: the contact of the customer, the sales *)
(* order, the invoice.  They are made by the checkout, by edits of the     *)
(* order, by its confirmation, by staff and by the retry command, each in  *)
(* a thread of its own, while orders are edited and cancelled.             *)
(*                                                                         *)
(* In the manual workflow the sales order lives in Zoho Books, in the      *)
(* automatic one it lives in Zoho Commerce and Books gets only an invoice. *)
(* Documents of Books are made in a transaction that locks the order, the  *)
(* sales order of Commerce without.                                        *)
(***************************************************************************)
EXTENDS Naturals, Sequences, FiniteSets

CONSTANTS Workers, Orders, Users, None,
          Customer,   \* [Orders -> Users]
          Name,       \* the display name of each user
          Requests,   \* for each order, what happens to it after it was placed
          Manual,     \* settings.ZOHO_BOOKS_MANUAL_WORKFLOW, the values to try
          MaxEdits,   \* bound: edits of an order
          MaxFaults   \* bound: failed or unanswered calls, threads that die

ASSUME NoneAssumption == None \notin Workers
ASSUME CustomerAssumption == Customer \in [Orders -> Users]
ASSUME OrdersAssumption == Orders # {}
ASSUME BoundAssumption == {MaxEdits, MaxFaults} \subseteq Nat
ASSUME ManualAssumption == Manual \subseteq BOOLEAN

VARIABLES
  manual,     \* the workflow
  order,      \* the rows
  lock,       \* [Orders -> the thread whose transaction holds the row]
  contactOf,  \* User.zoho_books_contact_id, 0 for none
  contacts,   \* in Books, in the order of their creation
  documents,  \* in Books and Commerce, in the order of their creation
  faults,     \* what went wrong so far
  raced,      \* orders two threads updated at a time, or created without a lock
  late,       \* orders a thread saved after a cancellation it had not seen
  job         \* [Workers -> what the thread is doing]

vars == <<manual, order, lock, contactOf, contacts, documents, faults, raced, late, job>>

Kinds == {"salesorder", "commerce", "invoice"}
InBooks == {"salesorder", "invoice"}

\* edits: how often the data the documents show were changed.
OrderRow == [status: {"absent", "pending", "synced", "cancelled"}, edits: 0..MaxEdits,
             link: [Kinds -> Nat]]

\* unique: named with the e-mail address appended, as the plain name was taken.
Contact == [email: Users, unique: BOOLEAN]

Document == [kind: Kinds, order: Orders, customer: Users, shows: 0..MaxEdits, void: BOOLEAN]

Steps == {"idle", "find", "read", "lock", "stored", "email", "create", "again", "unique",
          "last", "post", "save", "put", "confirm", "cancel", "void"}

\* shows: the edit the payload was built from.  read, found: the contact read with
\* the user, and the one resolved.  made: the document created.
JobState == [at: Steps, order: Orders, kind: Kinds, updates: BOOLEAN, shows: 0..MaxEdits,
             read: Nat, found: Nat, made: Nat]

Idle == [at |-> "idle", order |-> CHOOSE o \in Orders : TRUE, kind |-> "invoice",
         updates |-> FALSE, shows |-> 0, read |-> 0, found |-> 0, made |-> 0]

Init ==
  /\ manual \in Manual
  /\ order = [o \in Orders |-> [status |-> "absent", edits |-> 0,
                                link |-> [k \in Kinds |-> 0]]]
  /\ lock = [o \in Orders |-> None]
  /\ contactOf = [u \in Users |-> 0]
  /\ contacts = <<>> /\ documents = <<>>
  /\ faults = 0 /\ raced = {} /\ late = {}
  /\ job = [w \in Workers |-> Idle]

zohoVars == <<contacts, documents>>
rowVars == <<order, contactOf, late>>

-----------------------------------------------------------------------------
Called(request, o) == request \in Requests[o]
Unlocked(o) == lock[o] = None
Cancelled(o) == order[o].status = "cancelled"
At(w, step) == job[w].at = step
Goto(w, step) == job' = [job EXCEPT ![w].at = step]
End(w) == job' = [job EXCEPT ![w] = Idle]
Fault == faults < MaxFaults /\ faults' = faults + 1
NoFault == faults' = faults
Release(w) == lock' = [o \in Orders |-> IF lock[o] = w THEN None ELSE lock[o]]

Start(w, o, step, kind) ==
  job' = [job EXCEPT ![w] = [Idle EXCEPT !.at = step, !.order = o, !.kind = kind]]

SalesOrderKind == IF manual THEN "salesorder" ELSE "commerce"

\* The call failed: what the transaction wrote is rolled back, the error recorded.
Abandon(w) == End(w) /\ Release(w)

\* Documents made from a sales order name its customer.
NeedsContact(kind, o) ==
  \/ kind = "salesorder"
  \/ kind = "invoice" /\ order[o].link["salesorder"] = 0

-----------------------------------------------------------------------------
(***************************************************************************)
(* The requests.                                                           *)
(***************************************************************************)
PlaceOrder(w, o) ==
  /\ At(w, "idle") /\ order[o].status = "absent"
  /\ order' = [order EXCEPT ![o].status = "pending"]
  /\ Start(w, o, "read", SalesOrderKind)
  /\ UNCHANGED <<manual, lock, contactOf, zohoVars, faults, raced, late>>

\* The command retry_zoho_sales_order_sync, for one of the orders it listed.
Retry(w, o) ==
  /\ Called("retry", o) /\ At(w, "idle") /\ ~manual
  /\ order[o].status = "pending" /\ order[o].link["commerce"] = 0
  /\ Start(w, o, "read", "commerce")
  /\ UNCHANGED <<manual, lock, rowVars, zohoVars, faults, raced>>

\* OrderDetailAPIView.patch
EditOrder(w, o) ==
  /\ Called("edit", o) /\ At(w, "idle")
  /\ order[o].status = "pending" /\ order[o].edits < MaxEdits
  /\ Unlocked(o)
  /\ order' = [order EXCEPT ![o].edits = @ + 1]
  /\ Start(w, o, "find", SalesOrderKind)
  /\ UNCHANGED <<manual, lock, contactOf, zohoVars, faults, raced, late>>

\* OrderConfirmAPIView.post reads the order ...
ConfirmOrder(w, o) ==
  /\ Called("confirm", o) /\ At(w, "idle")
  /\ order[o].status \in {"pending", "synced"}
  /\ IF order[o].status = "pending" THEN Start(w, o, "confirm", "invoice")
     ELSE ~manual /\ Start(w, o, "read", "invoice")
  /\ UNCHANGED <<manual, lock, rowVars, zohoVars, faults, raced>>

\* ... and saves its transition, whatever became of the order meanwhile.
SaveConfirmed(w) ==
  LET o == job[w].order
  IN /\ At(w, "confirm")
     /\ Unlocked(o)
     /\ order' = [order EXCEPT ![o].status = "synced"]
     /\ late' = IF Cancelled(o) THEN late \cup {o} ELSE late
     /\ IF manual THEN End(w) ELSE Goto(w, "read")
     /\ UNCHANGED <<manual, lock, contactOf, zohoVars, faults, raced>>

\* staff_create_zoho_books_invoice_for_order
StaffInvoice(w, o) ==
  /\ Called("invoice", o) /\ At(w, "idle") /\ manual
  /\ order[o].status \in {"pending", "synced"}
  /\ order[o].link["salesorder"] # 0 /\ order[o].link["invoice"] = 0
  /\ Start(w, o, "lock", "invoice")
  /\ UNCHANGED <<manual, lock, rowVars, zohoVars, faults, raced>>

-----------------------------------------------------------------------------
(***************************************************************************)
(* cancel_order, of an order that needs no refund.                         *)
(***************************************************************************)
CancelOrder(w, o) ==
  /\ Called("cancel", o) /\ At(w, "idle")
  /\ order[o].status \in {"pending", "synced"} /\ order[o].link["invoice"] = 0
  /\ Start(w, o, "cancel", "salesorder")
  /\ UNCHANGED <<manual, lock, rowVars, zohoVars, faults, raced>>

\* Wrong: the sales order stays as it is.
LockAndForget(w) ==
  LET o == job[w].order
  IN /\ At(w, "cancel")
     /\ Unlocked(o)
     /\ End(w)
     /\ order' = IF Cancelled(o) \/ order[o].link["invoice"] # 0 THEN order
                 ELSE [order EXCEPT ![o].status = "cancelled"]
     /\ UNCHANGED <<manual, lock, contactOf, zohoVars, faults, raced, late>>

\* Checked again under the lock; without a sales order there is nothing to void.
LockToCancel(w) ==
  LET o == job[w].order
  IN /\ At(w, "cancel")
     /\ Unlocked(o)
     /\ IF Cancelled(o) \/ order[o].link["invoice"] # 0
        THEN End(w) /\ UNCHANGED <<order, lock>>
        ELSE IF order[o].link["salesorder"] = 0
        THEN /\ order' = [order EXCEPT ![o].status = "cancelled"]
             /\ End(w) /\ UNCHANGED lock
        ELSE /\ lock' = [lock EXCEPT ![o] = w]
             /\ Goto(w, "void") /\ UNCHANGED order
     /\ UNCHANGED <<manual, contactOf, zohoVars, faults, raced, late>>

\* void_zoho_books_sales_order_for_order, then the status.
VoidSalesOrder(w) ==
  LET o == job[w].order
      Voided == documents' = [documents EXCEPT ![order[o].link["salesorder"]].void = TRUE]
  IN /\ At(w, "void")
     /\ Abandon(w)
     /\ \/ Voided /\ NoFault /\ order' = [order EXCEPT ![o].status = "cancelled"]
        \/ Fault /\ UNCHANGED <<order, documents>>
        \/ Fault /\ Voided /\ UNCHANGED order
     /\ UNCHANGED <<manual, contactOf, contacts, raced, late>>

-----------------------------------------------------------------------------
(***************************************************************************)
(* The order is read, and locked if its document is one of Books.          *)
(***************************************************************************)
Busy(w, o, kind, steps) == job[w].order = o /\ job[w].kind = kind /\ job[w].at \in steps

\* maybe_update_zoho_books_sales_order_for_order, maybe_update_zoho_sales_order_...
FindSalesOrder(w) ==
  LET o == job[w].order  kind == job[w].kind
  IN /\ At(w, "find")
     /\ IF order[o].link[kind] = 0 THEN Goto(w, "read") /\ UNCHANGED raced
        ELSE IF manual /\ Cancelled(o) THEN End(w) /\ UNCHANGED raced
        ELSE /\ job' = [job EXCEPT ![w].at = IF manual THEN "stored" ELSE "put",
                                   ![w].updates = TRUE, ![w].shows = order[o].edits,
                                   ![w].read = contactOf[Customer[o]]]
             /\ raced' = IF \E v \in Workers \ {w} : job[v].order = o /\ job[v].updates
                         THEN raced \cup {o} ELSE raced
     /\ UNCHANGED <<manual, lock, rowVars, zohoVars, faults>>

\* order_ready_for_books_sales_order, order_ready_for_books_invoice; the sales order
\* of Commerce is created of a cancelled order as well.
ReadOrder(w) ==
  LET o == job[w].order  kind == job[w].kind
  IN /\ At(w, "read")
     /\ IF order[o].link[kind] # 0 \/ (kind \in InBooks /\ Cancelled(o))
        THEN End(w) /\ UNCHANGED raced
        ELSE IF kind \in InBooks THEN Goto(w, "lock") /\ UNCHANGED raced
        ELSE /\ job' = [job EXCEPT ![w].at = "post", ![w].shows = order[o].edits]
             /\ raced' = IF \E v \in Workers \ {w} : Busy(v, o, kind, {"post", "save"})
                         THEN raced \cup {o} ELSE raced
     /\ UNCHANGED <<manual, lock, rowVars, zohoVars, faults>>

\* Wrong: another thread may have made the document since the order was read.
LockOnly(w) ==
  LET o == job[w].order  kind == job[w].kind
  IN /\ At(w, "lock")
     /\ Unlocked(o)
     /\ lock' = [lock EXCEPT ![o] = w]
     /\ job' = [job EXCEPT ![w].at = IF NeedsContact(kind, o) THEN "stored" ELSE "post",
                           ![w].shows = order[o].edits, ![w].read = contactOf[Customer[o]]]
     /\ late' = IF Cancelled(o) THEN late \cup {o} ELSE late
     /\ UNCHANGED <<manual, order, contactOf, zohoVars, faults, raced>>

\* Under the lock the link is looked at again, the status is not.
LockOrder(w) ==
  LET o == job[w].order  kind == job[w].kind
  IN /\ At(w, "lock")
     /\ Unlocked(o)
     /\ IF order[o].link[kind] # 0 THEN End(w) /\ UNCHANGED <<lock, late>>
        ELSE /\ lock' = [lock EXCEPT ![o] = w]
             /\ job' = [job EXCEPT ![w].at = IF NeedsContact(kind, o) THEN "stored" ELSE "post",
                                   ![w].shows = order[o].edits,
                                   ![w].read = contactOf[Customer[o]]]
             /\ late' = IF Cancelled(o) THEN late \cup {o} ELSE late
     /\ UNCHANGED <<manual, order, contactOf, zohoVars, faults, raced>>

-----------------------------------------------------------------------------
(***************************************************************************)
(* _resolve_customer_id.  A contact is renamed to the display name of its  *)
(* customer later, which Books refuses for a name that is taken: the names *)
(* of the model do not change.                                             *)
(***************************************************************************)
User(w) == Customer[job[w].order]
NameTaken(u) == \E c \in DOMAIN contacts : ~contacts[c].unique
                                           /\ Name[contacts[c].email] = Name[u]
UniqueTaken(u) == \E c \in DOMAIN contacts : contacts[c] = [email |-> u, unique |-> TRUE]
ContactsOf(u) == {c \in DOMAIN contacts : contacts[c].email = u}

\* An update persists a contact at once, a transaction when it commits.
Persist(w, c) == contactOf' = IF job[w].updates THEN [contactOf EXCEPT ![User(w)] = c]
                              ELSE contactOf
Resolved(w, c) ==
  /\ job' = [job EXCEPT ![w].at = IF job[w].updates THEN "put" ELSE "post", ![w].found = c]
  /\ IF c = job[w].read THEN UNCHANGED contactOf ELSE Persist(w, c)

\* A stored contact that cannot be read is forgotten.
CheckStored(w) ==
  /\ At(w, "stored")
  /\ \/ /\ job[w].read = 0
        /\ Goto(w, "email") /\ NoFault /\ UNCHANGED contactOf
     \/ /\ job[w].read # 0
        /\ Resolved(w, job[w].read) /\ NoFault
     \/ /\ job[w].read # 0
        /\ job' = [job EXCEPT ![w].at = "email", ![w].read = 0]
        /\ Persist(w, 0) /\ Fault
  /\ UNCHANGED <<manual, order, lock, zohoVars, raced, late>>

\* Searched by e-mail address, then by name and e-mail address.
SearchContact(w) ==
  LET next == IF At(w, "email") THEN "create" ELSE "unique"
  IN /\ At(w, "email") \/ At(w, "again") \/ At(w, "last")
     /\ \/ /\ NoFault
           /\ \/ \E c \in ContactsOf(User(w)) : Resolved(w, c) /\ UNCHANGED lock
              \/ /\ ContactsOf(User(w)) = {}
                 /\ IF At(w, "last") THEN Abandon(w) ELSE Goto(w, next) /\ UNCHANGED lock
                 /\ UNCHANGED contactOf
        \/ Fault /\ Abandon(w) /\ UNCHANGED contactOf
     /\ UNCHANGED <<manual, order, zohoVars, raced, late>>

\* Wrong: a name that is taken is made unique at once.
AfterRefusal(step) == IF step = "create" THEN "unique" ELSE "last"

\* Where the code goes on when Books answers that the name already exists: the
\* contact may be the one a concurrent checkout of the customer has created.
WhenTaken(step) == IF step = "create" THEN "again" ELSE "last"

CreateContact(w) ==
  LET u == User(w)
      unique == At(w, "unique")
      taken == IF unique THEN UniqueTaken(u) ELSE NameTaken(u)
      Created == contacts' = Append(contacts, [email |-> u, unique |-> unique])
  IN /\ At(w, "create") \/ unique
     /\ \/ /\ taken
           /\ Goto(w, WhenTaken(job[w].at))
           /\ NoFault /\ UNCHANGED <<contacts, contactOf, lock>>
        \/ /\ ~taken
           /\ Created /\ Resolved(w, Len(contacts) + 1)
           /\ NoFault /\ UNCHANGED lock
        \/ /\ Fault /\ Abandon(w) /\ UNCHANGED contactOf
           /\ (~taken /\ Created) \/ UNCHANGED contacts
     /\ UNCHANGED <<manual, order, documents, raced, late>>

-----------------------------------------------------------------------------
(***************************************************************************)
(* The document.                                                           *)
(***************************************************************************)
NewDocument(w) ==
  [kind |-> job[w].kind, order |-> job[w].order, shows |-> job[w].shows, void |-> FALSE,
   customer |-> IF job[w].found = 0 THEN User(w) ELSE contacts[job[w].found].email]

PostDocument(w) ==
  LET Posted == documents' = Append(documents, NewDocument(w))
  IN /\ At(w, "post")
     /\ \/ /\ Posted /\ NoFault
           /\ job' = [job EXCEPT ![w].at = "save", ![w].made = Len(documents) + 1]
           /\ UNCHANGED lock
        \/ Fault /\ Abandon(w) /\ (Posted \/ UNCHANGED documents)
     /\ UNCHANGED <<manual, rowVars, contacts, raced>>

\* The transaction commits the link, and the contact if it is another one.
SaveDocument(w) ==
  LET o == job[w].order  kind == job[w].kind
  IN /\ At(w, "save")
     /\ lock[o] \in {None, w}
     /\ order' = [order EXCEPT ![o].link[kind] = job[w].made]
     /\ contactOf' = IF job[w].found = job[w].read THEN contactOf
                     ELSE [contactOf EXCEPT ![User(w)] = job[w].found]
     /\ Abandon(w)
     /\ UNCHANGED <<manual, zohoVars, faults, raced, late>>

\* Wrong: the sales order is left as it was made.
UpdateNothing(w) ==
  /\ At(w, "put")
  /\ End(w) /\ NoFault
  /\ UNCHANGED <<manual, rowVars, lock, zohoVars, raced>>

UpdateDocument(w) ==
  LET d == order[job[w].order].link[job[w].kind]
      Updated == documents' = [documents EXCEPT ![d].shows = job[w].shows]
  IN /\ At(w, "put")
     /\ End(w)
     /\ \/ Updated /\ NoFault
        \/ Fault /\ (Updated \/ UNCHANGED documents)
     /\ UNCHANGED <<manual, rowVars, lock, contacts, raced>>

\* A thread dies; its transaction is rolled back.
Die(w) ==
  /\ ~At(w, "idle")
  /\ Fault /\ Abandon(w)
  /\ UNCHANGED <<manual, rowVars, zohoVars, raced>>

-----------------------------------------------------------------------------
Request(w, o) ==
  \/ PlaceOrder(w, o) \/ Retry(w, o) \/ EditOrder(w, o) \/ ConfirmOrder(w, o)
  \/ StaffInvoice(w, o) \/ CancelOrder(w, o)

Step(w) ==
  \/ SaveConfirmed(w) \/ LockToCancel(w) \/ VoidSalesOrder(w) \/ FindSalesOrder(w)
  \/ ReadOrder(w) \/ LockOrder(w) \/ CheckStored(w) \/ SearchContact(w)
  \/ CreateContact(w) \/ PostDocument(w) \/ SaveDocument(w) \/ UpdateDocument(w)

Next == \E w \in Workers : Step(w) \/ Die(w) \/ \E o \in Orders : Request(w, o)

Spec == Init /\ [][Next]_vars

-----------------------------------------------------------------------------
TypeOK ==
  /\ manual \in BOOLEAN
  /\ order \in [Orders -> OrderRow]
  /\ \A o \in Orders, k \in Kinds : order[o].link[k] \in 0..Len(documents)
  /\ lock \in [Orders -> Workers \cup {None}]
  /\ contactOf \in [Users -> 0..Len(contacts)]
  /\ contacts \in Seq(Contact) /\ documents \in Seq(Document)
  /\ faults \in 0..MaxFaults /\ raced \subseteq Orders /\ late \subseteq Orders
  /\ job \in [Workers -> JobState]

DocumentsOf(o, kind) ==
  {d \in DOMAIN documents : documents[d].order = o /\ documents[d].kind = kind}

\* A document of an order is created once, and once more for every answer that was
\* lost and every thread that died: by row lock in Books; in Commerce, which has
\* none, unless two threads created at a time.
OneDocumentPerFault ==
  \A o \in Orders, kind \in Kinds :
    kind \in InBooks \/ o \notin raced => Cardinality(DocumentsOf(o, kind)) <= 1 + faults

\* The sales order of Books an order names is void exactly when the order is
\* cancelled, while the void call is answered and no thread that had read the order
\* before its cancellation writes after it.
VoidMeansCancelled ==
  \A o \in Orders \ late :
    LET d == order[o].link["salesorder"]
    IN faults = 0 /\ d # 0 /\ Unlocked(o) => documents[d].void = Cancelled(o)

\* "handles concurrent checkout race", "same name, different user": a customer has
\* one contact in Books, whatever calls failed, and every document in Books is made
\* out to the customer of its order.
OneContactEach ==
  /\ \A u \in Users : Cardinality(ContactsOf(u)) <= 1
  /\ \A u \in Users : contactOf[u] \in ContactsOf(u) \cup {0}
  /\ \A d \in DOMAIN documents : documents[d].customer = Customer[documents[d].order]

\* While no thread works on a pending order and none failed, its sales order in Books
\* shows the last edit, unless two updates of it crossed.  (In Commerce an edit saved
\* while the sales order is being created may never reach it.)
SalesOrderIsCurrent ==
  \A o \in Orders \ raced :
    LET d == order[o].link["salesorder"]
    IN faults = 0 /\ order[o].status = "pending" /\ d # 0
         /\ (\A w \in Workers : At(w, "idle") \/ job[w].order # o)
       => documents[d].shows = order[o].edits
=============================================================================
